------------------------ MODULE RestartHandshakeProofs ------------------------
(***************************************************************************)
(* What the one atomic word of a restart request buys, proved for any      *)
(* callers and connections: a caller and the accept loop never disagree on *)
(* whether the request was accepted.                                       *)
(***************************************************************************)
EXTENDS RestartHandshake, TLAPS

Undecided == {"pending", "cancelled"}

\* Every request is in one place: with its caller, in the channel, or at the
\* loop.  One the loop has yet to judge cannot be accepted already.
OncePending ==
    /\ \A c \in Callers : caller[c] = "idle" => word[c] = "none"
    /\ \A i \in DOMAIN control : word[control[i]] \in Undecided
    /\ \A i, j \in DOMAIN control : control[i] = control[j] => i = j
    /\ loop.pc \in {"check", "cas"} =>
         /\ loop.request \in Callers
         /\ word[loop.request] \in Undecided
         /\ \A i \in DOMAIN control : control[i] # loop.request

\* A request that came to nothing was cancelled before anybody says so.
GoneIsCancelled ==
    \A c \in Callers :
      /\ reply[c] = "gone" => word[c] = "cancelled"
      /\ told[c] \in {"timeout", "unavailable"} => word[c] = "cancelled"

\* An answer is about the request the loop has, or had when it failed.
RepliesFit ==
    \A c \in Callers :
      /\ reply[c] = "ok" => loop.pc \in {"leave", "join", "exec"} /\ loop.request = c
      /\ reply[c] = "error" => word[c] = "accepted" /\ loop.request # c
      /\ told[c] \in {"ok", "error"} => reply[c] = told[c]

\* Once the loop accepted, it holds a request that nobody can cancel.
HeldIsAccepted ==
    loop.pc \in {"write", "release", "respond", "leave", "join", "exec"} =>
      loop.request \in Callers /\ word[loop.request] = "accepted"

HandshakeInv == HandshakeTypeOK /\ OncePending /\ GoneIsCancelled /\ RepliesFit /\ HeldIsAccepted

\* Append keeps the elements and their indices, and adds one at the end.
LEMMA AppendedIndices ==
    ASSUME NEW S, NEW s \in Seq(S), NEW e \in S
    PROVE  /\ Append(s, e) \in Seq(S)
           /\ DOMAIN Append(s, e) = 1 .. Len(s) + 1
           /\ Append(s, e)[Len(s) + 1] = e
           /\ \A i \in DOMAIN s : i \in DOMAIN Append(s, e) /\ Append(s, e)[i] = s[i]
           /\ \A i \in DOMAIN Append(s, e) : i \in DOMAIN s \/ i = Len(s) + 1
  OBVIOUS

\* Tail drops the first element and moves the others down by one.
LEMMA TailIndices ==
    ASSUME NEW S, NEW s \in Seq(S), s # <<>>
    PROVE  /\ Tail(s) \in Seq(S)
           /\ Head(s) \in S
           /\ 1 \in DOMAIN s /\ Head(s) = s[1]
           /\ \A i \in DOMAIN Tail(s) : i + 1 \in DOMAIN s /\ i + 1 # 1 /\ Tail(s)[i] = s[i + 1]
           /\ DOMAIN Tail(s) \subseteq Nat
  OBVIOUS
-----------------------------------------------------------------------------
(* Types *)

\* The state a handshake starts in satisfies the invariant.
LEMMA InitHandshake == HandshakeInit => HandshakeInv
  BY HandshakeAssumption
     DEF HandshakeInit, HandshakeInv, HandshakeTypeOK, OncePending, GoneIsCancelled, RepliesFit,
         HeldIsAccepted, CallerPC, LoopPC

\* Steps of a caller keep the types.
LEMMA CallerTypes ==
    ASSUME HandshakeTypeOK, NEW c \in Callers, Request(c) \/ CallerStep(c) \/ Expire(c)
    PROVE  HandshakeTypeOK'
  <1> USE HandshakeAssumption DEF HandshakeTypeOK, CallerPC, LoopPC, CallerGoes, Return
  <1>1. CASE Request(c)
    <2>1. control' \in Seq(Callers)
      BY <1>1, AppendedIndices DEF Request
    <2>2. /\ word' \in [Callers -> {"none", "pending", "accepted", "cancelled"}]
          /\ caller' \in [Callers -> CallerPC]
      BY <1>1 DEF Request
    <2> QED BY <1>1, <2>1, <2>2 DEF Request
  <1>2. CASE Connect(c)
    <2>1. backlog' \in Seq(Callers \cup Hooks)
      BY <1>2, AppendedIndices DEF Connect
    <2> QED BY <1>2, <2>1 DEF Connect
  <1>3. CASE ConnectFails(c)
    <2>1. CASE word[c] = "pending"
      BY <1>3, <2>1 DEF ConnectFails
    <2>2. CASE word[c] # "pending"
      BY <1>3, <2>2 DEF ConnectFails
    <2> QED BY <2>1, <2>2
  <1>4. CASE Receive(c)
    BY <1>4 DEF Receive
  <1>5. CASE TimeOut(c)
    BY <1>5 DEF TimeOut
  <1>6. CASE Cancel(c)
    <2>1. CASE /\ word[c] = "pending"
               /\ word' = [word EXCEPT ![c] = "cancelled"]
               /\ Return(c, "timeout")
      BY <1>6, <2>1 DEF Cancel
    <2>2. CASE word[c] = "accepted" /\ UNCHANGED <<word, told>> /\ CallerGoes(c, "recv")
      BY <1>6, <2>2 DEF Cancel
    <2>3. CASE word[c] = "cancelled" /\ UNCHANGED word /\ Return(c, "timeout")
      BY <1>6, <2>3 DEF Cancel
    <2> QED BY <1>6, <2>1, <2>2, <2>3 DEF Cancel
  <1>7. CASE Expire(c)
    BY <1>7 DEF Expire, callerVars
  <1> QED BY <1>1, <1>2, <1>3, <1>4, <1>5, <1>6, <1>7 DEF CallerStep

\* Steps of the accept loop and of a Hook keep the types.
LEMMA LoopTypes ==
    ASSUME HandshakeTypeOK, LoopStep \/ (\E h \in Hooks : HookConnect(h))
    PROVE  HandshakeTypeOK'
  <1> USE HandshakeAssumption DEF HandshakeTypeOK, CallerPC, LoopPC, LoopGoes, Discard, callerVars
  <1>1. CASE Accept
    <2>1. backlog' \in Seq(Callers \cup Hooks)
      BY <1>1, TailIndices DEF Accept
    <2> QED BY <1>1, <2>1 DEF Accept
  <1>2. CASE TakeRequest
    <2>1. control' \in Seq(Callers) /\ Head(control) \in Callers
      BY <1>2, TailIndices DEF TakeRequest
    <2> QED BY <1>2, <2>1 DEF TakeRequest
  <1>3. CASE Serve
    BY <1>3 DEF Serve
  <1>4. CASE CheckClock
    BY <1>4 DEF CheckClock
  <1>5. CASE AcceptRequest
    BY <1>5 DEF AcceptRequest
  <1>6. CASE WriteState
    BY <1>6 DEF WriteState
  <1>7. CASE WriteFails
    BY <1>7 DEF WriteFails
  <1>8. CASE Release
    BY <1>8 DEF Release
  <1>9. CASE Respond
    BY <1>9 DEF Respond
  <1>10. CASE Leave
    BY <1>10 DEF Leave
  <1>11. CASE Exec
    <2>1. <<>> \in Seq(Callers) /\ <<>> \in Seq(Callers \cup Hooks)
      OBVIOUS
    <2> QED BY <1>11, <2>1 DEF Exec
  <1>12. CASE \E h \in Hooks : HookConnect(h)
    <2>1. PICK h \in Hooks : HookConnect(h)
      BY <1>12
    <2>2. backlog' \in Seq(Callers \cup Hooks)
      BY <2>1, AppendedIndices DEF HookConnect
    <2> QED BY <2>1, <2>2 DEF HookConnect
  <1> QED BY <1>1, <1>2, <1>3, <1>4, <1>5, <1>6, <1>7, <1>8, <1>9, <1>10, <1>11, <1>12 DEF LoopStep

-----------------------------------------------------------------------------
(* The word *)

\* A caller that takes a pending request back keeps the rest of the invariant.
LEMMA TakenBack ==
    ASSUME HandshakeInv, NEW c \in Callers, NEW result \in {"timeout", "unavailable"},
           word[c] = "pending",
           caller[c] # "idle",
           word' = [word EXCEPT ![c] = "cancelled"],
           Return(c, result),
           UNCHANGED <<reply, control, loop>>
    PROVE  (OncePending /\ GoneIsCancelled /\ RepliesFit /\ HeldIsAccepted)'
  <1>1. /\ caller' = [caller EXCEPT ![c] = "done"]
        /\ told' = [told EXCEPT ![c] = result]
    BY DEF Return, CallerGoes
  <1>t. HandshakeTypeOK
    BY DEF HandshakeInv
  <1>2. OncePending'
    BY <1>1, <1>t DEF HandshakeInv, HandshakeTypeOK, OncePending, Undecided
  <1>3. GoneIsCancelled'
    BY <1>1, <1>t DEF HandshakeInv, HandshakeTypeOK, GoneIsCancelled
  <1>4. RepliesFit'
    BY <1>1, <1>t DEF HandshakeInv, HandshakeTypeOK, RepliesFit
  <1>5. HeldIsAccepted'
    BY <1>1, <1>t DEF HandshakeInv, HandshakeTypeOK, HeldIsAccepted
  <1> QED BY <1>2, <1>3, <1>4, <1>5

\* Steps of a caller keep the rest of the invariant: only it can cancel, and
\* only while nobody accepted.
LEMMA CallerKeeps ==
    ASSUME HandshakeInv, NEW c \in Callers, Request(c) \/ CallerStep(c) \/ Expire(c)
    PROVE  (OncePending /\ GoneIsCancelled /\ RepliesFit /\ HeldIsAccepted)'
  <1> USE HandshakeAssumption
      DEF HandshakeInv, OncePending, GoneIsCancelled, RepliesFit, HeldIsAccepted, Undecided,
          CallerGoes, Return
  <1>t. HandshakeTypeOK
    OBVIOUS
  <1>1. CASE Request(c)
    <2>1. \A i \in DOMAIN control : control[i] # c /\ control[i] \in Callers
      BY <1>1, <1>t DEF Request, HandshakeTypeOK
    <2>2. loop.pc \in {"check", "cas"} => loop.request # c
      BY <1>1 DEF Request
    <2>3. /\ \A i \in DOMAIN control : i \in DOMAIN control' /\ control'[i] = control[i]
          /\ control'[Len(control) + 1] = c
          /\ \A i \in DOMAIN control' : i \in DOMAIN control \/ i = Len(control) + 1
      BY <1>1, <1>t, AppendedIndices DEF Request, HandshakeTypeOK
    <2>4. /\ word' = [word EXCEPT ![c] = "pending"]
          /\ \A d \in Callers : d # c => word'[d] = word[d]
          /\ word'[c] = "pending"
          /\ word[c] = "none"
      BY <1>1, <1>t DEF Request, HandshakeTypeOK
    <2>5. OncePending'
      <3>1. \A d \in Callers : caller'[d] = "idle" => word'[d] = "none"
        BY <1>1, <1>t, <2>4 DEF Request, HandshakeTypeOK
      <3>2. \A i \in DOMAIN control' : word'[control'[i]] \in Undecided
        BY <2>1, <2>3, <2>4
      <3>3. \A i, j \in DOMAIN control' : control'[i] = control'[j] => i = j
        BY <2>1, <2>3
      <3>4. UNCHANGED loop
        BY <1>1 DEF Request
      <3> QED BY <3>1, <3>2, <3>3, <3>4, <2>1, <2>2, <2>3, <2>4
    <2> QED BY <1>1, <1>t, <2>4, <2>5 DEF Request, HandshakeTypeOK
  <1>2. CASE Connect(c)
    BY <1>2, <1>t DEF Connect, HandshakeTypeOK
  <1>3. CASE ConnectFails(c)
    <2>1. CASE word[c] = "pending"
      BY <1>3, <2>1, TakenBack DEF ConnectFails
    <2>2. CASE word[c] # "pending"
      BY <1>3, <1>t, <2>2 DEF ConnectFails, HandshakeTypeOK
    <2> QED BY <2>1, <2>2
  <1>4. CASE Receive(c)
    BY <1>4, <1>t DEF Receive, HandshakeTypeOK
  <1>5. CASE TimeOut(c)
    BY <1>5, <1>t DEF TimeOut, HandshakeTypeOK
  <1>6. CASE Cancel(c)
    <2>1. CASE /\ word[c] = "pending"
               /\ word' = [word EXCEPT ![c] = "cancelled"]
               /\ Return(c, "timeout")
      BY <1>6, <2>1, TakenBack DEF Cancel
    <2>2. CASE word[c] = "accepted" /\ UNCHANGED <<word, told>> /\ CallerGoes(c, "recv")
      BY <1>6, <1>t, <2>2 DEF Cancel, HandshakeTypeOK
    <2>3. CASE word[c] = "cancelled" /\ UNCHANGED word /\ Return(c, "timeout")
      BY <1>6, <1>t, <2>3 DEF Cancel, HandshakeTypeOK
    <2> QED BY <1>6, <2>1, <2>2, <2>3 DEF Cancel
  <1>7. CASE Expire(c)
    BY <1>7 DEF Expire, callerVars
  <1> QED BY <1>1, <1>2, <1>3, <1>4, <1>5, <1>6, <1>7 DEF CallerStep

\* Steps of the accept loop keep it: it accepts only what is pending, and answers
\* only the request it holds.
LEMMA LoopKeeps ==
    ASSUME HandshakeInv, LoopStep
    PROVE  (OncePending /\ GoneIsCancelled /\ RepliesFit /\ HeldIsAccepted)'
  <1> USE HandshakeAssumption
      DEF HandshakeInv, OncePending, GoneIsCancelled, RepliesFit, HeldIsAccepted, Undecided,
          LoopGoes, Discard, callerVars
  <1>t. HandshakeTypeOK
    OBVIOUS
  <1>1. CASE Accept
    BY <1>1, <1>t DEF Accept, HandshakeTypeOK
  <1>2. CASE TakeRequest
    <2>1. /\ Head(control) \in Callers
          /\ 1 \in DOMAIN control /\ Head(control) = control[1]
          /\ \A i \in DOMAIN control' :
               i + 1 \in DOMAIN control /\ i + 1 # 1 /\ control'[i] = control[i + 1]
          /\ DOMAIN control' \subseteq Nat
      BY <1>2, <1>t, TailIndices DEF TakeRequest, HandshakeTypeOK
    <2>2. loop'.pc = "check" /\ loop'.request = Head(control)
      BY <1>2, <1>t DEF TakeRequest, HandshakeTypeOK
    <2>3. \A i \in DOMAIN control' : control'[i] # Head(control)
      BY <2>1
    <2>4. \A i, j \in DOMAIN control' : control'[i] = control'[j] => i = j
      <3> SUFFICES ASSUME NEW i \in DOMAIN control', NEW j \in DOMAIN control',
                          control'[i] = control'[j]
                   PROVE  i = j
        OBVIOUS
      <3>1. i + 1 = j + 1
        BY <2>1
      <3> QED BY <2>1, <3>1
    <2>5. UNCHANGED <<word, reply, caller, told>>
      BY <1>2 DEF TakeRequest
    <2>6. \A d \in Callers : reply[d] = "error" => Head(control) # d
      BY <2>1
    <2>7. \A d \in Callers : reply[d] # "ok"
      BY <1>2 DEF TakeRequest
    <2> QED BY <2>1, <2>2, <2>3, <2>4, <2>5, <2>6, <2>7
  <1>3. CASE Serve
    BY <1>3, <1>t DEF Serve, HandshakeTypeOK
  <1>4. CASE CheckClock
    BY <1>4, <1>t DEF CheckClock, HandshakeTypeOK
  <1>5. CASE AcceptRequest
    BY <1>5, <1>t DEF AcceptRequest, HandshakeTypeOK
  <1>6. CASE WriteState
    BY <1>6, <1>t DEF WriteState, HandshakeTypeOK
  <1>7. CASE WriteFails
    BY <1>7, <1>t DEF WriteFails, HandshakeTypeOK
  <1>8. CASE Release
    BY <1>8, <1>t DEF Release, HandshakeTypeOK
  <1>9. CASE Respond
    BY <1>9, <1>t DEF Respond, HandshakeTypeOK
  <1>10. CASE Leave
    BY <1>10, <1>t DEF Leave, HandshakeTypeOK
  <1>11. CASE Exec
    BY <1>11, <1>t DEF Exec, HandshakeTypeOK
  <1> QED BY <1>1, <1>2, <1>3, <1>4, <1>5, <1>6, <1>7, <1>8, <1>9, <1>10, <1>11 DEF LoopStep
-----------------------------------------------------------------------------
(* The theorems *)

\* Every step keeps the invariant.
LEMMA HandshakeKeeps == HandshakeInv /\ [HandshakeNext]_vars => HandshakeInv'
  <1> SUFFICES ASSUME HandshakeInv, [HandshakeNext]_vars
               PROVE  HandshakeInv'
    OBVIOUS
  <1>1. CASE \E c \in Callers : Request(c) \/ CallerStep(c) \/ Expire(c)
    <2>1. PICK c \in Callers : Request(c) \/ CallerStep(c) \/ Expire(c)
      BY <1>1
    <2> QED BY <2>1, CallerTypes, CallerKeeps DEF HandshakeInv
  <1>2. CASE \E h \in Hooks : HookConnect(h)
    <2>1. UNCHANGED <<word, reply, caller, told, control, loop>>
      BY <1>2 DEF HookConnect, callerVars
    <2>2. (OncePending /\ GoneIsCancelled /\ RepliesFit /\ HeldIsAccepted)'
      BY <2>1 DEF HandshakeInv, OncePending, GoneIsCancelled, RepliesFit, HeldIsAccepted
    <2> QED BY <1>2, <2>2, LoopTypes DEF HandshakeInv
  <1>3. CASE LoopStep
    BY <1>3, LoopTypes, LoopKeeps DEF HandshakeInv
  <1>4. CASE UNCHANGED vars
    BY <1>4 DEF HandshakeInv, HandshakeTypeOK, OncePending, GoneIsCancelled, RepliesFit,
                HeldIsAccepted, vars, callerVars
  <1> QED BY <1>1, <1>2, <1>3, <1>4 DEF HandshakeNext

\* The inductive invariant holds of every behaviour.
THEOREM HandshakeInvariant == HandshakeSafety => []HandshakeInv
  <1> QED BY InitHandshake, HandshakeKeeps, PTL DEF HandshakeSafety

\* Types: word, reply, channel and both program counters stay in range.
THEOREM HandshakeTypes == HandshakeSafety => []HandshakeTypeOK
  <1>1. HandshakeInv => HandshakeTypeOK
    BY DEF HandshakeInv
  <1> QED BY <1>1, HandshakeInvariant, PTL

\* A caller that reports a failure is never contradicted by a restart for its
\* sake, however the deadline, the compare-and-swaps and the loop interleave.
THEOREM RefusalHolds == HandshakeSafety => []RefusedIsNotAccepted
  <1>1. HandshakeInv => RefusedIsNotAccepted
    BY DEF HandshakeInv, GoneIsCancelled, RefusedIsNotAccepted
  <1> QED BY <1>1, HandshakeInvariant, PTL

\* A caller that reports success is the one the process restarts for.
THEOREM SuccessHolds == HandshakeSafety => []OkMeansRestart
  <1>1. HandshakeInv => OkMeansRestart
    BY DEF HandshakeInv, RepliesFit, OkMeansRestart
  <1> QED BY <1>1, HandshakeInvariant, PTL

-----------------------------------------------------------------------------
(* Nobody waits in a circle *)

\* What the loop does between accepting a request and answering it.
Serving == {"write", "release", "respond"}

\* Whoever asked has a word; whoever waits without a deadline was accepted; and
\* an accepted request was answered, or is the one the loop serves.
AcceptedIsServed ==
    \A c \in Callers :
      /\ caller[c] # "idle" => word[c] # "none"
      /\ caller[c] = "recv" => word[c] = "accepted"
      /\ word[c] = "accepted" => reply[c] # "none" \/ (loop.request = c /\ loop.pc \in Serving)

\* A caller accepts nothing and waits on only after it was accepted.
LEMMA CallerIsServed ==
    ASSUME HandshakeInv, AcceptedIsServed, NEW c \in Callers,
           Request(c) \/ CallerStep(c) \/ Expire(c)
    PROVE  AcceptedIsServed'
  <1> USE DEF AcceptedIsServed, CallerGoes, Return
  <1>0. /\ HandshakeTypeOK /\ (caller[c] = "idle" => word[c] = "none")
        /\ word \in [Callers -> {"none", "pending", "accepted", "cancelled"}]
        /\ caller \in [Callers -> CallerPC]
    BY DEF HandshakeInv, OncePending, HandshakeTypeOK
  <1>1. reply' = reply /\ loop' = loop
    BY DEF Request, CallerStep, Connect, ConnectFails, Receive, TimeOut, Cancel, Expire
  <1>2. \A d \in Callers \ {c} : word'[d] = word[d] /\ caller'[d] = caller[d]
    BY <1>0 DEF Request, CallerStep, Connect, ConnectFails, Receive, TimeOut, Cancel, Expire,
       callerVars
  <1>3. /\ caller'[c] # "idle" => word'[c] # "none"
        /\ caller'[c] = "recv" => word'[c] = "accepted"
        /\ word'[c] = "accepted" => word[c] = "accepted"
    <2>1. CASE Request(c)
      BY <1>0, <2>1 DEF Request
    <2>2. CASE Connect(c) \/ Receive(c) \/ TimeOut(c)
      BY <1>0, <2>2 DEF Connect, Receive, TimeOut
    <2>3. CASE ConnectFails(c)
      BY <1>0, <2>3 DEF ConnectFails
    <2>4. CASE Cancel(c)
      BY <1>0, <2>4 DEF Cancel
    <2>5. CASE Expire(c)
      BY <2>5 DEF Expire, callerVars
    <2> QED BY <2>1, <2>2, <2>3, <2>4, <2>5 DEF CallerStep
  <1> QED BY <1>1, <1>2, <1>3

\* The loop does not let go of a request that it accepted before it answered.
LEMMA LoopServes ==
    ASSUME HandshakeInv, AcceptedIsServed, LoopStep
    PROVE  AcceptedIsServed'
  <1> USE DEF AcceptedIsServed, LoopGoes, Serving
  <1>0. /\ loop \in [pc : LoopPC, request : Callers \cup {NoRequest}]
        /\ word \in [Callers -> {"none", "pending", "accepted", "cancelled"}]
        /\ reply \in [Callers -> {"none", "ok", "error", "gone"}]
    BY DEF HandshakeInv, HandshakeTypeOK
  <1>1. caller' = caller
    BY DEF LoopStep, Accept, TakeRequest, Serve, CheckClock, AcceptRequest, WriteState, WriteFails,
       Release, Respond, Leave, Exec, callerVars
  <1>2. ASSUME UNCHANGED <<word, reply>>, loop.pc \notin Serving
        PROVE  AcceptedIsServed'
    BY <1>1, <1>2
  <1>3. CASE Accept \/ TakeRequest \/ Serve \/ Leave \/ Exec
    BY <1>2, <1>3 DEF Accept, TakeRequest, Serve, Leave, Exec
  <1>4. CASE CheckClock
    <2>1. loop.pc = "check" /\ loop.request \in Callers
      BY <1>4 DEF CheckClock, HandshakeInv, OncePending
    <2>2. CASE expired[loop.request]
      <3>1. /\ word' = [word EXCEPT ![loop.request] = IF @ = "pending" THEN "cancelled" ELSE @]
            /\ reply' = [reply EXCEPT ![loop.request] = IF @ = "none" THEN "gone" ELSE @]
        BY <1>4, <2>2 DEF CheckClock, Discard
      <3>2. \A c \in Callers :
              /\ word[c] = "none" <=> word'[c] = "none"
              /\ word[c] = "accepted" <=> word'[c] = "accepted"
              /\ reply[c] # "none" => reply'[c] # "none"
        BY <1>0, <2>1, <3>1
      <3> QED BY <1>1, <2>1, <3>2
    <2>3. CASE ~expired[loop.request]
      BY <1>2, <1>4, <2>1, <2>3 DEF CheckClock
    <2> QED BY <2>2, <2>3
  <1>5. CASE AcceptRequest
    <2>1. loop.pc = "cas" /\ loop.request \in Callers
      BY <1>5 DEF AcceptRequest, HandshakeInv, OncePending
    <2>2. CASE word[loop.request] = "pending"
      <3>1. /\ word' = [word EXCEPT ![loop.request] = "accepted"] /\ reply' = reply
            /\ loop' = [loop EXCEPT !.pc = "write"]
        BY <1>5, <2>2 DEF AcceptRequest
      <3>2. loop'.pc = "write" /\ loop'.request = loop.request
        BY <1>0, <3>1
      <3>3. \A c \in Callers : word'[c] = IF c = loop.request THEN "accepted" ELSE word[c]
        BY <1>0, <3>1
      <3> QED BY <1>1, <2>1, <3>1, <3>2, <3>3
    <2>3. CASE word[loop.request] # "pending"
      <3>1. word' = word /\ \A c \in Callers : reply[c] # "none" => reply'[c] # "none"
        BY <1>0, <1>5, <2>1, <2>3 DEF AcceptRequest, Discard
      <3> QED BY <1>1, <2>1, <3>1
    <2> QED BY <2>2, <2>3
  <1>6. CASE WriteState \/ Release
    <2>1. /\ UNCHANGED <<word, reply>> /\ loop'.request = loop.request /\ loop'.pc \in Serving
          /\ loop.pc \in Serving
      BY <1>0, <1>6 DEF WriteState, Release
    <2> QED BY <1>1, <2>1
  <1>7. CASE WriteFails \/ Respond
    <2>1. /\ word' = word /\ loop.pc \in Serving
          /\ \E answer \in {"ok", "error"} : reply' = [reply EXCEPT ![loop.request] = answer]
      BY <1>7 DEF WriteFails, Respond
    <2>2. \A c \in Callers : c = loop.request \/ reply[c] # "none" => reply'[c] # "none"
      BY <1>0, <2>1
    <2> QED BY <1>1, <2>1, <2>2
  <1> QED BY <1>3, <1>4, <1>5, <1>6, <1>7 DEF LoopStep

LEMMA HandshakeServes == HandshakeSafety => []AcceptedIsServed
  <1>1. HandshakeInit => AcceptedIsServed
    BY DEF HandshakeInit, AcceptedIsServed
  <1>2. HandshakeInv /\ AcceptedIsServed /\ [HandshakeNext]_vars => AcceptedIsServed'
    <2> SUFFICES ASSUME HandshakeInv, AcceptedIsServed, [HandshakeNext]_vars
                 PROVE  AcceptedIsServed'
      OBVIOUS
    <2>1. CASE (\E h \in Hooks : HookConnect(h)) \/ UNCHANGED vars
      BY <2>1 DEF HookConnect, vars, callerVars, AcceptedIsServed
    <2> QED BY <2>1, CallerIsServed, LoopServes DEF HandshakeNext
  <1> QED BY <1>1, <1>2, HandshakeInvariant, PTL DEF HandshakeSafety

\* Where a caller can only be released by the accept loop, it has its answer or the
\* loop is on its way to it.
NobodyWaitsInVain ==
    \A c \in Callers :
      /\ caller[c] = "cancel" => word[c] # "none"
      /\ caller[c] = "recv" => reply[c] # "none" \/ (loop.request = c /\ loop.pc \in Serving)

\* The accept loop drops the API server, and so joins the thread on which handlers
\* wait for the loop, only when every one of them can return by itself: no caller
\* waits there, without a deadline, for an answer the loop has yet to give.
JoinWaitsForNobodyWhoWaits ==
    loop.pc = "join" => \A c \in Callers : caller[c] = "recv" => reply[c] # "none"

\* No circle: a caller that took the wait without a deadline is always answered or
\* being served, also when its request raced the clock, a failed write of the state
\* or another request; this is what CallerReturns and RestartHappens rest on.
THEOREM NoCircularWait ==
    HandshakeSafety => [](NobodyWaitsInVain /\ JoinWaitsForNobodyWhoWaits)
  <1>1. AcceptedIsServed => NobodyWaitsInVain /\ JoinWaitsForNobodyWhoWaits
    BY DEF AcceptedIsServed, NobodyWaitsInVain, JoinWaitsForNobodyWhoWaits, Serving
  <1> QED BY <1>1, HandshakeServes, PTL
=============================================================================
