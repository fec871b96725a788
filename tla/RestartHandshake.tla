--------------------------- MODULE RestartHandshake ---------------------------
(***************************************************************************)
(* A restart of the Runtime on request: RuntimeRestartHandle, its request  *)
(* and its waiter (crates/server/src/server.rs), the accept loop of serve  *)
(* and the drop of the API server behind it (crates/app/src/main.rs).      *)
(*                                                                         *)
(* A caller queues its request, connects to the socket so that the accept  *)
(* loop wakes up, and waits.  One atomic word per request decides whether  *)
(* the loop accepts it or the caller takes it back.  What the loop does to *)
(* waiters and items meanwhile is in ApprovalLoop.                         *)
(***************************************************************************)
EXTENDS Naturals, Sequences, FiniteSets

CONSTANTS
    Callers,    \* restart requests; each is made once
    ApiCallers, \* those made by handlers, all on the one thread of the API
    Hooks,      \* ordinary connections to the socket
    NoRequest   \* the accept loop handles none

ASSUME HandshakeAssumption ==
    /\ ApiCallers \subseteq Callers
    /\ Callers \cap Hooks = {}
    /\ NoRequest \notin Callers

VARIABLES
    word,       \* coordination
    expired,    \* expires_at has passed
    reply,      \* the response channel: what was sent, or that its sender is gone
    caller,     \* the thread that asks
    told,       \* what it returned
    control,    \* the channel of requests
    backlog,    \* connections the accept loop has not taken, in order
    loop        \* the accept loop

callerVars == <<caller, told>>
vars == <<word, expired, reply, callerVars, control, backlog, loop>>

\* cancel: recv_timeout ran out.  recv: the wait without a deadline.
CallerPC == {"idle", "connect", "wait", "cancel", "recv", "done"}

\* drain: has a connection, looks for a request.  cas: found one that has not
\* expired.  leave: answered, sleeps.  join: drops the API server.
LoopPC ==
    {"accept", "drain", "check", "cas", "write", "release", "respond", "leave", "join", "exec"}

HandshakeTypeOK ==
    /\ word \in [Callers -> {"none", "pending", "accepted", "cancelled"}]
    /\ expired \in [Callers -> BOOLEAN]
    /\ reply \in [Callers -> {"none", "ok", "error", "gone"}]
    /\ caller \in [Callers -> CallerPC]
    /\ told \in [Callers -> {"none", "ok", "error", "timeout", "unavailable"}]
    /\ control \in Seq(Callers)
    /\ backlog \in Seq(Callers \cup Hooks)
    /\ loop \in [pc : LoopPC, request : Callers \cup {NoRequest}]

HandshakeInit ==
    /\ word = [c \in Callers |-> "none"]
    /\ expired = [c \in Callers |-> FALSE]
    /\ reply = [c \in Callers |-> "none"]
    /\ caller = [c \in Callers |-> "idle"]
    /\ told = [c \in Callers |-> "none"]
    /\ control = <<>>
    /\ backlog = <<>>
    /\ loop = [pc |-> "accept", request |-> NoRequest]

-----------------------------------------------------------------------------
(* The caller *)

Asking == {c \in Callers : caller[c] \notin {"idle", "done"}}

CallerGoes(c, pc) == caller' = [caller EXCEPT ![c] = pc]

Return(c, result) ==
    /\ CallerGoes(c, "done")
    /\ told' = [told EXCEPT ![c] = result]

\* The request goes into the channel with its word pending.  A handler blocks
\* the thread of the API, so that no other handler asks meanwhile; a server that
\* shuts down still finishes what it began.
Request(c) ==
    /\ caller[c] = "idle"
    /\ loop.pc # "exec"
    /\ c \in ApiCallers => Asking \cap ApiCallers = {}
    /\ word' = [word EXCEPT ![c] = "pending"]
    /\ control' = Append(control, c)
    /\ CallerGoes(c, "connect")
    /\ UNCHANGED <<expired, reply, told, backlog, loop>>

\* The connection wakes the accept loop.
Connect(c) ==
    /\ caller[c] = "connect"
    /\ backlog' = Append(backlog, c)
    /\ CallerGoes(c, "wait")
    /\ UNCHANGED <<word, expired, reply, told, control, loop>>

\* connect failed: the request is taken back, unless some other connection has
\* woken the loop already and it was accepted.
ConnectFails(c) ==
    /\ caller[c] = "connect"
    /\ IF word[c] = "pending"
       THEN /\ word' = [word EXCEPT ![c] = "cancelled"]
            /\ Return(c, "unavailable")
       ELSE /\ CallerGoes(c, "wait")
            /\ UNCHANGED <<word, told>>
    /\ UNCHANGED <<expired, reply, control, backlog, loop>>

\* Mutant: a response is read as success.
ReceiveAny(c) ==
    /\ caller[c] \in {"wait", "recv"}
    /\ reply[c] # "none"
    /\ Return(c, IF reply[c] = "gone" THEN "timeout" ELSE "ok")
    /\ UNCHANGED <<word, expired, reply, control, backlog, loop>>

\* Mutant: the channel's end is passed on as it is.
ReceiveRaw(c) ==
    /\ caller[c] \in {"wait", "recv"}
    /\ reply[c] # "none"
    /\ Return(c, reply[c])
    /\ UNCHANGED <<word, expired, reply, control, backlog, loop>>

\* A channel without a sender reads as a timeout.
Receive(c) ==
    /\ caller[c] \in {"wait", "recv"}
    /\ reply[c] # "none"
    /\ Return(c, IF reply[c] = "gone" THEN "timeout" ELSE reply[c])
    /\ UNCHANGED <<word, expired, reply, control, backlog, loop>>

\* The wait began after expires_at was set, with the same length.
TimeOut(c) ==
    /\ caller[c] = "wait"
    /\ reply[c] = "none"
    /\ expired[c]
    /\ CallerGoes(c, "cancel")
    /\ UNCHANGED <<word, expired, reply, told, control, backlog, loop>>

\* Mutant: whoever took the request back still waits for the loop to drop it.
CancelWaits(c) ==
    /\ caller[c] = "cancel"
    /\ word' = [word EXCEPT ![c] = IF @ = "pending" THEN "cancelled" ELSE @]
    /\ CallerGoes(c, "recv")
    /\ UNCHANGED <<expired, reply, told, control, backlog, loop>>

\* Either the request is taken back, or the loop has accepted it and will answer.
Cancel(c) ==
    /\ caller[c] = "cancel"
    /\ \/ /\ word[c] = "pending"
          /\ word' = [word EXCEPT ![c] = "cancelled"]
          /\ Return(c, "timeout")
       \/ /\ word[c] = "accepted"
          /\ CallerGoes(c, "recv")
          /\ UNCHANGED <<word, told>>
       \/ /\ word[c] = "cancelled"
          /\ Return(c, "timeout")
          /\ UNCHANGED word
    /\ UNCHANGED <<expired, reply, control, backlog, loop>>

CallerStep(c) == Connect(c) \/ ConnectFails(c) \/ Receive(c) \/ TimeOut(c) \/ Cancel(c)

Expire(c) ==
    /\ caller[c] # "idle"
    /\ ~expired[c]
    /\ expired' = [expired EXCEPT ![c] = TRUE]
    /\ UNCHANGED <<word, reply, callerVars, control, backlog, loop>>

\* A Hook may connect again once its connection was taken.
HookConnect(h) ==
    /\ \A i \in DOMAIN backlog : backlog[i] # h
    /\ loop.pc # "exec"
    /\ backlog' = Append(backlog, h)
    /\ UNCHANGED <<word, expired, reply, callerVars, control, loop>>

-----------------------------------------------------------------------------
(* The accept loop *)

LoopGoes(pc) == loop' = [loop EXCEPT !.pc = pc]

\* A request that goes out of scope takes the sender of its channel with it.
Discard(c) == reply' = [reply EXCEPT ![c] = IF @ = "none" THEN "gone" ELSE @]

Accept ==
    /\ loop.pc = "accept"
    /\ backlog # <<>>
    /\ backlog' = Tail(backlog)
    /\ LoopGoes("drain")
    /\ UNCHANGED <<word, expired, reply, callerVars, control>>

TakeRequest ==
    /\ loop.pc = "drain"
    /\ control # <<>>
    /\ control' = Tail(control)
    /\ loop' = [loop EXCEPT !.pc = "check", !.request = Head(control)]
    /\ UNCHANGED <<word, expired, reply, callerVars, backlog>>

\* No request: a thread serves the connection, which may be a stale wake-up.
Serve ==
    /\ loop.pc = "drain"
    /\ control = <<>>
    /\ loop' = [pc |-> "accept", request |-> NoRequest]
    /\ UNCHANGED <<word, expired, reply, callerVars, control, backlog>>

\* try_accept reads the clock, then the word.
CheckClock ==
    LET c == loop.request
    IN  /\ loop.pc = "check"
        /\ IF expired[c]
           THEN /\ word' = [word EXCEPT ![c] = IF @ = "pending" THEN "cancelled" ELSE @]
                /\ Discard(c)
                /\ LoopGoes("drain")
           ELSE /\ LoopGoes("cas")
                /\ UNCHANGED <<word, reply>>
        /\ UNCHANGED <<expired, callerVars, control, backlog>>

\* Mutant: the word is overwritten whatever it says.
AcceptAnyway ==
    /\ loop.pc = "cas"
    /\ word' = [word EXCEPT ![loop.request] = "accepted"]
    /\ LoopGoes("write")
    /\ UNCHANGED <<expired, reply, callerVars, control, backlog>>

\* Accepted: the connection that woke the loop is closed, whosever it is.
AcceptRequest ==
    LET c == loop.request
    IN  /\ loop.pc = "cas"
        /\ IF word[c] = "pending"
           THEN /\ word' = [word EXCEPT ![c] = "accepted"]
                /\ LoopGoes("write")
                /\ UNCHANGED reply
           ELSE /\ Discard(c)
                /\ LoopGoes("drain")
                /\ UNCHANGED word
        /\ UNCHANGED <<expired, callerVars, control, backlog>>

WriteState ==
    /\ loop.pc = "write"
    /\ LoopGoes("release")
    /\ UNCHANGED <<word, expired, reply, callerVars, control, backlog>>

\* Mutant: the loop goes on without an answer.
WriteFailsSilently ==
    /\ loop.pc = "write"
    /\ loop' = [loop EXCEPT !.pc = "accept", !.request = NoRequest]
    /\ UNCHANGED <<word, expired, reply, callerVars, control, backlog>>

\* write_restart_state failed: the caller hears it and the loop goes on.
WriteFails ==
    /\ loop.pc = "write"
    /\ reply' = [reply EXCEPT ![loop.request] = "error"]
    /\ loop' = [loop EXCEPT !.pc = "accept", !.request = NoRequest]
    /\ UNCHANGED <<word, expired, callerVars, control, backlog>>

\* Waiters are passed through and the store is reconciled, see ApprovalLoop.
Release ==
    /\ loop.pc = "release"
    /\ LoopGoes("respond")
    /\ UNCHANGED <<word, expired, reply, callerVars, control, backlog>>

Respond ==
    /\ loop.pc = "respond"
    /\ reply' = [reply EXCEPT ![loop.request] = "ok"]
    /\ LoopGoes("leave")
    /\ UNCHANGED <<word, expired, callerVars, control, backlog>>

\* After its sleep, serve returns and drops the API server first.
Leave ==
    /\ loop.pc = "leave"
    /\ LoopGoes("join")
    /\ UNCHANGED <<word, expired, reply, callerVars, control, backlog>>

\* Its thread is joined, so that every caller returns before the process is
\* replaced; the connections that were not accepted are closed.
Exec ==
    /\ loop.pc = "join"
    /\ Asking = {}
    /\ LoopGoes("exec")
    /\ backlog' = <<>>
    /\ control' = <<>>
    /\ UNCHANGED <<word, expired, reply, callerVars>>

LoopStep ==
    \/ Accept \/ TakeRequest \/ Serve \/ CheckClock \/ AcceptRequest \/ WriteState \/ WriteFails
    \/ Release \/ Respond \/ Leave \/ Exec

HandshakeNext ==
    \/ \E c \in Callers : Request(c) \/ CallerStep(c) \/ Expire(c)
    \/ \E h \in Hooks : HookConnect(h)
    \/ LoopStep

HandshakeSafety == HandshakeInit /\ [][HandshakeNext]_vars

\* Threads are scheduled and time passes; nobody has to ask or to connect.
HandshakeSpec ==
    /\ HandshakeSafety
    /\ \A c \in Callers : WF_vars(CallerStep(c)) /\ WF_vars(Expire(c))
    /\ WF_vars(LoopStep)

-----------------------------------------------------------------------------
(* Properties *)

\* A caller that was told that nothing came of its request is right: the loop
\* has not accepted it and never will, however late it looks at the channel.
RefusedIsNotAccepted ==
    \A c \in Callers : told[c] \in {"timeout", "unavailable"} => word[c] # "accepted"

\* A caller is told ok only by a loop that is leaving for its sake, so that no
\* two callers are; and whoever it accepted but could not serve was told error.
OkMeansRestart ==
    \A c \in Callers :
      /\ told[c] = "ok" => loop.pc \in {"leave", "join", "exec"} /\ loop.request = c
      /\ told[c] = "error" => ~(loop.pc \in {"leave", "join", "exec"} /\ loop.request = c)

\* Every caller returns, also one that waits without a deadline.
CallerReturns == \A c \in Callers : caller[c] = "connect" ~> caller[c] = "done"

\* A restart that was announced takes place: no caller keeps the process from
\* being replaced, although the API server is joined first.
RestartHappens == loop.pc = "leave" ~> loop.pc = "exec"

=============================================================================
