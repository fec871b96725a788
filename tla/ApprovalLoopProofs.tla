-------------------------- MODULE ApprovalLoopProofs --------------------------
(***************************************************************************)
(* Proofs about the decision loop for every set of requests, commands,     *)
(* handlers and events, every envelope, clock, undo delay and number of    *)
(* restarts: its steps are transactions of the ApprovalStore, so that the  *)
(* theorems about the store hold of the loop, and the safety properties    *)
(* and the refinement of ApprovalContract that the runs check.             *)
(***************************************************************************)
EXTENDS ApprovalLoop, ApprovalStoreProofs, SequenceTheorems

USE DEF Kinds, LiveStates, BlockingStates, AttStates, Resolutions, Decisions,
        ActiveCommand, FinalCommand, ExecStates, Actions

-----------------------------------------------------------------------------
(* Who moves what *)

\* The ways a handler starts.
JobStarts(h) ==
    \/ \E c \in Commands, r \in Requests, action \in Actions, delay \in Delays :
         Submit(h, c, r, action, delay)
    \/ \E c \in Commands : UndoRequest(h, c)
    \/ \E q \in Requests, response \in {"answer", "native"} : SubmitAnswer(h, q, response)

HookMove(r) == HookRegister(r) \/ HookStep(r) \/ ClientGone(r)
RelayMove(r) == AgentCloses(r) \/ AgentCloseExpires(r) \/ AgentCloseUnconfirms(r)
AttendMove ==
    \E c \in Commands, q \in Requests, action \in {"ack", "snooze", "dismiss"} : Attend(c, q, action)

\* Steps that are nobody's thread.
PlainMove ==
    \/ AttendMove
    \/ \E q \in Requests : Wake(q)
    \/ Tick \/ BeginRestart \/ ReleaseForRestart \/ ReconcileForRestart \/ Startup
    \/ UNCHANGED loopVars

\* The steps of the Runtime but for the threads that wait on a request.
ServerTurn ==
    \/ \E h \in Handlers : JobStep(h) \/ JobStarts(h)
    \/ \E e \in Events : EventIngest(e) \/ EventPassThrough(e)
    \/ SweepWaiters \/ SweepItem \/ Crash \/ PlainMove

LEMMA ServerOwners == ServerNext \/ UNCHANGED loopVars => ServerTurn
BY DEF ServerNext, ServerTurn, JobStarts, AttendMove, PlainMove

\* Every step has one owner.
LEMMA Owners ==
    ASSUME [LoopNext]_loopVars
    PROVE  \/ \E r \in Requests : HookMove(r)
           \/ \E r \in ByAgent : RelayMove(r)
           \/ \E h \in Handlers : JobStep(h) \/ JobStarts(h)
           \/ \E e \in Events : EventIngest(e) \/ EventPassThrough(e)
           \/ SweepWaiters \/ SweepItem \/ Crash \/ PlainMove
BY DEF LoopNext, ServerNext, HookMove, RelayMove, JobStarts, AttendMove, PlainMove

\* A plain step moves no thread.
LEMMA PlainKeeps ==
    ASSUME PlainMove
    PROVE  UNCHANGED threadVars
BY DEF PlainMove, AttendMove, Attend, Wake, Tick, BeginRestart, ReleaseForRestart,
       ReconcileForRestart, Startup, loopVars

-----------------------------------------------------------------------------
(* The steps of the loop as transactions of the store *)

\* What a handler knows of its command and its request by where it is.
JobFit(h) ==
    LET j == job[h]
    IN  /\ j.pc \in {"claim", "sleep", "probe", "commit", "decide", "handback", "undo"} =>
             j.command \in Commands
        /\ j.pc \notin {"idle", "undo"} => j.request \in Requests
        /\ j.pc = "claim" =>
             /\ IsApproval(j.request)
             /\ j.action \in Actions
             /\ \E d \in Delays : j.action # "pass_through" => j.delay = d
        /\ j.pc \in {"claim", "undo"} => j.at \in 0..MaxTime
        /\ j.pc \in {"sleep", "probe", "commit", "decide"} => j.action \in Decisions
        /\ j.pc \in {"probe", "commit"} => j.at + j.delay \in 0..MaxTime
        /\ j.pc \in {"answer", "ack"} => ~IsApproval(j.request)
        /\ j.pc = "answer" => j.action \in {"answer", "native"}

JobsFit == \A h \in Handlers : JobFit(h)

DeliveryType == [pc : {"idle", "answer"}, todo : SUBSET Requests]

\* The type invariant but for the threads that wait on a request.
ServerTypeOK ==
    /\ StoreTypeOK
    /\ Registry!RegistryTypeOK
    /\ now \in 0..MaxTime /\ up \in BOOLEAN /\ restarts \in 0..MaxRestarts
    /\ leaving \in LeavingType
    /\ job \in [Handlers -> JobType]
    /\ delivery \in [Events -> DeliveryType]
    /\ sweep \subseteq Requests

LEMMA LoopServer == LoopTypeOK => ServerTypeOK
BY DEF LoopTypeOK, ServerTypeOK, DeliveryType

\* The transactions of the store but for the ingest of requests; the events of
\* the loop are the newest ones of their session.
StoreRest ==
    \/ \E s \in Sessions, k \in EventKinds, tool \in Tools :
         \E handled \in HandledSets(s, k, tool) : IngestEvent(s, k, tool, TRUE, handled)
    \/ \E c \in Commands, r \in Requests, a \in Actions, at \in Times, d \in Delays :
         IsApproval(r) /\ Claim(c, r, a, at, d)
    \/ \E c \in Commands, at \in Times : Undo(c, at)
    \/ \E c \in Commands, at \in Times : CommitSent(c, at) \/ CommitStale(c, at)
    \/ \E c \in Commands, q \in Requests, a \in {"ack", "snooze", "dismiss"} :
         ActAttention(c, q, a)
    \/ \E q \in Requests : ~IsApproval(q) /\ (AckAnswered(q) \/ WakeSnoozed(q))
    \/ \E r \in Requests, reason \in {"deadline", "other"} : ExpireApproval(r, reason)
    \/ Reconcile({})
    \/ Reopen
    \/ \E s \in Sessions : MarkUnconfirmed(s, TRUE)

LEMMA RestIsStore == [StoreRest]_storeVars => [StoreNext]_storeVars
BY DEF StoreRest, StoreNext

\* An event handles requests only.
LEMMA HandledAreRequests ==
    \A s, k, tool : \A handled \in HandledSets(s, k, tool) : handled \subseteq Requests
BY DEF HandledSets, RequestsOf

\* A step of a handler that touches the store is one of its transactions.
LEMMA JobStores ==
    ASSUME JobsFit, NEW h \in Handlers, JobStep(h)
    PROVE  [StoreRest]_storeVars
<1>0. 0..MaxTime \subseteq Times
  BY LoopAssumption DEF LoopAssumption
<1> DEFINE j == job[h]
<1>1. CASE JobClaim(h)
  <2>1. CASE UNCHANGED storeVars
    BY <2>1
  <2>2. CASE Claim(j.command, j.request, j.action, j.at, j.delay)
    <3>1. /\ j.command \in Commands /\ j.request \in Requests /\ IsApproval(j.request)
          /\ j.action \in Actions /\ j.at \in Times
      BY <1>0, <1>1 DEF JobClaim, JobsFit, JobFit
    <3>2. PICK d \in Delays : j.action # "pass_through" => j.delay = d
      BY <1>1 DEF JobClaim, JobsFit, JobFit
    <3>3. Claim(j.command, j.request, j.action, j.at, d)
      BY <2>2, <3>2 DEF Claim
    <3> QED BY <3>1, <3>3 DEF StoreRest
  <2> QED BY <1>1, <2>1, <2>2 DEF JobClaim
<1>2. CASE JobProbe(h)
  BY <1>2 DEF JobProbe
<1>3. CASE JobCommit(h)
  <2>1. j.command \in Commands /\ j.at + j.delay \in Times
    BY <1>0, <1>3 DEF JobCommit, JobsFit, JobFit
  <2> QED BY <1>3, <2>1 DEF JobCommit, StoreRest
<1>4. CASE JobDecide(h)
  BY <1>4 DEF JobDecide
<1>5. CASE JobHandBack(h)
  BY <1>5 DEF JobHandBack
<1>6. CASE JobExpire(h)
  <2>1. j.request \in Requests
    BY <1>6 DEF JobExpire, JobsFit, JobFit
  <2> QED BY <1>6, <2>1 DEF JobExpire, StoreRest
<1>7. CASE JobUndo(h)
  <2>1. j.command \in Commands /\ j.at \in Times
    BY <1>0, <1>7 DEF JobUndo, JobsFit, JobFit
  <2> QED BY <1>7, <2>1 DEF JobUndo, StoreRest
<1>8. CASE JobAnswer(h)
  BY <1>8 DEF JobAnswer
<1>9. CASE JobAck(h)
  <2>1. j.request \in Requests /\ ~IsApproval(j.request)
    BY <1>9 DEF JobAck, JobsFit, JobFit
  <2> QED BY <1>9, <2>1 DEF JobAck, StoreRest
<1> QED BY <1>1, <1>2, <1>3, <1>4, <1>5, <1>6, <1>7, <1>8, <1>9 DEF JobStep

\* A step of the Runtime that is not one of those threads is such a step.
LEMMA ServerStores ==
    ASSUME ServerTypeOK, JobsFit, ItemsFitKinds, ServerTurn
    PROVE  [StoreRest]_storeVars
<1>1. CASE \E h \in Handlers : JobStep(h)
  BY <1>1, JobStores
<1>2. CASE \E h \in Handlers : JobStarts(h)
  <2>1. PICK h \in Handlers : JobStarts(h)
    BY <1>2
  <2>2. UNCHANGED storeVars
    BY <2>1 DEF JobStarts, Submit, UndoRequest, SubmitAnswer
  <2> QED BY <2>2
<1>3. CASE AttendMove
  BY <1>3 DEF AttendMove, Attend, StoreRest
<1>4. CASE \E e \in Events : EventIngest(e)
  <2>1. PICK e \in Events : EventIngest(e)
    BY <1>4
  <2>2. EventOf[e] \in [session : Sessions, kind : EventKinds, tool : Tools]
    BY LoopAssumption DEF LoopAssumption
  <2> QED BY <2>1, <2>2 DEF EventIngest, StoreRest
<1>5. CASE \E e \in Events : EventPassThrough(e)
  BY <1>5 DEF EventPassThrough
<1>6. CASE \E q \in Requests : Wake(q)
  BY <1>6 DEF Wake, WakeSnoozed, ItemsFitKinds, StoreRest
<1>7. CASE SweepItem
  BY <1>7 DEF SweepItem, ServerTypeOK, StoreRest
<1>8. CASE SweepWaiters \/ Tick \/ BeginRestart \/ ReleaseForRestart \/ Crash
  BY <1>8 DEF SweepWaiters, Tick, BeginRestart, ReleaseForRestart, Crash
<1>9. CASE ReconcileForRestart \/ Startup
  BY <1>9 DEF ReconcileForRestart, Startup, StoreRest
<1>10. CASE UNCHANGED loopVars
  BY <1>10 DEF loopVars
<1> QED
  BY <1>1, <1>2, <1>3, <1>4, <1>5, <1>6, <1>7, <1>8, <1>9, <1>10 DEF ServerTurn, PlainMove

\* What the thread of a request does to the store once its item is there: the
\* item expires, the session is marked, or nothing.
ConnectionRest ==
    \/ \E r \in Requests, reason \in {"deadline", "other"} : ExpireApproval(r, reason)
    \/ \E s \in Sessions : MarkUnconfirmed(s, TRUE)
    \/ UNCHANGED storeVars

LEMMA ConnectionIsRest == ConnectionRest => [StoreRest]_storeVars
BY DEF ConnectionRest, StoreRest

\* A connection does that, but for the step that ingests its request.
LEMMA HookStores ==
    ASSUME LoopTypeOK, NEW r \in Requests, HookMove(r)
    PROVE  HookIngest(r) \/ ConnectionRest
<1>0. /\ Envelope[r].session \in Sessions
      /\ hook[r].old \subseteq Requests
  BY StoreAssumption DEF StoreAssumption, EnvelopeType, LoopTypeOK, HookType
<1>1. CASE HookExpireReplaced(r)
  BY <1>0, <1>1 DEF HookExpireReplaced, ConnectionRest
<1>2. CASE HookExpire(r)
  BY <1>2 DEF HookExpire, ConnectionRest
<1>3. CASE AgentExpire(r)
  BY <1>3 DEF AgentExpire, ConnectionRest
<1>4. CASE AgentUnconfirm(r)
  <2>1. PICK current \in BOOLEAN : MarkUnconfirmed(Envelope[r].session, current)
    BY <1>4 DEF AgentUnconfirm
  <2>2. ~current => UNCHANGED storeVars
    BY <2>1 DEF MarkUnconfirmed, storeVars
  <2> QED BY <1>0, <2>1, <2>2 DEF ConnectionRest
<1>5. CASE \/ HookRegister(r) \/ ClientGone(r) \/ HookRefused(r) \/ HookReceive(r)
           \/ HookTimeout(r) \/ HookGiveUp(r) \/ HookClose(r) \/ AgentGivesUp(r)
  BY <1>5 DEF HookRegister, ClientGone, HookRefused, HookReceive, HookTimeout, HookGiveUp,
              HookClose, AgentGivesUp, ConnectionRest
<1> QED BY <1>1, <1>2, <1>3, <1>4, <1>5 DEF HookMove, HookStep

\* So does a relay that withdraws its request.
LEMMA RelayStores ==
    ASSUME NEW r \in ByAgent, RelayMove(r)
    PROVE  ConnectionRest
<1>1. r \in Requests /\ Envelope[r].session \in Sessions
  BY StoreAssumption, LoopAssumption DEF StoreAssumption, LoopAssumption, EnvelopeType
<1>2. CASE AgentCloses(r)
  BY <1>2 DEF AgentCloses, ConnectionRest
<1>3. CASE AgentCloseExpires(r)
  BY <1>1, <1>3 DEF AgentCloseExpires, ConnectionRest
<1>4. CASE AgentCloseUnconfirms(r)
  <2>1. PICK current \in BOOLEAN : MarkUnconfirmed(Envelope[r].session, current)
    BY <1>4 DEF AgentCloseUnconfirms
  <2>2. ~current => UNCHANGED storeVars
    BY <2>1 DEF MarkUnconfirmed, storeVars
  <2> QED BY <1>1, <2>1, <2>2 DEF ConnectionRest
<1> QED BY <1>2, <1>3, <1>4 DEF RelayMove

\* And every other step.
LEMMA LoopStores ==
    ASSUME LoopTypeOK, JobsFit, ItemsFitKinds, [LoopNext]_loopVars
    PROVE  (\E r \in Requests : HookIngest(r)) \/ [StoreRest]_storeVars
<1>1. CASE \E r \in Requests : HookMove(r)
  BY <1>1, HookStores, ConnectionIsRest
<1>2. CASE \E r \in ByAgent : RelayMove(r)
  BY <1>2, RelayStores, ConnectionIsRest
<1>3. CASE ServerTurn
  BY <1>3, ServerStores, LoopServer
<1> QED BY <1>1, <1>2, <1>3, Owners DEF ServerTurn

-----------------------------------------------------------------------------
(* What each step leaves alone *)

ClientStates == {"idle", "asking"} \cup Responses

\* A step of a connection moves its own thread and its own client.
LEMMA HookKeeps ==
    ASSUME LoopTypeOK, NEW r \in Requests, HookMove(r)
    PROVE  /\ UNCHANGED <<processVars, job, delivery, sweep, closing>>
           /\ hook' \in [Requests -> HookType]
           /\ client' \in [Requests -> ClientStates]
           /\ \A q \in Requests \ {r} : hook'[q] = hook[q] /\ client'[q] = client[q]
<1>0. /\ hook \in [Requests -> HookType] /\ client \in [Requests -> ClientStates]
      /\ mailbox[r] \in Seq(Responses)
  BY DEF LoopTypeOK, Registry!RegistryTypeOK, ClientStates
<1>a. ASSUME NEW pc \in HookPC, HookGoes(r, pc)
      PROVE  /\ \A q \in Requests \ {r} : hook'[q] = hook[q]
             /\ hook' \in [Requests -> HookType]
  BY <1>0, <1>a DEF HookGoes, HookType
<1>b. ASSUME NEW state \in ClientStates, client' = [client EXCEPT ![r] = state]
      PROVE  /\ \A q \in Requests \ {r} : client'[q] = client[q]
             /\ client' \in [Requests -> ClientStates]
  BY <1>0, <1>b
<1> HIDE DEF HookGoes
<1>1. CASE HookRegister(r)
  <2> DEFINE old == Registry!Replaced(r, CorrelationOf[r], now)
             row == [pc |-> IF old = {} THEN "ingest" ELSE "replace", old |-> old]
  <2>1. row \in HookType
    BY DEF Registry!Replaced, HookType, HookPC
  <2>2. hook' = [hook EXCEPT ![r] = row]
    BY <1>1 DEF HookRegister
  <2> HIDE DEF row
  <2>3. /\ \A q \in Requests \ {r} : hook'[q] = hook[q]
        /\ hook' \in [Requests -> HookType]
    BY <1>0, <2>1, <2>2
  <2> QED BY <1>1, <1>b, <2>3 DEF HookRegister, ClientStates
<1>2. CASE HookReceive(r)
  <2>1. Head(mailbox[r]) \in Responses
    BY <1>0, <1>2, HeadTailProperties DEF HookReceive
  <2>2. (IF client[r] = "asking" THEN Head(mailbox[r]) ELSE client[r]) \in ClientStates
    BY <1>0, <2>1 DEF ClientStates
  <2> QED BY <1>2, <1>a, <1>b, <2>2 DEF HookReceive, HookPC
<1>3. CASE AgentUnconfirm(r) \/ HookClose(r)
  <2>1. (IF client[r] = "asking" THEN "native" ELSE client[r]) \in ClientStates
    BY <1>0 DEF ClientStates, Responses
  <2> QED BY <1>3, <1>a, <1>b, <2>1 DEF AgentUnconfirm, HookClose, HookPC
<1>4. CASE ClientGone(r)
  BY <1>0, <1>4, <1>b DEF ClientGone, ClientStates, Responses
<1>5. CASE \/ HookExpireReplaced(r) \/ HookIngest(r) \/ HookRefused(r) \/ HookTimeout(r)
           \/ HookGiveUp(r) \/ HookExpire(r) \/ AgentGivesUp(r) \/ AgentExpire(r)
  BY <1>0, <1>5, <1>a DEF HookExpireReplaced, HookIngest, HookRefused, HookTimeout, HookGiveUp,
                          HookExpire, AgentGivesUp, AgentExpire, HookPC
<1> QED BY <1>1, <1>2, <1>3, <1>4, <1>5 DEF HookMove, HookStep

\* The record of a handler at another place.
LEMMA JobRow ==
    ASSUME ServerTypeOK, NEW h \in Handlers, NEW pc \in JobPC
    PROVE  /\ [job[h] EXCEPT !.pc = pc] \in JobType
           /\ [job[h] EXCEPT !.pc = pc].pc = pc
           /\ [job[h] EXCEPT !.pc = pc].command = job[h].command
           /\ [job[h] EXCEPT !.pc = pc].request = job[h].request
           /\ [job[h] EXCEPT !.pc = pc].action = job[h].action
           /\ [job[h] EXCEPT !.pc = pc].at = job[h].at
           /\ [job[h] EXCEPT !.pc = pc].delay = job[h].delay
BY DEF ServerTypeOK, JobType

\* A handler that goes on keeps what it was asked to do.
GoesOn(h) ==
    /\ job'[h].command = job[h].command
    /\ job'[h].request = job[h].request
    /\ job'[h].action = job[h].action
    /\ job'[h].at = job[h].at
    /\ job'[h].delay = job[h].delay

\* JobGoes moves one handler.
LEMMA JobGoesOn ==
    ASSUME ServerTypeOK, NEW h \in Handlers, NEW pc \in JobPC, JobGoes(h, pc)
    PROVE  /\ job' \in [Handlers -> JobType]
           /\ \A g \in Handlers \ {h} : job'[g] = job[g]
           /\ job'[h].pc = pc
           /\ GoesOn(h)
<1>1. job \in [Handlers -> JobType] /\ job' = [job EXCEPT ![h] = [job[h] EXCEPT !.pc = pc]]
  BY DEF JobGoes, ServerTypeOK
<1>2. job'[h] = [job[h] EXCEPT !.pc = pc] /\ \A g \in Handlers \ {h} : job'[g] = job[g]
  BY <1>1
<1> QED BY <1>1, <1>2, JobRow DEF GoesOn

\* JobEnds frees one handler.
LEMMA JobEnded ==
    ASSUME ServerTypeOK, NEW h \in Handlers, JobEnds(h)
    PROVE  /\ job' \in [Handlers -> JobType]
           /\ \A g \in Handlers \ {h} : job'[g] = job[g]
           /\ job'[h] = NoJob
<1>1. NoJob \in JobType
  BY DEF NoJob, JobType, JobPC
<1> HIDE DEF NoJob
<1> QED BY <1>1 DEF JobEnds, ServerTypeOK

\* A step of a handler moves that handler only: it goes on or it ends.
LEMMA JobKeeps ==
    ASSUME ServerTypeOK, NEW h \in Handlers, JobStep(h)
    PROVE  /\ UNCHANGED <<processVars, hook, client, delivery, sweep, closing>>
           /\ job' \in [Handlers -> JobType]
           /\ \A g \in Handlers \ {h} : job'[g] = job[g]
           /\ job'[h] = NoJob \/ GoesOn(h)
<1>1. CASE JobProbe(h)
  <2> DEFINE row(b) == [job[h] EXCEPT !.pc = "commit", !.active = b]
             b0 == Active(job[h].request)
  <2>1. job' = [job EXCEPT ![h] = row(b0)] /\ job \in [Handlers -> JobType]
    BY <1>1 DEF JobProbe, ServerTypeOK
  <2>a. \A b \in BOOLEAN :
          /\ row(b) \in JobType
          /\ row(b).command = job[h].command /\ row(b).request = job[h].request
          /\ row(b).action = job[h].action /\ row(b).at = job[h].at
          /\ row(b).delay = job[h].delay
    BY <2>1 DEF JobType, JobPC
  <2>b. b0 \in BOOLEAN
    BY DEF Active
  <2> HIDE DEF row, b0
  <2>c. job'[h] = row(b0)
    BY <2>1
  <2>2. job'[h] \in JobType /\ GoesOn(h)
    BY <2>a, <2>b, <2>c DEF GoesOn
  <2>3. job' = [job EXCEPT ![h] = job'[h]]
    BY <2>1, <2>c
  <2>4. job' \in [Handlers -> JobType] /\ \A g \in Handlers \ {h} : job'[g] = job[g]
    BY <2>1, <2>2, <2>3
  <2> QED BY <1>1, <2>2, <2>4 DEF JobProbe
<1>2. CASE \/ JobClaim(h) \/ JobCommit(h) \/ JobDecide(h) \/ JobHandBack(h) \/ JobExpire(h)
           \/ JobUndo(h) \/ JobAnswer(h) \/ JobAck(h)
  <2>1. /\ UNCHANGED <<processVars, hook, client, delivery, sweep, closing>>
        /\ JobEnds(h) \/ \E pc \in JobPC : JobGoes(h, pc)
    BY <1>2 DEF JobClaim, JobCommit, JobDecide, JobHandBack, JobExpire, JobUndo, JobAnswer,
                JobAck, JobPC
  <2> QED BY <2>1, JobGoesOn, JobEnded
<1> QED BY <1>1, <1>2 DEF JobStep

\* A handler that starts was idle, and nothing else moves.
LEMMA StartKeeps ==
    ASSUME ServerTypeOK, NEW h \in Handlers, JobStarts(h)
    PROVE  /\ UNCHANGED <<processVars, storeVars, waiterVars, hook, client, delivery, sweep, closing>>
           /\ job' \in [Handlers -> JobType]
           /\ \A g \in Handlers \ {h} : job'[g] = job[g]
           /\ Running = {} /\ job[h].pc = "idle"
<1>0. now \in Nat /\ job \in [Handlers -> JobType]
  BY LoopAssumption DEF LoopAssumption, ServerTypeOK
<1>1. ASSUME NEW c \in Commands, NEW r \in Requests, NEW action \in Actions,
             NEW delay \in Delays, Submit(h, c, r, action, delay)
      PROVE  job' \in [Handlers -> JobType] /\ \A g \in Handlers \ {h} : job'[g] = job[g]
  <2> DEFINE row ==
         [NoJob EXCEPT !.pc = IF IsApproval(r) /\ Active(r) THEN "claim" ELSE "stale",
            !.command = c, !.request = r, !.action = action, !.at = now,
            !.delay = IF action = "pass_through" THEN 0 ELSE delay]
  <2>1. delay \in Nat
    BY StoreAssumption DEF StoreAssumption
  <2>2. row \in JobType
    BY <1>0, <2>1 DEF NoJob, JobType, JobPC, Responses
  <2>3. job' = [job EXCEPT ![h] = row]
    BY <1>1 DEF Submit
  <2> HIDE DEF row
  <2> QED BY <1>0, <2>2, <2>3
<1>2. ASSUME NEW c \in Commands, UndoRequest(h, c)
      PROVE  job' \in [Handlers -> JobType] /\ \A g \in Handlers \ {h} : job'[g] = job[g]
  <2> DEFINE row == [NoJob EXCEPT !.pc = "undo", !.command = c, !.at = now]
  <2>2. row \in JobType
    BY <1>0 DEF NoJob, JobType, JobPC, Responses
  <2>3. job' = [job EXCEPT ![h] = row]
    BY <1>2 DEF UndoRequest
  <2> HIDE DEF row
  <2> QED BY <1>0, <2>2, <2>3
<1>3. ASSUME NEW q \in Requests, NEW response \in {"answer", "native"}, SubmitAnswer(h, q, response)
      PROVE  job' \in [Handlers -> JobType] /\ \A g \in Handlers \ {h} : job'[g] = job[g]
  <2> DEFINE row == [NoJob EXCEPT !.pc = "answer", !.request = q, !.action = response]
  <2>2. row \in JobType
    BY <1>0 DEF NoJob, JobType, JobPC, Responses
  <2>3. job' = [job EXCEPT ![h] = row]
    BY <1>3 DEF SubmitAnswer
  <2> HIDE DEF row
  <2> QED BY <1>0, <2>2, <2>3
<1>4. job' \in [Handlers -> JobType] /\ \A g \in Handlers \ {h} : job'[g] = job[g]
  BY <1>1, <1>2, <1>3 DEF JobStarts
<1>5. /\ UNCHANGED <<processVars, storeVars, waiterVars, hook, client, delivery, sweep, closing>>
      /\ Running = {} /\ job[h].pc = "idle"
  BY DEF JobStarts, Submit, UndoRequest, SubmitAnswer
<1> QED BY <1>4, <1>5

-----------------------------------------------------------------------------
(* What happens to the waiters *)

\* A request that registered has a channel of its own.  As long as it waits,
\* nothing was sent there; afterwards one response was, unless the process died.
ChannelsFit ==
    \A r \in Requests :
      /\ hook[r].pc = "idle" => r \notin issued
      /\ r \notin issued => ~Active(r) /\ mailbox[r] = <<>>
      /\ Active(r) => byRequest[r].ticket = r /\ mailbox[r] = <<>>
      /\ mailbox[r] = <<>> \/ \E m \in Responses : mailbox[r] = <<m>>

\* The waiters of gone are told m and leave, the others stay as they are.
Leaves(gone, m) ==
    \A q \in Requests :
      IF q \in gone
      THEN Active(q) /\ ~Active(q)' /\ mailbox'[q] = <<m>>
      ELSE byRequest'[q] = byRequest[q] /\ mailbox'[q] = mailbox[q]

\* The waiters of gone leave and nobody joins.
Passes(gone, m) == Leaves(gone, m) /\ issued' = issued

\* A request joins with a channel of its own, and the waiters of gone leave.
Joins(r, gone) ==
    /\ r \notin issued /\ issued' = issued \cup {r}
    /\ ~Active(r) /\ Active(r)'
    /\ byRequest'[r].ticket = r
    /\ mailbox'[r] = <<>>
    /\ \A q \in Requests \ {r} :
         IF q \in gone
         THEN Active(q) /\ ~Active(q)' /\ mailbox'[q] = <<"native">>
         ELSE byRequest'[q] = byRequest[q] /\ mailbox'[q] = mailbox[q]

Joining(r) == \E gone \in SUBSET Requests : Joins(r, gone)

\* The channels are those of the requests.
LEMMA AnsweredChannels ==
    ASSUME ServerTypeOK, ChannelsFit, NEW gone \in SUBSET Requests, NEW m \in Responses,
           \A q \in gone : Active(q)
    PROVE  /\ Registry!Answered(gone, m) \in [Requests -> Seq(Responses)]
           /\ \A q \in Requests :
                Registry!Answered(gone, m)[q] = IF q \in gone THEN <<m>> ELSE mailbox[q]
<1>1. \A q \in gone : byRequest[q].ticket = q /\ mailbox[q] = <<>>
  BY DEF ChannelsFit
<1>2. \A q \in Requests : (\E r \in gone : byRequest[r].ticket = q) <=> q \in gone
  BY <1>1
<1>3. Append(<<>>, m) = <<m>> /\ <<m>> \in Seq(Responses)
  OBVIOUS
<1>4. \A q \in Requests : mailbox[q] \in Seq(Responses)
  BY DEF ServerTypeOK, Registry!RegistryTypeOK
<1>5. Registry!Answered(gone, m) =
        [q \in Requests |-> IF q \in gone THEN <<m>> ELSE mailbox[q]]
  BY <1>1, <1>2, <1>3 DEF Registry!Answered
<1> QED BY <1>3, <1>4, <1>5

\* What remove_locked does to the tables.
LEMMA RemovePasses ==
    ASSUME ServerTypeOK, ChannelsFit, NEW gone \in SUBSET Requests, NEW m \in Responses,
           \A q \in gone : Active(q), Registry!Remove(gone, m)
    PROVE  Passes(gone, m) /\ Registry!RegistryTypeOK'
<1>0. /\ byRequest \in [Requests -> Registry!Entry \cup {None}]
      /\ byCorrelation \in [Correlations -> Requests \cup {None}]
      /\ issued \subseteq Requests
  BY DEF ServerTypeOK, Registry!RegistryTypeOK
<1>1. /\ mailbox' \in [Requests -> Seq(Responses)]
      /\ \A q \in Requests : mailbox'[q] = IF q \in gone THEN <<m>> ELSE mailbox[q]
  BY AnsweredChannels DEF Registry!Remove
<1>2. /\ byRequest' \in [Requests -> Registry!Entry \cup {None}]
      /\ \A q \in Requests : byRequest'[q] = IF q \in gone THEN None ELSE byRequest[q]
  BY <1>0 DEF Registry!Remove
<1>3. byCorrelation' \in [Correlations -> Requests \cup {None}]
  BY <1>0 DEF Registry!Remove, Registry!ReleasedKeys
<1>4. issued' = issued
  BY DEF Registry!Remove
<1>5. Passes(gone, m)
  BY <1>1, <1>2, <1>4 DEF Passes, Leaves, Active
<1> QED BY <1>0, <1>1, <1>2, <1>3, <1>4, <1>5 DEF Registry!RegistryTypeOK

\* resolve takes one waiter.
LEMMA ResolvePasses ==
    ASSUME ServerTypeOK, ChannelsFit, NEW r \in Requests, NEW m \in Responses,
           Registry!Resolve(r, m)
    PROVE  Active(r) /\ Passes({r}, m) /\ Registry!RegistryTypeOK'
BY RemovePasses DEF Registry!Resolve, Registry!Active, Active

\* No waiter moves.
LEMMA NonePass ==
    ASSUME ServerTypeOK, UNCHANGED waiterVars
    PROVE  Passes({}, "native") /\ Registry!RegistryTypeOK'
BY DEF ServerTypeOK, Registry!RegistryTypeOK, Passes, Leaves, waiterVars

\* A caller of resolve that ignores NotActive takes one waiter or none.
LEMMA TryPasses ==
    ASSUME ServerTypeOK, ChannelsFit, NEW r \in Requests, TryResolve(r, "native")
    PROVE  /\ \E gone \in SUBSET {r} : Passes(gone, "native")
           /\ ~Active(r)'
           /\ Registry!RegistryTypeOK'
<1>1. CASE Registry!Resolve(r, "native")
  <2>1. Passes({r}, "native") /\ Registry!RegistryTypeOK'
    BY <1>1, ResolvePasses DEF Responses
  <2> QED BY <2>1 DEF Passes, Leaves
<1>2. CASE ~Active(r) /\ UNCHANGED waiterVars
  <2>1. Passes({}, "native") /\ Registry!RegistryTypeOK'
    BY <1>2, NonePass
  <2>2. ~Active(r)'
    BY <1>2 DEF waiterVars, Active
  <2> QED BY <2>1, <2>2
<1> QED BY <1>1, <1>2 DEF TryResolve

\* register_at: one joins, who is due or holds the same key leaves.
LEMMA RegisterJoins ==
    ASSUME ServerTypeOK, ChannelsFit, NEW r \in Requests,
           Registry!Register(r, CorrelationOf[r], Envelope[r].deadline, r, now)
    PROVE  /\ Joining(r)
           /\ Registry!RegistryTypeOK'
<1> DEFINE k == CorrelationOf[r]
           gone == Registry!Due(now) \cup
                     ((Registry!Replaced(r, k, now) \cup {r}) \cap Registry!ActiveRequests)
           new == [correlation |-> k, deadline |-> Envelope[r].deadline, ticket |-> r]
<1>0. /\ byRequest \in [Requests -> Registry!Entry \cup {None}]
      /\ byCorrelation \in [Correlations -> Requests \cup {None}]
      /\ issued \subseteq Requests
  BY DEF ServerTypeOK, Registry!RegistryTypeOK
<1>1. /\ r \notin issued
      /\ byRequest' = [q \in Requests |-> IF q = r THEN new
                                          ELSE IF q \in gone THEN None ELSE byRequest[q]]
      /\ byCorrelation' = [Registry!ReleasedKeys(gone) EXCEPT ![k] = r]
      /\ mailbox' = Registry!Answered(gone, "native")
      /\ issued' = issued \cup {r}
  BY DEF Registry!Register
<1>2. gone \in SUBSET Requests /\ \A q \in gone : Active(q)
  BY DEF Registry!Due, Registry!ActiveRequests, Registry!Active, Active
<1>3. ~Active(r) /\ mailbox[r] = <<>>
  BY <1>1 DEF ChannelsFit
<1>4. new \in Registry!Entry /\ new # None /\ new.ticket = r /\ k \in Correlations
  BY LoopAssumption DEF LoopAssumption, Registry!Entry
<1>5. Registry!ReleasedKeys(gone) \in [Correlations -> Requests \cup {None}]
  BY <1>0 DEF Registry!ReleasedKeys
<1> HIDE DEF gone, new, k
<1>6. /\ mailbox' \in [Requests -> Seq(Responses)]
      /\ \A q \in Requests : mailbox'[q] = IF q \in gone THEN <<"native">> ELSE mailbox[q]
  BY <1>1, <1>2, AnsweredChannels DEF Responses
<1>7. byRequest' \in [Requests -> Registry!Entry \cup {None}]
  BY <1>0, <1>1, <1>4
<1>8. byCorrelation' \in [Correlations -> Requests \cup {None}]
  BY <1>1, <1>4, <1>5
<1>9. Joins(r, gone)
  BY <1>1, <1>2, <1>3, <1>4, <1>6 DEF Joins, Active
<1> QED BY <1>0, <1>1, <1>2, <1>6, <1>7, <1>8, <1>9 DEF Joining, Registry!RegistryTypeOK

\* The expiry thread takes those that are due.
LEMMA SweepPasses ==
    ASSUME ServerTypeOK, ChannelsFit, SweepWaiters
    PROVE  /\ sweep' \subseteq Requests
           /\ Passes(sweep', "native")
           /\ Registry!RegistryTypeOK'
<1>1. /\ Registry!Due(now) \in SUBSET Requests
      /\ \A q \in Registry!Due(now) : Active(q)
  BY DEF Registry!Due, Registry!ActiveRequests, Registry!Active, Active
<1>2. Registry!Remove(Registry!Due(now), "native") /\ sweep' = Registry!Due(now)
  BY DEF SweepWaiters, Registry!Expire
<1> QED BY <1>1, <1>2, RemovePasses DEF Responses

\* The process takes them all with it.
Dies ==
    /\ \A q \in Requests : ~Active(q)'
    /\ mailbox' = mailbox /\ issued' = issued

LEMMA CrashDies ==
    ASSUME ServerTypeOK, Crash
    PROVE  Dies /\ Registry!RegistryTypeOK'
BY DEF ServerTypeOK, Registry!RegistryTypeOK, Crash, Dies, Active

\* A handler sends what it was asked to send.
Sends(h) ==
    LET j == job[h]
    IN  /\ \/ JobDecide(h) /\ j.pc = "decide" /\ JobEnds(h)
           \/ JobAnswer(h) /\ j.pc = "answer" /\ JobGoes(h, "ack")
        /\ j.request \in Requests
        /\ j.action \in Responses
        /\ Active(j.request)
        /\ Passes({j.request}, j.action)

\* What the Runtime does to the waiters: only a handler tells one anything but to
\* go on by itself.
ServerPasses ==
    \/ \E gone \in SUBSET Requests : Passes(gone, "native")
    \/ \E h \in Handlers : Sends(h)
    \/ Crash /\ Dies

LEMMA JobWaiters ==
    ASSUME ServerTypeOK, JobsFit, ChannelsFit, NEW h \in Handlers, JobStep(h)
    PROVE  ServerPasses /\ Registry!RegistryTypeOK'
<1> DEFINE j == job[h]
<1>a. CASE UNCHANGED waiterVars
  BY <1>a, NonePass DEF ServerPasses
<1>1. CASE JobDecide(h)
  <2>1. j.request \in Requests /\ j.action \in Responses /\ j.pc = "decide"
    BY <1>1 DEF JobDecide, JobsFit, JobFit, Responses
  <2>2. CASE Registry!Resolve(j.request, j.action) /\ JobEnds(h)
    <3>1. /\ Active(j.request) /\ Passes({j.request}, j.action)
          /\ Registry!RegistryTypeOK'
      BY <2>1, <2>2, ResolvePasses
    <3>2. Sends(h)
      BY <1>1, <2>1, <2>2, <3>1 DEF Sends
    <3> QED BY <3>1, <3>2 DEF ServerPasses
  <2> QED BY <1>1, <1>a, <2>2 DEF JobDecide
<1>2. CASE JobAnswer(h)
  <2>1. j.request \in Requests /\ j.action \in Responses /\ j.pc = "answer"
    BY <1>2 DEF JobAnswer, JobsFit, JobFit, Responses
  <2>2. CASE Registry!Resolve(j.request, j.action) /\ JobGoes(h, "ack")
    <3>1. /\ Active(j.request) /\ Passes({j.request}, j.action)
          /\ Registry!RegistryTypeOK'
      BY <2>1, <2>2, ResolvePasses
    <3>2. Sends(h)
      BY <1>2, <2>1, <2>2, <3>1 DEF Sends
    <3> QED BY <3>1, <3>2 DEF ServerPasses
  <2> QED BY <1>2, <1>a, <2>2 DEF JobAnswer
<1>3. CASE JobHandBack(h)
  <2>1. j.request \in Requests /\ TryResolve(j.request, "native")
    BY <1>3 DEF JobHandBack, JobsFit, JobFit
  <2> QED BY <2>1, TryPasses DEF ServerPasses
<1>4. CASE \/ JobClaim(h) \/ JobProbe(h) \/ JobCommit(h) \/ JobExpire(h) \/ JobUndo(h) \/ JobAck(h)
  BY <1>4, <1>a DEF JobClaim, JobProbe, JobCommit, JobExpire, JobUndo, JobAck
<1> QED BY <1>1, <1>2, <1>3, <1>4 DEF JobStep

LEMMA ServerWaiters ==
    ASSUME ServerTypeOK, JobsFit, ChannelsFit, ServerTurn
    PROVE  ServerPasses /\ Registry!RegistryTypeOK'
<1>a. CASE UNCHANGED waiterVars
  BY <1>a, NonePass DEF ServerPasses
<1>b. ASSUME NEW r \in Requests, TryResolve(r, "native")
      PROVE  ServerPasses /\ Registry!RegistryTypeOK'
  BY <1>b, TryPasses DEF ServerPasses
<1>1. ASSUME NEW h \in Handlers, JobStep(h) \/ JobStarts(h)
      PROVE  ServerPasses /\ Registry!RegistryTypeOK'
  BY <1>1, <1>a, JobWaiters, StartKeeps
<1>2. ASSUME NEW e \in Events, EventIngest(e) \/ EventPassThrough(e)
      PROVE  ServerPasses /\ Registry!RegistryTypeOK'
  <2>1. CASE EventPassThrough(e)
    BY <1>b, <2>1 DEF EventPassThrough, ServerTypeOK, DeliveryType
  <2> QED BY <1>2, <1>a, <2>1 DEF EventIngest
<1>3. CASE SweepWaiters
  BY <1>3, SweepPasses DEF ServerPasses
<1>4. CASE Crash
  BY <1>4, CrashDies DEF ServerPasses
<1>5. CASE ReleaseForRestart
  BY <1>5, <1>b DEF ReleaseForRestart, ServerTypeOK, LeavingType
<1>6. CASE SweepItem \/ (PlainMove /\ ~ReleaseForRestart)
  <2>1. UNCHANGED waiterVars
    BY <1>6 DEF SweepItem, PlainMove, AttendMove, Attend, Wake, Tick, BeginRestart,
         ReconcileForRestart, Startup, loopVars
  <2> QED BY <2>1, <1>a
<1> QED BY <1>1, <1>2, <1>3, <1>4, <1>5, <1>6 DEF ServerTurn

\* Of the connections, one that registers joins; the others pass waiters through.
LEMMA HookPasses ==
    ASSUME LoopTypeOK, ChannelsFit, NEW r \in Requests, HookMove(r), ~HookRegister(r)
    PROVE  (\E gone \in SUBSET Requests : Passes(gone, "native")) /\ Registry!RegistryTypeOK'
<1>1. CASE HookRefused(r) \/ HookGiveUp(r)
  BY <1>1, LoopServer, TryPasses DEF HookRefused, HookGiveUp
<1>2. CASE \/ HookExpireReplaced(r) \/ HookIngest(r) \/ HookReceive(r) \/ HookTimeout(r)
           \/ HookExpire(r) \/ HookClose(r) \/ AgentGivesUp(r) \/ AgentExpire(r)
           \/ AgentUnconfirm(r) \/ ClientGone(r)
  <2>1. UNCHANGED waiterVars
    BY <1>2 DEF HookExpireReplaced, HookIngest, HookReceive, HookTimeout, HookExpire,
         HookClose, AgentGivesUp, AgentExpire, AgentUnconfirm, ClientGone
  <2> QED BY <2>1, LoopServer, NonePass
<1> QED BY <1>1, <1>2 DEF HookMove, HookStep

LEMMA RelayPasses ==
    ASSUME LoopTypeOK, ChannelsFit, NEW r \in ByAgent, RelayMove(r)
    PROVE  (\E gone \in SUBSET Requests : Passes(gone, "native")) /\ Registry!RegistryTypeOK'
<1>0. r \in Requests
  BY LoopAssumption DEF LoopAssumption
<1>1. CASE AgentCloses(r)
  BY <1>0, <1>1, LoopServer, TryPasses DEF AgentCloses, TryResolve
<1>2. CASE AgentCloseExpires(r) \/ AgentCloseUnconfirms(r)
  <2>1. UNCHANGED waiterVars
    BY <1>2 DEF AgentCloseExpires, AgentCloseUnconfirms
  <2> QED BY <2>1, LoopServer, NonePass
<1> QED BY <1>1, <1>2 DEF RelayMove

-----------------------------------------------------------------------------
(* The Runtime, whatever the threads are that wait on a request *)

\* What such a thread may do, of a Hook, of a relay or of a managed connection.
ConnectionMove ==
    /\ UNCHANGED <<processVars, job, delivery, sweep>>
    /\ \/ \E r \in Requests, fresh \in BOOLEAN : IngestRequest(r, fresh)
       \/ \E r \in Requests : ResolveManaged(r)
       \/ ConnectionRest
    /\ \/ \E gone \in SUBSET Requests : Passes(gone, "native")
       \/ \E r \in Requests : Joining(r)
    /\ Registry!RegistryTypeOK'

Turn == ConnectionMove \/ ServerTurn

\* What every step does to the waiters.
WaitersMove ==
    \/ \E gone \in SUBSET Requests : Passes(gone, "native")
    \/ \E h \in Handlers : Sends(h)
    \/ \E r \in Requests : Joining(r)
    \/ Crash /\ Dies

LEMMA TurnWaiters ==
    ASSUME ServerTypeOK, JobsFit, ChannelsFit, Turn
    PROVE  WaitersMove /\ Registry!RegistryTypeOK'
BY ServerWaiters DEF Turn, ConnectionMove, ServerPasses, WaitersMove

\* The steps of the loop are such steps.
LEMMA LoopTurns ==
    ASSUME LoopTypeOK, ChannelsFit, [LoopNext]_loopVars
    PROVE  Turn
<1>1. ASSUME NEW r \in Requests, HookMove(r)
      PROVE  ConnectionMove
  <2>1. UNCHANGED <<processVars, job, delivery, sweep>>
    BY <1>1, HookKeeps
  <2>2. (\E fresh \in BOOLEAN : IngestRequest(r, fresh)) \/ ConnectionRest
    BY <1>1, HookStores DEF HookIngest
  <2>3. /\ (\E gone \in SUBSET Requests : Passes(gone, "native")) \/ Joining(r)
        /\ Registry!RegistryTypeOK'
    BY <1>1, LoopServer, HookPasses, RegisterJoins DEF HookRegister
  <2> QED BY <2>1, <2>2, <2>3 DEF ConnectionMove
<1>2. ASSUME NEW r \in ByAgent, RelayMove(r)
      PROVE  ConnectionMove
  <2>1. UNCHANGED <<processVars, job, delivery, sweep>>
    BY <1>2 DEF RelayMove, AgentCloses, AgentCloseExpires, AgentCloseUnconfirms
  <2> QED BY <1>2, <2>1, RelayStores, RelayPasses DEF ConnectionMove
<1> QED BY <1>1, <1>2, Owners DEF Turn, ServerTurn

\* Who joins has just registered.
LEMMA LoopJoins ==
    ASSUME LoopTypeOK, JobsFit, ChannelsFit, [LoopNext]_loopVars,
           NEW r \in Requests, Joining(r)
    PROVE  HookRegister(r)
<1>0. r \notin issued /\ issued' = issued \cup {r}
  BY DEF Joining, Joins
<1>1. ASSUME NEW q \in Requests, HookMove(q)
      PROVE  HookRegister(q) /\ q = r
  <2>1. CASE HookRegister(q)
    <3>1. Joining(q)
      BY <2>1, LoopServer, RegisterJoins DEF HookRegister
    <3> QED BY <1>0, <2>1, <3>1 DEF Joining, Joins
  <2>2. CASE ~HookRegister(q)
    BY <1>0, <1>1, <2>2, HookPasses DEF Passes
  <2> QED BY <2>1, <2>2
<1>2. ASSUME NEW q \in ByAgent, RelayMove(q)
      PROVE  FALSE
  BY <1>0, <1>2, RelayPasses DEF Passes
<1>3. ~ServerTurn
  BY <1>0, LoopServer, ServerWaiters DEF ServerPasses, Passes, Sends, Dies
<1> QED BY <1>1, <1>2, <1>3, Owners DEF ServerTurn

\* Steps of others leave a handler alone, unless the process dies.
LEMMA OthersKeepJobs ==
    ASSUME Turn, ~(\E h \in Handlers : JobStep(h) \/ JobStarts(h)), ~Crash
    PROVE  job' = job
<1>1. ASSUME NEW e \in Events, EventIngest(e) \/ EventPassThrough(e)
      PROVE  job' = job
  BY <1>1 DEF EventIngest, EventPassThrough
<1>2. CASE SweepWaiters \/ SweepItem
  BY <1>2 DEF SweepWaiters, SweepItem
<1>3. CASE PlainMove
  BY <1>3, PlainKeeps DEF threadVars
<1> QED BY <1>1, <1>2, <1>3 DEF Turn, ConnectionMove, ServerTurn

\* Steps that are not those of a connection move no connection, unless the
\* process dies.
LEMMA OthersKeepHooks ==
    ASSUME LoopTypeOK, [LoopNext]_loopVars,
           ~(\E r \in Requests : HookMove(r)), ~Crash
    PROVE  hook' = hook /\ client' = client
<1>1. ASSUME NEW r \in ByAgent, RelayMove(r)
      PROVE  hook' = hook /\ client' = client
  BY <1>1 DEF RelayMove, AgentCloses, AgentCloseExpires, AgentCloseUnconfirms
<1>2. ASSUME NEW h \in Handlers, JobStep(h) \/ JobStarts(h)
      PROVE  hook' = hook /\ client' = client
  BY <1>2, LoopServer, JobKeeps, StartKeeps
<1>3. ASSUME NEW e \in Events, EventIngest(e) \/ EventPassThrough(e)
      PROVE  hook' = hook /\ client' = client
  BY <1>3 DEF EventIngest, EventPassThrough
<1>4. CASE SweepWaiters \/ SweepItem
  BY <1>4 DEF SweepWaiters, SweepItem
<1>5. CASE PlainMove
  BY <1>5, PlainKeeps DEF threadVars
<1> QED BY <1>1, <1>2, <1>3, <1>4, <1>5, Owners

\* A connection connects once, and goes nowhere from its end.
LEMMA HookPath ==
    ASSUME LoopTypeOK, [LoopNext]_loopVars, NEW r \in Requests
    PROVE  /\ hook'[r].pc = "idle" => hook[r].pc = "idle" /\ ~HookRegister(r)
           /\ hook[r].pc \in {"done", "lost"} => hook'[r].pc = hook[r].pc
<1>0. hook \in [Requests -> HookType]
  BY DEF LoopTypeOK
<1>1. CASE HookMove(r)
  <2>1. CASE HookRegister(r)
    BY <1>0, <2>1 DEF HookRegister
  <2>2. CASE ClientGone(r)
    BY <2>2 DEF ClientGone, HookRegister
  <2>3. CASE HookStep(r)
    <3>1. hook[r].pc \notin {"idle", "done", "lost"}
      BY <2>3 DEF HookStep, HookExpireReplaced, HookIngest, HookRefused, HookReceive,
         HookTimeout, HookGiveUp, HookExpire, HookClose, AgentGivesUp, AgentExpire,
         AgentUnconfirm
    <3>2. \E pc \in HookPC \ {"idle"} : HookGoes(r, pc)
      <4>1. CASE HookReceive(r) \/ HookExpire(r)
        BY <4>1 DEF HookReceive, HookExpire, HookPC
      <4> QED BY <2>3, <4>1 DEF HookStep, HookExpireReplaced, HookIngest, HookRefused,
         HookTimeout, HookGiveUp, HookClose, AgentGivesUp, AgentExpire, AgentUnconfirm, HookPC
    <3>3. hook'[r].pc # "idle"
      BY <1>0, <3>2 DEF HookGoes, HookType
    <3> QED BY <3>1, <3>3
  <2> QED BY <1>1, <2>1, <2>2, <2>3 DEF HookMove
<1>2. ASSUME NEW q \in Requests \ {r}, HookMove(q), ~HookMove(r)
      PROVE  hook'[r] = hook[r] /\ ~HookRegister(r)
  BY <1>2, HookKeeps DEF HookMove
<1>3. CASE Crash
  BY <1>0, <1>3 DEF Crash, HookType, HookRegister
<1>4. CASE ~(\E q \in Requests : HookMove(q)) /\ ~Crash
  BY <1>4, OthersKeepHooks DEF HookMove
<1> QED BY <1>1, <1>2, <1>3, <1>4

\* Every step keeps one channel per request, with one response at most, if a
\* request that joins has left the idle state for good.
LEMMA ChannelsStep ==
    ASSUME ServerTypeOK, JobsFit, ChannelsFit, Turn,
           \A r \in Requests : hook'[r].pc = "idle" => hook[r].pc = "idle" /\ ~Joining(r)
    PROVE  ChannelsFit'
<1> SUFFICES ASSUME NEW r \in Requests
             PROVE  /\ hook'[r].pc = "idle" => r \notin issued'
                    /\ r \notin issued' => ~Active(r)' /\ mailbox'[r] = <<>>
                    /\ Active(r)' => byRequest'[r].ticket = r /\ mailbox'[r] = <<>>
                    /\ mailbox'[r] = <<>> \/ \E m \in Responses : mailbox'[r] = <<m>>
  BY DEF ChannelsFit
<1>0. /\ hook'[r].pc = "idle" => hook[r].pc = "idle" /\ ~Joining(r)
      /\ hook[r].pc = "idle" => r \notin issued
      /\ r \notin issued => ~Active(r) /\ mailbox[r] = <<>>
      /\ Active(r) => byRequest[r].ticket = r /\ mailbox[r] = <<>>
      /\ mailbox[r] = <<>> \/ \E m \in Responses : mailbox[r] = <<m>>
  BY DEF ChannelsFit
<1>1. ASSUME NEW gone \in SUBSET Requests, NEW m \in Responses, Passes(gone, m)
      PROVE  /\ hook'[r].pc = "idle" => r \notin issued'
             /\ r \notin issued' => ~Active(r)' /\ mailbox'[r] = <<>>
             /\ Active(r)' => byRequest'[r].ticket = r /\ mailbox'[r] = <<>>
             /\ mailbox'[r] = <<>> \/ \E n \in Responses : mailbox'[r] = <<n>>
  <2>1. CASE r \in gone
    BY <1>0, <1>1, <2>1 DEF Passes, Leaves
  <2>2. CASE r \notin gone
    BY <1>0, <1>1, <2>2 DEF Passes, Leaves, Active
  <2> QED BY <2>1, <2>2
<1>2. ASSUME NEW h \in Handlers, Sends(h)
      PROVE  \E gone \in SUBSET Requests, m \in Responses : Passes(gone, m)
  BY <1>2 DEF Sends
<1>3. ASSUME NEW q \in Requests, NEW gone \in SUBSET Requests, Joins(q, gone)
      PROVE  /\ hook'[r].pc = "idle" => r \notin issued'
             /\ r \notin issued' => ~Active(r)' /\ mailbox'[r] = <<>>
             /\ Active(r)' => byRequest'[r].ticket = r /\ mailbox'[r] = <<>>
             /\ mailbox'[r] = <<>> \/ \E n \in Responses : mailbox'[r] = <<n>>
  <2>1. CASE r = q
    BY <1>0, <1>3, <2>1 DEF Joining, Joins
  <2>2. CASE r # q /\ r \in gone
    BY <1>0, <1>3, <2>2 DEF Joins, Responses
  <2>3. CASE r # q /\ r \notin gone
    BY <1>0, <1>3, <2>3 DEF Joins, Active
  <2> QED BY <2>1, <2>2, <2>3
<1>4. CASE Dies
  BY <1>0, <1>4 DEF Dies
<1>5. "native" \in Responses
  BY DEF Responses
<1> HIDE DEF Responses
<1> QED BY <1>1, <1>2, <1>3, <1>4, <1>5, TurnWaiters DEF WaitersMove, Joining

-----------------------------------------------------------------------------
(* The invariant of the loop *)

\* A handler that starts knows its command and its request.
LEMMA StartFits ==
    ASSUME ServerTypeOK, NEW h \in Handlers, JobStarts(h)
    PROVE  JobFit(h)'
<1>0. now \in 0..MaxTime /\ now \in Nat /\ h \in DOMAIN job
  BY LoopAssumption DEF LoopAssumption, ServerTypeOK
<1>1. ASSUME NEW c \in Commands, NEW r \in Requests, NEW action \in Actions,
             NEW delay \in Delays, Submit(h, c, r, action, delay)
      PROVE  JobFit(h)'
  <2> DEFINE d == IF action = "pass_through" THEN 0 ELSE delay
             pc == IF IsApproval(r) /\ Active(r) THEN "claim" ELSE "stale"
  <2>1. /\ job'[h].pc = pc /\ job'[h].command = c /\ job'[h].request = r
        /\ job'[h].action = action /\ job'[h].at = now /\ job'[h].delay = d
    BY <1>0, <1>1 DEF Submit, NoJob
  <2>2. pc = "stale" \/ (pc = "claim" /\ IsApproval(r))
    OBVIOUS
  <2>3. \E e \in Delays : action # "pass_through" => d = e
    OBVIOUS
  <2> HIDE DEF d, pc
  <2> QED BY <1>0, <2>1, <2>2, <2>3 DEF JobFit, IsApproval
<1>2. ASSUME NEW c \in Commands, UndoRequest(h, c)
      PROVE  JobFit(h)'
  <2>1. job'[h].pc = "undo" /\ job'[h].command = c /\ job'[h].at = now
    BY <1>0, <1>2 DEF UndoRequest, NoJob
  <2> QED BY <1>0, <2>1 DEF JobFit
<1>3. ASSUME NEW q \in Requests, NEW response \in {"answer", "native"}, SubmitAnswer(h, q, response)
      PROVE  JobFit(h)'
  <2>1. job'[h].pc = "answer" /\ job'[h].request = q /\ job'[h].action = response /\ ~IsApproval(q)
    BY <1>0, <1>3 DEF SubmitAnswer, NoJob
  <2> QED BY <2>1 DEF JobFit, IsApproval
<1> QED BY <1>1, <1>2, <1>3 DEF JobStarts

\* A handler that ended fits anything.
LEMMA IdleFits == ASSUME NEW h \in Handlers, job'[h] = NoJob PROVE JobFit(h)'
BY DEF JobFit, NoJob

\* A handler that goes on still does.
LEMMA JobFits ==
    ASSUME ServerTypeOK, JobsFit, NEW h \in Handlers, JobStep(h)
    PROVE  JobFit(h)'
<1> DEFINE j == job[h]
<1>0. /\ JobFit(h) /\ j \in JobType /\ h \in DOMAIN job
      /\ now \in 0..MaxTime /\ MaxTime \in Nat
  BY LoopAssumption DEF LoopAssumption, ServerTypeOK, JobsFit
<1>a. CASE JobEnds(h)
  BY <1>a, JobEnded, IdleFits
<1>b. ASSUME NEW pc \in JobPC, JobGoes(h, pc)
      PROVE  job'[h].pc = pc /\ GoesOn(h)
  BY <1>b, JobGoesOn
<1>1. CASE JobClaim(h)
  <2> DEFINE pc == IF j.action = "pass_through" THEN "handback"
                   ELSE IF j.delay = 0 THEN "probe" ELSE "sleep"
  <2>1. JobEnds(h) \/ JobGoes(h, pc)
    BY <1>1 DEF JobClaim
  <2>2. CASE JobGoes(h, pc)
    <3>1. job'[h].pc = pc /\ GoesOn(h)
      BY <1>b, <2>2 DEF JobPC
    <3>2. /\ j.command \in Commands /\ j.request \in Requests /\ j.at \in 0..MaxTime
          /\ j.action \in Actions /\ j.at \in Nat
      BY <1>0, <1>1 DEF JobClaim, JobFit, JobType
    <3>3. CASE j.action = "pass_through"
      BY <3>1, <3>2, <3>3 DEF JobFit, GoesOn
    <3>4. CASE j.action # "pass_through" /\ j.delay = 0
      BY <3>1, <3>2, <3>4 DEF JobFit, GoesOn
    <3>5. CASE j.action # "pass_through" /\ j.delay # 0
      BY <3>1, <3>2, <3>5 DEF JobFit, GoesOn
    <3> QED BY <3>3, <3>4, <3>5
  <2> QED BY <1>a, <2>1, <2>2
<1>2. CASE JobProbe(h)
  <2>1. j.command \in Commands /\ j.request \in Requests /\ j.action \in Decisions
    BY <1>0, <1>2 DEF JobProbe, MayWake, JobFit
  <2>2. j.at + j.delay \in 0..MaxTime
    BY <1>0, <1>2 DEF JobProbe, MayWake, JobFit, JobType
  <2>3. /\ job'[h].pc = "commit" /\ job'[h].command = j.command /\ job'[h].request = j.request
        /\ job'[h].action = j.action /\ job'[h].at = j.at /\ job'[h].delay = j.delay
    BY <1>0, <1>2 DEF JobProbe, JobType
  <2> QED BY <2>1, <2>2, <2>3 DEF JobFit
<1>3. CASE JobCommit(h)
  <2>1. CASE JobGoes(h, "decide")
    <3>1. job'[h].pc = "decide" /\ GoesOn(h)
      BY <1>b, <2>1 DEF JobPC
    <3> QED BY <1>0, <1>3, <3>1 DEF JobCommit, JobFit, GoesOn
  <2> QED BY <1>3, <1>a, <2>1 DEF JobCommit
<1>4. CASE JobDecide(h)
  <2>1. CASE JobGoes(h, "stale")
    <3>1. job'[h].pc = "stale" /\ GoesOn(h)
      BY <1>b, <2>1 DEF JobPC
    <3> QED BY <1>0, <1>4, <3>1 DEF JobDecide, JobFit, GoesOn
  <2> QED BY <1>4, <1>a, <2>1 DEF JobDecide
<1>5. CASE JobAnswer(h)
  <2>1. PICK pc \in {"ack", "stale"} : JobGoes(h, pc)
    BY <1>5 DEF JobAnswer
  <2>2. job'[h].pc = pc /\ GoesOn(h)
    BY <1>b, <2>1 DEF JobPC
  <2> QED BY <1>0, <1>5, <2>2 DEF JobAnswer, JobFit, GoesOn, IsApproval
<1>6. CASE JobHandBack(h) \/ JobExpire(h) \/ JobUndo(h) \/ JobAck(h)
  BY <1>6, <1>a DEF JobHandBack, JobExpire, JobUndo, JobAck
<1> QED BY <1>1, <1>2, <1>3, <1>4, <1>5, <1>6 DEF JobStep

LEMMA JobsStep ==
    ASSUME ServerTypeOK, JobsFit, Turn
    PROVE  JobsFit' /\ job' \in [Handlers -> JobType]
<1>a. ASSUME NEW h \in Handlers, job'[h] = job[h]
      PROVE  JobFit(h)'
  BY <1>a DEF JobsFit, JobFit, IsApproval
<1>1. ASSUME NEW h \in Handlers, JobStep(h) \/ JobStarts(h)
      PROVE  JobsFit' /\ job' \in [Handlers -> JobType]
  <2>1. JobFit(h)'
    BY <1>1, StartFits, JobFits
  <2>2. job' \in [Handlers -> JobType] /\ \A g \in Handlers \ {h} : job'[g] = job[g]
    BY <1>1, JobKeeps, StartKeeps
  <2> QED BY <1>a, <2>1, <2>2 DEF JobsFit
<1>2. CASE Crash
  <2>1. job' = [h \in Handlers |-> NoJob]
    BY <1>2 DEF Crash
  <2>2. NoJob \in JobType
    BY DEF NoJob, JobType, JobPC
  <2>3. \A h \in Handlers : job'[h] = NoJob
    BY <2>1
  <2>4. JobsFit'
    BY <2>3, IdleFits DEF JobsFit
  <2> HIDE DEF NoJob
  <2> QED BY <2>1, <2>2, <2>4
<1>3. CASE ~(\E h \in Handlers : JobStep(h) \/ JobStarts(h)) /\ ~Crash
  <2>1. job' = job
    BY <1>3, OthersKeepJobs
  <2> QED BY <1>a, <2>1 DEF JobsFit, ServerTypeOK
<1> QED BY <1>1, <1>2, <1>3

\* What the Runtime knows at every step: types, what its handlers are at, one
\* channel per request, and a store whose commands, items and counts agree.
ServerInv ==
    /\ ServerTypeOK
    /\ JobsFit
    /\ ChannelsFit
    /\ DecisionInv

\* A step of the Runtime is a transaction of the store or none.
LEMMA TurnIsStore == ServerInv /\ Turn => [StoreNext]_storeVars
<1> SUFFICES ASSUME ServerInv, Turn PROVE [StoreNext]_storeVars
  OBVIOUS
<1>1. CASE ConnectionMove
  BY <1>1, ConnectionIsRest, RestIsStore DEF ConnectionMove, StoreNext
<1>2. CASE ServerTurn
  BY <1>2, ServerStores, RestIsStore DEF ServerInv, DecisionInv
<1> QED BY <1>1, <1>2 DEF Turn

\* The same of the loop, with the types of its connections.
LoopInv ==
    /\ LoopTypeOK
    /\ JobsFit
    /\ ChannelsFit
    /\ DecisionInv

LEMMA LoopKnowsServer == LoopInv => ServerInv
BY LoopServer DEF LoopInv, ServerInv

LEMMA LoopIsServer == LoopInv /\ [LoopNext]_loopVars => ServerInv /\ Turn
BY LoopKnowsServer, LoopTurns DEF LoopInv

LEMMA LoopIsStore == LoopInv /\ [LoopNext]_loopVars => [StoreNext]_storeVars
BY LoopIsServer, TurnIsStore

\* The connections and their clients.
LEMMA HookTypes ==
    ASSUME LoopTypeOK, [LoopNext]_loopVars
    PROVE  /\ hook' \in [Requests -> HookType]
           /\ client' \in [Requests -> ClientStates]
<1>0. /\ hook \in [Requests -> HookType] /\ client \in [Requests -> ClientStates]
  BY DEF LoopTypeOK, ClientStates
<1>1. CASE \E r \in Requests : HookMove(r)
  BY <1>1, HookKeeps
<1>2. CASE Crash
  <2>1. hook' \in [Requests -> HookType]
    BY <1>0, <1>2 DEF Crash, HookType, HookPC
  <2>2. client' \in [Requests -> ClientStates]
    BY <1>0, <1>2 DEF Crash, ClientStates, Responses
  <2> QED BY <2>1, <2>2
<1>3. CASE ~(\E r \in Requests : HookMove(r)) /\ ~Crash
  BY <1>0, <1>3, OthersKeepHooks
<1> QED BY <1>1, <1>2, <1>3

\* The process, and the threads that are not handlers or connections.
LEMMA RestTypes ==
    ASSUME ServerTypeOK, ChannelsFit, Turn
    PROVE  /\ now' \in 0..MaxTime /\ up' \in BOOLEAN /\ restarts' \in 0..MaxRestarts
           /\ leaving' \in LeavingType
           /\ delivery' \in [Events -> DeliveryType]
           /\ sweep' \subseteq Requests
<1> DEFINE Goal ==
           /\ now' \in 0..MaxTime /\ up' \in BOOLEAN /\ restarts' \in 0..MaxRestarts
           /\ leaving' \in LeavingType
           /\ delivery' \in [Events -> DeliveryType]
           /\ sweep' \subseteq Requests
<1>0. /\ now \in 0..MaxTime /\ up \in BOOLEAN /\ restarts \in 0..MaxRestarts
      /\ leaving \in LeavingType
      /\ delivery \in [Events -> DeliveryType]
      /\ sweep \subseteq Requests
      /\ MaxTime \in Nat /\ MaxRestarts \in Nat
  BY LoopAssumption DEF LoopAssumption, ServerTypeOK
<1>a. CASE UNCHANGED <<processVars, delivery, sweep>>
  BY <1>0, <1>a DEF processVars
<1>1. CASE ConnectionMove
  BY <1>1, <1>a DEF ConnectionMove
<1>2. ASSUME NEW h \in Handlers, JobStep(h) \/ JobStarts(h)
      PROVE  Goal
  BY <1>2, <1>a, JobKeeps, StartKeeps
<1>3. ASSUME NEW e \in Events, EventIngest(e) \/ EventPassThrough(e)
      PROVE  Goal
  <2>1. UNCHANGED <<processVars, sweep>>
    BY <1>3 DEF EventIngest, EventPassThrough
  <2>2. PICK row \in DeliveryType : delivery' = [delivery EXCEPT ![e] = row]
    <3>1. CASE EventIngest(e)
      <4>1. PICK handled \in HandledSets(EventOf[e].session, EventOf[e].kind, EventOf[e].tool) :
              delivery' = [delivery EXCEPT ![e] = [pc |-> "answer", todo |-> handled]]
        BY <3>1 DEF EventIngest
      <4>2. [pc |-> "answer", todo |-> handled] \in DeliveryType
        BY HandledAreRequests DEF DeliveryType
      <4> QED BY <4>1, <4>2
    <3>2. CASE EventPassThrough(e)
      <4>1. PICK r \in delivery[e].todo : delivery' = [delivery EXCEPT ![e].todo = @ \ {r}]
        BY <3>2 DEF EventPassThrough
      <4>2. [delivery[e] EXCEPT !.todo = @ \ {r}] \in DeliveryType
        BY <1>0 DEF DeliveryType
      <4>3. delivery' = [delivery EXCEPT ![e] = [delivery[e] EXCEPT !.todo = @ \ {r}]]
        BY <1>0, <4>1
      <4> QED BY <4>2, <4>3
    <3> QED BY <1>3, <3>1, <3>2
  <2>3. delivery' \in [Events -> DeliveryType]
    BY <1>0, <2>2
  <2> QED BY <1>0, <2>1, <2>3 DEF processVars
<1>4. CASE SweepWaiters
  BY <1>0, <1>4, SweepPasses DEF SweepWaiters, processVars
<1>5. CASE SweepItem
  BY <1>0, <1>5 DEF SweepItem, processVars
<1>6. CASE Crash
  <2>1. delivery' \in [Events -> DeliveryType]
    BY <1>0, <1>6 DEF Crash, DeliveryType
  <2>2. /\ now' = now /\ up' = FALSE /\ restarts' = restarts + 1 /\ restarts < MaxRestarts
        /\ leaving' = Staying /\ sweep' = {}
    BY <1>6 DEF Crash
  <2>3. Staying \in LeavingType
    BY DEF Staying, LeavingType
  <2>5. now' \in 0..MaxTime /\ restarts' \in 0..MaxRestarts
    <3>1. /\ restarts \in 0..MaxRestarts /\ restarts < MaxRestarts /\ MaxRestarts \in Nat
          /\ restarts' = restarts + 1 /\ now \in 0..MaxTime /\ now' = now
      BY <1>0, <2>2
    <3> QED BY <3>1
  <2>7. up' \in BOOLEAN
    BY <2>2
  <2>6. leaving' \in LeavingType /\ sweep' \subseteq Requests
    BY <2>2, <2>3
  <2> QED BY <2>1, <2>5, <2>6, <2>7
<1>7. CASE PlainMove
  <2>1. UNCHANGED <<delivery, sweep>>
    BY <1>7, PlainKeeps DEF threadVars
  <2>2. CASE Tick
    BY <1>0, <2>1, <2>2 DEF Tick
  <2>3. CASE BeginRestart \/ ReleaseForRestart \/ ReconcileForRestart
    <3>1. UNCHANGED <<now, up, restarts>>
      BY <2>3 DEF BeginRestart, ReleaseForRestart, ReconcileForRestart
    <3>2. leaving' \in LeavingType
      BY <1>0, <2>3 DEF BeginRestart, ReleaseForRestart, ReconcileForRestart, LeavingType,
                        Registry!ActiveRequests
    <3> QED BY <1>0, <2>1, <3>1, <3>2
  <2>4. CASE Startup
    BY <1>0, <2>1, <2>4 DEF Startup
  <2>5. CASE AttendMove \/ (\E q \in Requests : Wake(q)) \/ UNCHANGED loopVars
    BY <1>a, <2>1, <2>5 DEF AttendMove, Attend, Wake, loopVars
  <2> QED BY <1>7, <2>2, <2>3, <2>4, <2>5 DEF PlainMove
<1> QED BY <1>1, <1>2, <1>3, <1>4, <1>5, <1>6, <1>7 DEF Turn, ServerTurn

\* A step of the Runtime keeps its invariant.
LEMMA ServerStep ==
    ASSUME ServerInv, Turn,
           \A r \in Requests : hook'[r].pc = "idle" => hook[r].pc = "idle" /\ ~Joining(r)
    PROVE  ServerInv'
<1>0. ServerTypeOK /\ JobsFit /\ ChannelsFit /\ DecisionInv
  BY DEF ServerInv
<1>1. DecisionInv'
  BY <1>0, TurnIsStore, DecisionStep
<1>2. ChannelsFit'
  BY <1>0, ChannelsStep
<1>3. JobsFit' /\ job' \in [Handlers -> JobType]
  BY <1>0, JobsStep
<1>4. StoreTypeOK' /\ Registry!RegistryTypeOK'
  BY <1>0, <1>1, TurnWaiters DEF DecisionInv, StoreInv
<1>5. ServerTypeOK'
  BY <1>0, <1>3, <1>4, RestTypes DEF ServerTypeOK
<1> QED BY <1>1, <1>2, <1>3, <1>5 DEF ServerInv

\* The withdrawals of the relays.
LEMMA ClosingTypes ==
    ASSUME LoopTypeOK, [LoopNext]_loopVars
    PROVE  closing' \in [ByAgent -> {"no", "expire", "unconfirm"}]
<1>0. closing \in [ByAgent -> {"no", "expire", "unconfirm"}]
  BY DEF LoopTypeOK
<1>a. CASE closing' = closing
  BY <1>0, <1>a
<1>1. ASSUME NEW r \in Requests, HookMove(r)
      PROVE  closing' = closing
  BY <1>1, HookKeeps
<1>2. CASE \E r \in ByAgent : RelayMove(r)
  BY <1>0, <1>2 DEF RelayMove, AgentCloses, AgentCloseExpires, AgentCloseUnconfirms
<1>3. ASSUME NEW h \in Handlers, JobStep(h) \/ JobStarts(h)
      PROVE  closing' = closing
  BY <1>3, LoopServer, JobKeeps, StartKeeps
<1>4. ASSUME NEW e \in Events, EventIngest(e) \/ EventPassThrough(e)
      PROVE  closing' = closing
  BY <1>4 DEF EventIngest, EventPassThrough
<1>5. CASE SweepWaiters \/ SweepItem
  BY <1>5, <1>a DEF SweepWaiters, SweepItem
<1>6. CASE Crash
  BY <1>6 DEF Crash
<1>7. CASE PlainMove
  BY <1>7, <1>a, PlainKeeps DEF threadVars
<1> QED BY <1>a, <1>1, <1>2, <1>3, <1>4, <1>5, <1>6, <1>7, Owners

LEMMA LoopInvStep == LoopInv /\ [LoopNext]_loopVars => LoopInv'
<1> SUFFICES ASSUME LoopInv, [LoopNext]_loopVars PROVE LoopInv'
  OBVIOUS
<1>1. LoopTypeOK /\ JobsFit /\ ChannelsFit /\ ServerInv /\ Turn
  BY LoopIsServer DEF LoopInv
<1>2. \A r \in Requests : hook'[r].pc = "idle" => hook[r].pc = "idle" /\ ~Joining(r)
  BY <1>1, HookPath, LoopJoins
<1>3. ServerInv'
  BY <1>1, <1>2, ServerStep
<1>4. LoopTypeOK'
  BY <1>1, <1>3, HookTypes, ClosingTypes
  DEF ServerInv, ServerTypeOK, LoopTypeOK, DeliveryType, ClientStates
<1> QED BY <1>3, <1>4 DEF ServerInv, LoopInv

LEMMA LoopInvInit == LoopInit => LoopInv
<1> SUFFICES ASSUME LoopInit PROVE LoopInv
  OBVIOUS
<1>1. DecisionInv
  BY DecisionInit DEF LoopInit
<1>2. JobsFit
  BY DEF LoopInit, JobsFit, JobFit, NoJob
<1>3. ChannelsFit
  BY DEF LoopInit, ChannelsFit, Registry!RegistryInit, Active
<1>4. StoreTypeOK
  BY <1>1 DEF DecisionInv, StoreInv
<1>5. Registry!RegistryTypeOK
  BY EmptySeq DEF LoopInit, Registry!RegistryInit, Registry!RegistryTypeOK
<1>6. /\ now \in 0..MaxTime /\ up \in BOOLEAN /\ restarts \in 0..MaxRestarts
      /\ leaving \in LeavingType
  BY LoopAssumption DEF LoopAssumption, LoopInit, LeavingType, Staying
<1>7. job \in [Handlers -> JobType]
  <2>1. NoJob \in JobType
    BY DEF NoJob, JobType, JobPC
  <2> HIDE DEF NoJob
  <2> QED BY <2>1 DEF LoopInit
<1>8. /\ hook \in [Requests -> HookType]
      /\ client \in [Requests -> {"idle", "asking"} \cup Responses]
      /\ delivery \in [Events -> [pc : {"idle", "answer"}, todo : SUBSET Requests]]
      /\ sweep \subseteq Requests
      /\ closing \in [ByAgent -> {"no", "expire", "unconfirm"}]
  BY DEF LoopInit, HookType, HookPC
<1>9. LoopTypeOK
  BY <1>4, <1>5, <1>6, <1>7, <1>8 DEF LoopTypeOK
<1> QED BY <1>1, <1>2, <1>3, <1>9 DEF LoopInv

LEMMA LoopKeepsInv == LoopSafety => []LoopInv
BY LoopInvInit, LoopInvStep, PTL DEF LoopSafety

\* Every variable of the loop keeps its type: connections, handlers, the
\* registry, the store and the process.
THEOREM LoopTypes == LoopSafety => []LoopTypeOK
<1>1. LoopInv => LoopTypeOK
  BY DEF LoopInv
<1> QED BY <1>1, LoopKeepsInv, PTL

\* Connections, handlers, lifecycle events, the expiry thread and a restart use
\* the store by its transactions only: what is proved of the store, that the
\* first valid decision wins, that decisions and timeouts are counted once and
\* that what ended stays so, holds of the loop.
THEOREM LoopStore == LoopSafety => StoreSpec
<1>1. LoopInit => StoreInit
  BY DEF LoopInit
<1>2. [][LoopNext]_loopVars /\ []LoopInv => [][StoreNext]_storeVars
  BY LoopIsStore, PTL
<1> QED BY <1>1, <1>2, LoopKeepsInv, PTL DEF LoopSafety, StoreSpec

-----------------------------------------------------------------------------
(* Waiters *)

Serving == {"replace", "ingest", "wait", "giveup"}

\* Who waits after a step waited before it or has just registered.
LEMMA ActiveGrows ==
    ASSUME ServerTypeOK, JobsFit, ChannelsFit, Turn,
           NEW r \in Requests, Active(r)'
    PROVE  ~Crash /\ (Active(r) \/ Joining(r))
<1>1. ~Crash
  BY CrashDies DEF Dies
<1>2. ASSUME NEW gone \in SUBSET Requests, NEW m, Passes(gone, m)
      PROVE  Active(r)
  BY <1>2 DEF Passes, Leaves, Active
<1>3. ASSUME NEW q \in Requests, Joining(q)
      PROVE  Active(r) \/ Joining(r)
  <2>1. CASE q = r
    BY <1>3, <2>1
  <2>2. CASE q # r
    BY <1>3, <2>2 DEF Joining, Joins, Active
  <2> QED BY <2>1, <2>2
<1>4. ASSUME NEW h \in Handlers, Sends(h)
      PROVE  \E gone \in SUBSET Requests : Passes(gone, job[h].action)
  BY <1>4 DEF Sends
<1> QED BY <1>1, <1>2, <1>3, <1>4, TurnWaiters DEF WaitersMove

\* Only its end stops the process.
LEMMA UpStays ==
    ASSUME Turn, ~Crash
    PROVE  up' = up \/ (Startup /\ up' = TRUE)
<1>1. CASE ConnectionMove
  BY <1>1 DEF ConnectionMove, processVars
<1>2. ASSUME NEW h \in Handlers, JobStep(h) \/ JobStarts(h)
      PROVE  up' = up
  BY <1>2 DEF JobStep, JobClaim, JobProbe, JobCommit, JobDecide, JobHandBack, JobExpire, JobUndo,
     JobAnswer, JobAck, JobStarts, Submit, UndoRequest, SubmitAnswer, processVars
<1>3. ASSUME NEW e \in Events, EventIngest(e) \/ EventPassThrough(e)
      PROVE  up' = up
  BY <1>3 DEF EventIngest, EventPassThrough, processVars
<1>4. CASE SweepWaiters \/ SweepItem
  BY <1>4 DEF SweepWaiters, SweepItem, processVars
<1>5. CASE PlainMove
  BY <1>5 DEF PlainMove, AttendMove, Attend, Wake, Tick, BeginRestart, ReleaseForRestart,
              ReconcileForRestart, Startup, loopVars, processVars
<1> QED BY <1>1, <1>2, <1>3, <1>4, <1>5 DEF Turn, ServerTurn

LEMMA HookServes ==
    ASSUME LoopTypeOK, ChannelsFit, NEW r \in Requests, HookMove(r),
           Active(r)', Active(r) => hook[r].pc \in Serving
    PROVE  hook'[r].pc \in Serving
<1>0. /\ hook \in [Requests -> HookType]
      /\ Active(r) => mailbox[r] = <<>>
  BY DEF LoopTypeOK, ChannelsFit
<1>a. ASSUME UNCHANGED waiterVars
      PROVE  Active(r)
  BY <1>a DEF waiterVars, Active
<1>b. ~TryResolve(r, "native")
  BY LoopServer, TryPasses
<1>1. CASE HookRegister(r)
  BY <1>0, <1>1 DEF HookRegister, Serving
<1>2. CASE HookExpireReplaced(r)
  BY <1>0, <1>2 DEF HookExpireReplaced, HookGoes, Serving, HookType
<1>3. CASE HookIngest(r)
  BY <1>0, <1>3 DEF HookIngest, HookGoes, Serving, HookType
<1>4. CASE HookRefused(r) \/ HookGiveUp(r)
  BY <1>4, <1>b DEF HookRefused, HookGiveUp
<1>5. CASE HookReceive(r)
  BY <1>0, <1>5, <1>a DEF HookReceive
<1>6. CASE HookTimeout(r) \/ AgentGivesUp(r)
  BY <1>0, <1>6 DEF HookTimeout, AgentGivesUp, HookGoes, Serving, HookType
<1>7. CASE HookExpire(r) \/ HookClose(r) \/ AgentExpire(r) \/ AgentUnconfirm(r)
  BY <1>7, <1>a DEF HookExpire, HookClose, AgentExpire, AgentUnconfirm, Serving
<1>8. CASE ClientGone(r)
  BY <1>8, <1>a DEF ClientGone
<1> QED BY <1>1, <1>2, <1>3, <1>4, <1>5, <1>6, <1>7, <1>8 DEF HookMove, HookStep

LEMMA ServedStep ==
    ASSUME LoopInv, WaitersAreServed, [LoopNext]_loopVars
    PROVE  WaitersAreServed'
<1> SUFFICES ASSUME NEW r \in Requests, Active(r)'
             PROVE  up' /\ hook'[r].pc \in Serving
  BY DEF WaitersAreServed, Serving
<1>0. LoopTypeOK /\ JobsFit /\ ChannelsFit /\ ServerTypeOK /\ Turn
  BY LoopIsServer DEF LoopInv, ServerInv
<1>a. Active(r) => hook[r].pc \in Serving
  BY DEF WaitersAreServed, Serving
<1>b. Active(r) => up
  BY DEF WaitersAreServed
<1>1. ~Crash /\ (Active(r) \/ HookRegister(r))
  BY <1>0, ActiveGrows, LoopJoins
<1>2. up'
  BY <1>0, <1>b, <1>1, UpStays DEF HookRegister
<1>3. ASSUME HookMove(r)
      PROVE  hook'[r].pc \in Serving
  BY <1>0, <1>a, <1>3, HookServes
<1>4. ASSUME ~HookMove(r)
      PROVE  hook'[r].pc \in Serving
  <2>1. Active(r)
    BY <1>1, <1>4 DEF HookMove
  <2>2. hook'[r] = hook[r]
    <3>1. CASE \E q \in Requests \ {r} : HookMove(q)
      BY <1>0, <3>1, HookKeeps
    <3>2. CASE ~\E q \in Requests : HookMove(q)
      BY <1>0, <1>1, <3>2, OthersKeepHooks
    <3> QED BY <1>4, <3>1, <3>2
  <2> QED BY <1>a, <2>1, <2>2
<1> QED BY <1>2, <1>3, <1>4

\* No waiter is left in the registry without a connection thread that will look
\* at its channel or give it back, whoever registers, answers, replaces, expires
\* or hands back waiters meanwhile, and none outlives its process.
THEOREM LoopServes == LoopSafety => []WaitersAreServed
<1>1. LoopInit => WaitersAreServed
  BY DEF LoopInit, Registry!RegistryInit, WaitersAreServed, Active
<1>2. LoopInv /\ WaitersAreServed /\ [LoopNext]_loopVars => WaitersAreServed'
  BY ServedStep
<1> QED BY <1>1, <1>2, LoopKeepsInv, PTL DEF LoopSafety

-----------------------------------------------------------------------------
(* Items *)

\* But for an ingest, an item neither appears nor vanishes, and no approval
\* becomes live.
LEMMA RestAges ==
    ASSUME DecisionInv, [StoreRest]_storeVars, NEW r \in Requests
    PROVE  /\ att'[r].state = "absent" <=> att[r].state = "absent"
           /\ IsApproval(r) /\ att'[r].state \in LiveStates => att[r].state \in LiveStates
<1> DEFINE Goal ==
           /\ att'[r].state = "absent" <=> att[r].state = "absent"
           /\ IsApproval(r) /\ att'[r].state \in LiveStates => att[r].state \in LiveStates
<1>0. StoreInv /\ ItemsFitCommands
  BY DEF DecisionInv
<1>a. CASE att' = att
  BY <1>a
<1>b. ASSUME NEW R, \A q \in R : q \in Requests => att[q].state # "absent",
             Settle(R, "expired", "other")
      PROVE  Goal
  BY <1>b DEF Settle
<1>1. ASSUME NEW s \in Sessions, NEW k \in EventKinds, NEW tool \in Tools,
             NEW handled \in HandledSets(s, k, tool), IngestEvent(s, k, tool, TRUE, handled)
      PROVE  Goal
  <2>1. \A q \in handled : att[q].state \in LiveStates
    BY DEF HandledSets
  <2> QED BY <1>1, <2>1 DEF IngestEvent
<1>2. ASSUME NEW c \in Commands, NEW q \in Requests, NEW a \in Actions,
             NEW at \in Times, NEW d \in Delays, Claim(c, q, a, at, d)
      PROVE  Goal
  <2>1. att[q].state = "open"
    BY <1>2 DEF Claim, Claimable
  <2> QED BY <1>2, <2>1 DEF Claim, Settle
<1>3. ASSUME NEW c \in Commands, NEW at \in Times,
             Undo(c, at) \/ CommitSent(c, at) \/ CommitStale(c, at)
      PROVE  Goal
  <2>1. cmd[c].state = "pending_commit"
    BY <1>3 DEF Undo, Undoable, CommitSent, CommitStale
  <2>2. att[cmd[c].request].state \in {"committing", "resolved"}
    BY <1>0, <2>1 DEF ItemsFitCommands
  <2>3. CASE Undo(c, at)
    BY <2>2, <2>3 DEF Undo, Settle
  <2>4. CASE CommitSent(c, at)
    BY <2>2, <2>4 DEF CommitSent, Settle
  <2>5. CASE CommitStale(c, at)
    BY <2>2, <2>5, <1>b DEF CommitStale
  <2> QED BY <1>3, <2>3, <2>4, <2>5
<1>4. ASSUME NEW c \in Commands, NEW q \in Requests, NEW a \in {"ack", "snooze", "dismiss"},
             ActAttention(c, q, a)
      PROVE  Goal
  BY <1>4 DEF ActAttention, Settle
<1>5. ASSUME NEW q \in Requests, ~IsApproval(q), AckAnswered(q) \/ WakeSnoozed(q)
      PROVE  Goal
  BY <1>5 DEF AckAnswered, WakeSnoozed, Settle
<1>6. ASSUME NEW q \in Requests, NEW reason, ExpireApproval(q, reason)
      PROVE  Goal
  BY <1>6, <1>a, <1>b DEF ExpireApproval, storeVars
<1>7. CASE Reconcile({}) \/ Reopen
  BY <1>7, <1>b DEF Reconcile, Reopen
<1>8. ASSUME NEW s \in Sessions, MarkUnconfirmed(s, TRUE)
      PROVE  Goal
  BY <1>8, <1>a DEF MarkUnconfirmed
<1>9. CASE UNCHANGED storeVars
  BY <1>9, <1>a DEF storeVars
<1> QED BY <1>1, <1>2, <1>3, <1>4, <1>5, <1>6, <1>7, <1>8, <1>9 DEF StoreRest

\* Only its own connection opens an item.
LEMMA LoopAges ==
    ASSUME LoopInv, [LoopNext]_loopVars, NEW r \in Requests
    PROVE  /\ att[r].state # "absent" => att'[r].state # "absent"
           /\ att[r].state = "absent" /\ att'[r].state # "absent" => HookIngest(r)
           /\ IsApproval(r) /\ att'[r].state \in LiveStates =>
                att[r].state \in LiveStates \/ HookIngest(r)
<1>0. LoopTypeOK /\ JobsFit /\ DecisionInv /\ ItemsFitKinds
  BY DEF LoopInv, DecisionInv
<1>1. ASSUME NEW q \in Requests, HookIngest(q)
      PROVE  att[q].state # "absent" \/ q # r => att'[r] = att[r]
  BY <1>1 DEF HookIngest, IngestRequest, Settle
<1>2. ASSUME NEW q \in Requests, HookIngest(q)
      PROVE  att[q].state = "absent" => att'[q].state = "open"
  BY <1>2 DEF HookIngest, IngestRequest, Settle
<1>3. CASE \E q \in Requests : HookIngest(q)
  BY <1>1, <1>2, <1>3
<1>4. CASE [StoreRest]_storeVars
  BY <1>0, <1>4, RestAges
<1> QED BY <1>0, <1>3, <1>4, LoopStores

LEMMA EndStep ==
    ASSUME LoopInv, ApprovalsEndWithTheirRuntime, [LoopNext]_loopVars
    PROVE  ApprovalsEndWithTheirRuntime'
<1> SUFFICES ASSUME NEW r \in Requests, up', hook'[r].pc = "lost", IsApproval(r),
                    att'[r].state \in LiveStates
             PROVE  FALSE
  BY DEF ApprovalsEndWithTheirRuntime, IsApproval
<1>0. LoopTypeOK /\ hook \in [Requests -> HookType] /\ Turn
  BY LoopIsServer DEF LoopInv, LoopTypeOK
<1>1. ~Crash /\ ~Startup
  <2>1. ~Startup
    BY DEF Startup, Reopen, Settle
  <2>2. ~Crash
    BY DEF Crash
  <2> QED BY <2>1, <2>2
<1>2. up
  <2>1. up' = up
    BY <1>0, <1>1, UpStays
  <2> QED BY <2>1
<1>3. hook[r].pc = "lost"
  <2>1. CASE HookMove(r)
    <3>1. CASE HookRegister(r)
      BY <1>0, <3>1 DEF HookRegister
    <3>2. CASE ClientGone(r)
      BY <3>2 DEF ClientGone
    <3>3. CASE HookStep(r)
      <4>1. \E pc \in HookPC \ {"lost"} : HookGoes(r, pc)
        <5>1. CASE HookReceive(r) \/ HookExpire(r)
          BY <5>1 DEF HookReceive, HookExpire, HookPC
        <5> QED BY <3>3, <5>1 DEF HookStep, HookExpireReplaced, HookIngest, HookRefused,
           HookTimeout, HookGiveUp, HookClose, AgentGivesUp, AgentExpire, AgentUnconfirm, HookPC
      <4> QED BY <1>0, <4>1 DEF HookGoes, HookType
    <3> QED BY <2>1, <3>1, <3>2, <3>3 DEF HookMove
  <2>2. CASE \E q \in Requests \ {r} : HookMove(q)
    BY <1>0, <2>2, HookKeeps
  <2>3. CASE ~\E q \in Requests : HookMove(q)
    BY <1>0, <1>1, <2>3, OthersKeepHooks
  <2> QED BY <2>1, <2>2, <2>3
<1>4. att[r].state \in LiveStates
  <2>1. ~HookIngest(r)
    BY <1>3 DEF HookIngest
  <2> QED BY <2>1, LoopAges
<1> QED BY <1>2, <1>3, <1>4 DEF ApprovalsEndWithTheirRuntime

\* A restart leaves no approval behind that a user could decide although its
\* connection is gone, however often the process dies and at whatever step.
THEOREM LoopEnds == LoopSafety => []ApprovalsEndWithTheirRuntime
<1>1. LoopInit => ApprovalsEndWithTheirRuntime
  BY DEF LoopInit, ApprovalsEndWithTheirRuntime
<1>2. LoopInv /\ ApprovalsEndWithTheirRuntime /\ [LoopNext]_loopVars =>
        ApprovalsEndWithTheirRuntime'
  BY EndStep
<1> QED BY <1>1, <1>2, LoopKeepsInv, PTL DEF LoopSafety

-----------------------------------------------------------------------------
(* What the provider is told *)

\* Nobody takes back what was sent.
LEMMA MailStays ==
    ASSUME ServerTypeOK, JobsFit, ChannelsFit, Turn,
           NEW r \in Requests, mailbox[r] # <<>>
    PROVE  mailbox'[r] = mailbox[r]
<1>0. ~Active(r) /\ r \in issued
  BY DEF ChannelsFit
<1>1. ASSUME NEW gone \in SUBSET Requests, NEW m, Passes(gone, m)
      PROVE  mailbox'[r] = mailbox[r]
  BY <1>0, <1>1 DEF Passes, Leaves
<1>2. ASSUME NEW q \in Requests, Joining(q)
      PROVE  mailbox'[r] = mailbox[r]
  BY <1>0, <1>2 DEF Joining, Joins
<1>3. ASSUME NEW h \in Handlers, Sends(h)
      PROVE  \E gone \in SUBSET Requests : Passes(gone, job[h].action)
  BY <1>3 DEF Sends
<1>4. Dies => mailbox'[r] = mailbox[r]
  BY DEF Dies
<1> QED BY <1>1, <1>2, <1>3, <1>4, TurnWaiters DEF WaitersMove

Verdict == Decisions \cup {"answer"}

\* The first response that the connection of a client still alive received.
Hears(r) ==
    /\ HookReceive(r)
    /\ client[r] = "asking"
    /\ client'[r] = Head(mailbox[r])
    /\ hook'[r].pc = "done"

\* Only the connection of a request tells its provider a verdict.
LEMMA ToldByConnection ==
    ASSUME LoopTypeOK, [LoopNext]_loopVars, NEW r \in Requests, client'[r] # client[r]
    PROVE  client'[r] \in {"asking", "native"} \/ Hears(r)
<1>0. /\ hook \in [Requests -> HookType] /\ client \in [Requests -> ClientStates]
  BY DEF LoopTypeOK, ClientStates
<1>1. CASE HookMove(r)
  <2>1. CASE HookRegister(r) \/ ClientGone(r) \/ HookClose(r) \/ AgentUnconfirm(r)
    BY <1>0, <2>1 DEF HookRegister, ClientGone, HookClose, AgentUnconfirm
  <2>2. CASE HookReceive(r)
    <3>1. client[r] = "asking" /\ client'[r] = Head(mailbox[r])
      BY <1>0, <2>2 DEF HookReceive
    <3>2. HookGoes(r, "done")
      BY <2>2, <3>1 DEF HookReceive
    <3>3. hook'[r].pc = "done"
      BY <1>0, <3>2 DEF HookGoes, HookType
    <3> QED BY <2>2, <3>1, <3>3 DEF Hears
  <2> QED BY <1>1, <2>1, <2>2 DEF HookMove, HookStep, HookExpireReplaced, HookIngest,
       HookRefused, HookTimeout, HookGiveUp, HookExpire, AgentGivesUp, AgentExpire
<1>2. CASE \E q \in Requests \ {r} : HookMove(q)
  BY <1>2, HookKeeps
<1>3. CASE Crash
  BY <1>3 DEF Crash
<1>4. CASE ~(\E q \in Requests : HookMove(q)) /\ ~Crash
  BY <1>4, OthersKeepHooks
<1> QED BY <1>1, <1>2, <1>3, <1>4

\* A verdict was on the channel, and its connection is done.
ToldFromChannel ==
    \A r \in Requests :
      client[r] \in Verdict => mailbox[r] = <<client[r]>> /\ hook[r].pc \in {"done", "lost"}

LEMMA ToldStep ==
    ASSUME LoopInv, ToldFromChannel, [LoopNext]_loopVars
    PROVE  ToldFromChannel'
<1> SUFFICES ASSUME NEW r \in Requests, client'[r] \in Verdict
             PROVE  mailbox'[r] = <<client'[r]>> /\ hook'[r].pc \in {"done", "lost"}
  BY DEF ToldFromChannel
<1>0. LoopTypeOK /\ JobsFit /\ ChannelsFit /\ ServerTypeOK /\ Turn
  BY LoopIsServer DEF LoopInv, ServerInv
<1>1. CASE client'[r] = client[r]
  <2>1. mailbox[r] = <<client[r]>> /\ hook[r].pc \in {"done", "lost"}
    BY <1>1 DEF ToldFromChannel
  <2>a. \A m : <<m>> # <<>>
    OBVIOUS
  <2>b. mailbox[r] # <<>>
    BY <2>1, <2>a
  <2>2. mailbox'[r] = mailbox[r]
    BY <1>0, <2>b, MailStays
  <2> QED BY <1>0, <1>1, <2>1, <2>2, HookPath
<1>2. CASE Hears(r)
  <2>0. mailbox[r] # <<>>
    BY <1>2 DEF Hears, HookReceive
  <2>1. PICK m \in Responses : mailbox[r] = <<m>>
    BY <1>0, <2>0 DEF ChannelsFit
  <2>2. mailbox'[r] = mailbox[r]
    BY <1>0, <2>0, MailStays
  <2> QED BY <1>2, <2>1, <2>2 DEF Hears
<1> QED BY <1>0, <1>1, <1>2, ToldByConnection DEF Verdict

LEMMA LoopTellsFromChannel == LoopSafety => []ToldFromChannel
<1>1. LoopInit => ToldFromChannel
  BY DEF LoopInit, ToldFromChannel, Verdict
<1>2. LoopInv /\ ToldFromChannel /\ [LoopNext]_loopVars => ToldFromChannel'
  BY ToldStep
<1> QED BY <1>1, <1>2, LoopKeepsInv, PTL DEF LoopSafety

-----------------------------------------------------------------------------
(* Timeouts *)

\* A timeout is counted by the connection that gave up or by the expiry thread.
LEMMA TimeoutMoves ==
    ASSUME LoopInv, [LoopNext]_loopVars, NEW r \in Requests, timeouts'[r] # timeouts[r]
    PROVE  \/ HookExpire(r) /\ r \notin ByAgent
           \/ SweepItem /\ r \in sweep
<1>0. LoopTypeOK /\ JobsFit /\ timeouts \in [Requests -> Nat]
  BY DEF LoopInv, LoopTypeOK, StoreTypeOK
<1>a. timeouts' # timeouts /\ ~UNCHANGED storeVars
  BY DEF storeVars
<1>b. \A q : ~ExpireApproval(q, "other")
  BY <1>a DEF ExpireApproval
<1>c. ASSUME NEW q, ExpireApproval(q, "deadline")
      PROVE  q = r
  BY <1>0, <1>a, <1>c DEF ExpireApproval
<1>1. ASSUME NEW q \in Requests, HookMove(q)
      PROVE  HookExpire(r) /\ r \notin ByAgent
  <2>1. HookExpire(q)
    BY <1>1, <1>a, <1>b DEF HookMove, HookStep, HookRegister, ClientGone, HookExpireReplaced,
       HookIngest, IngestRequest, HookRefused, HookReceive, HookTimeout, HookGiveUp, HookClose,
       AgentGivesUp, AgentExpire, AgentUnconfirm, MarkUnconfirmed
  <2>2. q \notin ByAgent /\ ExpireApproval(q, "deadline")
    BY <1>b, <2>1 DEF HookExpire
  <2> QED BY <1>c, <2>1, <2>2
<1>2. ~\E q \in ByAgent : RelayMove(q)
  BY <1>a, <1>b DEF RelayMove, AgentCloses, AgentCloseExpires, AgentCloseUnconfirms, MarkUnconfirmed
<1>3. ~\E h \in Handlers : JobStep(h)
  BY <1>a, <1>b DEF JobStep, JobClaim, Claim, JobProbe, JobCommit, CommitSent, CommitStale,
     JobDecide, JobHandBack, JobExpire, JobUndo, Undo, JobAnswer, JobAck, AckAnswered
<1>4. ~\E h \in Handlers : JobStarts(h)
  BY <1>0, <1>a, LoopServer, StartKeeps
<1>5. ~\E e \in Events : EventIngest(e) \/ EventPassThrough(e)
  BY <1>a DEF EventIngest, IngestEvent, EventPassThrough
<1>6. ~SweepWaiters /\ ~Crash
  BY <1>a DEF SweepWaiters, Crash
<1>7. ~PlainMove
  BY <1>a DEF PlainMove, AttendMove, Attend, ActAttention, Wake, WakeSnoozed, Tick, BeginRestart,
     ReleaseForRestart, ReconcileForRestart, Reconcile, Startup, Reopen, loopVars
<1>8. SweepItem => r \in sweep
  BY <1>c DEF SweepItem
<1> QED BY <1>1, <1>2, <1>3, <1>4, <1>5, <1>6, <1>7, <1>8, Owners

\* Expired ids are put on the list of the expiry thread by that thread alone.
LEMMA SweepMoves ==
    ASSUME LoopTypeOK, [LoopNext]_loopVars
    PROVE  sweep' \subseteq sweep \/ SweepWaiters
<1>1. ASSUME NEW r \in Requests, HookMove(r)
      PROVE  sweep' = sweep
  BY <1>1, HookKeeps
<1>2. ASSUME NEW r \in ByAgent, RelayMove(r)
      PROVE  sweep' = sweep
  BY <1>2 DEF RelayMove, AgentCloses, AgentCloseExpires, AgentCloseUnconfirms
<1>3. ASSUME NEW h \in Handlers, JobStep(h) \/ JobStarts(h)
      PROVE  sweep' = sweep
  BY <1>3, LoopServer, JobKeeps, StartKeeps
<1>4. ASSUME NEW e \in Events, EventIngest(e) \/ EventPassThrough(e)
      PROVE  sweep' = sweep
  BY <1>4 DEF EventIngest, EventPassThrough
<1>5. CASE SweepItem \/ Crash
  BY <1>5 DEF SweepItem, Crash
<1>6. CASE PlainMove
  BY <1>6, PlainKeeps DEF threadVars
<1> QED BY <1>1, <1>2, <1>3, <1>4, <1>5, <1>6, Owners

\* A connection that closes goes nowhere else.
LEMMA ClosePath ==
    ASSUME LoopTypeOK, [LoopNext]_loopVars, NEW r \in Requests,
           hook[r].pc \in {"close", "done", "lost"}
    PROVE  hook'[r].pc \in {"close", "done", "lost"}
<1>0. hook \in [Requests -> HookType]
  BY DEF LoopTypeOK
<1>1. CASE HookMove(r)
  <2>1. HookClose(r) \/ UNCHANGED hook
    BY <1>1 DEF HookMove, HookStep, HookRegister, ClientGone, HookExpireReplaced, HookIngest,
       HookRefused, HookReceive, HookTimeout, HookGiveUp, HookExpire, AgentGivesUp, AgentExpire,
       AgentUnconfirm
  <2> QED BY <1>0, <2>1 DEF HookClose, HookGoes, HookType
<1>2. CASE \E q \in Requests \ {r} : HookMove(q)
  BY <1>2, HookKeeps
<1>3. CASE Crash
  BY <1>0, <1>3 DEF Crash, HookType
<1>4. CASE ~(\E q \in Requests : HookMove(q)) /\ ~Crash
  BY <1>4, OthersKeepHooks
<1> QED BY <1>1, <1>2, <1>3, <1>4

Native(r) == mailbox[r] = <<"native">>

\* Who was timed out was handed back: its connection is beyond its channel, or
\* has nothing else to read there.
LateIsNative ==
    \A r \in Requests :
      /\ r \in sweep => Native(r)
      /\ timeouts[r] # 0 =>
           client[r] \notin Decisions /\ (hook[r].pc \in {"close", "done", "lost"} \/ Native(r))

LEMMA LateStep ==
    ASSUME LoopInv, ToldFromChannel, LateIsNative, [LoopNext]_loopVars
    PROVE  LateIsNative'
<1> SUFFICES ASSUME NEW r \in Requests
             PROVE  /\ r \in sweep' => Native(r)'
                    /\ timeouts'[r] # 0 =>
                         /\ client'[r] \notin Decisions
                         /\ hook'[r].pc \in {"close", "done", "lost"} \/ Native(r)'
  BY DEF LateIsNative
<1>b. ServerInv /\ Turn
  BY LoopIsServer
<1>c. LoopTypeOK /\ JobsFit /\ ChannelsFit /\ ServerTypeOK /\ Turn
  BY <1>b DEF LoopInv, ServerInv
<1>0. /\ LoopTypeOK /\ JobsFit /\ ChannelsFit /\ hook \in [Requests -> HookType]
      /\ ServerTypeOK /\ Turn
  BY <1>c DEF LoopTypeOK
<1>a. Native(r) => Native(r)'
  <2>1. <<"native">> # <<>>
    OBVIOUS
  <2>2. mailbox[r] # <<>> => mailbox'[r] = mailbox[r]
    BY <1>c, MailStays DEF LoopInv
  <2> QED BY <2>1, <2>2 DEF Native
<1>1. ASSUME r \in sweep'
      PROVE  Native(r)'
  <2>1. CASE r \in sweep
    BY <1>a, <2>1 DEF LateIsNative
  <2>2. CASE SweepWaiters
    <3>1. Passes(sweep', "native")
      BY <1>0, <2>2, SweepPasses
    <3> QED BY <1>1, <3>1 DEF Passes, Leaves, Native
  <2> QED BY <1>0, <1>1, <2>1, <2>2, SweepMoves
<1>2. ASSUME timeouts[r] # 0
      PROVE  /\ client'[r] \notin Decisions
             /\ hook'[r].pc \in {"close", "done", "lost"} \/ Native(r)'
  <2>1. client[r] \notin Decisions /\ (hook[r].pc \in {"close", "done", "lost"} \/ Native(r))
    BY <1>2 DEF LateIsNative
  <2>2. Hears(r) => Native(r)
    BY <2>1 DEF Hears, HookReceive
  <2>3. Hears(r) => client'[r] = "native"
    BY <2>2 DEF Hears, Native
  <2>4. client'[r] \notin Decisions
    BY <1>0, <2>1, <2>3, ToldByConnection
  <2> QED BY <1>0, <1>a, <2>1, <2>4, ClosePath
<1>3. ASSUME timeouts[r] = 0, timeouts'[r] # 0
      PROVE  /\ client'[r] \notin Decisions
             /\ hook'[r].pc \in {"close", "done", "lost"} \/ Native(r)'
  <2>1. CASE HookExpire(r) /\ r \notin ByAgent
    <3>1. hook[r].pc = "expire" /\ HookGoes(r, "close") /\ client' = client
      BY <2>1 DEF HookExpire
    <3>2. hook'[r].pc = "close"
      BY <1>0, <3>1 DEF HookGoes, HookType
    <3>3. client[r] \notin Decisions
      BY <3>1 DEF ToldFromChannel, Verdict
    <3> QED BY <3>1, <3>2, <3>3
  <2>2. CASE SweepItem /\ r \in sweep
    <3>1. Native(r) /\ client' = client
      BY <2>2 DEF LateIsNative, SweepItem
    <3>2. client[r] \notin Decisions
      BY <3>1 DEF ToldFromChannel, Verdict, Native
    <3> QED BY <1>a, <3>1, <3>2
  <2> QED BY <1>3, <2>1, <2>2, TimeoutMoves
<1> QED BY <1>1, <1>2, <1>3

\* A request that is counted as timed out is never told a decision, however the
\* deadline, the expiry thread and a decision interleave.
THEOREM LoopTimesOut == LoopSafety => []TimeoutNeverDecided
<1>1. LoopInit => LateIsNative
  BY DEF LoopInit, StoreInit, LateIsNative
<1>2. LoopInv /\ ToldFromChannel /\ LateIsNative /\ [LoopNext]_loopVars => LateIsNative'
  BY LateStep
<1>3. LateIsNative => TimeoutNeverDecided
  BY DEF LateIsNative, TimeoutNeverDecided
<1> QED BY <1>1, <1>2, <1>3, LoopKeepsInv, LoopTellsFromChannel, PTL DEF LoopSafety

-----------------------------------------------------------------------------
(* Questions *)

\* A handler moves by itself, or ends with the process.
LEMMA JobStays ==
    ASSUME ServerTypeOK, Turn, NEW h \in Handlers
    PROVE  job'[h] = job[h] \/ JobStep(h) \/ JobStarts(h) \/ Crash
<1>1. ASSUME NEW g \in Handlers \ {h}, JobStep(g) \/ JobStarts(g)
      PROVE  job'[h] = job[h]
  BY <1>1, JobKeeps, StartKeeps
<1>2. CASE ~(\E g \in Handlers : JobStep(g) \/ JobStarts(g)) /\ ~Crash
  BY <1>2, OthersKeepJobs
<1> QED BY <1>1, <1>2

\* What ended stays so.
LEMMA EndedKept ==
    ASSUME ServerInv, Turn
    PROVE  KeepsEnded
<1>1. StoreInv /\ [StoreNext]_storeVars
  BY TurnIsStore DEF ServerInv, DecisionInv
<1> QED BY <1>1, StoreSteps DEF StoreStep, ItemStep, CommandStep, KeepsEnded

Acking(q) == \E h \in Handlers : job[h].pc = "ack" /\ job[h].request = q

\* While the process lives, a question whose answer was sent is closed, or its
\* handler is about to close it.
AnswerClosing ==
    \A q \in Requests :
      /\ mailbox[q] = <<"answer">> =>
           /\ ~IsApproval(q)
           /\ att[q].state # "absent"
           /\ att[q].state \notin BlockingStates \/ Acking(q)
      /\ \A h \in Handlers : job[h].pc = "answer" /\ job[h].request = q => att[q].state # "absent"

\* Where an answer comes from.
LEMMA AnswerSent ==
    ASSUME ServerInv, Turn, NEW q \in Requests,
           mailbox[q] # <<"answer">>, mailbox'[q] = <<"answer">>
    PROVE  \E h \in Handlers : JobAnswer(h) /\ JobGoes(h, "ack") /\ job[h].request = q
<1>0. ServerTypeOK /\ JobsFit /\ ChannelsFit
  BY DEF ServerInv
<1>a. \A m : <<m>> = <<"answer">> => m = "answer"
  OBVIOUS
<1>b. <<>> # <<"answer">>
  OBVIOUS
<1>1. ~\E gone \in SUBSET Requests : Passes(gone, "native")
  BY <1>a DEF Passes, Leaves
<1>2. ~\E r \in Requests : Joining(r)
  BY <1>a, <1>b DEF Joining, Joins
<1>3. ~Dies
  BY DEF Dies
<1>4. PICK h \in Handlers : Sends(h)
  BY <1>0, <1>1, <1>2, <1>3, TurnWaiters DEF WaitersMove
<1>5. job[h].request = q /\ job[h].action = "answer"
  BY <1>4, <1>a DEF Sends, Passes, Leaves
<1>6. job[h].pc # "decide"
  BY <1>0, <1>5 DEF JobsFit, JobFit
<1> QED BY <1>4, <1>5, <1>6 DEF Sends

LEMMA ClosingStep ==
    ASSUME LoopInv, AnswerClosing, [LoopNext]_loopVars, ~Crash
    PROVE  AnswerClosing'
<1>0. /\ LoopTypeOK /\ JobsFit /\ ChannelsFit /\ ItemsFitKinds
      /\ ServerInv /\ ServerTypeOK /\ Turn
  BY LoopIsServer DEF LoopInv, ServerInv, DecisionInv
<1>a. ASSUME NEW h \in Handlers, JobStep(h), job'[h].pc = "answer"
      PROVE  FALSE
  <2>1. ASSUME NEW pc \in JobPC, JobGoes(h, pc)
        PROVE  pc = "answer"
    BY <1>0, <1>a, <2>1, JobGoesOn
  <2>2. ~JobEnds(h)
    BY <1>0, <1>a, JobEnded DEF NoJob
  <2>3. ~JobProbe(h)
    BY <1>0, <1>a DEF JobProbe, LoopTypeOK, JobType
  <2> QED BY <1>a, <2>1, <2>2, <2>3 DEF JobStep, JobClaim, JobCommit, JobDecide, JobHandBack,
       JobExpire, JobUndo, JobAnswer, JobAck, JobPC
<1>1. ASSUME NEW q \in Requests, NEW h \in Handlers,
             job'[h].pc = "answer", job'[h].request = q
      PROVE  att'[q].state # "absent"
  <2>1. CASE job'[h] = job[h]
    BY <1>1, <2>1, LoopAges DEF AnswerClosing
  <2>2. CASE JobStarts(h)
    <3>1. att' = att /\ h \in DOMAIN job
      BY <1>0, <2>2, StartKeeps DEF storeVars, LoopTypeOK
    <3>2. \A p \in Requests, response \in {"answer", "native"} :
            SubmitAnswer(h, p, response) => job'[h].request = p /\ att[p].state = "open"
      BY <3>1 DEF SubmitAnswer, NoJob
    <3>3. \A c \in Commands, p \in Requests, action \in Actions, delay \in Delays :
            ~Submit(h, c, p, action, delay)
      <4> SUFFICES ASSUME NEW c \in Commands, NEW p \in Requests, NEW action \in Actions,
                          NEW delay \in Delays, Submit(h, c, p, action, delay)
                   PROVE  FALSE
        OBVIOUS
      <4> DEFINE pc == IF IsApproval(p) /\ Active(p) THEN "claim" ELSE "stale"
      <4>1. job'[h].pc = pc
        BY <3>1 DEF Submit, NoJob
      <4>2. pc \in {"claim", "stale"}
        OBVIOUS
      <4> HIDE DEF pc
      <4> QED BY <1>1, <4>1, <4>2
    <3>4. \A c \in Commands : ~UndoRequest(h, c)
      BY <1>1, <3>1 DEF UndoRequest, NoJob
    <3> QED BY <1>1, <2>2, <3>1, <3>2, <3>3, <3>4 DEF JobStarts
  <2> QED BY <1>0, <1>1, <1>a, <2>1, <2>2, JobStays
<1>2. ASSUME NEW q \in Requests, mailbox'[q] = <<"answer">>
      PROVE  /\ ~IsApproval(q)
             /\ att'[q].state # "absent"
             /\ att'[q].state \notin BlockingStates \/ Acking(q)'
  <2>1. CASE mailbox[q] = <<"answer">>
    <3>1. ~IsApproval(q) /\ att[q].state # "absent" /\ att'[q].state # "absent"
      BY <2>1, LoopAges DEF AnswerClosing
    <3>2. CASE att[q].state \notin BlockingStates
      BY <3>1, <3>2, <1>0, EndedKept DEF KeepsEnded
    <3>3. ASSUME NEW h \in Handlers, job[h].pc = "ack", job[h].request = q
          PROVE  att'[q].state \notin BlockingStates \/ Acking(q)'
      <4>1. CASE job'[h] = job[h]
        BY <3>3, <4>1 DEF Acking
      <4>2. CASE JobStep(h)
        <5>1. JobAck(h)
          BY <3>3, <4>2 DEF JobStep, JobClaim, JobProbe, MayWake, JobCommit, JobDecide,
             JobHandBack, JobExpire, JobUndo, JobAnswer
        <5>2. CASE AckAnswered(q)
          BY <5>2 DEF AckAnswered, Settle
        <5>3. CASE att[q].state \notin {"open", "snoozed"} /\ UNCHANGED storeVars
          BY <1>0, <3>1, <5>3 DEF ItemsFitKinds, storeVars
        <5> QED BY <3>3, <5>1, <5>2, <5>3 DEF JobAck
      <4>3. ~JobStarts(h)
        BY <1>0, <3>3, StartKeeps
      <4> QED BY <1>0, <4>1, <4>2, <4>3, JobStays
    <3> QED BY <2>1, <3>1, <3>2, <3>3 DEF AnswerClosing, Acking
  <2>2. CASE mailbox[q] # <<"answer">>
    <3>1. PICK h \in Handlers : JobAnswer(h) /\ JobGoes(h, "ack") /\ job[h].request = q
      BY <1>2, <2>2, <1>0, AnswerSent
    <3>2. job[h].pc = "answer"
      BY <3>1 DEF JobAnswer
    <3>3. ~IsApproval(q) /\ att[q].state # "absent"
      BY <1>0, <3>1, <3>2 DEF JobsFit, JobFit, AnswerClosing
    <3>4. job'[h].pc = "ack" /\ job'[h].request = q
      BY <1>0, <3>1, JobGoesOn DEF JobPC, GoesOn
    <3> QED BY <3>3, <3>4, LoopAges DEF Acking
  <2> QED BY <2>1, <2>2
<1> QED BY <1>1, <1>2 DEF AnswerClosing, IsApproval

\* As long as the process does not end between the answer and its
\* acknowledgement, a question that was answered does not ask again, whatever
\* other handlers, the deadline, a snooze or a withdrawal do meanwhile.
THEOREM LoopCloses ==
    ASSUME MaxRestarts = 0
    PROVE  LoopSafety => []AnsweredIsClosed
<1>1. LoopInit => AnswerClosing
  <2> SUFFICES ASSUME LoopInit PROVE AnswerClosing
    OBVIOUS
  <2>1. <<>> # <<"answer">>
    OBVIOUS
  <2> QED BY <2>1 DEF LoopInit, Registry!RegistryInit, NoJob, AnswerClosing
<1>2. LoopInv /\ AnswerClosing /\ [LoopNext]_loopVars => AnswerClosing'
  <2>1. LoopInv => ~Crash
    BY DEF LoopInv, LoopTypeOK, Crash
  <2> QED BY <2>1, ClosingStep
<1>3. LoopInv /\ AnswerClosing => AnsweredIsClosed
  <2> SUFFICES ASSUME LoopInv, AnswerClosing, NEW q \in Requests,
                      \E i \in DOMAIN mailbox[q] : mailbox[q][i] = "answer",
                      \A h \in Handlers : job[h].request = q => job[h].pc # "ack"
               PROVE  att[q].state \notin BlockingStates
    BY DEF AnsweredIsClosed
  <2>1. mailbox[q] = <<>> \/ \E m \in Responses : mailbox[q] = <<m>>
    BY DEF LoopInv, ChannelsFit
  <2>2. mailbox[q] = <<"answer">>
    BY <2>1
  <2> QED BY <2>2 DEF AnswerClosing, Acking
<1> QED BY <1>1, <1>2, <1>3, LoopKeepsInv, PTL DEF LoopSafety

-----------------------------------------------------------------------------
(* Commands and their handlers *)

\* No command appears and none becomes sent.
Passive ==
    \A c \in Commands :
      /\ cmd[c].state = "absent" => cmd'[c].state = "absent"
      /\ cmd'[c].state = "decision_sent" => cmd[c].state = "decision_sent"

LEMMA ExpirePassive ==
    ASSUME StoreInv, NEW r, NEW reason, ExpireApproval(r, reason)
    PROVE  Passive
<1>1. CASE FailCommands({r})
  BY <1>1, StateSet DEF FailCommands, Passive, StoreInv
<1>2. CASE UNCHANGED storeVars
  BY <1>2 DEF storeVars, Passive
<1> QED BY <1>1, <1>2 DEF ExpireApproval

LEMMA EventPassive ==
    ASSUME StoreInv, NEW s, NEW kind, NEW tool, NEW fresh, NEW handled,
           IngestEvent(s, kind, tool, fresh, handled)
    PROVE  Passive
<1>1. \A c \in Commands : AfterHandled(c, Outcome(kind)) \in {"confirmed", "failed", cmd[c].state}
  BY DEF AfterHandled
<1> HIDE DEF AfterHandled, Outcome
<1>2. \A c \in Commands : cmd'[c] = cmd[c] \/
        (cmd[c].state \in ActiveCommand /\ cmd'[c].state \in {"confirmed", "failed", cmd[c].state})
  BY <1>1, StateSet DEF IngestEvent, StoreInv
<1> QED BY <1>2 DEF Passive

LEMMA ResolvePassive ==
    ASSUME StoreInv, NEW r, ResolveManaged(r)
    PROVE  Passive
<1>0. \A c \in Commands : AfterResolved(c) \in {"confirmed", "failed"}
  BY DEF AfterResolved
<1> HIDE DEF AfterResolved
<1>1. CASE att[r].state \in BlockingStates
  <2>1. ASSUME NEW c \in Commands
        PROVE  cmd'[c] = cmd[c] \/
          (cmd[c].state \in ActiveCommand /\ cmd'[c].state \in {"confirmed", "failed"})
    <3>1. [cmd[c] EXCEPT !.state = AfterResolved(c)].state \in {"confirmed", "failed"}
      BY <1>0, StateSet DEF StoreInv
    <3>2. cmd'[c] = IF cmd[c].request = r /\ cmd[c].state \in ActiveCommand
                    THEN [cmd[c] EXCEPT !.state = AfterResolved(c)]
                    ELSE cmd[c]
      BY <1>1 DEF ResolveManaged
    <3> QED BY <3>1, <3>2
  <2> QED BY <2>1 DEF Passive, ActiveCommand
<1>2. CASE UNCHANGED storeVars
  BY <1>2 DEF storeVars, Passive
<1> QED BY <1>1, <1>2 DEF ResolveManaged

\* Only a handler, or a command on a question, starts a command, and only a
\* handler records it as sent: the one that goes on to decide.
LEMMA CommandMoves ==
    ASSUME ServerInv, Turn
    PROVE  \/ Passive
           \/ AttendMove /\ \A c \in Commands : cmd'[c].state = "decision_sent" => cmd'[c] = cmd[c]
           \/ \E h \in Handlers :
                /\ JobClaim(h)
                /\ \A c \in Commands \ {job[h].command} : cmd'[c] = cmd[c]
                /\ \A c \in Commands : cmd'[c].state = "decision_sent" => cmd'[c] = cmd[c]
           \/ \E h \in Handlers :
                /\ JobCommit(h) /\ JobGoes(h, "decide")
                /\ \A c \in Commands \ {job[h].command} : cmd'[c] = cmd[c]
                /\ \A c \in Commands : cmd'[c].state = "absent" <=> cmd[c].state = "absent"
<1>0. ServerTypeOK /\ JobsFit /\ StoreInv /\ StoreTypeOK
  BY DEF ServerInv, DecisionInv, StoreInv
<1>a. ASSUME cmd' = cmd
      PROVE  Passive
  BY <1>a DEF Passive
<1>b. ASSUME UNCHANGED storeVars
      PROVE  cmd' = cmd
  BY <1>b DEF storeVars
<1>1. CASE ConnectionMove
  <2>1. (\E r, fresh : IngestRequest(r, fresh)) \/ (\E s : MarkUnconfirmed(s, TRUE)) => cmd' = cmd
    BY DEF IngestRequest, MarkUnconfirmed
  <2> QED BY <1>0, <1>1, <1>a, <1>b, <2>1, ExpirePassive, ResolvePassive
       DEF ConnectionMove, ConnectionRest
<1>3. ASSUME NEW h \in Handlers, JobClaim(h)
      PROVE  \/ Passive
             \/ /\ \A c \in Commands \ {job[h].command} : cmd'[c] = cmd[c]
                /\ \A c \in Commands : cmd'[c].state = "decision_sent" => cmd'[c] = cmd[c]
  <2>1. CASE UNCHANGED storeVars
    BY <1>a, <1>b, <2>1
  <2>2. CASE Claim(job[h].command, job[h].request, job[h].action, job[h].at, job[h].delay)
    <3>1. job[h].command \in Commands
      BY <1>0, <1>3 DEF JobClaim, JobsFit, JobFit
    <3>2. /\ \A c \in Commands \ {job[h].command} : cmd'[c] = cmd[c]
          /\ cmd'[job[h].command].state \in {"passed_through", "pending_commit"}
      BY <1>0, <2>2, <3>1 DEF Claim, StoreTypeOK
    <3> QED BY <3>2
  <2> QED BY <1>3, <2>1, <2>2 DEF JobClaim
<1>4. ASSUME NEW h \in Handlers, JobCommit(h)
      PROVE  \/ Passive
             \/ /\ JobGoes(h, "decide")
                /\ \A c \in Commands \ {job[h].command} : cmd'[c] = cmd[c]
                /\ \A c \in Commands : cmd'[c].state = "absent" <=> cmd[c].state = "absent"
  <2> DEFINE due == job[h].at + job[h].delay
  <2>0. job[h].command \in Commands
    BY <1>0, <1>4 DEF JobCommit, JobsFit, JobFit
  <2>1. CASE CommitSent(job[h].command, due) /\ JobGoes(h, "decide")
    <3>1. /\ \A c \in Commands \ {job[h].command} : cmd'[c] = cmd[c]
          /\ cmd[job[h].command].state = "pending_commit"
          /\ cmd'[job[h].command].state = "decision_sent"
      BY <1>0, <2>0, <2>1, StateSet DEF CommitSent, StoreTypeOK
    <3> QED BY <2>1, <3>1
  <2>2. CASE CommitStale(job[h].command, due)
    <3>1. /\ \A c \in Commands \ {job[h].command} : cmd'[c] = cmd[c]
          /\ cmd[job[h].command].state = "pending_commit"
          /\ cmd'[job[h].command].state = "failed"
      BY <1>0, <2>0, <2>2, StateSet DEF CommitStale, StoreTypeOK
    <3> QED BY <3>1 DEF Passive
  <2>3. CASE UNCHANGED storeVars
    BY <1>a, <1>b, <2>3
  <2> QED BY <1>4, <2>1, <2>2, <2>3 DEF JobCommit
<1>5. ASSUME NEW h \in Handlers, JobUndo(h)
      PROVE  Passive
  <2>1. CASE Undo(job[h].command, job[h].at)
    <3>1. job[h].command \in Commands
      BY <1>0, <1>5 DEF JobUndo, JobsFit, JobFit
    <3>2. /\ \A c \in Commands \ {job[h].command} : cmd'[c] = cmd[c]
          /\ cmd[job[h].command].state = "pending_commit"
          /\ cmd'[job[h].command].state = "undone"
      BY <1>0, <2>1, <3>1, StateSet DEF Undo, Undoable, StoreTypeOK
    <3> QED BY <3>2 DEF Passive
  <2> QED BY <1>5, <1>a, <1>b, <2>1 DEF JobUndo
<1>6. ASSUME NEW h \in Handlers,
             \/ JobProbe(h) \/ JobDecide(h) \/ JobHandBack(h) \/ JobExpire(h) \/ JobAnswer(h)
             \/ JobAck(h) \/ JobStarts(h)
      PROVE  Passive
  <2>1. CASE JobStarts(h)
    BY <1>0, <1>a, <1>b, <2>1, StartKeeps
  <2>2. CASE JobExpire(h)
    BY <1>0, <2>2, ExpirePassive DEF JobExpire
  <2> QED BY <1>6, <1>a, <1>b, <2>1, <2>2 DEF JobProbe, JobDecide, JobHandBack, JobAnswer,
       JobAck, AckAnswered
<1>7. ASSUME NEW e \in Events, EventIngest(e) \/ EventPassThrough(e)
      PROVE  Passive
  BY <1>0, <1>7, <1>a, <1>b, EventPassive DEF EventIngest, EventPassThrough
<1>8. CASE SweepWaiters \/ SweepItem \/ Crash
  BY <1>0, <1>8, <1>a, <1>b, ExpirePassive DEF SweepWaiters, SweepItem, Crash
<1>9. CASE AttendMove
  <2>1. PICK c \in Commands, q \in Requests, action \in {"ack", "snooze", "dismiss"} :
          ActAttention(c, q, action)
    BY <1>9 DEF AttendMove, Attend
  <2>2. cmd'[c].state = "confirmed" /\ \A d \in Commands \ {c} : cmd'[d] = cmd[d]
    BY <1>0, <2>1 DEF ActAttention, StoreTypeOK
  <2> QED BY <1>9, <2>2
<1>10. CASE ReconcileForRestart \/ Startup
  <2>1. PICK R : FailCommands(R)
    BY <1>10 DEF ReconcileForRestart, Reconcile, Startup, Reopen
  <2> QED BY <1>0, <2>1, StateSet DEF FailCommands, Passive
<1>11. CASE \/ \E q \in Requests : Wake(q)
            \/ Tick \/ BeginRestart \/ ReleaseForRestart \/ UNCHANGED loopVars
  BY <1>11, <1>a, <1>b DEF Wake, WakeSnoozed, Tick, BeginRestart, ReleaseForRestart, loopVars
<1>12. PlainMove => \/ AttendMove
                    \/ ReconcileForRestart \/ Startup
                    \/ \E q \in Requests : Wake(q)
                    \/ Tick \/ BeginRestart \/ ReleaseForRestart \/ UNCHANGED loopVars
  BY DEF PlainMove
<1>13. \A h \in Handlers : JobStep(h) =>
         \/ JobClaim(h) \/ JobCommit(h) \/ JobUndo(h)
         \/ JobProbe(h) \/ JobDecide(h) \/ JobHandBack(h) \/ JobExpire(h) \/ JobAnswer(h)
         \/ JobAck(h)
  BY DEF JobStep
<1>14. CASE \E h \in Handlers : JobStep(h) \/ JobStarts(h)
  BY <1>3, <1>4, <1>5, <1>6, <1>13, <1>14
<1>15. CASE PlainMove
  BY <1>9, <1>10, <1>11, <1>12, <1>15
<1> QED BY <1>1, <1>7, <1>8, <1>14, <1>15 DEF Turn, ServerTurn

Busy(h) == job[h].pc \notin {"idle", "sleep"}
Deciding == {"sleep", "probe", "commit", "decide"}

\* The API server runs one handler at a time.
OneRuns == \A g, h \in Handlers : Busy(g) /\ Busy(h) => g = h

\* A decision has one task.
OneTask ==
    \A g, h \in Handlers :
      job[g].pc \in Deciding /\ job[h].pc \in Deciding /\ job[g].command = job[h].command => g = h

\* The row of a handler's command by where the handler is.
Knows(h) ==
    LET j == job[h]
        c == j.command
    IN  /\ j.pc \in {"idle", "answer", "ack"} => c = None
        /\ j.pc = "claim" => cmd[c].state = "absent"
        /\ j.pc \in {"sleep", "probe", "commit"} =>
             /\ cmd[c].state \in {"pending_commit", "confirmed", "failed", "undone"}
             /\ cmd[c].request = j.request /\ cmd[c].action = j.action
        /\ j.pc = "decide" =>
             /\ cmd[c].state \in {"decision_sent", "confirmed", "failed"}
             /\ cmd[c].request = j.request /\ cmd[c].action = j.action
             /\ counted[c] = 1
        /\ j.pc = "undo" => cmd[c].state \notin {"absent", "decision_sent"}
        /\ j.pc = "handback" => cmd[c].state = "passed_through"
        /\ j.pc = "stale" /\ c \in Commands /\ cmd[c].state = "decision_sent" =>
             cmd[c].request = j.request

JobsKnow == OneRuns /\ OneTask /\ \A h \in Handlers : Knows(h)

\* What a handler knows when it starts.
LEMMA StartKnows ==
    ASSUME ServerInv, NEW h \in Handlers, JobStarts(h)
    PROVE  /\ Knows(h)'
           /\ job'[h].pc \in {"claim", "stale", "undo", "answer"}
<1>0. h \in DOMAIN job /\ UNCHANGED storeVars
  BY StartKeeps DEF ServerInv, ServerTypeOK
<1>a. cmd' = cmd /\ counted' = counted
  BY <1>0 DEF storeVars
<1>1. ASSUME NEW c \in Commands, NEW r \in Requests, NEW action \in Actions,
             NEW delay \in Delays, Submit(h, c, r, action, delay)
      PROVE  Knows(h)' /\ job'[h].pc \in {"claim", "stale"}
  <2> DEFINE pc == IF IsApproval(r) /\ Active(r) THEN "claim" ELSE "stale"
  <2>1. job'[h].pc = pc /\ job'[h].command = c
    BY <1>0, <1>1 DEF Submit, NoJob
  <2>2. pc \in {"claim", "stale"}
    OBVIOUS
  <2>3. cmd[c].state = "absent"
    BY <1>1 DEF Submit
  <2> HIDE DEF pc
  <2> QED BY <1>a, <2>1, <2>2, <2>3 DEF Knows
<1>2. ASSUME NEW c \in Commands, UndoRequest(h, c)
      PROVE  Knows(h)' /\ job'[h].pc = "undo"
  <2>1. job'[h].pc = "undo" /\ job'[h].command = c
    BY <1>0, <1>2 DEF UndoRequest, NoJob
  <2>2. cmd[c].state = "pending_commit"
    BY <1>2 DEF UndoRequest, Undoable
  <2> QED BY <1>a, <2>1, <2>2 DEF Knows
<1>3. ASSUME NEW q \in Requests, NEW response \in {"answer", "native"}, SubmitAnswer(h, q, response)
      PROVE  Knows(h)' /\ job'[h].pc = "answer"
  <2>1. job'[h].pc = "answer" /\ job'[h].command = None
    BY <1>0, <1>3 DEF SubmitAnswer, NoJob
  <2> QED BY <2>1 DEF Knows
<1> QED BY <1>1, <1>2, <1>3 DEF JobStarts

\* A handler is alone when it does anything, and it starts when none runs.
LEMMA AloneWhenMoving ==
    ASSUME ServerInv, OneRuns, NEW h \in Handlers, JobStep(h) \/ JobStarts(h)
    PROVE  \A g \in Handlers \ {h} : ~Busy(g)
<1>1. CASE JobStarts(h)
  BY <1>1, StartKeeps DEF ServerInv, Running, Busy
<1>2. CASE JobProbe(h) /\ MayWake(h)
  BY <1>2 DEF MayWake, Running, Busy
<1>3. ASSUME JobStep(h), ~(JobProbe(h) /\ MayWake(h))
      PROVE  Busy(h)
  BY <1>3 DEF JobStep, JobClaim, JobProbe, JobCommit, JobDecide, JobHandBack, JobExpire, JobUndo,
     JobAnswer, JobAck, Busy
<1> QED BY <1>1, <1>2, <1>3 DEF OneRuns

LEMMA OneRunsStep ==
    ASSUME ServerInv, OneRuns, Turn
    PROVE  OneRuns'
<1>0. ServerTypeOK
  BY DEF ServerInv
<1>1. ASSUME NEW h \in Handlers, JobStep(h) \/ JobStarts(h)
      PROVE  OneRuns'
  <2>1. \A g \in Handlers \ {h} : job'[g] = job[g] /\ ~Busy(g)
    BY <1>0, <1>1, AloneWhenMoving, JobKeeps, StartKeeps
  <2> QED BY <2>1 DEF OneRuns, Busy
<1>2. CASE Crash
  BY <1>2 DEF Crash, OneRuns, Busy, NoJob
<1>3. CASE ~(\E h \in Handlers : JobStep(h) \/ JobStarts(h)) /\ ~Crash
  BY <1>0, <1>3, OthersKeepJobs DEF OneRuns, Busy
<1> QED BY <1>1, <1>2, <1>3

\* A handler keeps its knowledge while it does nothing.
LEMMA IdleKnows ==
    ASSUME ServerInv, JobsKnow, Turn, NEW h \in Handlers, job'[h] = job[h],
           ~JobClaim(h), ~JobCommit(h)
    PROVE  Knows(h)'
<1> DEFINE j == job[h]
           c == j.command
<1>0. /\ StoreInv /\ [StoreNext]_storeVars /\ JobFit(h) /\ None \notin Commands
      /\ Knows(h) /\ ServerTypeOK
  BY TurnIsStore, LoopAssumption DEF ServerInv, DecisionInv, JobsKnow, LoopAssumption, JobsFit
<1>1. (\A d \in Commands : CommandStep(d)) /\ KeepsRows
  BY <1>0, StoreSteps, RowsKept DEF StoreStep
<1>2. CASE c \notin Commands
  BY <1>0, <1>2 DEF Knows, JobFit
<1>3. CASE c \in Commands
  <2>1. ASSUME Busy(h)
        PROVE  /\ cmd[c].state = "absent" => cmd'[c].state = "absent"
               /\ cmd'[c].state = "decision_sent" => cmd[c].state = "decision_sent"
    <3>1. CASE Passive
      BY <1>3, <3>1 DEF Passive
    <3>2. ~AttendMove
      BY <2>1 DEF AttendMove, Attend, Running, Busy
    <3>3. ~\E g \in Handlers : JobClaim(g) \/ JobCommit(g)
      <4> SUFFICES ASSUME NEW g \in Handlers, JobClaim(g) \/ JobCommit(g) PROVE FALSE
        OBVIOUS
      <4>1. Busy(g)
        BY DEF JobClaim, JobCommit, Busy
      <4>2. g = h
        BY <2>1, <4>1 DEF JobsKnow, OneRuns
      <4> QED BY <4>2
    <3> QED BY <3>1, <3>2, <3>3, CommandMoves
  <2>2. ASSUME j.pc \in {"sleep", "probe", "commit"}, cmd'[c].state = "decision_sent"
        PROVE  FALSE
    <3>1. cmd[c].state # "decision_sent"
      BY <1>0, <2>2 DEF Knows
    <3>2. CASE Passive
      BY <1>3, <2>2, <3>1, <3>2 DEF Passive
    <3>3. ASSUME NEW g \in Handlers, JobCommit(g),
                 \A d \in Commands \ {job[g].command} : cmd'[d] = cmd[d]
          PROVE  FALSE
      <4>1. job[g].command = c
        BY <1>3, <2>2, <3>1, <3>3
      <4>2. job[g].pc = "commit"
        BY <3>3 DEF JobCommit
      <4>3. g = h
        BY <2>2, <4>1, <4>2 DEF JobsKnow, OneTask, Deciding
      <4> QED BY <3>3, <4>3
    <3> QED BY <1>3, <2>2, <3>1, <3>2, <3>3, CommandMoves
  <2>3. CASE j.pc = "claim"
    BY <1>0, <2>1, <2>3 DEF Busy, Knows
  <2>4. CASE j.pc \in {"sleep", "probe", "commit"}
    BY <1>0, <1>1, <1>3, <2>2, <2>4 DEF Knows, KeepsRows, CommandStep
  <2>5. CASE j.pc = "decide"
    BY <1>0, <1>1, <1>3, <2>5 DEF Knows, KeepsRows, CommandStep
  <2>6. CASE j.pc = "undo"
    BY <1>0, <1>1, <1>3, <2>1, <2>6 DEF Knows, KeepsRows, Busy
  <2>7. CASE j.pc = "handback"
    BY <1>0, <1>1, <1>3, <2>7 DEF Knows, CommandStep
  <2>8. CASE j.pc = "stale"
    BY <1>0, <1>1, <1>3, <2>1, <2>8 DEF Knows, KeepsRows, Busy
  <2>9. CASE j.pc \in {"idle", "answer", "ack"}
    BY <1>0, <2>9 DEF Knows
  <2>10. j.pc \in JobPC
    BY <1>0 DEF ServerTypeOK, JobType
  <2> QED BY <2>3, <2>4, <2>5, <2>6, <2>7, <2>8, <2>9, <2>10 DEF JobPC
<1> QED BY <1>2, <1>3

\* A handler that ended knows nothing, and that is all it should.
LEMMA EndKnows == ASSUME NEW h \in Handlers, job'[h] = NoJob PROVE Knows(h)'
BY DEF NoJob, Knows

\* A handler that moves learns what it needs.
LEMMA StepKnows ==
    ASSUME ServerInv, JobsKnow, Turn, NEW h \in Handlers, JobStep(h)
    PROVE  Knows(h)'
<1> DEFINE j == job[h]
           c == j.command
<1>0. /\ StoreInv /\ StoreTypeOK /\ [StoreNext]_storeVars /\ JobFit(h) /\ ServerTypeOK
      /\ DecisionsCounted /\ Knows(h)
  BY TurnIsStore DEF ServerInv, DecisionInv, StoreInv, JobsKnow, JobsFit, CountedOnce
<1>a. CASE JobEnds(h)
  BY <1>0, <1>a, JobEnded, EndKnows
<1>b. ASSUME NEW pc \in JobPC, JobGoes(h, pc)
      PROVE  job'[h].pc = pc /\ GoesOn(h)
  BY <1>0, <1>b, JobGoesOn
<1>c. UNCHANGED storeVars => cmd' = cmd /\ counted' = counted
  BY DEF storeVars
<1>1. CASE JobClaim(h)
  <2> DEFINE pc == IF j.action = "pass_through" THEN "handback"
                   ELSE IF j.delay = 0 THEN "probe" ELSE "sleep"
  <2>1. CASE Claim(c, j.request, j.action, j.at, j.delay) /\ JobGoes(h, pc)
    <3>1. job'[h].pc = pc /\ GoesOn(h)
      BY <1>b, <2>1 DEF JobPC
    <3>2. c \in Commands
      BY <1>0, <1>1 DEF JobClaim, JobFit
    <3>3. CASE j.action = "pass_through"
      <4>1. cmd'[c].state = "passed_through"
        BY <1>0, <2>1, <3>2, <3>3 DEF Claim, StoreTypeOK
      <4> QED BY <3>1, <3>3, <4>1 DEF Knows, GoesOn
    <3>4. CASE j.action # "pass_through"
      <4>1. /\ cmd'[c].state = "pending_commit" /\ cmd'[c].request = j.request
            /\ cmd'[c].action = j.action
        BY <1>0, <2>1, <3>2, <3>4 DEF Claim, StoreTypeOK
      <4>2. job'[h].pc \in {"probe", "sleep"}
        BY <3>1, <3>4
      <4> QED BY <3>1, <4>1, <4>2 DEF Knows, GoesOn
    <3> QED BY <3>3, <3>4
  <2> QED BY <1>1, <1>a, <2>1 DEF JobClaim
<1>2. CASE JobProbe(h)
  <2>1. job'[h].pc = "commit" /\ GoesOn(h)
    <3>1. j \in JobType /\ h \in DOMAIN job
      BY <1>0 DEF ServerTypeOK
    <3>2. /\ job'[h].pc = "commit" /\ job'[h].command = c /\ job'[h].request = j.request
          /\ job'[h].action = j.action /\ job'[h].at = j.at /\ job'[h].delay = j.delay
      BY <1>2, <3>1 DEF JobProbe, JobType
    <3> QED BY <3>2 DEF GoesOn
  <2>2. j.pc \in {"probe", "sleep"} /\ cmd' = cmd
    BY <1>2, <1>c DEF JobProbe, MayWake
  <2> QED BY <1>0, <2>1, <2>2 DEF Knows, GoesOn
<1>3. CASE JobCommit(h)
  <2>1. CASE CommitSent(c, j.at + j.delay) /\ JobGoes(h, "decide")
    <3>1. job'[h].pc = "decide" /\ GoesOn(h)
      BY <1>b, <2>1 DEF JobPC
    <3>2. c \in Commands /\ j.pc = "commit"
      BY <1>0, <1>3 DEF JobCommit, JobFit
    <3>3. cmd[c].state = "pending_commit" /\ counted[c] = 0
      BY <1>0, <2>1, <3>2 DEF CommitSent, DecisionsCounted
    <3>4. cmd'[c].state = "decision_sent" /\ counted'[c] = 1
      BY <1>0, <2>1, <3>2, <3>3, StateSet DEF CommitSent, StoreTypeOK
    <3>5. cmd'[c].request = cmd[c].request /\ cmd'[c].action = cmd[c].action
      BY <1>0, <3>2, <3>3, RowsKept DEF KeepsRows
    <3> QED BY <1>0, <3>1, <3>2, <3>4, <3>5 DEF Knows, GoesOn
  <2> QED BY <1>3, <1>a, <2>1 DEF JobCommit
<1>4. CASE JobDecide(h)
  <2>1. CASE JobGoes(h, "stale")
    <3>1. job'[h].pc = "stale" /\ GoesOn(h)
      BY <1>b, <2>1 DEF JobPC
    <3>2. j.pc = "decide" /\ cmd' = cmd
      BY <1>4, <1>c DEF JobDecide
    <3> QED BY <1>0, <3>1, <3>2 DEF Knows, GoesOn
  <2> QED BY <1>4, <1>a, <2>1 DEF JobDecide
<1>5. CASE JobAnswer(h)
  <2>1. PICK pc \in {"ack", "stale"} : JobGoes(h, pc)
    BY <1>5 DEF JobAnswer
  <2>2. job'[h].pc = pc /\ GoesOn(h)
    BY <1>b, <2>1 DEF JobPC
  <2>3. c = None /\ None \notin Commands
    BY <1>0, <1>5, LoopAssumption DEF JobAnswer, Knows, LoopAssumption
  <2> QED BY <2>2, <2>3 DEF Knows, GoesOn
<1>6. CASE JobHandBack(h) \/ JobExpire(h) \/ JobUndo(h) \/ JobAck(h)
  BY <1>6, <1>a DEF JobHandBack, JobExpire, JobUndo, JobAck
<1> QED BY <1>1, <1>2, <1>3, <1>4, <1>5, <1>6 DEF JobStep

\* A task is the only one of its decision.
LEMMA OneTaskStep ==
    ASSUME ServerInv, JobsKnow, Turn
    PROVE  OneTask'
<1>0. ServerTypeOK /\ JobsFit
  BY DEF ServerInv
<1>1. ASSUME NEW h \in Handlers, JobStep(h), job'[h].pc \in Deciding, job[h].pc \notin Deciding,
             NEW g \in Handlers, job[g].pc \in Deciding
      PROVE  job[g].command # job'[h].command
  <2>1. JobClaim(h)
    <3>1. ~JobEnds(h)
      BY <1>0, <1>1, JobEnded DEF NoJob, Deciding
    <3>2. \A pc \in {"ack", "stale"} : ~JobGoes(h, pc)
      BY <1>0, <1>1, JobGoesOn DEF JobPC, Deciding
    <3> QED BY <1>1, <3>1, <3>2 DEF JobStep, JobProbe, MayWake, JobCommit, JobDecide, JobHandBack,
         JobExpire, JobUndo, JobAnswer, JobAck, Deciding
  <2>2. job'[h].command = job[h].command
    <3>1. ~JobEnds(h)
      BY <1>0, <1>1, JobEnded DEF NoJob, Deciding
    <3> QED BY <1>0, <1>1, <3>1, <2>1, JobGoesOn DEF JobClaim, JobPC, GoesOn
  <2>3. cmd[job[h].command].state = "absent"
    BY <2>1 DEF JobClaim, JobsKnow, Knows
  <2>4. cmd[job[g].command].state # "absent"
    BY <1>1 DEF JobsKnow, Knows, Deciding
  <2> QED BY <2>2, <2>3, <2>4
<1>2. ASSUME NEW h \in Handlers, JobStep(h)
      PROVE  OneTask'
  <2>1. \A g \in Handlers \ {h} : job'[g] = job[g]
    BY <1>0, <1>2, JobKeeps
  <2>2. CASE job'[h].pc \notin Deciding
    BY <2>1, <2>2 DEF JobsKnow, OneTask
  <2>3. CASE job'[h].pc \in Deciding /\ job[h].pc \in Deciding
    <3>1. job'[h].command = job[h].command
      BY <1>0, <1>2, <2>3, JobKeeps DEF NoJob, Deciding, GoesOn
    <3> QED BY <2>1, <2>3, <3>1 DEF JobsKnow, OneTask
  <2>4. CASE job'[h].pc \in Deciding /\ job[h].pc \notin Deciding
    BY <1>1, <1>2, <2>1, <2>4 DEF JobsKnow, OneTask
  <2> QED BY <2>2, <2>3, <2>4
<1>3. ASSUME NEW h \in Handlers, JobStarts(h)
      PROVE  OneTask'
  <2>1. \A g \in Handlers \ {h} : job'[g] = job[g]
    BY <1>0, <1>3, StartKeeps
  <2>2. job'[h].pc \notin Deciding
    BY <1>3, StartKnows DEF Deciding
  <2> QED BY <2>1, <2>2 DEF JobsKnow, OneTask
<1>4. CASE Crash
  BY <1>4 DEF Crash, OneTask, NoJob, Deciding
<1>5. CASE ~(\E h \in Handlers : JobStep(h) \/ JobStarts(h)) /\ ~Crash
  BY <1>0, <1>5, OthersKeepJobs DEF JobsKnow, OneTask
<1> QED BY <1>2, <1>3, <1>4, <1>5

LEMMA KnowsStep ==
    ASSUME ServerInv, JobsKnow, Turn
    PROVE  JobsKnow'
<1>1. ASSUME NEW h \in Handlers
      PROVE  Knows(h)'
  <2>1. CASE JobStep(h)
    BY <2>1, StepKnows
  <2>2. CASE JobStarts(h)
    BY <2>2, StartKnows
  <2>3. CASE Crash
    BY <2>3, EndKnows DEF Crash
  <2>4. CASE job'[h] = job[h] /\ ~JobStep(h)
    BY <2>4, IdleKnows DEF JobStep
  <2> QED BY <2>1, <2>2, <2>3, <2>4, JobStays DEF ServerInv
<1>2. OneRuns'
  BY OneRunsStep DEF JobsKnow
<1> QED BY <1>1, <1>2, OneTaskStep DEF JobsKnow

LEMMA LoopKnows == LoopSafety => []JobsKnow
<1>1. LoopInit => JobsKnow
  BY DEF LoopInit, JobsKnow, OneRuns, Busy, OneTask, Deciding, Knows, NoJob
<1>2. LoopInv /\ JobsKnow /\ [LoopNext]_loopVars => JobsKnow'
  BY KnowsStep, LoopIsServer
<1> QED BY <1>1, <1>2, LoopKeepsInv, PTL DEF LoopSafety

-----------------------------------------------------------------------------
(* Decisions that were sent *)

\* A decision of the user that is on its way or was counted.
SentFromDecision ==
    \A r \in Requests : \A d \in Decisions :
      mailbox[r] = <<d>> =>
        \E c \in Commands :
          cmd[c].request = r /\ cmd[c].action = d /\ counted[c] = 1 /\ cmd[c].state # "undone"

\* A decision that was counted is never undone, and keeps its row.
LEMMA CountedStays ==
    ASSUME ServerInv, Turn, NEW c \in Commands,
           counted[c] = 1, cmd[c].state # "undone"
    PROVE  /\ counted'[c] = 1 /\ cmd'[c].state # "undone"
           /\ cmd'[c].request = cmd[c].request /\ cmd'[c].action = cmd[c].action
<1>1. StoreInv /\ [StoreNext]_storeVars /\ DecisionsCounted
  BY TurnIsStore DEF ServerInv, DecisionInv, CountedOnce
<1>2. CommandStep(c) /\ KeepsRows
  BY <1>1, StoreSteps, RowsKept DEF StoreStep
<1> QED BY <1>1, <1>2 DEF CommandStep, KeepsRows, DecisionsCounted

\* Where a decision on a channel comes from.
LEMMA DecisionSent ==
    ASSUME ServerInv, Turn, NEW r \in Requests, NEW d \in Decisions,
           mailbox[r] # <<d>>, mailbox'[r] = <<d>>
    PROVE  /\ Active(r)
           /\ \E h \in Handlers :
                JobDecide(h) /\ job[h].request = r /\ job[h].action = d /\ job[h].pc = "decide"
<1>0. ServerTypeOK /\ JobsFit /\ ChannelsFit
  BY DEF ServerInv
<1>a. \A m : <<m>> = <<d>> => m = d
  OBVIOUS
<1>b. <<>> # <<d>>
  OBVIOUS
<1>1. ~\E gone \in SUBSET Requests : Passes(gone, "native")
  BY <1>a DEF Passes, Leaves
<1>2. ~\E q \in Requests : Joining(q)
  BY <1>a, <1>b DEF Joining, Joins
<1>3. ~Dies
  BY DEF Dies
<1>4. PICK h \in Handlers : Sends(h)
  BY <1>0, <1>1, <1>2, <1>3, TurnWaiters DEF WaitersMove
<1>5. job[h].request = r /\ job[h].action = d /\ Active(r)
  BY <1>4, <1>a DEF Sends, Passes, Leaves
<1>6. job[h].pc # "answer"
  BY <1>0, <1>5 DEF JobsFit, JobFit
<1> QED BY <1>4, <1>5, <1>6 DEF Sends

LEMMA SentFromStep ==
    ASSUME ServerInv, JobsKnow, SentFromDecision, Turn
    PROVE  SentFromDecision'
<1> SUFFICES ASSUME NEW r \in Requests, NEW d \in Decisions, mailbox'[r] = <<d>>
             PROVE  \E c \in Commands :
                      /\ cmd'[c].request = r /\ cmd'[c].action = d
                      /\ counted'[c] = 1 /\ cmd'[c].state # "undone"
  BY DEF SentFromDecision
<1>1. PICK c \in Commands :
        cmd[c].request = r /\ cmd[c].action = d /\ counted[c] = 1 /\ cmd[c].state # "undone"
  <2>1. CASE mailbox[r] = <<d>>
    BY <2>1 DEF SentFromDecision
  <2>2. CASE mailbox[r] # <<d>>
    <3>1. PICK h \in Handlers : job[h].request = r /\ job[h].action = d /\ job[h].pc = "decide"
      BY <2>2, DecisionSent
    <3>2. job[h].command \in Commands
      BY <3>1 DEF ServerInv, JobsFit, JobFit
    <3> QED BY <3>1, <3>2 DEF JobsKnow, Knows
  <2> QED BY <2>1, <2>2
<1> QED BY <1>1, CountedStays

LEMMA LoopSendsDecisions == LoopSafety => []SentFromDecision
<1>1. LoopInit => SentFromDecision
  <2> SUFFICES ASSUME LoopInit PROVE SentFromDecision
    OBVIOUS
  <2>1. \A d : <<>> # <<d>>
    OBVIOUS
  <2> QED BY <2>1 DEF LoopInit, Registry!RegistryInit, SentFromDecision
<1>2. LoopInv /\ JobsKnow /\ SentFromDecision /\ [LoopNext]_loopVars => SentFromDecision'
  BY SentFromStep, LoopIsServer
<1> QED BY <1>1, <1>2, LoopKeepsInv, LoopKnows, PTL DEF LoopSafety

\* SentIsDelivered for channels that hold one response.
Delivered ==
    \A c \in Commands :
      up /\ cmd[c].state = "decision_sent" /\ ~InFlight(c) =>
        \/ mailbox[cmd[c].request] = <<cmd[c].action>>
        \/ att[cmd[c].request].state = "resolved"

\* The item of a sent decision that ended was resolved.
LEMMA SentItem ==
    ASSUME ServerInv, NEW c \in Commands, cmd[c].state = "decision_sent"
    PROVE  /\ cmd[c].request \in Requests /\ cmd[c].action \in Decisions
           /\ att[cmd[c].request].state \in {"decision_sent", "resolved"}
BY DEF ServerInv, DecisionInv, StoreInv, CommandsDecide, ItemsFitCommands

\* A handler that leaves a sent decision has delivered it or found its item ended.
LEMMA LeavesDelivered ==
    ASSUME ServerInv, JobsKnow, Turn, NEW h \in Handlers, JobStep(h),
           NEW c \in Commands, job[h].command = c, job'[h].command # c,
           cmd[c].state = "decision_sent", cmd'[c].state = "decision_sent"
    PROVE  \/ mailbox'[cmd[c].request] = <<cmd[c].action>>
           \/ att'[cmd[c].request].state = "resolved"
<1> DEFINE j == job[h]
           r == cmd[c].request
<1>0. /\ ServerTypeOK /\ JobsFit /\ ChannelsFit /\ StoreTypeOK /\ Knows(h) /\ None \notin Commands
      /\ r \in Requests /\ cmd[c].action \in Decisions
      /\ att[r].state \in {"decision_sent", "resolved"}
  BY SentItem, LoopAssumption DEF ServerInv, DecisionInv, StoreInv, JobsKnow, LoopAssumption
<1>1. job'[h] = NoJob
  BY <1>0, JobKeeps DEF GoesOn
<1>2. JobDecide(h) \/ JobExpire(h)
  <2>1. j.pc \notin {"claim", "sleep", "probe", "commit", "undo", "handback", "answer", "ack"}
    BY <1>0 DEF Knows
  <2> QED BY <2>1 DEF JobStep, JobClaim, JobProbe, MayWake, JobCommit, JobHandBack, JobUndo,
       JobAnswer, JobAck
<1>3. CASE JobDecide(h)
  <2>1. j.pc = "decide" /\ j.request = r /\ j.action = cmd[c].action
    BY <1>0, <1>3 DEF JobDecide, Knows
  <2>2. ~JobGoes(h, "stale")
    BY <1>0, <1>1, JobGoesOn DEF JobPC, NoJob
  <2>3. Registry!Resolve(r, cmd[c].action)
    BY <1>3, <2>1, <2>2 DEF JobDecide
  <2>4. Passes({r}, cmd[c].action)
    BY <1>0, <2>3, ResolvePasses DEF Responses
  <2> QED BY <1>0, <2>4 DEF Passes, Leaves
<1>4. CASE JobExpire(h)
  <2>1. j.pc = "stale" /\ j.request = r /\ ExpireApproval(r, "other")
    BY <1>0, <1>4 DEF JobExpire, Knows
  <2>2. CASE att[r].state \in LiveStates
    <3>1. FailCommands({r})
      BY <2>1, <2>2 DEF ExpireApproval
    <3>2. cmd'[c].state = "failed"
      BY <1>0, <3>1, StateSet DEF FailCommands
    <3> QED BY <3>2
  <2>3. CASE att[r].state \notin LiveStates
    BY <1>0, <2>1, <2>3 DEF ExpireApproval, storeVars
  <2> QED BY <2>2, <2>3
<1> QED BY <1>2, <1>3, <1>4

LEMMA DeliveredStep ==
    ASSUME ServerInv, ServerInv', JobsKnow, Delivered, Turn
    PROVE  Delivered'
<1> SUFFICES ASSUME NEW c \in Commands, up', cmd'[c].state = "decision_sent", ~InFlight(c)'
             PROVE  \/ mailbox'[cmd'[c].request] = <<cmd'[c].action>>
                    \/ att'[cmd'[c].request].state = "resolved"
  BY DEF Delivered
<1>0. /\ ServerTypeOK /\ JobsFit /\ ChannelsFit /\ StoreInv /\ [StoreNext]_storeVars
      /\ None \notin Commands
  BY TurnIsStore, LoopAssumption DEF ServerInv, DecisionInv, LoopAssumption
<1>a. /\ cmd'[c].request \in Requests
      /\ att'[cmd'[c].request].state \in {"decision_sent", "resolved"}
  BY SentItem DEF ServerInv, DecisionInv, StoreInv, CommandsDecide, ItemsFitCommands
<1>1. CASE Startup
  <2>1. Settle({r \in Requests : att[r].state \in LiveStates}, "expired", "other")
    BY <1>1 DEF Startup, Reopen
  <2>2. att'[cmd'[c].request].state # "decision_sent"
    BY <1>a, <2>1 DEF Settle
  <2> QED BY <1>a, <2>2
<1>2. CASE Crash
  BY <1>2 DEF Crash
<1>3. CASE ~Startup /\ ~Crash
  <2>1. up
    BY <1>0, <1>3, UpStays
  <2>2. cmd[c].state = "decision_sent"
    <3>1. CASE Passive
      BY <3>1 DEF Passive
    <3>2. ASSUME NEW h \in Handlers, JobCommit(h), JobGoes(h, "decide"),
                 \A d \in Commands \ {job[h].command} : cmd'[d] = cmd[d],
                 cmd[c].state # "decision_sent"
          PROVE  FALSE
      <4>1. job[h].command = c
        BY <3>2
      <4>2. job'[h].command = c
        BY <1>0, <3>2, <4>1, JobGoesOn DEF JobPC, GoesOn
      <4> QED BY <4>2 DEF InFlight
    <3> QED BY <3>1, <3>2, CommandMoves
  <2>3. cmd'[c].request = cmd[c].request /\ cmd'[c].action = cmd[c].action
    BY <1>0, <2>2, RowsKept DEF KeepsRows
  <2>4. CASE InFlight(c)
    <3>1. PICK h \in Handlers : job[h].command = c
      BY <2>4 DEF InFlight
    <3>2. job'[h].command # c
      BY DEF InFlight
    <3>3. ~JobStarts(h)
      BY <1>0, <3>1, StartKeeps DEF JobsKnow, Knows
    <3>4. JobStep(h)
      BY <1>0, <1>3, <3>1, <3>2, <3>3, JobStays
    <3> QED BY <2>2, <2>3, <3>1, <3>2, <3>4, LeavesDelivered
  <2>5. CASE ~InFlight(c)
    <3>1. CASE mailbox[cmd[c].request] = <<cmd[c].action>>
      <4>1. \A m : <<m>> # <<>>
        OBVIOUS
      <4>2. mailbox[cmd[c].request] # <<>>
        BY <3>1, <4>1
      <4> QED BY <1>0, <1>a, <2>3, <3>1, <4>2, MailStays
    <3>2. CASE att[cmd[c].request].state = "resolved"
      <4>1. KeepsEnded
        BY EndedKept
      <4> QED BY <1>a, <2>3, <3>2, <4>1 DEF KeepsEnded
    <3> QED BY <2>1, <2>2, <2>5, <3>1, <3>2 DEF Delivered
  <2> QED BY <2>4, <2>5
<1> QED BY <1>1, <1>2, <1>3

LEMMA LoopKeepsDelivered == LoopSafety => []Delivered
<1>1. LoopInit => Delivered
  BY DEF LoopInit, StoreInit, NoCommand, Delivered
<1>2. LoopInv /\ ServerInv' /\ JobsKnow /\ Delivered /\ [LoopNext]_loopVars => Delivered'
  BY DeliveredStep, LoopIsServer
<1> QED BY <1>1, <1>2, LoopKnowsServer, LoopKeepsInv, LoopKnows, PTL DEF LoopSafety

\* A decision that reads as sent was put into the channel of its request, or the
\* provider ended the request by itself: through every race of the commit with
\* the waiter that leaves, a withdrawal, the deadline, an event or a crash.
THEOREM LoopDelivers == LoopSafety => []SentIsDelivered
<1>1. LoopInv /\ Delivered => SentIsDelivered
  <2> SUFFICES ASSUME LoopInv, Delivered, up, NEW c \in Commands,
                      cmd[c].state = "decision_sent", ~InFlight(c)
               PROVE  \/ \E i \in DOMAIN mailbox[cmd[c].request] :
                           mailbox[cmd[c].request][i] = cmd[c].action
                      \/ att[cmd[c].request].state = "resolved"
    BY DEF SentIsDelivered
  <2>1. \A a : 1 \in DOMAIN <<a>> /\ <<a>>[1] = a
    OBVIOUS
  <2> QED BY <2>1 DEF Delivered
<1> QED BY <1>1, LoopKeepsInv, LoopKeepsDelivered, PTL

-----------------------------------------------------------------------------
(* The contract *)

LEMMA StandingMember ==
    ASSUME NEW r \in Requests, NEW a
    PROVE  a \in Standing[r] <=>
             /\ a \in Decisions
             /\ \E c \in Commands : cmd[c].request = r /\ Stands(c) /\ cmd[c].action = a
BY DEF Standing

\* A provider is told something once, and while the store decides nothing.
LEMMA ClientMoves ==
    ASSUME LoopTypeOK, [LoopNext]_loopVars, client' # client
    PROVE  /\ UNCHANGED <<cmd, counted>>
           /\ \/ Crash
              \/ \E r \in Requests :
                   /\ client'[r] # client[r] /\ client[r] \in {"idle", "asking"}
                   /\ client' \in [Requests -> ClientStates]
                   /\ \A q \in Requests \ {r} : client'[q] = client[q]
<1>1. CASE Crash
  BY <1>1 DEF Crash, storeVars
<1>2. CASE ~Crash
  <2>1. PICK r \in Requests : HookMove(r)
    BY <1>2, OthersKeepHooks
  <2>2. /\ client \in [Requests -> ClientStates]
        /\ client' \in [Requests -> ClientStates]
        /\ \A q \in Requests \ {r} : client'[q] = client[q]
    BY <2>1, HookKeeps DEF LoopTypeOK, ClientStates
  <2>3. client'[r] # client[r]
    BY <2>2
  <2>4. client[r] \in {"idle", "asking"} /\ UNCHANGED <<cmd, counted>>
    <3>1. CASE HookRegister(r) \/ HookReceive(r) \/ HookClose(r) \/ ClientGone(r)
      BY <2>2, <2>3, <3>1 DEF HookRegister, HookReceive, HookClose, ClientGone, storeVars
    <3>2. CASE AgentUnconfirm(r)
      BY <2>2, <2>3, <3>2 DEF AgentUnconfirm, MarkUnconfirmed
    <3> QED BY <2>1, <2>3, <3>1, <3>2 DEF HookMove, HookStep, HookExpireReplaced, HookIngest,
         HookRefused, HookTimeout, HookGiveUp, HookExpire, AgentGivesUp, AgentExpire
  <2> QED BY <2>2, <2>3, <2>4
<1> QED BY <1>1, <1>2

\* A decision that the provider was told stands after every step.
LEMMA ToldStands ==
    ASSUME ServerInv, SentFromDecision, Turn,
           NEW r \in Requests, client[r] \in Decisions, mailbox[r] = <<client[r]>>
    PROVE  client[r] \in Standing[r] /\ client[r] \in Standing'[r]
<1>1. PICK c \in Commands :
        /\ cmd[c].request = r /\ cmd[c].action = client[r]
        /\ counted[c] = 1 /\ cmd[c].state # "undone"
  BY DEF SentFromDecision
<1>2. client[r] \in Standing[r]
  BY <1>1, StandingMember DEF Stands
<1>3. /\ cmd'[c].request = r /\ cmd'[c].action = client[r]
      /\ counted'[c] = 1 /\ cmd'[c].state # "undone"
  BY <1>1, CountedStays
<1>4. client[r] \in Standing'[r]
  BY <1>3 DEF Standing, Stands
<1> QED BY <1>2, <1>4

\* A step that tells nobody anything proposes, withdraws or does nothing.
LEMMA StoreMapped ==
    ASSUME ServerInv, SentFromDecision, Turn, client' = client,
           \A r \in Requests : client[r] \in Decisions => mailbox[r] = <<client[r]>>
    PROVE  Contract!ContractNext
<1>0. StoreInv /\ OneDecisionUnderWay /\ CountedOnce /\ ItemsFitCommands /\ OneStands
  BY DEF ServerInv, DecisionInv
<1>1. Told' = Told
  BY DEF Told
<1>a. ASSUME NEW r \in Requests, NEW a
      PROVE  a \in Standing'[r] <=>
               /\ a \in Decisions
               /\ \E c \in Commands : cmd'[c].request = r /\ Stands(c)' /\ cmd'[c].action = a
  BY DEF Standing
<1>2. CASE NoneProposed
  <2> DEFINE R == {r \in Requests : Standing'[r] # Standing[r]}
  <2>1. ASSUME NEW r \in R
        PROVE  Standing'[r] = {} /\ Told[r] \notin Standing[r]
    <3>1. Standing'[r] \subseteq Standing[r]
      BY <1>2, <1>a, StandingMember DEF NoneProposed
    <3>2. \A a, b \in Standing[r] : a = b
      BY <1>0, StandingMember DEF OneStands
    <3>3. Standing'[r] = {}
      BY <2>1, <3>1, <3>2
    <3>4. Told[r] \in Decisions => client[r] = Told[r]
      BY DEF Told
    <3>5. Told[r] \in Standing[r] => Told[r] \in Decisions
      BY StandingMember
    <3> QED BY <3>3, <3>4, <3>5, ToldStands
  <2>2. Standing' = [r \in Requests |-> IF r \in R THEN {} ELSE Standing[r]]
    BY <2>1 DEF Standing
  <2> HIDE DEF R
  <2>3. R \in SUBSET Requests
    BY DEF R
  <2>4. Contract!Withdraw(R)
    BY <1>1, <2>1, <2>2 DEF Contract!Withdraw
  <2> QED BY <2>3, <2>4 DEF Contract!ContractNext
<1>3. ASSUME NEW c \in Commands, NEW r \in Requests, NEW d \in Decisions, Proposes(c, r, d)
      PROVE  Contract!ContractNext
  <2>1. Standing[r] = {}
    BY <1>0, <1>3, ProposedAlone, StandingMember
  <2>2. \A e \in Commands \ {c} : cmd'[e] = cmd[e] /\ (Stands(e)' <=> Stands(e))
    BY <1>3 DEF Proposes, Stands
  <2>3. Stands(c)' /\ cmd'[c].request = r /\ cmd'[c].action = d
    BY <1>3 DEF Proposes, Stands
  <2>4. ~Stands(c)
    BY <1>0, <1>3 DEF Proposes, Stands, CountedOnce, DecisionsCounted
  <2>5. ASSUME NEW q \in Requests
        PROVE  Standing'[q] = IF q = r THEN {d} ELSE Standing[q]
    <3>1. CASE q = r
      <4>1. \A a : a \in Standing'[q] <=> a = d
        <5>1. \A e \in Commands : Stands(e)' /\ cmd'[e].request = r /\ cmd'[e].action \in Decisions => e = c
          BY <1>0, <1>3, <2>2, ProposedAlone
        <5> QED BY <1>a, <2>3, <3>1, <5>1
      <4> QED BY <3>1, <4>1
    <3>2. CASE q # r
      <4>1. \A a : a \in Standing'[q] <=> a \in Standing[q]
        BY <1>a, <2>2, <2>3, <2>4, <3>2, StandingMember
      <4> QED BY <3>2, <4>1
    <3> QED BY <3>1, <3>2
  <2>6. Standing' = [Standing EXCEPT ![r] = {d}]
    BY <2>5 DEF Standing
  <2>7. Contract!Propose(r, d)
    BY <1>1, <2>1, <2>6 DEF Contract!Propose
  <2> QED BY <2>7 DEF Contract!ContractNext
<1>4. [StoreNext]_storeVars
  BY TurnIsStore
<1> QED BY <1>0, <1>2, <1>3, <1>4, OnlyClaimProposes

\* A message from the channel of a request whose provider waits is a decision
\* that stands, or an answer.
LEMMA HeardMapped ==
    ASSUME SentFromDecision, UNCHANGED <<cmd, counted>>, NEW r \in Requests, NEW m \in Responses,
           mailbox[r] = <<m>>, m # "native", Told[r] = "waiting", Told' = [Told EXCEPT ![r] = m]
    PROVE  Contract!ContractNext
<1>1. Standing' = Standing
  BY DEF Standing, Stands
<1>2. CASE m = "answer"
  <2>1. Contract!AnswerQuestion(r)
    BY <1>1, <1>2 DEF Contract!AnswerQuestion
  <2> QED BY <2>1 DEF Contract!ContractNext
<1>3. CASE m \in Decisions
  <2>1. m \in Standing[r]
    BY <1>3, StandingMember DEF SentFromDecision, Stands
  <2>2. Contract!Deliver(r, m)
    BY <1>1, <2>1 DEF Contract!Deliver
  <2> QED BY <1>3, <2>2 DEF Contract!ContractNext
<1> QED BY <1>2, <1>3 DEF Responses

\* Requests of providers that wait are handed back.
LEMMA HandedBack ==
    ASSUME UNCHANGED <<cmd, counted>>, NEW R, R \subseteq Requests,
           \A r \in R : Told[r] = "waiting",
           Told' = [r \in Requests |-> IF r \in R THEN "native" ELSE Told[r]]
    PROVE  Contract!ContractNext
<1>1. Standing' = Standing
  BY DEF Standing, Stands
<1>2. Contract!HandBack(R)
  BY <1>1 DEF Contract!HandBack
<1> QED BY <1>2 DEF Contract!ContractNext

\* Every request that is still asked is handed back when the process or the
\* connection ends.
LEMMA LossMapped ==
    ASSUME UNCHANGED <<cmd, counted>>,
           client' = [r \in Requests |-> IF client[r] = "asking" THEN "native" ELSE client[r]]
    PROVE  Contract!ContractNext
<1> DEFINE R == {r \in Requests : client[r] = "asking"}
<1>1. Told' = [r \in Requests |-> IF r \in R THEN "native" ELSE Told[r]]
  BY DEF Told
<1>2. R \subseteq Requests /\ \A r \in R : Told[r] = "waiting"
  BY DEF Told
<1> HIDE DEF R
<1> QED BY <1>1, <1>2, HandedBack

\* A step that tells providers something tells one a decision that stands or an
\* answer, or hands requests back.
LEMMA ClientMapped ==
    ASSUME LoopInv, SentFromDecision, [LoopNext]_loopVars, client' # client
    PROVE  Contract!ContractNext \/ UNCHANGED <<Standing, Told>>
<1>0. /\ LoopTypeOK /\ ChannelsFit /\ client \in [Requests -> ClientStates]
      /\ UNCHANGED <<cmd, counted>>
  BY ClientMoves DEF LoopInv, LoopTypeOK, ClientStates
<1>1. Standing' = Standing
  BY <1>0 DEF Standing, Stands
<1>2. CASE Crash
  <2>1. client' = [r \in Requests |-> IF client[r] = "asking" THEN "native" ELSE client[r]]
    BY <1>2 DEF Crash
  <2> QED BY <1>0, <2>1, LossMapped
<1>3. ASSUME NEW r \in Requests,
             client'[r] # client[r], client[r] \in {"idle", "asking"},
             client' \in [Requests -> ClientStates],
             \A q \in Requests \ {r} : client'[q] = client[q]
      PROVE  Contract!ContractNext \/ UNCHANGED <<Standing, Told>>
  <2>1. Told[r] = "waiting"
    BY <1>3 DEF Told
  <2>2. ASSUME client'[r] \in Responses
        PROVE  Told' = [Told EXCEPT ![r] = client'[r]]
    BY <1>3, <2>2 DEF Told, Responses
  <2>3. CASE client'[r] = "asking"
    <3>1. Told' = Told
      BY <1>3, <2>3 DEF Told
    <3> QED BY <1>1, <3>1
  <2>4. CASE client'[r] = "native"
    <3>1. Told' = [q \in Requests |-> IF q \in {r} THEN "native" ELSE Told[q]]
      BY <1>3, <2>4 DEF Told
    <3> QED BY <1>0, <2>1, <3>1, HandedBack
  <2>5. ASSUME Hears(r), client'[r] # "native"
        PROVE  Contract!ContractNext
    <3>1. PICK m \in Responses : mailbox[r] = <<m>>
      BY <1>0, <2>5 DEF Hears, HookReceive, ChannelsFit
    <3>2. client'[r] = m
      BY <2>5, <3>1 DEF Hears
    <3> QED BY <1>0, <2>1, <2>2, <2>5, <3>1, <3>2, HeardMapped
  <2> QED BY <1>0, <1>3, <2>3, <2>4, <2>5, ToldByConnection
<1> QED BY <1>0, <1>2, <1>3, ClientMoves

\* A Runtime that has just started promised nothing yet.
LEMMA LoopInitMapped ==
    ASSUME LoopInit
    PROVE  Contract!ContractInit
<1>1. \A c \in Commands : ~Stands(c)
  BY DEF LoopInit, StoreInit, NoCommand, Stands
<1>2. Standing = [r \in Requests |-> {}]
  BY <1>1 DEF Standing
<1>3. Told = [r \in Requests |-> "waiting"]
  BY DEF LoopInit, Told
<1> QED BY <1>2, <1>3 DEF Contract!ContractInit

\* The decision loop implements the contract: through every race of commands,
\* undo, deadlines, provider events, restarts and crashes, a provider is told
\* approve or deny only if exactly that decision of the user stands, a request
\* has one decision at a time, and none is withdrawn that was told.
THEOREM LoopImplements == LoopSafety => ImplementsContract
<1>1. LoopInit => Contract!ContractInit
  BY LoopInitMapped
<1>2. LoopInv /\ ToldFromChannel /\ SentFromDecision /\ [LoopNext]_loopVars =>
        [Contract!ContractNext]_(Contract!contractVars)
  <2> SUFFICES ASSUME LoopInv, ToldFromChannel, SentFromDecision, [LoopNext]_loopVars
               PROVE  [Contract!ContractNext]_(Contract!contractVars)
    OBVIOUS
  <2>1. ServerInv /\ Turn
    BY LoopIsServer
  <2>2. \A r \in Requests : client[r] \in Decisions => mailbox[r] = <<client[r]>>
    BY DEF ToldFromChannel, Verdict
  <2> QED BY <2>1, <2>2, StoreMapped, ClientMapped DEF Contract!contractVars
<1> QED BY <1>1, <1>2, LoopKeepsInv, LoopTellsFromChannel, LoopSendsDecisions, PTL
    DEF LoopSafety, ImplementsContract, Contract!ContractSpec

-----------------------------------------------------------------------------
(* Requests of Kimi and Grok *)

\* A connection moves by itself, or is lost.
LEMMA PathMoves ==
    ASSUME LoopTypeOK, [LoopNext]_loopVars, NEW r \in Requests, hook'[r] # hook[r]
    PROVE  HookRegister(r) \/ HookStep(r) \/ Crash
<1>1. ASSUME NEW q \in Requests \ {r}, HookMove(q)
      PROVE  FALSE
  BY <1>1, HookKeeps
<1>2. ~ClientGone(r)
  BY DEF ClientGone
<1> QED BY <1>1, <1>2, OthersKeepHooks DEF HookMove

Early == {"idle", "replace", "ingest", "collect"}

\* The item of a request opens when its connection starts to wait.
OpensWithItsWait == \A r \in Requests : hook[r].pc \in Early => att[r].state = "absent"

LEMMA OpensStep ==
    ASSUME LoopInv, OpensWithItsWait, [LoopNext]_loopVars
    PROVE  OpensWithItsWait'
<1> SUFFICES ASSUME NEW r \in Requests, hook'[r].pc \in Early
             PROVE  att'[r].state = "absent"
  BY DEF OpensWithItsWait
<1>0. LoopTypeOK /\ hook \in [Requests -> HookType]
  BY DEF LoopInv, LoopTypeOK
<1>1. ~HookIngest(r)
  <2>1. HookIngest(r) => hook'[r].pc = "wait"
    BY <1>0 DEF HookIngest, HookGoes, HookType
  <2> QED BY <2>1 DEF Early
<1>2. hook[r].pc \in Early
  <2>1. CASE hook'[r] = hook[r]
    BY <2>1
  <2>2. CASE HookRegister(r)
    BY <2>2 DEF HookRegister, Early
  <2>3. CASE Crash
    BY <1>0, <2>3 DEF Crash, HookType, Early
  <2>4. CASE HookStep(r)
    <3>1. ASSUME NEW pc, HookGoes(r, pc), pc \notin Early
          PROVE  FALSE
      BY <1>0, <3>1 DEF HookGoes, HookType
    <3>2. CASE HookExpireReplaced(r) \/ HookRefused(r)
      BY <3>2 DEF HookExpireReplaced, HookRefused, Early
    <3>3. CASE HookReceive(r) \/ HookExpire(r)
      BY <3>1, <3>3 DEF HookReceive, HookExpire, Early
    <3> QED BY <1>1, <2>4, <3>1, <3>2, <3>3 DEF HookStep, HookTimeout, HookGiveUp, HookClose,
         AgentGivesUp, AgentExpire, AgentUnconfirm, Early
  <2> QED BY <1>0, <2>1, <2>2, <2>3, <2>4, PathMoves
<1>3. att[r].state = "absent"
  BY <1>2 DEF OpensWithItsWait
<1> QED BY <1>1, <1>3, LoopAges

LEMMA LoopOpens == LoopSafety => []OpensWithItsWait
<1>1. LoopInit => OpensWithItsWait
  BY DEF LoopInit, StoreInit, OpensWithItsWait
<1>2. LoopInv /\ OpensWithItsWait /\ [LoopNext]_loopVars => OpensWithItsWait'
  BY OpensStep
<1> QED BY <1>1, <1>2, LoopKeepsInv, PTL DEF LoopSafety

\* A relay is not dropped without a word.
RelaysEnd == \A r \in ByAgent : hook[r].pc # "close"

LEMMA RelaysEndStep ==
    ASSUME LoopTypeOK, RelaysEnd, [LoopNext]_loopVars
    PROVE  RelaysEnd'
<1> SUFFICES ASSUME NEW r \in ByAgent, hook'[r].pc = "close"
             PROVE  FALSE
  BY DEF RelaysEnd
<1>0. r \in Requests /\ hook \in [Requests -> HookType] /\ hook[r].pc # "close"
  BY LoopAssumption DEF LoopAssumption, LoopTypeOK, RelaysEnd
<1>1. ASSUME NEW pc, HookGoes(r, pc), pc # "close"
      PROVE  FALSE
  BY <1>0, <1>1 DEF HookGoes, HookType
<1>2. CASE HookRegister(r)
  BY <1>0, <1>2 DEF HookRegister
<1>3. CASE Crash
  BY <1>0, <1>3 DEF Crash, HookType
<1>4. CASE HookStep(r)
  <2>1. CASE HookReceive(r) \/ HookExpire(r)
    BY <1>1, <2>1 DEF HookReceive, HookExpire
  <2> QED BY <1>1, <1>4, <2>1 DEF HookStep, HookExpireReplaced, HookIngest, HookRefused,
       HookTimeout, HookGiveUp, HookClose, AgentGivesUp, AgentExpire, AgentUnconfirm
<1> QED BY <1>0, <1>2, <1>3, <1>4, PathMoves

LEMMA LoopEndsRelays == LoopSafety => []RelaysEnd
<1>1. LoopInit => RelaysEnd
  BY LoopAssumption DEF LoopAssumption, LoopInit, RelaysEnd
<1>2. LoopTypeOK /\ RelaysEnd /\ [LoopNext]_loopVars => RelaysEnd'
  BY RelaysEndStep
<1> QED BY <1>1, <1>2, LoopTypes, PTL DEF LoopSafety

Ended(r) == att[r].state \in {"resolved", "expired"}

\* The item of a decision on a channel was decided.
LEMMA SentDecided ==
    ASSUME ServerInv, SentFromDecision, NEW r \in Requests, NEW d \in Decisions,
           mailbox[r] = <<d>>
    PROVE  att[r].state \in {"decision_sent", "resolved", "expired"}
BY DEF ServerInv, DecisionInv, SentFromDecision, ItemsFitCommands

\* A decision that a relay was not told has ended with its item by the time its
\* connection is done, and even before it looks whether the relay is gone.
HeardOrEnded ==
    \A r \in ByAgent : \A d \in Decisions :
      mailbox[r] = <<d>> =>
        /\ hook[r].pc = "unconfirm" => Ended(r)
        /\ hook[r].pc = "done" => Ended(r) \/ client[r] = d

LEMMA HeardStep ==
    ASSUME LoopInv, LoopInv', WaitersAreServed, OpensWithItsWait, RelaysEnd,
           SentFromDecision, SentFromDecision', HeardOrEnded, [LoopNext]_loopVars
    PROVE  HeardOrEnded'
<1> SUFFICES ASSUME NEW r \in ByAgent, NEW d \in Decisions, mailbox'[r] = <<d>>,
                    hook'[r].pc \in {"unconfirm", "done"}
             PROVE  \/ Ended(r)'
                    \/ hook'[r].pc = "done" /\ client'[r] = d
  BY DEF HeardOrEnded
<1>0. /\ ServerInv /\ ServerTypeOK /\ Turn
      /\ LoopTypeOK /\ JobsFit /\ ChannelsFit /\ hook \in [Requests -> HookType]
      /\ client \in [Requests -> ClientStates]
      /\ r \in Requests /\ hook[r].pc # "close"
  BY LoopAssumption, LoopIsServer DEF LoopAssumption, LoopInv, ServerInv, LoopTypeOK, RelaysEnd, ClientStates
<1>a. att'[r].state \in {"decision_sent", "resolved", "expired"}
  <2>1. LoopInv' /\ SentFromDecision' /\ mailbox'[r] = <<d>>
    OBVIOUS
  <2> QED BY <1>0, <2>1 DEF LoopInv, DecisionInv, SentFromDecision, ItemsFitCommands
<1>1. mailbox[r] = <<d>>
  <2> SUFFICES ASSUME mailbox[r] # <<d>> PROVE FALSE
    OBVIOUS
  <2>1. PICK h \in Handlers : Active(r) /\ JobDecide(h)
    BY <1>0, DecisionSent
  <2>2. hook[r].pc \in Serving
    BY <1>0, <2>1 DEF WaitersAreServed, Serving
  <2>3. hook' = hook
    BY <2>1 DEF JobDecide
  <2> QED BY <2>2, <2>3 DEF Serving
<1>2. att[r].state \in {"decision_sent", "resolved", "expired"}
  BY <1>0, <1>1, SentDecided
<1>3. ASSUME Ended(r)
      PROVE  Ended(r)'
  BY <1>0, <1>3, <1>a, EndedKept DEF Ended, KeepsEnded
<1>b. ASSUME ExpireApproval(r, "other")
      PROVE  Ended(r)'
  BY <1>0, <1>2, <1>b DEF ExpireApproval, Settle, storeVars, Ended
<1>c. ASSUME NEW pc, HookGoes(r, pc), pc \notin {"unconfirm", "done"}
      PROVE  FALSE
  BY <1>0, <1>c DEF HookGoes, HookType
<1>4. CASE hook'[r] = hook[r]
  <2>1. CASE Ended(r)
    BY <1>3, <2>1
  <2>2. CASE client[r] = d /\ hook[r].pc = "done"
    <3>1. client'[r] = d
      <4>1. CASE client' = client
        BY <2>2, <4>1
      <4>2. CASE Crash
        BY <1>0, <2>2, <4>2 DEF Crash
      <4>3. d \notin {"idle", "asking"}
        OBVIOUS
      <4> QED BY <1>0, <2>2, <4>1, <4>2, <4>3, ClientMoves
    <3> QED BY <1>4, <2>2, <3>1
  <2> QED BY <1>1, <1>4, <2>1, <2>2 DEF HeardOrEnded
<1>5. CASE HookRegister(r)
  BY <1>0, <1>5 DEF HookRegister
<1>6. CASE Crash
  BY <1>0, <1>4, <1>6 DEF Crash, HookType
<1>7. CASE HookStep(r)
  <2>1. CASE HookReceive(r)
    <3>1. hook[r].pc = "wait"
      BY <1>0, <1>2, <2>1 DEF HookReceive, OpensWithItsWait, Early
    <3>2. client[r] = "asking"
      <4> SUFFICES ASSUME client[r] # "asking" PROVE FALSE
        OBVIOUS
      <4>1. HookGoes(r, "unwritten")
        BY <2>1, <3>1 DEF HookReceive
      <4> QED BY <1>c, <4>1
    <3>3. HookGoes(r, "done")
      BY <2>1, <3>2 DEF HookReceive
    <3>4. hook'[r].pc = "done"
      BY <1>0, <3>3 DEF HookGoes, HookType
    <3>5. client'[r] = Head(mailbox[r])
      BY <1>0, <2>1, <3>2 DEF HookReceive
    <3>6. Head(<<d>>) = d
      OBVIOUS
    <3> QED BY <1>1, <3>4, <3>5, <3>6
  <2>2. CASE HookExpire(r) \/ AgentExpire(r)
    BY <1>b, <2>2 DEF HookExpire, AgentExpire
  <2>3. CASE AgentUnconfirm(r)
    BY <1>1, <1>3, <2>3 DEF AgentUnconfirm, HeardOrEnded
  <2>4. CASE HookClose(r)
    BY <1>0, <2>4 DEF HookClose
  <2> QED BY <1>7, <1>c, <2>1, <2>2, <2>3, <2>4 DEF HookStep, HookExpireReplaced, HookIngest,
       HookRefused, HookTimeout, HookGiveUp, AgentGivesUp
<1> QED BY <1>0, <1>4, <1>5, <1>6, <1>7, PathMoves

LEMMA LoopKeepsHeard == LoopSafety => []HeardOrEnded
<1>1. LoopInit => HeardOrEnded
  BY LoopAssumption DEF LoopAssumption, LoopInit, HeardOrEnded
<1>2. LoopInv /\ LoopInv' /\ WaitersAreServed /\ OpensWithItsWait /\ RelaysEnd /\
      SentFromDecision /\ SentFromDecision' /\ HeardOrEnded /\ [LoopNext]_loopVars =>
        HeardOrEnded'
  BY HeardStep
<1> QED BY <1>1, <1>2, LoopKeepsInv, LoopServes, LoopOpens, LoopEndsRelays, LoopSendsDecisions,
     PTL DEF LoopSafety

\* A decision for a request of Kimi or Grok that stays recorded as sent was
\* written to a relay that was alive, unless the provider ended the request by
\* itself: although the connection does not look at its channel again once the
\* deadline passed or the peer is gone, and although a write may fail.
THEOREM LoopHears == LoopSafety => []AgentHearsOrFails
<1>1. LoopInv /\ Delivered /\ HeardOrEnded => AgentHearsOrFails
  <2> SUFFICES ASSUME LoopInv, Delivered, HeardOrEnded, up, NEW c \in Commands,
                      cmd[c].state = "decision_sent", cmd[c].request \in ByAgent,
                      hook[cmd[c].request].pc = "done", ~InFlight(c)
               PROVE  \/ client[cmd[c].request] = cmd[c].action
                      \/ att[cmd[c].request].state = "resolved"
    BY DEF AgentHearsOrFails
  <2>1. /\ cmd[c].action \in Decisions
        /\ att[cmd[c].request].state \in {"decision_sent", "resolved"}
    BY LoopKnowsServer, SentItem
  <2> QED BY <2>1 DEF Delivered, HeardOrEnded, Ended
<1> QED BY <1>1, LoopKeepsInv, LoopKeepsDelivered, LoopKeepsHeard, PTL

-----------------------------------------------------------------------------
(* Sessions that wait for the user *)

HeldStates == BlockingStates \cup {"passed_through"}

Waiting(s) == sess[s].exec = "awaiting_approval" /\ sess[s].owner = "widget"

\* WaitsForSomething, also while no process runs.
WaitingIsHeld ==
    \A s \in Sessions : Waiting(s) => \E r \in RequestsOf(s) : att[r].state \in HeldStates

\* Items that ended, and sessions that were released if nothing else holds them.
LEMMA ReleaseKeepsHeld ==
    ASSUME WaitingIsHeld, NEW R, NEW S, NEW resolution, Settle(R, "expired", resolution)
              \/ Settle(R, "resolved", resolution) \/ Settle(R, "dismissed", resolution),
           \A r \in R \cap Requests : Envelope[r].session \in S,
           \A s \in Sessions : Waiting(s)' => Waiting(s) /\ sess'[s] = Released(S, att')[s]
    PROVE  WaitingIsHeld'
<1> SUFFICES ASSUME NEW s \in Sessions, Waiting(s)'
             PROVE  \E r \in RequestsOf(s) : att'[r].state \in HeldStates
  BY DEF WaitingIsHeld, RequestsOf
<1>1. PICK r \in RequestsOf(s) : att[r].state \in HeldStates
  BY DEF WaitingIsHeld
<1>2. CASE r \in R
  <2>1. s \in S
    BY <1>1, <1>2 DEF RequestsOf
  <2>2. \E q \in RequestsOf(s) : att'[q].state \in BlockingStates
    <3> SUFFICES ASSUME \A q \in RequestsOf(s) : att'[q].state \notin BlockingStates
                 PROVE  FALSE
      OBVIOUS
    <3>1. sess'[s] = [exec |-> "waiting_for_event", owner |-> "none"]
      BY <2>1 DEF Released, Waiting
    <3> QED BY <3>1 DEF Waiting
  <2> QED BY <2>2 DEF HeldStates
<1>3. CASE r \notin R
  <2>1. att'[r] = att[r]
    BY <1>1, <1>3 DEF Settle, RequestsOf
  <2> QED BY <1>1, <2>1
<1> QED BY <1>2, <1>3

\* Items that go on holding, and sessions that do not start to wait.
LEMMA GoesOnHeld ==
    ASSUME WaitingIsHeld,
           \A r \in Requests : att[r].state \in HeldStates => att'[r].state \in HeldStates,
           \A s \in Sessions : Waiting(s)' => Waiting(s)
    PROVE  WaitingIsHeld'
BY DEF WaitingIsHeld, RequestsOf

LEMMA RestKeepsHeld ==
    ASSUME DecisionInv, WaitingIsHeld, [StoreRest]_storeVars
    PROVE  WaitingIsHeld'
<1>0. StoreInv /\ ItemsFitCommands /\ sess \in [Sessions -> [exec : ExecStates, owner : {"none", "widget"}]]
  BY DEF DecisionInv, StoreInv, StoreTypeOK
<1>a. ASSUME NEW S, sess' = Released(S, att'), NEW s \in Sessions, Waiting(s)'
      PROVE  Waiting(s) /\ sess'[s] = Released(S, att')[s]
  <2>1. sess'[s] = sess[s] \/ sess'[s] = [exec |-> "waiting_for_event", owner |-> "none"]
    BY <1>a DEF Released
  <2> QED BY <1>a, <2>1 DEF Waiting
<1>b. ASSUME sess' = sess
      PROVE  \A s \in Sessions : Waiting(s)' => Waiting(s)
  BY <1>b DEF Waiting
<1>c. ASSUME UNCHANGED <<att, sess>>
      PROVE  WaitingIsHeld'
  BY <1>c, <1>b, GoesOnHeld
<1>d. ASSUME NEW r, NEW state, NEW resolution, Settle({r}, state, resolution), sess' = sess,
             state \in HeldStates
      PROVE  WaitingIsHeld'
  <2>1. \A q \in Requests : att[q].state \in HeldStates => att'[q].state \in HeldStates
    BY <1>d DEF Settle
  <2> QED BY <1>b, <1>d, <2>1, GoesOnHeld
<1>e. ASSUME NEW r, NEW resolution,
             Settle({r}, "expired", resolution) \/ Settle({r}, "resolved", resolution)
               \/ Settle({r}, "dismissed", resolution),
             sess' = Released({Envelope[r].session}, att')
      PROVE  WaitingIsHeld'
  BY <1>a, <1>e, ReleaseKeepsHeld
<1>1. ASSUME NEW s \in Sessions, NEW k \in EventKinds, NEW tool \in Tools,
             NEW handled \in HandledSets(s, k, tool), IngestEvent(s, k, tool, TRUE, handled)
      PROVE  WaitingIsHeld'
  <2>1. handled \subseteq RequestsOf(s)
    BY DEF HandledSets
  <2>2. ~Waiting(s)'
    <3>1. Projected[k] # "awaiting_approval"
      BY DEF EventKinds, Projected
    <3>2. CASE MayUpdate(s, k, TRUE)
      <4>1. sess'[s] = [exec |-> Projected[k], owner |-> "none"]
        BY <1>0, <1>1, <3>2 DEF IngestEvent, Project
      <4> QED BY <4>1 DEF Waiting
    <3>3. CASE ~MayUpdate(s, k, TRUE)
      <4>1. sess' = sess /\ TurnOver(s)
        BY <1>1, <3>3 DEF IngestEvent, Project, MayUpdate
      <4> QED BY <4>1 DEF Waiting, TurnOver
    <3> QED BY <3>2, <3>3
  <2>3. ASSUME NEW t \in Sessions, t # s
        PROVE  sess'[t] = sess[t] /\ \A r \in RequestsOf(t) : att'[r] = att[r]
    <3>1. sess'[t] = sess[t]
      BY <1>0, <1>1, <2>3 DEF IngestEvent, Project
    <3>2. \A r \in RequestsOf(t) : r \in Requests /\ r \notin handled
      BY <2>1, <2>3 DEF RequestsOf
    <3> QED BY <1>1, <3>1, <3>2 DEF IngestEvent
  <2>4. \A t \in Sessions : Waiting(t)' => t # s /\ Waiting(t)
    BY <2>2, <2>3 DEF Waiting
  <2> QED BY <2>3, <2>4 DEF WaitingIsHeld, RequestsOf
<1>2. ASSUME NEW c \in Commands, NEW q \in Requests, NEW a \in Actions,
             NEW at \in Times, NEW d \in Delays, Claim(c, q, a, at, d)
      PROVE  WaitingIsHeld'
  BY <1>2, <1>d DEF Claim, HeldStates
<1>3. ASSUME NEW c \in Commands, NEW at \in Times,
             Undo(c, at) \/ CommitSent(c, at) \/ CommitStale(c, at)
      PROVE  WaitingIsHeld'
  <2>1. CASE Undo(c, at)
    BY <1>c, <1>d, <2>1 DEF Undo, HeldStates
  <2>2. CASE CommitSent(c, at)
    BY <1>c, <1>d, <2>2 DEF CommitSent, HeldStates
  <2>3. CASE CommitStale(c, at)
    BY <1>e, <2>3 DEF CommitStale
  <2> QED BY <1>3, <2>1, <2>2, <2>3
<1>4. ASSUME NEW c \in Commands, NEW q \in Requests, NEW a \in {"ack", "snooze", "dismiss"},
             ActAttention(c, q, a)
      PROVE  WaitingIsHeld'
  <2>1. CASE a = "snooze"
    BY <1>4, <1>d, <2>1 DEF ActAttention, HeldStates
  <2>2. CASE a \in {"ack", "dismiss"}
    BY <1>4, <1>e, <2>2 DEF ActAttention
  <2> QED BY <2>1, <2>2
<1>5. ASSUME NEW q \in Requests, AckAnswered(q) \/ WakeSnoozed(q)
      PROVE  WaitingIsHeld'
  BY <1>5, <1>d, <1>e DEF AckAnswered, WakeSnoozed, HeldStates
<1>6. ASSUME NEW q \in Requests, NEW reason, ExpireApproval(q, reason)
      PROVE  WaitingIsHeld'
  BY <1>6, <1>c, <1>e DEF ExpireApproval, storeVars
<1>7. CASE Reconcile({}) \/ Reopen
  <2> DEFINE R == {r \in Requests : att[r].state \in LiveStates}
  <2>1. Settle(R, "expired", "other")
    <3>1. R \ {} = R
      OBVIOUS
    <3> QED BY <1>7, <3>1 DEF Reconcile, Reopen
  <2>2. \A r \in R : Envelope[r].session \in SessionsOf(R)
    BY DEF SessionsOf
  <2>3. ASSUME NEW s \in Sessions, Waiting(s)'
        PROVE  Waiting(s) /\ sess'[s] = Released(SessionsOf(R), att')[s]
    <3>1. CASE Reconcile({})
      <4>1. R \ {} = R
        OBVIOUS
      <4> QED BY <1>a, <2>3, <3>1, <4>1 DEF Reconcile
    <3>2. CASE Reopen
      <4>1. \/ sess'[s] = [exec |-> "waiting_for_event", owner |-> "none"]
            \/ sess'[s] = Released(SessionsOf(R), att')[s]
        BY <3>2 DEF Reopen
      <4>2. sess'[s] = Released(SessionsOf(R), att')[s]
        BY <2>3, <4>1 DEF Waiting
      <4>3. \/ sess'[s] = sess[s]
            \/ sess'[s] = [exec |-> "waiting_for_event", owner |-> "none"]
        BY <4>2 DEF Released
      <4> QED BY <2>3, <4>2, <4>3 DEF Waiting
    <3> QED BY <1>7, <3>1, <3>2
  <2> HIDE DEF R
  <2> QED BY <2>1, <2>2, <2>3, ReleaseKeepsHeld
<1>8. ASSUME NEW s \in Sessions, MarkUnconfirmed(s, TRUE)
      PROVE  WaitingIsHeld'
  <2>1. \A t \in Sessions :
          \/ sess'[t] = sess[t]
          \/ sess'[t] = [exec |-> "waiting_for_event", owner |-> "none"]
    BY <1>0, <1>8 DEF MarkUnconfirmed
  <2>2. \A t \in Sessions : Waiting(t)' => Waiting(t)
    BY <2>1 DEF Waiting
  <2>3. att' = att
    BY <1>8 DEF MarkUnconfirmed
  <2> QED BY <2>2, <2>3, GoesOnHeld
<1>9. CASE UNCHANGED storeVars
  BY <1>9, <1>c DEF storeVars
<1> QED BY <1>1, <1>2, <1>3, <1>4, <1>5, <1>6, <1>7, <1>8, <1>9 DEF StoreRest

LEMMA HeldStep ==
    ASSUME LoopInv, OpensWithItsWait, WaitingIsHeld, [LoopNext]_loopVars
    PROVE  WaitingIsHeld'
<1>0. LoopTypeOK /\ JobsFit /\ DecisionInv /\ ItemsFitKinds /\ StoreTypeOK
  BY DEF LoopInv, DecisionInv, StoreInv
<1>1. ASSUME NEW r \in Requests, HookIngest(r)
      PROVE  WaitingIsHeld'
  <2>1. att[r].state = "absent"
    BY <1>1 DEF HookIngest, OpensWithItsWait, Early
  <2>2. Settle({r}, "open", "none")
    BY <1>1, <2>1 DEF HookIngest, IngestRequest
  <2>3. \A q \in Requests : att[q].state \in HeldStates => att'[q].state \in HeldStates
    BY <2>1, <2>2 DEF Settle, HeldStates
  <2>4. att'[r].state \in HeldStates /\ r \in RequestsOf(Envelope[r].session)
    BY <2>2 DEF Settle, HeldStates, RequestsOf
  <2>5. \A s \in Sessions : s # Envelope[r].session => sess'[s] = sess[s]
    BY <1>0, <1>1 DEF HookIngest, IngestRequest, Project, StoreTypeOK
  <2> SUFFICES ASSUME NEW s \in Sessions, Waiting(s)'
               PROVE  \E q \in RequestsOf(s) : att'[q].state \in HeldStates
    BY DEF WaitingIsHeld, RequestsOf
  <2>6. CASE s = Envelope[r].session
    BY <2>4, <2>6
  <2>7. CASE s # Envelope[r].session
    <3>1. Waiting(s)
      BY <2>5, <2>7 DEF Waiting
    <3> QED BY <2>3, <3>1 DEF WaitingIsHeld, RequestsOf
  <2> QED BY <2>6, <2>7
<1>2. CASE [StoreRest]_storeVars
  BY <1>0, <1>2, RestKeepsHeld
<1> QED BY <1>0, <1>1, <1>2, LoopStores

\* A session that is shown to wait for the user has an item that holds it there,
\* whatever expires, resolves, snoozes, hands back or undoes its other items, and
\* across restarts.
THEOREM LoopWaits == LoopSafety => []WaitsForSomething
<1>1. LoopInit => WaitingIsHeld
  BY DEF LoopInit, StoreInit, WaitingIsHeld, Waiting
<1>2. LoopInv /\ OpensWithItsWait /\ WaitingIsHeld /\ [LoopNext]_loopVars => WaitingIsHeld'
  BY HeldStep
<1>3. WaitingIsHeld => WaitsForSomething
  BY DEF WaitingIsHeld, WaitsForSomething, Waiting, HeldStates
<1> QED BY <1>1, <1>2, <1>3, LoopKeepsInv, LoopOpens, PTL DEF LoopSafety
-----------------------------------------------------------------------------
(* Nobody is forgotten *)

\* The thread of a Hook process that asks is on its way to a reply or to the end
\* of the connection, and is never blocked for good: its waiter is in the registry,
\* where a command, the deadline or a restart finds it, or a response is there.
AskersAreServed ==
    \A r \in Requests :
      /\ client[r] = "asking" => up /\ hook[r].pc \notin {"idle", "unwritten", "done", "lost"}
      /\ hook[r].pc \notin {"idle", "lost"} => Active(r) \/ mailbox[r] # <<>>
      /\ hook[r].pc = "collect" => mailbox[r] # <<>>

\* A decision that somebody is at work on has a task that will commit it, fail it
\* or take it back.
PendingHasTask ==
    \A c \in Commands :
      cmd[c].state = "pending_commit" /\ InFlight(c) =>
        \E h \in Handlers :
          job[h].command = c /\ job[h].pc \in {"sleep", "probe", "commit", "undo"}

\* A waiter leaves the registry with a response only, unless the process dies.
LEMMA WaitsOrReads ==
    ASSUME ServerTypeOK, JobsFit, ChannelsFit, Turn, ~Crash,
           NEW r \in Requests, Active(r) \/ mailbox[r] # <<>>
    PROVE  Active(r)' \/ mailbox'[r] # <<>>
<1>1. ASSUME NEW gone \in SUBSET Requests, NEW m, Passes(gone, m)
      PROVE  Active(r)' \/ mailbox'[r] # <<>>
  <2>1. CASE r \in gone
    <3>1. mailbox'[r] = <<m>>
      BY <1>1, <2>1 DEF Passes, Leaves
    <3> QED BY <3>1
  <2>2. CASE r \notin gone
    BY <1>1, <2>2 DEF Passes, Leaves, Active
  <2> QED BY <2>1, <2>2
<1>2. ASSUME NEW q \in Requests, NEW gone \in SUBSET Requests, Joins(q, gone)
      PROVE  Active(r)' \/ mailbox'[r] # <<>>
  <2>1. CASE r = q
    BY <1>2, <2>1 DEF Joins
  <2>2. CASE r # q /\ r \in gone
    <3>1. mailbox'[r] = <<"native">>
      BY <1>2, <2>2 DEF Joins
    <3> QED BY <3>1
  <2>3. CASE r # q /\ r \notin gone
    BY <1>2, <2>3 DEF Joins, Active
  <2> QED BY <2>1, <2>2, <2>3
<1>3. ASSUME NEW h \in Handlers, Sends(h)
      PROVE  \E gone \in SUBSET Requests : Passes(gone, job[h].action)
  BY <1>3 DEF Sends
<1> QED BY <1>1, <1>2, <1>3, TurnWaiters DEF WaitersMove, Joining

\* Where a connection of a client that still asks goes, and when it goes on without
\* its waiter.
LEMMA AskerMoves ==
    ASSUME LoopTypeOK, ChannelsFit, NEW r \in Requests, HookMove(r),
           hook[r].pc \notin {"idle", "lost"} => Active(r) \/ mailbox[r] # <<>>,
           hook[r].pc = "collect" => mailbox[r] # <<>>,
           client[r] = "asking" => up /\ hook[r].pc \notin {"idle", "unwritten", "done", "lost"}
    PROVE  /\ client'[r] = "asking" =>
                up /\ hook'[r].pc \notin {"idle", "unwritten", "done", "lost"}
           /\ hook'[r].pc = "collect" => mailbox'[r] # <<>>
<1>0. /\ hook \in [Requests -> HookType] /\ client \in [Requests -> ClientStates]
      /\ mailbox[r] \in Seq(Responses)
  BY DEF LoopTypeOK, ClientStates, Registry!RegistryTypeOK
<1>a. ASSUME NEW pc \in HookPC, HookGoes(r, pc)
      PROVE  hook'[r].pc = pc
  BY <1>0, <1>a DEF HookGoes, HookType
<1> HIDE DEF HookGoes
<1>1. CASE HookRegister(r)
  <2>1. hook'[r].pc \in {"ingest", "replace"}
    BY <1>0, <1>1 DEF HookRegister
  <2> QED BY <1>1, <2>1 DEF HookRegister
<1>2. CASE HookRefused(r)
  <2>1. hook'[r].pc = "collect" /\ client' = client /\ hook[r].pc = "ingest"
    BY <1>2, <1>a DEF HookRefused, HookPC
  <2>2. mailbox'[r] # <<>>
    <3>1. CASE Registry!Resolve(r, "native")
      <4>1. mailbox'[r] = <<"native">>
        BY <3>1, LoopServer, ResolvePasses DEF Passes, Leaves, Responses
      <4> QED BY <4>1
    <3>2. CASE ~Active(r) /\ UNCHANGED waiterVars
      BY <2>1, <3>2 DEF waiterVars
    <3> QED BY <1>2, <3>1, <3>2 DEF HookRefused, TryResolve
  <2> QED BY <2>1, <2>2
<1>3. CASE HookReceive(r)
  <2>1. Head(mailbox[r]) \in Responses
    BY <1>0, <1>3, HeadTailProperties DEF HookReceive
  <2>2. client'[r] # "asking"
    BY <1>0, <1>3, <2>1 DEF HookReceive, Responses
  <2>3. hook'[r].pc \in {"unwritten", "done"}
    BY <1>3, <1>a DEF HookReceive, HookPC
  <2> QED BY <2>2, <2>3
<1>4. CASE HookClose(r) \/ AgentUnconfirm(r)
  <2>1. client'[r] # "asking" /\ hook'[r].pc = "done"
    BY <1>0, <1>4, <1>a DEF HookClose, AgentUnconfirm, HookPC
  <2> QED BY <2>1
<1>5. CASE AgentExpire(r)
  <2>1. client' = client /\ hook[r].pc = "unwritten" /\ hook'[r].pc = "done"
    BY <1>5, <1>a DEF AgentExpire, HookPC
  <2> QED BY <2>1
<1>6. CASE HookExpireReplaced(r) \/ HookIngest(r)
  <2>1. client' = client /\ hook'[r].pc \in {"ingest", "wait"} /\ hook[r].pc \in {"replace", "ingest"}
    BY <1>6, <1>a DEF HookExpireReplaced, HookIngest, HookPC
  <2> QED BY <2>1
<1>7. CASE HookTimeout(r) \/ HookGiveUp(r) \/ HookExpire(r) \/ AgentGivesUp(r)
  <2>1. /\ client' = client /\ hook'[r].pc \in {"giveup", "expire", "unconfirm", "close"}
        /\ hook[r].pc \in {"wait", "giveup", "expire"}
    BY <1>7, <1>a DEF HookTimeout, HookGiveUp, HookExpire, AgentGivesUp, HookPC
  <2> QED BY <2>1
<1>8. CASE ClientGone(r)
  <2>1. client'[r] = "native" /\ hook' = hook /\ mailbox' = mailbox
    BY <1>0, <1>8 DEF ClientGone, waiterVars
  <2>2. hook[r].pc = "collect" => mailbox[r] # <<>>
    OBVIOUS
  <2> QED BY <2>1, <2>2
<1> QED BY <1>1, <1>2, <1>3, <1>4, <1>5, <1>6, <1>7, <1>8 DEF HookMove, HookStep
LEMMA AskersStep ==
    ASSUME LoopInv, WaitersAreServed, AskersAreServed, [LoopNext]_loopVars
    PROVE  AskersAreServed'
<1> SUFFICES ASSUME NEW r \in Requests
             PROVE  /\ client'[r] = "asking" =>
                         up' /\ hook'[r].pc \notin {"idle", "unwritten", "done", "lost"}
                    /\ hook'[r].pc \notin {"idle", "lost"} => Active(r)' \/ mailbox'[r] # <<>>
                    /\ hook'[r].pc = "collect" => mailbox'[r] # <<>>
  BY DEF AskersAreServed
<1>0. LoopTypeOK /\ JobsFit /\ ChannelsFit /\ ServerTypeOK /\ Turn
  BY LoopIsServer DEF LoopInv, ServerInv
<1>a. /\ client[r] = "asking" => up /\ hook[r].pc \notin {"idle", "unwritten", "done", "lost"}
      /\ hook[r].pc \notin {"idle", "lost"} => Active(r) \/ mailbox[r] # <<>>
      /\ hook[r].pc = "collect" => mailbox[r] # <<>>
  BY DEF AskersAreServed
<1>1. CASE Crash
  <2>1. client'[r] # "asking" /\ mailbox' = mailbox
    BY <1>1 DEF Crash
  <2>2. hook'[r].pc \notin {"idle", "lost"} => hook[r].pc = "done"
    BY <1>0, <1>1 DEF Crash, LoopTypeOK, HookType
  <2>3. hook'[r].pc # "collect"
    BY <1>0, <1>1 DEF Crash, LoopTypeOK, HookType
  <2>4. hook[r].pc = "done" => mailbox[r] # <<>>
    BY <1>a DEF WaitersAreServed
  <2> QED BY <2>1, <2>2, <2>3, <2>4
<1>2. CASE ~Crash
  <2>1. up => up'
    BY <1>0, <1>2, UpStays
  <2>2. CASE HookMove(r)
    <3>1. /\ client'[r] = "asking" =>
               up /\ hook'[r].pc \notin {"idle", "unwritten", "done", "lost"}
          /\ hook'[r].pc = "collect" => mailbox'[r] # <<>>
      BY <1>0, <1>a, <2>2, AskerMoves
    <3>2. hook'[r].pc \notin {"idle", "lost"} => Active(r)' \/ mailbox'[r] # <<>>
      <4>1. CASE HookRegister(r)
        BY <1>0, <4>1, RegisterJoins DEF HookRegister, Joining, Joins
      <4>2. CASE hook[r].pc \notin {"idle", "lost"}
        BY <1>0, <1>2, <1>a, <4>2, WaitsOrReads
      <4>3. CASE hook[r].pc \in {"idle", "lost"} /\ ~HookRegister(r)
        <5>1. ClientGone(r)
          BY <2>2, <4>3 DEF HookMove, HookStep, HookExpireReplaced, HookIngest, HookRefused,
             HookReceive, HookTimeout, HookGiveUp, HookExpire, HookClose, AgentGivesUp,
             AgentExpire, AgentUnconfirm
        <5> QED BY <4>3, <5>1 DEF ClientGone
      <4> QED BY <4>1, <4>2, <4>3
    <3> QED BY <2>1, <3>1, <3>2
  <2>3. CASE ~HookMove(r)
    <3>1. hook'[r] = hook[r] /\ client'[r] = client[r]
      <4>1. CASE \E q \in Requests \ {r} : HookMove(q)
        BY <1>0, <4>1, HookKeeps
      <4>2. CASE ~\E q \in Requests : HookMove(q)
        BY <1>0, <1>2, <4>2, OthersKeepHooks
      <4> QED BY <2>3, <4>1, <4>2
    <3>2. mailbox[r] # <<>> => mailbox'[r] # <<>>
      BY <1>0, MailStays
    <3>3. hook[r].pc \notin {"idle", "lost"} => Active(r)' \/ mailbox'[r] # <<>>
      BY <1>0, <1>2, <1>a, WaitsOrReads
    <3> QED BY <1>a, <2>1, <3>1, <3>2, <3>3
  <2> QED BY <2>2, <2>3
<1> QED BY <1>1, <1>2

\* Who expires an item instead of deciding has no decision under way.
StaleTasks ==
    \A h \in Handlers :
      job[h].pc = "stale" /\ job[h].command \in Commands =>
        cmd[job[h].command].state # "pending_commit"

LEMMA StaleStep ==
    ASSUME ServerInv, JobsKnow, StaleTasks, Turn
    PROVE  StaleTasks'
<1> SUFFICES ASSUME NEW h \in Handlers, job'[h].pc = "stale", job'[h].command \in Commands
             PROVE  cmd'[job'[h].command].state # "pending_commit"
  BY DEF StaleTasks
<1>0. /\ ServerTypeOK /\ JobsFit /\ OneRuns /\ StoreInv /\ [StoreNext]_storeVars
      /\ Knows(h) /\ None \notin Commands
  BY TurnIsStore, LoopAssumption DEF ServerInv, JobsKnow, DecisionInv, LoopAssumption
<1>1. CASE job'[h] = job[h] /\ ~JobStep(h)
  <2> DEFINE c == job[h].command
  <2>1. c \in Commands /\ cmd[c].state # "pending_commit" /\ Busy(h)
    BY <1>1 DEF StaleTasks, Busy
  <2>2. cmd'[c].state = "pending_commit" => cmd[c].state = "absent"
    BY <1>0, <2>1, StoreSteps DEF StoreStep, CommandStep
  <2>3. cmd[c].state = "absent" => cmd'[c].state # "pending_commit"
    <3>1. CASE Passive
      BY <3>1, <2>1 DEF Passive
    <3>2. ASSUME NEW g \in Handlers, JobClaim(g) \/ JobCommit(g)
          PROVE  FALSE
      BY <1>0, <1>1, <2>1, <3>2, AloneWhenMoving DEF JobStep
    <3>3. ~AttendMove
      BY <2>1 DEF AttendMove, Attend, Running, Busy
    <3> QED BY <3>1, <3>2, <3>3, CommandMoves
  <2> QED BY <1>1, <2>1, <2>2, <2>3
<1>2. CASE JobStep(h)
  <2>1. ~JobEnds(h)
    BY <1>0, JobEnded DEF NoJob
  <2>2. \A pc \in JobPC \ {"stale"} : ~JobGoes(h, pc)
    BY <1>0, JobGoesOn
  <2>3. ~JobProbe(h)
    BY <1>0 DEF JobProbe, ServerTypeOK, JobType
  <2>4. JobDecide(h) \/ JobAnswer(h)
    BY <1>2, <2>1, <2>2, <2>3 DEF JobStep, JobClaim, JobCommit, JobDecide, JobHandBack, JobExpire,
       JobUndo, JobAnswer, JobAck, JobPC
  <2>5. JobGoes(h, "stale") /\ UNCHANGED storeVars
    BY <2>1, <2>2, <2>4 DEF JobDecide, JobAnswer, JobPC
  <2>6. job'[h].command = job[h].command
    BY <1>0, <2>5, JobGoesOn DEF JobPC, GoesOn
  <2>7. CASE JobDecide(h)
    BY <1>0, <2>5, <2>6, <2>7 DEF JobDecide, Knows, storeVars
  <2>8. CASE JobAnswer(h)
    BY <1>0, <2>6, <2>8 DEF JobAnswer, Knows
  <2> QED BY <2>4, <2>7, <2>8
<1>3. CASE JobStarts(h)
  <2>1. h \in DOMAIN job /\ UNCHANGED storeVars
    BY <1>0, <1>3, StartKeeps DEF ServerTypeOK
  <2>2. PICK c \in Commands, r \in Requests, action \in Actions, delay \in Delays :
          Submit(h, c, r, action, delay)
    BY <1>0, <1>3, <2>1 DEF JobStarts, UndoRequest, SubmitAnswer, NoJob
  <2>3. job'[h].command = c
    BY <2>1, <2>2 DEF Submit, NoJob
  <2> QED BY <2>1, <2>2, <2>3 DEF Submit, storeVars
<1>4. CASE Crash
  BY <1>4 DEF Crash, NoJob
<1> QED BY <1>0, <1>1, <1>2, <1>3, <1>4, JobStays

\* No Hook process and no decision is forgotten, whatever races, restarts and
\* failures they go through: a thread or a task is there that goes on with them,
\* and nothing it waits for can be missing.  This is what HookReleased and
\* ClaimSettles rest on; that threads and tasks are scheduled is what they add.
THEOREM NobodyIsForgotten == LoopSafety => [](AskersAreServed /\ PendingHasTask)
<1>1. LoopInit => AskersAreServed /\ StaleTasks
  BY DEF LoopInit, AskersAreServed, StaleTasks, NoJob
<1>2. LoopInv /\ WaitersAreServed /\ AskersAreServed /\ [LoopNext]_loopVars => AskersAreServed'
  BY AskersStep
<1>3. LoopInv /\ JobsKnow /\ StaleTasks /\ [LoopNext]_loopVars => StaleTasks'
  BY StaleStep, LoopIsServer
<1>4. LoopInv /\ JobsKnow /\ StaleTasks => PendingHasTask
  <2> SUFFICES ASSUME LoopInv, JobsKnow, StaleTasks,
                      NEW c \in Commands, cmd[c].state = "pending_commit",
                      NEW h \in Handlers, job[h].command = c
               PROVE  job[h].pc \in {"sleep", "probe", "commit", "undo"}
    BY DEF PendingHasTask, InFlight
  <2>1. /\ job[h].pc \in JobPC /\ None \notin Commands /\ Knows(h)
    BY LoopAssumption DEF LoopInv, LoopTypeOK, JobType, LoopAssumption, JobsKnow
  <2>2. job[h].pc # "stale"
    BY DEF StaleTasks
  <2> QED BY <2>1, <2>2 DEF Knows, JobPC
<1> QED BY <1>1, <1>2, <1>3, <1>4, LoopKeepsInv, LoopServes, LoopKnows, PTL DEF LoopSafety
=============================================================================
