------------------------ MODULE ManagedApprovalsProofs ------------------------
(***************************************************************************)
(* Proofs about the requests of a managed Codex thread, for every set of   *)
(* requests, commands, handlers and events, every envelope, clock, undo    *)
(* delay and number of restarts.  The threads of the connection are        *)
(* another set of threads that wait on a request: what they do is a        *)
(* ConnectionMove of ApprovalLoopProofs, so that everything proved there   *)
(* of a Turn holds here too.                                               *)
(***************************************************************************)
EXTENDS ManagedApprovals, ApprovalLoopProofs

-----------------------------------------------------------------------------
(* The invariant of the threads *)

ManagedPC ==
    {"idle", "ingest", "wait", "giveup", "expire", "unwritten", "done", "lost", "forget",
     "respond", "pass", "fail", "refuse", "refused", "late"}

ManagedHook == [pc : ManagedPC, old : SUBSET Requests]
NoticePC == {"none", "sent", "early", "pass", "resolve", "done"}

\* The threads of the connection, their tables and Codex.
ThreadsTypeOK ==
    /\ hook \in [Requests -> ManagedHook]
    /\ client \in [Requests -> ClientStates]
    /\ asked \subseteq Requests
    /\ ids \subseteq Requests
    /\ withdrawn \subseteq Requests
    /\ notice \in [Requests -> NoticePC]
    /\ conn \in {"open", "lost"}
    /\ reconnect \in [pc : {"no", "shutdown", "failed"},
                      pass : SUBSET Requests, expire : SUBSET Requests]

\* The type invariant, of the Runtime and of the connection.
ManagedTypeOK == ServerTypeOK /\ ThreadsTypeOK

\* Where the threads are with a request, and what Codex still expects of it.
ThreadFit(r) ==
    /\ client[r] = "idle" => hook[r].pc = "idle" /\ notice[r] = "none" /\ r \notin asked
    /\ r \in asked => hook[r].pc = "idle"
    /\ hook[r].pc = "idle" => r \notin ids
    /\ hook[r].pc = "ingest" => r \in ids
    /\ r \in ids \cup asked => notice[r] \in {"none", "sent", "early"}
    /\ ~up => r \notin ids \cup asked /\ hook[r].pc \in {"idle", "done", "lost"}
    /\ hook[r].pc = "forget" => ~IsApproval(r)
    /\ hook[r].pc \in {"forget", "respond"} => mailbox[r] # <<>>
    /\ conn = "open" /\ (hook[r].pc \in {"ingest", "wait", "forget", "respond"} \/ r \in asked) =>
         client[r] = "asking" \/ r \in withdrawn

\* Requests are given back one by one, and only after a failed restart.
ReconnectFit ==
    /\ reconnect.pc # "failed" => reconnect.pass = {} /\ reconnect.expire = {}
    /\ \A q, r \in reconnect.expire : q = r

ThreadsFit == (\A r \in Requests : ThreadFit(r)) /\ ReconnectFit

\* A thread that may have a waiter.
WaitersHaveThreads ==
    \A r \in Requests :
      Active(r) => hook[r].pc \in {"ingest", "wait", "giveup", "pass", "refuse"}

ManagedInv == ServerInv /\ ThreadsTypeOK /\ ThreadsFit /\ WaitersHaveThreads

-----------------------------------------------------------------------------
(* Who moves what *)

\* What a thread, a notification or Codex does with one request.
RequestMove(r) ==
    \/ CodexAsks(r) \/ CodexResolves(r)
    \/ ManagedRefuse(r) \/ ManagedRegister(r) \/ ManagedIngest(r) \/ ManagedIngestFails(r)
    \/ ManagedReceive(r) \/ ManagedTimeout(r) \/ ManagedForget(r) \/ ManagedRespond(r)
    \/ ManagedPass(r) \/ ManagedExpire(r) \/ ManagedError(r)
    \/ NoticeTake(r) \/ NoticePass(r) \/ NoticeResolve(r)
    \/ ReconnectPass(r) \/ ReconnectExpire(r)

ConnectionTurn == ConnectionLost \/ CredentialsChange \/ CredentialRestartFails

LEMMA ManagedOwners ==
    ASSUME [ManagedNext]_allVars
    PROVE  (\E r \in Requests : RequestMove(r)) \/ ConnectionTurn \/ RuntimeStep \/ UNCHANGED allVars
BY DEF ManagedNext, RequestMove, ConnectionTurn

\* HookGoes moves one thread.
LEMMA HookGone ==
    ASSUME ThreadsTypeOK, NEW r \in Requests, NEW pc \in ManagedPC, HookGoes(r, pc)
    PROVE  /\ hook' \in [Requests -> ManagedHook]
           /\ hook'[r].pc = pc
           /\ \A q \in Requests \ {r} : hook'[q] = hook[q]
BY DEF ThreadsTypeOK, HookGoes, ManagedHook

LEMMA Told1 ==
    ASSUME ThreadsTypeOK, NEW r \in Requests, NEW m \in Responses, Tell(r, m)
    PROVE  /\ client' \in [Requests -> ClientStates]
           /\ client'[r] = IF client[r] = "asking" THEN m ELSE client[r]
           /\ \A q \in Requests \ {r} : client'[q] = client[q]
BY DEF ThreadsTypeOK, Tell, ClientStates

\* The response that a thread found in its channel.
LEMMA HeadOf ==
    ASSUME ChannelsFit, NEW r \in Requests, mailbox[r] # <<>>
    PROVE  Head(mailbox[r]) \in Responses /\ mailbox[r] = <<Head(mailbox[r])>>
<1>1. PICK m \in Responses : mailbox[r] = <<m>>
  BY DEF ChannelsFit
<1> QED BY <1>1

\* A step of the Runtime that neither ends nor starts it leaves the connection
\* alone.
LEMMA RuntimeKeeps ==
    ASSUME ServerTypeOK, RuntimeStep, ~Crash, ~Startup
    PROVE  UNCHANGED <<hook, client, managedVars, up>>
<1>0. ServerTurn /\ Turn
  BY ServerOwners DEF RuntimeStep, Turn
<1>1. up' = up /\ UNCHANGED managedVars
  BY <1>0, UpStays DEF RuntimeStep
<1>2. ASSUME NEW h \in Handlers, JobStep(h) \/ JobStarts(h)
      PROVE  hook' = hook /\ client' = client
  BY <1>2, JobKeeps, StartKeeps
<1>3. ASSUME NEW e \in Events, EventIngest(e) \/ EventPassThrough(e)
      PROVE  hook' = hook /\ client' = client
  BY <1>3 DEF EventIngest, EventPassThrough
<1>4. SweepWaiters \/ SweepItem => hook' = hook /\ client' = client
  BY DEF SweepWaiters, SweepItem
<1>5. PlainMove => hook' = hook /\ client' = client
  BY PlainKeeps DEF threadVars
<1> QED BY <1>0, <1>1, <1>2, <1>3, <1>4, <1>5 DEF ServerTurn

\* Its end and its start do not.
LEMMA RuntimeBreaks ==
    ASSUME RuntimeStep, Crash \/ Startup
    PROVE  /\ asked' = {} /\ ids' = {} /\ withdrawn' = withdrawn /\ reconnect' = Connected
           /\ notice' = [r \in Requests |-> IF client[r] = "idle" THEN "none" ELSE "done"]
           /\ conn' = IF up' THEN "open" ELSE "lost"
           /\ up' = ~up
BY DEF RuntimeStep, Crash, Startup

-----------------------------------------------------------------------------
(* The steps of the connection are those of a connection of the loop *)

LEMMA MoveIsConnections ==
    ASSUME ServerTypeOK, ChannelsFit, NEW r \in Requests, RequestMove(r)
    PROVE  /\ ConnectionMove
           /\ ManagedRegister(r) \/ issued' = issued
<1>a. ASSUME UNCHANGED waiterVars
      PROVE  /\ \E gone \in SUBSET Requests : Passes(gone, "native")
             /\ Registry!RegistryTypeOK' /\ issued' = issued
  BY <1>a, NonePass DEF waiterVars
<1>b. ASSUME TryResolve(r, "native")
      PROVE  /\ \E gone \in SUBSET Requests : Passes(gone, "native")
             /\ Registry!RegistryTypeOK' /\ issued' = issued
  BY <1>b, TryPasses DEF Passes
<1>1. CASE \/ CodexAsks(r) \/ CodexResolves(r) \/ ManagedRefuse(r) \/ ManagedIngestFails(r)
           \/ ManagedReceive(r) \/ ManagedTimeout(r) \/ ManagedForget(r) \/ ManagedRespond(r)
           \/ ManagedError(r)
  <2>1. UNCHANGED <<processVars, storeVars, waiterVars, job, delivery, sweep>>
    BY <1>1 DEF CodexAsks, CodexResolves, ManagedRefuse, ManagedIngestFails, ManagedReceive,
       ManagedTimeout, ManagedForget, ManagedRespond, ManagedError
  <2> QED BY <1>a, <2>1 DEF ConnectionMove, ConnectionRest
<1>2. CASE ManagedRegister(r)
  <2>1. UNCHANGED <<processVars, storeVars, job, delivery, sweep>>
    BY <1>2 DEF ManagedRegister
  <2>2. Joining(r) /\ Registry!RegistryTypeOK'
    BY <1>2, RegisterJoins DEF ManagedRegister
  <2> QED BY <1>2, <2>1, <2>2 DEF ConnectionMove, ConnectionRest
<1>3. CASE ManagedIngest(r)
  <2>1. /\ UNCHANGED <<processVars, waiterVars, job, delivery, sweep>>
        /\ \E fresh \in BOOLEAN : IngestRequest(r, fresh)
    BY <1>3 DEF ManagedIngest
  <2> QED BY <1>a, <2>1 DEF ConnectionMove
<1>4. CASE ManagedPass(r)
  <2>1. UNCHANGED <<processVars, storeVars, job, delivery, sweep>> /\ TryResolve(r, "native")
    BY <1>4 DEF ManagedPass
  <2> QED BY <1>b, <2>1 DEF ConnectionMove, ConnectionRest
<1>5. CASE NoticePass(r) \/ ReconnectPass(r)
  <2>1. UNCHANGED <<processVars, storeVars, job, delivery, sweep>> /\ TryResolve(r, "native")
    BY <1>5 DEF NoticePass, ReconnectPass, threadVars
  <2> QED BY <1>b, <2>1 DEF ConnectionMove, ConnectionRest
<1>6. CASE ManagedExpire(r) \/ ReconnectExpire(r)
  <2>1. /\ UNCHANGED <<processVars, waiterVars, job, delivery, sweep>>
        /\ \E reason \in {"deadline", "other"} : ExpireApproval(r, reason)
    BY <1>6 DEF ManagedExpire, ReconnectExpire, threadVars
  <2> QED BY <1>a, <2>1 DEF ConnectionMove, ConnectionRest
<1>7. CASE NoticeResolve(r)
  <2>1. UNCHANGED <<processVars, waiterVars, job, delivery, sweep>> /\ ResolveManaged(r)
    BY <1>7 DEF NoticeResolve, threadVars
  <2> QED BY <1>a, <2>1 DEF ConnectionMove
<1>8. CASE NoticeTake(r)
  <2>1. UNCHANGED <<processVars, storeVars, waiterVars, job, delivery, sweep>>
    BY <1>8 DEF NoticeTake, loopVars, threadVars
  <2> QED BY <1>a, <2>1 DEF ConnectionMove, ConnectionRest
<1> QED BY <1>1, <1>2, <1>3, <1>4, <1>5, <1>6, <1>7, <1>8 DEF RequestMove

LEMMA LossIsConnections ==
    ASSUME ServerTypeOK, ConnectionTurn \/ UNCHANGED allVars
    PROVE  ConnectionMove /\ issued' = issued /\ UNCHANGED <<storeVars, waiterVars>>
<1>1. UNCHANGED <<processVars, storeVars, waiterVars, job, delivery, sweep>>
  BY DEF ConnectionTurn, ConnectionLost, CredentialsChange, CredentialRestartFails, allVars,
     loopVars, threadVars
<1> QED BY <1>1, NonePass DEF ConnectionMove, ConnectionRest, waiterVars

LEMMA ManagedTurns ==
    ASSUME ServerTypeOK, ChannelsFit, [ManagedNext]_allVars
    PROVE  Turn
<1>1. RuntimeStep => ServerTurn
  BY ServerOwners DEF RuntimeStep
<1> QED BY <1>1, ManagedOwners, MoveIsConnections, LossIsConnections DEF Turn

\* Who joins has just registered.
LEMMA ManagedJoins ==
    ASSUME ServerTypeOK, JobsFit, ChannelsFit, [ManagedNext]_allVars,
           NEW r \in Requests, Joining(r)
    PROVE  ManagedRegister(r)
<1>0. r \notin issued /\ issued' = issued \cup {r}
  BY DEF Joining, Joins
<1>1. ASSUME NEW q \in Requests, RequestMove(q)
      PROVE  ManagedRegister(r)
  <2>1. ManagedRegister(q)
    BY <1>0, <1>1, MoveIsConnections
  <2>2. Joining(q)
    BY <2>1, RegisterJoins DEF ManagedRegister
  <2> QED BY <1>0, <2>1, <2>2 DEF Joining, Joins
<1>2. ~(ConnectionTurn \/ UNCHANGED allVars)
  BY <1>0, LossIsConnections
<1>3. ~RuntimeStep
  BY <1>0, ServerOwners, ServerWaiters DEF RuntimeStep, ServerPasses, Passes, Sends, Dies
<1> QED BY <1>1, <1>2, <1>3, ManagedOwners

-----------------------------------------------------------------------------
(* Types *)

LEMMA MoveTypes ==
    ASSUME ManagedInv, NEW r \in Requests, RequestMove(r)
    PROVE  ThreadsTypeOK'
<1>0. /\ ThreadsTypeOK /\ ChannelsFit /\ ThreadFit(r)
      /\ hook \in [Requests -> ManagedHook] /\ client \in [Requests -> ClientStates]
  BY DEF ManagedInv, ServerInv, ThreadsFit, ThreadsTypeOK
<1>1. client' \in [Requests -> ClientStates]
  <2>1. CASE CodexAsks(r)
    BY <1>0, <2>1 DEF CodexAsks, ClientStates
  <2>2. CASE ManagedRespond(r)
    <3>1. Head(mailbox[r]) \in Responses
      BY <1>0, <2>2, HeadOf DEF ManagedRespond, ThreadFit
    <3> QED BY <1>0, <2>2, <3>1, Told1 DEF ManagedRespond
  <2>3. CASE CodexResolves(r) \/ ManagedRefuse(r) \/ ManagedError(r)
    BY <1>0, <2>3, Told1 DEF CodexResolves, ManagedRefuse, ManagedError, Responses
  <2>4. CASE ~(CodexAsks(r) \/ ManagedRespond(r) \/ CodexResolves(r) \/ ManagedRefuse(r) \/
               ManagedError(r))
    <3>1. client' = client
      BY <2>4 DEF RequestMove, ManagedRegister, ManagedIngest, ManagedIngestFails, ManagedReceive,
         ManagedTimeout, ManagedForget, ManagedPass, ManagedExpire, NoticeTake, NoticePass,
         NoticeResolve, ReconnectPass, ReconnectExpire, threadVars, loopVars
    <3> QED BY <1>0, <3>1
  <2> QED BY <2>1, <2>2, <2>3, <2>4
<1>2. hook' \in [Requests -> ManagedHook]
  <2>1. hook' = hook \/ \E pc \in ManagedPC : HookGoes(r, pc)
    BY DEF RequestMove, CodexAsks, CodexResolves, ManagedRefuse, ManagedRegister, ManagedIngest,
       ManagedIngestFails, ManagedReceive, ManagedTimeout, ManagedForget, ManagedRespond,
       ManagedPass, ManagedExpire, ManagedError, NoticeTake, NoticePass, NoticeResolve,
       ReconnectPass, ReconnectExpire, threadVars, loopVars, HookGoes, ManagedPC, AfterForget
  <2> QED BY <1>0, <2>1, HookGone
<1>3. notice' \in [Requests -> NoticePC] /\ conn' \in {"open", "lost"}
  BY <1>0 DEF ThreadsTypeOK, RequestMove, CodexAsks, CodexResolves, ManagedRefuse,
     ManagedRegister, ManagedIngest, ManagedIngestFails, ManagedReceive, ManagedTimeout,
     ManagedForget, ManagedRespond, ManagedPass, ManagedExpire, ManagedError, NoticeTake,
     NoticePass, NoticeResolve, ReconnectPass, ReconnectExpire, managedVars, NoticeGoes, NoticePC
<1>4. asked' \subseteq Requests /\ ids' \subseteq Requests /\ withdrawn' \subseteq Requests
  BY <1>0 DEF ThreadsTypeOK, RequestMove, CodexAsks, CodexResolves, ManagedRefuse,
     ManagedRegister, ManagedIngest, ManagedIngestFails, ManagedReceive, ManagedTimeout,
     ManagedForget, ManagedRespond, ManagedPass, ManagedExpire, ManagedError, NoticeTake,
     NoticePass, NoticeResolve, ReconnectPass, ReconnectExpire, managedVars
<1>5. reconnect' \in [pc : {"no", "shutdown", "failed"},
                      pass : SUBSET Requests, expire : SUBSET Requests]
  <2>1. reconnect \in [pc : {"no", "shutdown", "failed"},
                       pass : SUBSET Requests, expire : SUBSET Requests]
    BY <1>0 DEF ThreadsTypeOK
  <2>2. CASE ReconnectPass(r) \/ ReconnectExpire(r)
    <3>1. \A P \in SUBSET Requests, E \in SUBSET Requests :
            [reconnect EXCEPT !.pass = P, !.expire = E] \in
              [pc : {"no", "shutdown", "failed"}, pass : SUBSET Requests, expire : SUBSET Requests]
      BY <2>1
    <3>2. \E P \in SUBSET Requests, E \in SUBSET Requests :
            reconnect' = [reconnect EXCEPT !.pass = P, !.expire = E]
      <4>1. CASE ReconnectPass(r)
        <5>1. reconnect.pass \ {r} \in SUBSET Requests /\ {r} \in SUBSET Requests
          BY <2>1
        <5> QED BY <4>1, <5>1 DEF ReconnectPass
      <4>2. CASE ReconnectExpire(r)
        <5>1. reconnect.pass \in SUBSET Requests /\ {} \in SUBSET Requests
          BY <2>1
        <5>2. [reconnect EXCEPT !.expire = {}] =
                [reconnect EXCEPT !.pass = reconnect.pass, !.expire = {}]
          BY <2>1
        <5> QED BY <4>2, <5>1, <5>2 DEF ReconnectExpire
      <4> QED BY <2>2, <4>1, <4>2
    <3> QED BY <3>1, <3>2
  <2>3. CASE ~(ReconnectPass(r) \/ ReconnectExpire(r))
    <3>1. reconnect' = reconnect
      BY <2>3 DEF RequestMove, CodexAsks, CodexResolves, ManagedRefuse, ManagedRegister,
         ManagedIngest, ManagedIngestFails, ManagedReceive, ManagedTimeout, ManagedForget,
         ManagedRespond, ManagedPass, ManagedExpire, ManagedError, NoticeTake, NoticePass,
         NoticeResolve, managedVars
    <3> QED BY <2>1, <3>1
  <2> QED BY <2>2, <2>3
<1> QED BY <1>1, <1>2, <1>3, <1>4, <1>5 DEF ThreadsTypeOK

LEMMA ThreadsTypes ==
    ASSUME ManagedInv, [ManagedNext]_allVars
    PROVE  ThreadsTypeOK'
<1>0. ThreadsTypeOK /\ ServerTypeOK
  BY DEF ManagedInv, ServerInv
<1>1. CASE \E r \in Requests : RequestMove(r)
  BY <1>1, MoveTypes
<1>2. CASE ConnectionLost
  BY <1>0, <1>2 DEF ConnectionLost, ThreadsTypeOK, ClientStates, Responses
<1>3. CASE CredentialsChange \/ CredentialRestartFails
  BY <1>0, <1>3 DEF CredentialsChange, CredentialRestartFails, ThreadsTypeOK, Connected, loopVars,
     threadVars
<1>4. CASE RuntimeStep /\ ~Crash /\ ~Startup
  BY <1>0, <1>4, RuntimeKeeps DEF managedVars, ThreadsTypeOK
<1>5. CASE RuntimeStep /\ (Crash \/ Startup)
  <2>1. hook' \in [Requests -> ManagedHook] /\ client' \in [Requests -> ClientStates]
    <3>1. CASE Crash
      <4>1. \A q \in Requests : hook[q] \in ManagedHook /\ client[q] \in ClientStates
        BY <1>0 DEF ThreadsTypeOK
      <4>2. \A q \in Requests : [hook[q] EXCEPT !.pc = "lost"] \in ManagedHook
        BY <4>1 DEF ManagedHook, ManagedPC
      <4>3. "native" \in ClientStates
        BY DEF ClientStates, Responses
      <4> HIDE DEF ManagedHook, ClientStates
      <4> QED BY <3>1, <4>1, <4>2, <4>3 DEF Crash
    <3>2. CASE Startup
      BY <1>0, <3>2 DEF Startup, ThreadsTypeOK, threadVars
    <3> QED BY <1>5, <3>1, <3>2
  <2>2. Connected \in [pc : {"no", "shutdown", "failed"},
                       pass : SUBSET Requests, expire : SUBSET Requests]
    BY DEF Connected
  <2>3. notice' \in [Requests -> NoticePC]
    BY <1>5, RuntimeBreaks DEF NoticePC
  <2> QED BY <1>0, <1>5, <2>1, <2>2, <2>3, RuntimeBreaks DEF ThreadsTypeOK
<1>6. CASE UNCHANGED allVars
  BY <1>0, <1>6 DEF allVars, loopVars, threadVars, managedVars, ThreadsTypeOK
<1> QED BY <1>1, <1>2, <1>3, <1>4, <1>5, <1>6, ManagedOwners DEF ConnectionTurn

-----------------------------------------------------------------------------
(* Threads, tables and Codex agree *)

\* Nobody touched this request.
KeepsThread(r) ==
    /\ hook'[r] = hook[r] /\ client'[r] = client[r] /\ notice'[r] = notice[r]
    /\ r \in asked' <=> r \in asked
    /\ r \in ids' <=> r \in ids
    /\ r \in withdrawn' <=> r \in withdrawn

\* A move is about one request.
LEMMA MoveKeeps ==
    ASSUME ManagedInv, NEW q \in Requests, RequestMove(q)
    PROVE  /\ up' = up /\ conn' = conn
           /\ \A r \in Requests \ {q} : KeepsThread(r)
<1>0. ThreadsTypeOK
  BY DEF ManagedInv
<1>1. up' = up /\ conn' = conn
  BY DEF RequestMove, CodexAsks, CodexResolves, ManagedRefuse, ManagedRegister,
     ManagedIngest, ManagedIngestFails, ManagedReceive, ManagedTimeout, ManagedForget,
     ManagedRespond, ManagedPass, ManagedExpire, ManagedError, NoticeTake, NoticePass,
     NoticeResolve, ReconnectPass, ReconnectExpire, managedVars, processVars, loopVars
<1> SUFFICES ASSUME NEW r \in Requests \ {q}
             PROVE  KeepsThread(r)
  BY <1>1
<1>2. hook'[r] = hook[r]
  BY <1>0 DEF ThreadsTypeOK, RequestMove, CodexAsks, CodexResolves, ManagedRefuse,
     ManagedRegister, ManagedIngest, ManagedIngestFails, ManagedReceive, ManagedTimeout,
     ManagedForget, ManagedRespond, ManagedPass, ManagedExpire, ManagedError, NoticeTake,
     NoticePass, NoticeResolve, ReconnectPass, ReconnectExpire, threadVars, loopVars, HookGoes
<1>3. client'[r] = client[r]
  BY <1>0 DEF ThreadsTypeOK, RequestMove, CodexAsks, CodexResolves, ManagedRefuse,
     ManagedRegister, ManagedIngest, ManagedIngestFails, ManagedReceive, ManagedTimeout,
     ManagedForget, ManagedRespond, ManagedPass, ManagedExpire, ManagedError, NoticeTake,
     NoticePass, NoticeResolve, ReconnectPass, ReconnectExpire, threadVars, loopVars, Tell
<1>4. notice'[r] = notice[r]
  BY <1>0 DEF ThreadsTypeOK, RequestMove, CodexAsks, CodexResolves, ManagedRefuse,
     ManagedRegister, ManagedIngest, ManagedIngestFails, ManagedReceive, ManagedTimeout,
     ManagedForget, ManagedRespond, ManagedPass, ManagedExpire, ManagedError, NoticeTake,
     NoticePass, NoticeResolve, ReconnectPass, ReconnectExpire, managedVars, NoticeGoes
<1>5. /\ r \in asked' <=> r \in asked
      /\ r \in ids' <=> r \in ids
      /\ r \in withdrawn' <=> r \in withdrawn
  BY DEF RequestMove, CodexAsks, CodexResolves, ManagedRefuse,
     ManagedRegister, ManagedIngest, ManagedIngestFails, ManagedReceive, ManagedTimeout,
     ManagedForget, ManagedRespond, ManagedPass, ManagedExpire, ManagedError, NoticeTake,
     NoticePass, NoticeResolve, ReconnectPass, ReconnectExpire, managedVars
<1> QED BY <1>2, <1>3, <1>4, <1>5 DEF KeepsThread

\* The moves of a request itself.
LEMMA MoveFits ==
    ASSUME ManagedInv, NEW r \in Requests, RequestMove(r),
           mailbox[r] # <<>> => mailbox'[r] # <<>>
    PROVE  ThreadFit(r)'
<1>0. /\ ThreadsTypeOK /\ ThreadFit(r) /\ up' = up /\ conn' = conn
      /\ hook \in [Requests -> ManagedHook] /\ client \in [Requests -> ClientStates]
      /\ notice \in [Requests -> NoticePC]
  BY MoveKeeps DEF ManagedInv, ThreadsFit, ThreadsTypeOK
<1>1. CASE CodexAsks(r)
  BY <1>0, <1>1 DEF CodexAsks, ThreadFit
<1>2. CASE CodexResolves(r)
  <2>1. client'[r] # "idle"
    BY <1>0, <1>2, Told1 DEF CodexResolves, Responses
  <2>2. /\ UNCHANGED <<hook, asked, ids, mailbox>> /\ notice'[r] = "sent"
        /\ client[r] = "asking" => r \in withdrawn'
        /\ r \in withdrawn => r \in withdrawn'
        /\ notice[r] = "none"
    BY <1>0, <1>2 DEF CodexResolves, waiterVars
  <2> QED BY <1>0, <2>1, <2>2 DEF ThreadFit
<1>3. CASE ManagedRefuse(r)
  <2>1. client[r] # "idle" /\ client'[r] # "idle"
    BY <1>0, <1>3, Told1 DEF ManagedRefuse, ThreadFit, Responses
  <2>2. hook'[r].pc = "done"
    BY <1>0, <1>3, HookGone DEF ManagedRefuse, HookGoes, ManagedPC
  <2> QED BY <1>0, <1>3, <2>1, <2>2 DEF ManagedRefuse, ThreadFit
<1>4. CASE ManagedRegister(r)
  <2>1. hook'[r].pc = "ingest"
    BY <1>0, <1>4, HookGone DEF ManagedRegister, ManagedPC
  <2> QED BY <1>0, <1>4, <2>1 DEF ManagedRegister, ThreadFit
<1>5. CASE ManagedIngest(r) \/ ManagedTimeout(r) \/ ManagedReceive(r)
  <2>1. \/ hook[r].pc = "ingest" /\ hook'[r].pc = "wait"
        \/ hook[r].pc = "wait" /\ hook'[r].pc = "giveup"
        \/ /\ hook[r].pc = "wait" /\ mailbox[r] # <<>>
           /\ hook'[r].pc = IF IsApproval(r) THEN "respond" ELSE "forget"
    BY <1>0, <1>5, HookGone DEF ManagedIngest, ManagedTimeout, ManagedReceive, ManagedPC
  <2>2. UNCHANGED <<client, notice, asked, ids, withdrawn>>
    BY <1>5 DEF ManagedIngest, ManagedTimeout, ManagedReceive, managedVars
  <2> QED BY <1>0, <2>1, <2>2 DEF ThreadFit, IsApproval
<1>6. CASE ManagedIngestFails(r) \/ ManagedForget(r)
  <2>1. \/ hook[r].pc = "ingest" /\ hook'[r].pc = "refuse"
        \/ hook[r].pc = "forget" /\ hook'[r].pc = "respond"
        \/ hook[r].pc = "giveup" /\ hook'[r].pc = "pass"
        \/ hook[r].pc = "unwritten" /\ hook'[r].pc = "fail"
    BY <1>0, <1>6, HookGone DEF ManagedIngestFails, ManagedForget, AfterForget, ManagedPC
  <2>2. UNCHANGED <<client, notice, asked, withdrawn>> /\ ids' = ids \ {r}
    BY <1>6 DEF ManagedIngestFails, ManagedForget
  <2> QED BY <1>0, <2>1, <2>2 DEF ThreadFit
<1>7. CASE ManagedRespond(r) \/ ManagedPass(r) \/ ManagedExpire(r) \/ ManagedError(r)
  <2>1. /\ hook[r].pc \in {"respond", "pass", "refuse", "expire", "fail", "refused", "late"}
        /\ hook'[r].pc \in {"unwritten", "done", "expire", "refused", "late"}
    BY <1>0, <1>7, HookGone DEF ManagedRespond, ManagedPass, ManagedExpire, ManagedError, ManagedPC
  <2>2. UNCHANGED managedVars
    BY <1>7 DEF ManagedRespond, ManagedPass, ManagedExpire, ManagedError
  <2>3. client[r] # "idle"
    BY <1>0, <2>1 DEF ThreadFit
  <2>4. client'[r] # "idle"
    <3>1. CASE ManagedRespond(r)
      <4>1. hook[r].pc = "respond" /\ mailbox[r] # <<>> /\ ChannelsFit
        BY <1>0, <3>1 DEF ManagedRespond, ThreadFit, ManagedInv, ServerInv
      <4>2. Head(mailbox[r]) \in Responses
        BY <4>1, HeadOf
      <4>3. Tell(r, Head(mailbox[r])) \/ client' = client
        BY <3>1 DEF ManagedRespond
      <4>4. "idle" \notin Responses
        BY DEF Responses, Decisions
      <4> HIDE DEF Responses
      <4>5. ASSUME NEW m \in Responses, Tell(r, m)
            PROVE  client'[r] # "idle"
        <5>1. client'[r] = IF client[r] = "asking" THEN m ELSE client[r]
          BY <1>0, <4>5, Told1
        <5> QED BY <2>3, <4>4, <5>1
      <4>6. client' = client => client'[r] # "idle"
        BY <2>3
      <4> QED BY <4>2, <4>3, <4>5, <4>6
    <3>2. CASE ManagedError(r)
      BY <1>0, <2>3, <3>2, Told1 DEF ManagedError, Responses
    <3>3. CASE ManagedPass(r) \/ ManagedExpire(r)
      BY <2>3, <3>3 DEF ManagedPass, ManagedExpire
    <3> QED BY <1>7, <3>1, <3>2, <3>3
  <2> QED BY <1>0, <2>1, <2>2, <2>3, <2>4 DEF ThreadFit, managedVars
<1>8. CASE NoticeTake(r) \/ NoticePass(r) \/ NoticeResolve(r)
  <2>1. UNCHANGED <<hook, client, asked, withdrawn>>
    BY <1>8 DEF NoticeTake, NoticePass, NoticeResolve, threadVars, loopVars
  <2>2. \/ /\ notice[r] = "sent" /\ ids' = ids \ {r} /\ Unlocked
           /\ notice'[r] = IF r \in ids THEN "pass" ELSE IF r \in asked THEN "early" ELSE "done"
        \/ /\ notice[r] \in {"pass", "resolve"} /\ ids' = ids
           /\ notice'[r] \in {"resolve", "done"}
    BY <1>0, <1>8 DEF NoticeTake, NoticePass, NoticeResolve, NoticeGoes
  <2> QED BY <1>0, <2>1, <2>2 DEF ThreadFit, Unlocked
<1>9. CASE ReconnectPass(r) \/ ReconnectExpire(r)
  BY <1>0, <1>9 DEF ReconnectPass, ReconnectExpire, threadVars, ThreadFit
<1> QED BY <1>1, <1>2, <1>3, <1>4, <1>5, <1>6, <1>7, <1>8, <1>9 DEF RequestMove

\* What gives the requests back after a failed restart.
LEMMA ReconnectStep ==
    ASSUME ManagedInv, [ManagedNext]_allVars
    PROVE  ReconnectFit'
<1>0. /\ ReconnectFit /\ ServerTypeOK
      /\ reconnect \in [pc : {"no", "shutdown", "failed"},
                        pass : SUBSET Requests, expire : SUBSET Requests]
  BY DEF ManagedInv, ServerInv, ThreadsFit, ThreadsTypeOK
<1>a. CASE reconnect' = reconnect
  BY <1>0, <1>a DEF ReconnectFit
<1>b. CASE reconnect' = Connected
  BY <1>b DEF ReconnectFit, Connected
<1>1. ASSUME NEW r \in Requests, RequestMove(r)
      PROVE  ReconnectFit'
  <2>1. CASE ReconnectPass(r)
    <3>1. reconnect.pass # {} /\ reconnect' = [reconnect EXCEPT !.pass = @ \ {r}, !.expire = {r}]
      BY <2>1 DEF ReconnectPass
    <3>2. reconnect'.pc = "failed" /\ reconnect'.expire = {r}
      BY <1>0, <3>1 DEF ReconnectFit
    <3> QED BY <3>2 DEF ReconnectFit
  <2>2. CASE ReconnectExpire(r)
    <3>1. reconnect.expire # {} /\ reconnect' = [reconnect EXCEPT !.expire = {}]
      BY <2>2 DEF ReconnectExpire
    <3>2. reconnect'.pc = "failed" /\ reconnect'.expire = {}
      BY <1>0, <3>1 DEF ReconnectFit
    <3> QED BY <3>2 DEF ReconnectFit
  <2>3. CASE ~(ReconnectPass(r) \/ ReconnectExpire(r))
    BY <1>1, <1>a, <2>3 DEF RequestMove, CodexAsks, CodexResolves, ManagedRefuse, ManagedRegister,
       ManagedIngest, ManagedIngestFails, ManagedReceive, ManagedTimeout, ManagedForget,
       ManagedRespond, ManagedPass, ManagedExpire, ManagedError, NoticeTake, NoticePass,
       NoticeResolve, managedVars
  <2> QED BY <2>1, <2>2, <2>3
<1>2. CASE ConnectionLost
  BY <1>2, <1>a DEF ConnectionLost
<1>3. CASE CredentialsChange
  BY <1>3 DEF CredentialsChange, Connected, ReconnectFit
<1>4. CASE CredentialRestartFails
  BY <1>4 DEF CredentialRestartFails, ReconnectFit
<1>5. CASE RuntimeStep
  BY <1>0, <1>5, <1>a, <1>b, RuntimeKeeps, RuntimeBreaks DEF managedVars
<1>6. CASE UNCHANGED allVars
  BY <1>6, <1>a DEF allVars, managedVars
<1> QED BY <1>1, <1>2, <1>3, <1>4, <1>5, <1>6, ManagedOwners DEF ConnectionTurn

\* A request that nobody touched.
LEMMA KeptFits ==
    ASSUME ThreadsTypeOK, NEW r \in Requests, ThreadFit(r), KeepsThread(r),
           up' = up, conn' = conn \/ conn' # "open",
           mailbox[r] # <<>> => mailbox'[r] # <<>>
    PROVE  ThreadFit(r)'
BY DEF ThreadFit, KeepsThread

\* What the end of the connection, of the process or of a restart takes with it.
LEMMA BreakFits ==
    ASSUME ManagedInv, NEW r \in Requests,
           ConnectionTurn \/ (RuntimeStep /\ (Crash \/ Startup)),
           mailbox[r] # <<>> => mailbox'[r] # <<>>
    PROVE  ThreadFit(r)'
<1>0. /\ ThreadsTypeOK /\ ThreadFit(r)
      /\ hook \in [Requests -> ManagedHook] /\ client \in [Requests -> ClientStates]
      /\ notice \in [Requests -> NoticePC] /\ up \in BOOLEAN
  BY DEF ManagedInv, ServerInv, ServerTypeOK, ThreadsFit, ThreadsTypeOK
<1>1. CASE ConnectionLost
  <2>1. client'[r] = IF client[r] = "asking" THEN "native" ELSE client[r]
    BY <1>0, <1>1 DEF ConnectionLost
  <2> QED BY <1>0, <1>1, <2>1 DEF ConnectionLost, ThreadFit, processVars
<1>2. CASE CredentialsChange
  BY <1>0, <1>2 DEF CredentialsChange, ThreadFit, loopVars, threadVars, processVars, waiterVars
<1>3. CASE CredentialRestartFails
  <2>1. hook[r].pc # "ingest"
    BY <1>3 DEF CredentialRestartFails, Unlocked
  <2> QED BY <1>0, <1>3, <2>1 DEF CredentialRestartFails, ThreadFit, loopVars, threadVars,
        processVars, waiterVars
<1>4. CASE RuntimeStep /\ (Crash \/ Startup)
  <2>1. /\ client'[r] = "idle" <=> client[r] = "idle"
        /\ hook'[r].pc = IF hook[r].pc \in {"idle", "done"} THEN hook[r].pc ELSE "lost"
    <3>1. CASE Crash
      BY <1>0, <3>1 DEF Crash, ManagedHook
    <3>2. CASE Startup
      BY <1>0, <3>2 DEF Startup, threadVars, ThreadFit
    <3> QED BY <1>4, <3>1, <3>2
  <2>2. notice'[r] = IF client[r] = "idle" THEN "none" ELSE "done"
    BY <1>4, RuntimeBreaks
  <2> QED BY <1>0, <1>4, <2>1, <2>2, RuntimeBreaks DEF ThreadFit
<1> QED BY <1>1, <1>2, <1>3, <1>4 DEF ConnectionTurn

LEMMA ThreadsStep ==
    ASSUME ManagedInv, [ManagedNext]_allVars
    PROVE  ThreadsFit'
<1> SUFFICES ASSUME NEW r \in Requests PROVE ThreadFit(r)'
  BY ReconnectStep DEF ThreadsFit
<1>0. ServerTypeOK /\ JobsFit /\ ChannelsFit /\ ThreadsTypeOK /\ ThreadFit(r) /\ Turn
  BY ManagedTurns DEF ManagedInv, ServerInv, ThreadsFit
<1>a. mailbox[r] # <<>> => mailbox'[r] # <<>>
  BY <1>0, MailStays
<1>1. ASSUME NEW q \in Requests, RequestMove(q)
      PROVE  ThreadFit(r)'
  BY <1>0, <1>1, <1>a, MoveFits, MoveKeeps, KeptFits
<1>2. CASE ConnectionTurn \/ (RuntimeStep /\ (Crash \/ Startup))
  BY <1>2, <1>a, BreakFits
<1>3. CASE UNCHANGED allVars \/ (RuntimeStep /\ ~Crash /\ ~Startup)
  <2>1. UNCHANGED <<hook, client, managedVars, up>>
    BY <1>0, <1>3, RuntimeKeeps DEF allVars, loopVars, threadVars, processVars
  <2> QED BY <1>0, <1>a, <2>1, KeptFits DEF KeepsThread, managedVars
<1> QED BY <1>1, <1>2, <1>3, ManagedOwners

-----------------------------------------------------------------------------
(* Waiters *)

\* A request begins once.
LEMMA BeginsOnce ==
    ASSUME ManagedInv, [ManagedNext]_allVars, NEW r \in Requests
    PROVE  /\ hook'[r].pc = "idle" => hook[r].pc = "idle" /\ ~ManagedRegister(r)
           /\ ManagedRegister(r) => hook'[r].pc = "ingest"
<1>0. /\ ServerTypeOK /\ ThreadsTypeOK /\ ThreadFit(r) /\ hook \in [Requests -> ManagedHook]
  BY DEF ManagedInv, ServerInv, ThreadsFit, ThreadsTypeOK
<1>1. ManagedRegister(r) => hook'[r].pc = "ingest"
  BY <1>0, HookGone DEF ManagedRegister, ManagedPC
<1>2. ASSUME NEW q \in Requests, RequestMove(q), hook'[r].pc = "idle"
      PROVE  hook[r].pc = "idle"
  <2>1. CASE q = r
    <3>1. ~\E pc \in ManagedPC \ {"idle"} : HookGoes(r, pc)
      BY <1>0, <1>2, HookGone
    <3>2. hook' = hook
      BY <1>2, <2>1, <3>1 DEF RequestMove, CodexAsks, CodexResolves, ManagedRefuse, ManagedRegister, ManagedIngest,
         ManagedIngestFails, ManagedReceive, ManagedTimeout, ManagedForget, ManagedRespond,
         ManagedPass, ManagedExpire, ManagedError, NoticeTake, NoticePass, NoticeResolve,
         ReconnectPass, ReconnectExpire, threadVars, loopVars, HookGoes, ManagedPC, AfterForget
    <3> QED BY <1>2, <3>2
  <2>2. CASE q # r
    BY <1>2, <2>2, MoveKeeps DEF KeepsThread
  <2> QED BY <2>1, <2>2
<1>3. ASSUME ConnectionTurn \/ RuntimeStep \/ UNCHANGED allVars, hook'[r].pc = "idle"
      PROVE  hook[r].pc = "idle"
  <2>1. CASE Crash
    BY <1>0, <1>3, <2>1 DEF Crash, ManagedHook
  <2>2. CASE ~Crash
    <3>1. hook' = hook
      BY <1>0, <1>3, <2>2, RuntimeKeeps DEF Startup, ConnectionTurn, ConnectionLost,
         CredentialsChange, CredentialRestartFails, allVars, loopVars, threadVars
    <3> QED BY <1>3, <3>1
  <2> QED BY <2>1, <2>2
<1> QED BY <1>1, <1>2, <1>3, ManagedOwners

LEMMA ManagedServer ==
    ASSUME ManagedInv, [ManagedNext]_allVars
    PROVE  ServerInv' /\ Turn
<1>1. ServerInv /\ ServerTypeOK /\ JobsFit /\ ChannelsFit
  BY DEF ManagedInv, ServerInv
<1>2. Turn
  BY <1>1, ManagedTurns
<1>3. \A r \in Requests : hook'[r].pc = "idle" => hook[r].pc = "idle" /\ ~Joining(r)
  BY <1>1, BeginsOnce, ManagedJoins
<1> QED BY <1>1, <1>2, <1>3, ServerStep

\* Who waits has a thread that will hear of it, or will give it back.
LEMMA WaitersStep ==
    ASSUME ManagedInv, [ManagedNext]_allVars
    PROVE  WaitersHaveThreads'
<1> SUFFICES ASSUME NEW r \in Requests, Active(r)'
             PROVE  hook'[r].pc \in {"ingest", "wait", "giveup", "pass", "refuse"}
  BY DEF WaitersHaveThreads, Active
<1>0. /\ ServerTypeOK /\ JobsFit /\ ChannelsFit /\ ThreadsTypeOK /\ ThreadFit(r)
      /\ hook \in [Requests -> ManagedHook] /\ Turn
  BY ManagedServer DEF ManagedInv, ServerInv, ThreadsFit, ThreadsTypeOK
<1>1. ~Crash /\ (Active(r) \/ ManagedRegister(r))
  BY <1>0, ActiveGrows, ManagedJoins
<1>2. CASE ManagedRegister(r)
  BY <1>2, BeginsOnce
<1>3. CASE Active(r) /\ ~ManagedRegister(r)
  <2>0. hook[r].pc \in {"ingest", "wait", "giveup", "pass", "refuse"} /\ mailbox[r] = <<>>
    BY <1>0, <1>3 DEF ManagedInv, WaitersHaveThreads, ChannelsFit
  <2>1. CASE RequestMove(r)
    <3>1. CASE ManagedPass(r)
      <4>1. ~Active(r)'
        BY <1>0, <3>1, TryPasses DEF ManagedPass
      <4> QED BY <4>1
    <3>2. CASE ManagedIngest(r) \/ ManagedTimeout(r) \/ ManagedIngestFails(r)
      BY <1>0, <3>2, HookGone DEF ManagedIngest, ManagedTimeout, ManagedIngestFails, ManagedPC
    <3>3. CASE ManagedForget(r)
      <4>1. hook[r].pc = "giveup" /\ HookGoes(r, "pass")
        BY <2>0, <3>3 DEF ManagedForget, AfterForget
      <4> QED BY <1>0, <4>1, HookGone DEF ManagedPC
    <3>4. ~(\/ CodexAsks(r) \/ ManagedRefuse(r) \/ ManagedReceive(r) \/ ManagedRespond(r)
            \/ ManagedExpire(r) \/ ManagedError(r))
      BY <1>0, <2>0 DEF CodexAsks, ManagedRefuse, ManagedReceive, ManagedRespond, ManagedExpire,
         ManagedError, ThreadFit
    <3>5. CASE \/ CodexResolves(r) \/ NoticeTake(r) \/ NoticePass(r) \/ NoticeResolve(r)
               \/ ReconnectPass(r) \/ ReconnectExpire(r)
      BY <2>0, <3>5 DEF CodexResolves, NoticeTake, NoticePass, NoticeResolve, ReconnectPass,
         ReconnectExpire, threadVars, loopVars
    <3> QED BY <1>3, <2>1, <3>1, <3>2, <3>3, <3>4, <3>5 DEF RequestMove
  <2>2. ASSUME NEW q \in Requests \ {r}, RequestMove(q)
        PROVE  hook'[r] = hook[r]
    BY <2>2, MoveKeeps DEF KeepsThread
  <2>3. ConnectionTurn \/ RuntimeStep \/ UNCHANGED allVars => hook' = hook
    BY <1>0, <1>1, RuntimeKeeps DEF Startup, ConnectionTurn, ConnectionLost,
       CredentialsChange, CredentialRestartFails, allVars, loopVars, threadVars
  <2> QED BY <2>0, <2>1, <2>2, <2>3, ManagedOwners
<1> QED BY <1>1, <1>2, <1>3

LEMMA ManagedInvStep == ManagedInv /\ [ManagedNext]_allVars => ManagedInv'
BY ManagedServer, ThreadsTypes, ThreadsStep, WaitersStep DEF ManagedInv

LEMMA ManagedInvInit == ManagedInit => ManagedInv
<1> SUFFICES ASSUME ManagedInit PROVE ManagedInv
  OBVIOUS
<1>1. LoopInit /\ ServerInv
  BY LoopInvInit, LoopKnowsServer DEF ManagedInit
<1>2. ThreadsTypeOK
  BY <1>1 DEF ManagedInit, LoopInit, ThreadsTypeOK, ManagedHook, ManagedPC, NoticePC, ClientStates,
     Connected
<1>3. ThreadsFit
  BY <1>1 DEF ManagedInit, LoopInit, ThreadsFit, ThreadFit, ReconnectFit, Connected
<1>4. WaitersHaveThreads
  BY <1>1 DEF LoopInit, Registry!RegistryInit, WaitersHaveThreads, Active
<1> QED BY <1>1, <1>2, <1>3, <1>4 DEF ManagedInv

LEMMA ManagedKeepsInv == ManagedSpec => []ManagedInv
BY ManagedInvInit, ManagedInvStep, PTL DEF ManagedSpec

\* Every variable of the connection, of the Runtime and of the store keeps its
\* type.
THEOREM ManagedTypes == ManagedSpec => []ManagedTypeOK
<1>1. ManagedInv => ManagedTypeOK
  BY DEF ManagedInv, ServerInv, ManagedTypeOK
<1> QED BY <1>1, ManagedKeepsInv, PTL

\* The threads of a managed connection, too, use the store by its transactions
\* only: the first valid decision wins, decisions and timeouts are counted once
\* and what ended stays so, whatever Codex resolves, withdraws or drops.
THEOREM ManagedStore == ManagedSpec => StoreSpec
<1>1. ManagedInit => StoreInit
  BY DEF ManagedInit, LoopInit
<1>2. ManagedInv /\ [ManagedNext]_allVars => [StoreNext]_storeVars
  BY ManagedServer, TurnIsStore DEF ManagedInv
<1>3. [][ManagedNext]_allVars /\ []ManagedInv => [][StoreNext]_storeVars
  BY <1>2, PTL
<1> QED BY <1>1, <1>3, ManagedKeepsInv, PTL DEF ManagedSpec, StoreSpec

-----------------------------------------------------------------------------
(* Items *)

\* Who will close an approval on which the user can still decide: the request is
\* in the table, or who took it out has not finished with it.
Kept(r) ==
    \/ r \in ids
    \/ hook[r].pc \in {"pass", "expire", "fail"}
    \/ r \in reconnect.pass \cup reconnect.expire
    \/ notice[r] \in {"pass", "resolve"}

Unborn == {"idle", "ingest", "refuse", "refused"}

ItemsKept ==
    \A r \in Requests :
      /\ hook[r].pc \in Unborn => att[r].state = "absent"
      /\ up /\ IsApproval(r) /\ att[r].state \in LiveStates => Kept(r)

\* What a move does to the store.
LEMMA MoveStores ==
    ASSUME ManagedInv, NEW q \in Requests, RequestMove(q)
    PROVE  \/ ManagedIngest(q)
           \/ NoticeResolve(q)
           \/ [StoreRest]_storeVars
<1>1. CASE ManagedExpire(q) \/ ReconnectExpire(q)
  <2>1. \E reason \in {"deadline", "other"} : ExpireApproval(q, reason)
    BY <1>1 DEF ManagedExpire, ReconnectExpire
  <2> QED BY <2>1 DEF StoreRest
<1>2. CASE ~(ManagedExpire(q) \/ ReconnectExpire(q) \/ ManagedIngest(q) \/ NoticeResolve(q))
  BY <1>2 DEF RequestMove, CodexAsks, CodexResolves, ManagedRefuse, ManagedRegister,
     ManagedIngestFails, ManagedReceive, ManagedTimeout, ManagedForget, ManagedRespond, ManagedPass,
     ManagedError, NoticeTake, NoticePass, ReconnectPass, loopVars
<1> QED BY <1>1, <1>2

\* Only the thread of a request opens its item.
LEMMA ManagedAges ==
    ASSUME ManagedInv, [ManagedNext]_allVars, NEW r \in Requests
    PROVE  /\ att[r].state = "absent" /\ att'[r].state # "absent" => ManagedIngest(r)
           /\ IsApproval(r) /\ att'[r].state \in LiveStates =>
                att[r].state \in LiveStates \/ ManagedIngest(r)
<1>0. ServerTypeOK /\ JobsFit /\ ItemsFitKinds /\ DecisionInv
  BY DEF ManagedInv, ServerInv, DecisionInv
<1>1. ASSUME NEW q \in Requests, q # r, ManagedIngest(q)
      PROVE  att'[r] = att[r]
  BY <1>1 DEF ManagedIngest, IngestRequest, Settle
<1>2. ASSUME NEW q \in Requests, NoticeResolve(q)
      PROVE  att'[r] = att[r] \/ (att[r].state \in BlockingStates /\ att'[r].state = "resolved")
  BY <1>2 DEF NoticeResolve, ResolveManaged, Settle, storeVars
<1>3. CASE [StoreRest]_storeVars
  BY <1>0, <1>3, RestAges
<1>4. CASE RuntimeStep
  BY <1>0, <1>3, <1>4, ServerOwners, ServerStores DEF RuntimeStep
<1>5. CASE ConnectionTurn \/ UNCHANGED allVars
  BY <1>0, <1>5, LossIsConnections DEF storeVars
<1>6. CASE \E q \in Requests : RequestMove(q)
  BY <1>1, <1>2, <1>3, <1>6, MoveStores DEF LiveStates, BlockingStates
<1> QED BY <1>4, <1>5, <1>6, ManagedOwners

\* A live approval is handed from one keeper to the next, or closed.
LEMMA MoveKeepsLive ==
    ASSUME ManagedInv, ItemsKept, NEW r \in Requests, RequestMove(r),
           IsApproval(r), Kept(r), att[r].state \in LiveStates, att'[r].state \in LiveStates
    PROVE  Kept(r)'
<1>0. /\ ThreadsTypeOK /\ ThreadFit(r) /\ ReconnectFit
      /\ hook \in [Requests -> ManagedHook]
      /\ notice \in [Requests -> NoticePC]
      /\ reconnect \in [pc : {"no", "shutdown", "failed"},
                        pass : SUBSET Requests, expire : SUBSET Requests]
      /\ hook[r].pc \notin Unborn
  BY DEF ManagedInv, ThreadsFit, ThreadsTypeOK, ItemsKept, LiveStates
<1>a. \A reason : ~ExpireApproval(r, reason)
  BY DEF ExpireApproval, Settle, LiveStates
<1>b. ~ResolveManaged(r)
  BY DEF ResolveManaged, Settle, LiveStates, BlockingStates
<1>1. ~(\/ CodexAsks(r) \/ ManagedRefuse(r) \/ ManagedRegister(r) \/ ManagedIngest(r)
        \/ ManagedIngestFails(r) \/ ManagedExpire(r) \/ NoticeResolve(r) \/ ReconnectExpire(r))
  BY <1>0, <1>a, <1>b DEF CodexAsks, ManagedRefuse, ManagedRegister, ManagedIngest,
     ManagedIngestFails, ManagedExpire, NoticeResolve, ReconnectExpire, ThreadFit, Unborn
<1>2. CASE CodexResolves(r)
  BY <1>2 DEF CodexResolves, NoticeGoes, Kept
<1>3. CASE ManagedReceive(r) \/ ManagedTimeout(r) \/ ManagedRespond(r) \/ ManagedError(r)
  <2>1. UNCHANGED managedVars /\ hook[r].pc \in {"wait", "respond", "late", "refused"}
    BY <1>3 DEF ManagedReceive, ManagedTimeout, ManagedRespond, ManagedError
  <2> QED BY <2>1 DEF Kept, managedVars
<1>4. CASE ManagedForget(r)
  <2>1. hook[r].pc \in {"giveup", "unwritten"}
    BY <1>0, <1>4 DEF ManagedForget, AfterForget, ThreadFit, IsApproval
  <2>2. hook'[r].pc \in {"pass", "fail"}
    BY <1>0, <1>4, <2>1, HookGone DEF ManagedForget, AfterForget, ManagedPC
  <2> QED BY <2>2 DEF Kept
<1>5. CASE ManagedPass(r)
  <2>1. hook[r].pc = "pass"
    BY <1>0, <1>5 DEF ManagedPass, Unborn
  <2>2. hook'[r].pc = "expire"
    BY <1>0, <1>5, <2>1, HookGone DEF ManagedPass, ManagedPC
  <2> QED BY <2>2 DEF Kept
<1>6. CASE NoticeTake(r)
  <2>1. notice'[r] = IF r \in ids THEN "pass" ELSE IF r \in asked THEN "early" ELSE "done"
    BY <1>0, <1>6 DEF NoticeTake, NoticeGoes
  <2>2. notice[r] = "sent" /\ hook' = hook /\ reconnect' = reconnect
    BY <1>6 DEF NoticeTake, loopVars, threadVars
  <2> QED BY <2>1, <2>2 DEF Kept
<1>7. CASE NoticePass(r)
  <2>1. notice'[r] = "resolve"
    BY <1>0, <1>7 DEF NoticePass, NoticeGoes
  <2> QED BY <2>1 DEF Kept
<1>8. CASE ReconnectPass(r)
  <2>1. reconnect'.expire = {r}
    BY <1>0, <1>8 DEF ReconnectPass
  <2> QED BY <2>1 DEF Kept
<1> QED BY <1>1, <1>2, <1>3, <1>4, <1>5, <1>6, <1>7, <1>8 DEF RequestMove

\* The moves of others leave the keepers of a request alone.
LEMMA OthersKeepLive ==
    ASSUME ManagedInv, NEW r \in Requests, NEW q \in Requests \ {r}, RequestMove(q), Kept(r)
    PROVE  Kept(r)'
<1>0. /\ ThreadsTypeOK /\ ReconnectFit /\ KeepsThread(r)
      /\ reconnect \in [pc : {"no", "shutdown", "failed"},
                        pass : SUBSET Requests, expire : SUBSET Requests]
  BY MoveKeeps DEF ManagedInv, ThreadsFit, ThreadsTypeOK
<1>1. r \in reconnect.pass \cup reconnect.expire =>
        r \in reconnect'.pass \cup reconnect'.expire
  <2>1. CASE ReconnectPass(q)
    BY <1>0, <2>1 DEF ReconnectPass
  <2>2. CASE ReconnectExpire(q)
    BY <1>0, <2>2 DEF ReconnectExpire, ReconnectFit
  <2>3. CASE ~(ReconnectPass(q) \/ ReconnectExpire(q))
    BY <2>3 DEF RequestMove, CodexAsks, CodexResolves, ManagedRefuse, ManagedRegister,
       ManagedIngest, ManagedIngestFails, ManagedReceive, ManagedTimeout, ManagedForget,
       ManagedRespond, ManagedPass, ManagedExpire, ManagedError, NoticeTake, NoticePass,
       NoticeResolve, managedVars
  <2> QED BY <2>1, <2>2, <2>3
<1> QED BY <1>0, <1>1 DEF Kept, KeepsThread

\* So do the end of the connection and a restart that fails, which takes over
\* what is in the table.
LEMMA BreakKeepsLive ==
    ASSUME ManagedInv, NEW r \in Requests, Kept(r),
           \/ ConnectionTurn \/ UNCHANGED allVars
           \/ RuntimeStep /\ ~Crash /\ ~Startup
    PROVE  Kept(r)'
<1>0. ServerTypeOK /\ ReconnectFit
  BY DEF ManagedInv, ServerInv, ThreadsFit
<1>1. CASE ConnectionLost
  BY <1>1 DEF ConnectionLost, Kept
<1>2. CASE CredentialsChange
  BY <1>0, <1>2 DEF CredentialsChange, Kept, ReconnectFit, loopVars, threadVars
<1>3. CASE CredentialRestartFails
  BY <1>0, <1>3 DEF CredentialRestartFails, Kept, ReconnectFit, loopVars, threadVars
<1>4. CASE UNCHANGED allVars
  BY <1>4 DEF allVars, loopVars, threadVars, managedVars, Kept
<1>5. CASE RuntimeStep /\ ~Crash /\ ~Startup
  BY <1>0, <1>5, RuntimeKeeps DEF managedVars, Kept
<1> QED BY <1>1, <1>2, <1>3, <1>4, <1>5 DEF ConnectionTurn

LEMMA KeptStep ==
    ASSUME ManagedInv, ItemsKept, [ManagedNext]_allVars
    PROVE  ItemsKept'
<1> SUFFICES ASSUME NEW r \in Requests
             PROVE  /\ hook'[r].pc \in Unborn => att'[r].state = "absent"
                    /\ up' /\ IsApproval(r) /\ att'[r].state \in LiveStates => Kept(r)'
  BY DEF ItemsKept, IsApproval, Unborn, LiveStates
<1>0. /\ ServerTypeOK /\ ThreadsTypeOK /\ ThreadFit(r) /\ Turn
      /\ hook \in [Requests -> ManagedHook] /\ up \in BOOLEAN
  BY ManagedServer DEF ManagedInv, ServerInv, ServerTypeOK, ThreadsFit, ThreadsTypeOK
<1>1. ASSUME hook'[r].pc \in Unborn
      PROVE  att'[r].state = "absent"
  <2>1. hook[r].pc \in Unborn /\ ~ManagedIngest(r)
    <3>1. CASE RequestMove(r)
      <4>1. CASE \/ CodexAsks(r) \/ CodexResolves(r) \/ NoticeTake(r) \/ NoticePass(r)
                 \/ NoticeResolve(r) \/ ReconnectPass(r) \/ ReconnectExpire(r)
        <5>1. hook' = hook
          BY <4>1 DEF CodexAsks, CodexResolves, NoticeTake, NoticePass, NoticeResolve,
             ReconnectPass, ReconnectExpire, threadVars, loopVars
        <5>2. ~ManagedIngest(r)
          BY <1>0, <1>1, <5>1, HookGone DEF ManagedIngest, Unborn, ManagedPC
        <5> QED BY <1>1, <5>1, <5>2
      <4>2. CASE ManagedRegister(r)
        <5>1. hook[r].pc = "idle"
          BY <1>0, <4>2 DEF ManagedRegister, ThreadFit
        <5> QED BY <5>1 DEF Unborn, ManagedIngest
      <4>3. CASE ManagedIngestFails(r)
        <5>1. hook[r].pc = "ingest" /\ hook'[r].pc = "refuse"
          BY <1>0, <4>3, HookGone DEF ManagedIngestFails, ManagedPC
        <5>2. ~ManagedIngest(r)
          BY <1>0, <5>1, HookGone DEF ManagedIngest, ManagedPC
        <5> QED BY <5>1, <5>2 DEF Unborn
      <4>4. CASE ManagedPass(r)
        <5>1. hook[r].pc = "refuse"
          BY <1>0, <1>1, <4>4, HookGone DEF ManagedPass, ManagedPC, Unborn
        <5> QED BY <5>1 DEF Unborn, ManagedIngest
      <4>5. CASE ManagedRefuse(r)
        BY <1>0, <1>1, <4>5 DEF ManagedRefuse, Unborn
      <4>6. ~(ManagedIngest(r) \/ ManagedReceive(r) \/ ManagedTimeout(r) \/ ManagedForget(r))
        BY <1>0, <1>1, HookGone DEF ManagedIngest, ManagedReceive, ManagedTimeout, ManagedForget,
           AfterForget, ManagedPC, Unborn, ThreadFit
      <4>7. ~(ManagedRespond(r) \/ ManagedExpire(r) \/ ManagedError(r))
        BY <1>0, <1>1, HookGone DEF ManagedRespond, ManagedExpire, ManagedError, ManagedPC, Unborn
      <4> QED BY <3>1, <4>1, <4>2, <4>3, <4>4, <4>5, <4>6, <4>7 DEF RequestMove
    <3>2. CASE ~RequestMove(r)
      <4>1. ~ManagedIngest(r)
        BY <3>2 DEF RequestMove
      <4>2. hook[r].pc \in Unborn
        <5>1. CASE \E q \in Requests : RequestMove(q)
          BY <1>1, <3>2, <5>1, MoveKeeps DEF KeepsThread
        <5>2. CASE Crash
          BY <1>0, <1>1, <5>2 DEF Crash, ManagedHook, Unborn
        <5>3. CASE (ConnectionTurn \/ RuntimeStep \/ UNCHANGED allVars) /\ ~Crash
          <6>1. hook' = hook
            BY <1>0, <5>3, RuntimeKeeps DEF Startup, ConnectionTurn, ConnectionLost,
               CredentialsChange, CredentialRestartFails, allVars, loopVars, threadVars
          <6> QED BY <1>1, <6>1
        <5> QED BY <5>1, <5>2, <5>3, ManagedOwners
      <4> QED BY <4>1, <4>2
    <3> QED BY <3>1, <3>2
  <2> QED BY <2>1, ManagedAges DEF ItemsKept
<1>2. ASSUME up', IsApproval(r), att'[r].state \in LiveStates
      PROVE  Kept(r)'
  <2>1. ~Crash /\ ~Startup
    BY <1>2 DEF Crash, Startup, Reopen, Settle, LiveStates
  <2>2. up
    BY <1>0, <1>2, <2>1, UpStays
  <2>3. CASE ManagedIngest(r)
    BY <1>0, <2>3 DEF ManagedIngest, ThreadFit, managedVars, Kept
  <2>4. CASE ~ManagedIngest(r)
    <3>1. att[r].state \in LiveStates /\ Kept(r)
      BY <1>2, <2>2, <2>4, ManagedAges DEF ItemsKept
    <3> QED BY <1>2, <2>1, <3>1, MoveKeepsLive, OthersKeepLive, BreakKeepsLive, ManagedOwners
  <2> QED BY <2>3, <2>4
<1> QED BY <1>1, <1>2

LEMMA ManagedKeepsItems == ManagedSpec => []ItemsKept
<1>1. ManagedInit => ItemsKept
  BY DEF ManagedInit, LoopInit, StoreInit, ItemsKept, LiveStates
<1>2. ManagedInv /\ ItemsKept /\ [ManagedNext]_allVars => ItemsKept'
  BY KeptStep
<1> QED BY <1>1, <1>2, ManagedKeepsInv, PTL DEF ManagedSpec

\* When Codex is done with an approval and no thread, handler or notification is
\* still at work on it, the user can no longer decide on its item: whether the
\* answer, the deadline, the notification or the failed restart took the request
\* out of the table, and in whatever order they came.
THEOREM ManagedCloses == ManagedSpec => []ResolvedIsClosed
<1>1. ManagedInv /\ ItemsKept => ResolvedIsClosed
  <2> SUFFICES ASSUME ManagedInv, ItemsKept, up, NEW r \in Requests, notice[r] = "done",
                      IsApproval(r), ~AtWorkOn(r), att[r].state \in BlockingStates
               PROVE  FALSE
    BY DEF ResolvedIsClosed
  <2>1. ThreadFit(r) /\ ItemsFitKinds
    BY DEF ManagedInv, ServerInv, DecisionInv, ThreadsFit
  <2>2. att[r].state \in LiveStates
    BY <2>1 DEF ItemsFitKinds, LiveStates, BlockingStates
  <2>3. Kept(r)
    BY <2>2 DEF ItemsKept
  <2> QED BY <2>1, <2>3 DEF Kept, AtWorkOn, ThreadFit
<1> QED BY <1>1, ManagedKeepsInv, ManagedKeepsItems, PTL

-----------------------------------------------------------------------------
(* Decisions that were sent *)

LEMMA ManagedKnows == ManagedSpec => []JobsKnow
<1>1. ManagedInit => JobsKnow
  BY DEF ManagedInit, LoopInit, JobsKnow, OneRuns, Busy, OneTask, Deciding, Knows, NoJob
<1>2. ManagedInv /\ JobsKnow /\ [ManagedNext]_allVars => JobsKnow'
  BY KnowsStep, ManagedServer DEF ManagedInv
<1> QED BY <1>1, <1>2, ManagedKeepsInv, PTL DEF ManagedSpec

LEMMA ManagedSendsDecisions == ManagedSpec => []SentFromDecision
<1>1. ManagedInit => SentFromDecision
  <2> SUFFICES ASSUME ManagedInit PROVE SentFromDecision
    OBVIOUS
  <2>1. \A d : <<>> # <<d>>
    OBVIOUS
  <2> QED BY <2>1 DEF ManagedInit, LoopInit, Registry!RegistryInit, SentFromDecision
<1>2. ManagedInv /\ JobsKnow /\ SentFromDecision /\ [ManagedNext]_allVars => SentFromDecision'
  BY SentFromStep, ManagedServer DEF ManagedInv
<1> QED BY <1>1, <1>2, ManagedKeepsInv, ManagedKnows, PTL DEF ManagedSpec

LEMMA ManagedKeepsDelivered == ManagedSpec => []Delivered
<1>1. ManagedInit => Delivered
  BY DEF ManagedInit, LoopInit, StoreInit, NoCommand, Delivered
<1>2. ManagedInv /\ JobsKnow /\ Delivered /\ [ManagedNext]_allVars => Delivered'
  BY DeliveredStep, ManagedServer DEF ManagedInv
<1> QED BY <1>1, <1>2, ManagedKeepsInv, ManagedKnows, PTL DEF ManagedSpec

Closed(r) == att[r].state \notin BlockingStates \cup {"absent"}

\* A decision in the channel of a request whose thread is done was written to
\* Codex while it waited, unless Codex had withdrawn the request, or its item
\* was closed.
HeardOrClosed ==
    \A r \in Requests : \A d \in Decisions :
      mailbox[r] = <<d>> =>
        /\ hook[r].pc \in {"late", "refused"} => Closed(r)
        /\ hook[r].pc = "done" => Closed(r) \/ client[r] = d \/ r \in withdrawn

\* What the threads do to a decision in the channel of their request.
LEMMA MoveHears ==
    ASSUME ManagedInv, ItemsKept, SentFromDecision, HeardOrClosed,
           NEW r \in Requests, RequestMove(r), NEW d \in Decisions, mailbox[r] = <<d>>,
           Closed(r) => Closed(r)'
    PROVE  /\ hook'[r].pc \in {"late", "refused"} => Closed(r)'
           /\ hook'[r].pc = "done" => Closed(r)' \/ client'[r] = d \/ r \in withdrawn'
<1>0. /\ ServerInv /\ ThreadsTypeOK /\ ThreadFit(r) /\ ChannelsFit /\ ItemsFitKinds
      /\ hook \in [Requests -> ManagedHook] /\ client \in [Requests -> ClientStates]
  BY DEF ManagedInv, ServerInv, DecisionInv, ThreadsFit, ThreadsTypeOK
<1>1. att[r].state \in {"decision_sent", "resolved", "expired"}
  BY <1>0, SentDecided
<1>2. hook[r].pc \notin Unborn
  BY <1>1 DEF ItemsKept
<1>a. d \in Responses /\ d \notin {"idle", "asking"} /\ Head(mailbox[r]) = d
  BY DEF Responses, Decisions
<1>3. ~(CodexAsks(r) \/ ManagedRefuse(r) \/ ManagedRegister(r) \/ ManagedIngest(r)
        \/ ManagedIngestFails(r))
  BY <1>0, <1>2 DEF CodexAsks, ManagedRefuse, ManagedRegister, ManagedIngest, ManagedIngestFails,
     ThreadFit, Unborn
<1>4. CASE CodexResolves(r)
  <2>1. hook' = hook /\ (r \in withdrawn => r \in withdrawn')
        /\ client'[r] = IF client[r] = "asking" THEN "native" ELSE client[r]
    BY <1>0, <1>4, Told1 DEF CodexResolves, Responses
  <2> QED BY <1>a, <2>1 DEF HeardOrClosed
<1>5. CASE ManagedReceive(r) \/ ManagedTimeout(r) \/ ManagedForget(r)
  <2>1. hook'[r].pc \in {"respond", "forget", "giveup", "pass", "fail"}
    BY <1>0, <1>5, HookGone DEF ManagedReceive, ManagedTimeout, ManagedForget, AfterForget, ManagedPC
  <2> QED BY <2>1
<1>6. CASE ManagedRespond(r)
  <2>1. hook[r].pc = "respond" /\ withdrawn' = withdrawn
    BY <1>6 DEF ManagedRespond, managedVars
  <2>2. CASE conn = "open"
    <3>1. client'[r] = IF client[r] = "asking" THEN d ELSE client[r]
      BY <1>0, <1>6, <1>a, <2>2, Told1 DEF ManagedRespond
    <3>2. client[r] = "asking" \/ r \in withdrawn
      BY <1>0, <2>1, <2>2 DEF ThreadFit
    <3>3. hook'[r].pc = "done"
      BY <1>0, <1>6, <2>2, HookGone DEF ManagedRespond, ManagedPC
    <3> QED BY <2>1, <3>1, <3>2, <3>3
  <2>3. CASE conn # "open" /\ IsApproval(r)
    <3>1. hook'[r].pc = "unwritten"
      BY <1>0, <1>6, <2>3, HookGone DEF ManagedRespond, ManagedPC
    <3> QED BY <3>1
  <2>4. CASE ~IsApproval(r)
    <3>1. Closed(r)
      BY <1>0, <1>1, <2>4 DEF ItemsFitKinds, Closed, BlockingStates, LiveStates
    <3> QED BY <3>1
  <2> QED BY <2>2, <2>3, <2>4
<1>7. CASE ManagedPass(r)
  <2>1. hook[r].pc = "pass"
    BY <1>2, <1>7 DEF ManagedPass, Unborn
  <2>2. hook'[r].pc = "expire"
    BY <1>0, <1>7, <2>1, HookGone DEF ManagedPass, ManagedPC
  <2> QED BY <2>2
<1>8. CASE ManagedExpire(r)
  <2>1. PICK reason : ExpireApproval(r, reason)
    BY <1>8 DEF ManagedExpire
  <2>2. CASE att[r].state \in LiveStates
    BY <2>1, <2>2 DEF ExpireApproval, Settle, Closed, BlockingStates, LiveStates
  <2>3. CASE att[r].state \notin LiveStates
    BY <1>1, <2>3 DEF Closed, BlockingStates, LiveStates
  <2> QED BY <2>2, <2>3
<1>9. CASE ManagedError(r)
  <2>1. Closed(r)
    BY <1>9 DEF ManagedError, HeardOrClosed
  <2> QED BY <2>1
<1>10. CASE \/ NoticeTake(r) \/ NoticePass(r) \/ NoticeResolve(r)
            \/ ReconnectPass(r) \/ ReconnectExpire(r)
  <2>1. UNCHANGED <<hook, client, withdrawn>>
    BY <1>10 DEF NoticeTake, NoticePass, NoticeResolve, ReconnectPass, ReconnectExpire,
       threadVars, loopVars
  <2> QED BY <2>1 DEF HeardOrClosed
<1> QED BY <1>3, <1>4, <1>5, <1>6, <1>7, <1>8, <1>9, <1>10 DEF RequestMove

LEMMA HearsStep ==
    ASSUME ManagedInv, ManagedInv', ItemsKept, SentFromDecision, SentFromDecision',
           HeardOrClosed, [ManagedNext]_allVars
    PROVE  HeardOrClosed'
<1> SUFFICES ASSUME NEW r \in Requests, NEW d \in Decisions, mailbox'[r] = <<d>>
             PROVE  /\ hook'[r].pc \in {"late", "refused"} => Closed(r)'
                    /\ hook'[r].pc = "done" => Closed(r)' \/ client'[r] = d \/ r \in withdrawn'
  BY DEF HeardOrClosed, Decisions
<1>0. /\ ServerInv /\ ServerTypeOK /\ ThreadsTypeOK /\ Turn
      /\ hook \in [Requests -> ManagedHook] /\ client \in [Requests -> ClientStates]
  BY ManagedServer DEF ManagedInv, ServerInv, ThreadsTypeOK
<1>a. Closed(r) => Closed(r)'
  BY <1>0, EndedKept DEF KeepsEnded, Closed
<1>b. d \notin {"idle", "asking"}
  BY DEF Decisions
<1>1. CASE mailbox[r] # <<d>>
  <2>1. PICK h \in Handlers : Active(r) /\ JobDecide(h)
    BY <1>0, <1>1, DecisionSent
  <2>2. hook[r].pc \in {"ingest", "wait", "giveup", "pass", "refuse"} /\ hook' = hook
    BY <2>1 DEF ManagedInv, WaitersHaveThreads, JobDecide
  <2> QED BY <2>2
<1>2. CASE mailbox[r] = <<d>>
  <2>1. CASE RequestMove(r)
    BY <1>2, <1>a, <2>1, MoveHears
  <2>2. CASE KeepsThread(r)
    BY <1>2, <1>a, <2>2 DEF KeepsThread, HeardOrClosed
  <2>3. CASE ConnectionLost
    <3>1. /\ hook' = hook /\ withdrawn' = withdrawn
          /\ client'[r] = IF client[r] = "asking" THEN "native" ELSE client[r]
      BY <1>0, <2>3 DEF ConnectionLost
    <3> QED BY <1>2, <1>a, <1>b, <3>1 DEF HeardOrClosed
  <2>4. CASE RuntimeStep /\ Crash
    <3>1. /\ hook'[r].pc = IF hook[r].pc \in {"idle", "done"} THEN hook[r].pc ELSE "lost"
          /\ client'[r] = IF client[r] = "asking" THEN "native" ELSE client[r]
      BY <1>0, <2>4 DEF Crash, ManagedHook
    <3>2. withdrawn' = withdrawn
      BY <2>4, RuntimeBreaks
    <3> QED BY <1>2, <1>a, <1>b, <3>1, <3>2 DEF HeardOrClosed
  <2>5. CASE RuntimeStep /\ Startup
    <3>1. UNCHANGED <<hook, client, withdrawn>>
      BY <2>5, RuntimeBreaks DEF Startup, threadVars
    <3> QED BY <1>2, <1>a, <3>1 DEF HeardOrClosed
  <2>6. CASE \/ CredentialsChange \/ CredentialRestartFails \/ UNCHANGED allVars
             \/ RuntimeStep /\ ~Crash /\ ~Startup
    <3>1. UNCHANGED <<hook, client, withdrawn>>
      BY <1>0, <2>6, RuntimeKeeps DEF CredentialsChange, CredentialRestartFails, allVars,
         loopVars, threadVars, managedVars
    <3> QED BY <1>2, <1>a, <3>1 DEF HeardOrClosed
  <2> QED BY <2>1, <2>2, <2>3, <2>4, <2>5, <2>6, MoveKeeps, ManagedOwners DEF ConnectionTurn
<1> QED BY <1>1, <1>2

LEMMA ManagedKeepsHeard == ManagedSpec => []HeardOrClosed
<1>1. ManagedInit => HeardOrClosed
  BY DEF ManagedInit, LoopInit, HeardOrClosed
<1>2. ManagedInv /\ ManagedInv' /\ ItemsKept /\ SentFromDecision /\ SentFromDecision' /\
      HeardOrClosed /\ [ManagedNext]_allVars => HeardOrClosed'
  BY HearsStep
<1> QED BY <1>1, <1>2, ManagedKeepsInv, ManagedKeepsItems, ManagedSendsDecisions, PTL
    DEF ManagedSpec

\* A decision for Codex that stays recorded as sent was written while Codex
\* waited for it, or Codex had withdrawn the request, or an event of its session
\* closed the item: through every race of the answer with the deadline, the loss
\* of the connection, changed credentials, a notification and the end of the
\* process.
THEOREM ManagedHears == ManagedSpec => []SentIsHeard
<1>1. ManagedInv /\ JobsKnow /\ Delivered /\ HeardOrClosed => SentIsHeard
  <2> SUFFICES ASSUME ManagedInv, JobsKnow, Delivered, HeardOrClosed, up,
                      NEW c \in Commands, cmd[c].state = "decision_sent",
                      ~AtWorkOn(cmd[c].request)
               PROVE  \/ client[cmd[c].request] = cmd[c].action
                      \/ cmd[c].request \in withdrawn
                      \/ att[cmd[c].request].state = "resolved"
    BY DEF SentIsHeard
  <2>1. /\ cmd[c].request \in Requests /\ cmd[c].action \in Decisions
        /\ att[cmd[c].request].state \in {"decision_sent", "resolved"}
        /\ JobsFit /\ None \notin Commands
    BY SentItem, LoopAssumption DEF ManagedInv, ServerInv, LoopAssumption
  <2>2. ~InFlight(c)
    <3> SUFFICES ASSUME NEW h \in Handlers, job[h].command = c PROVE FALSE
      BY DEF InFlight
    <3>1. job[h].pc \in {"decide", "stale"} /\ job[h].request = cmd[c].request
      <4>1. Knows(h) /\ job[h].pc \in JobPC
        BY DEF JobsKnow, ManagedInv, ServerInv, ServerTypeOK, JobType
      <4> QED BY <2>1, <4>1 DEF Knows, JobPC
    <3> QED BY <3>1 DEF AtWorkOn
  <2>3. hook[cmd[c].request].pc = "done"
    BY DEF AtWorkOn
  <2> QED BY <2>1, <2>2, <2>3 DEF Delivered, HeardOrClosed, Closed, BlockingStates, LiveStates
<1> QED BY <1>1, ManagedKeepsInv, ManagedKnows, ManagedKeepsDelivered, ManagedKeepsHeard, PTL

-----------------------------------------------------------------------------
(* The contract *)

\* What Codex hears about a request it waits for: that it is not decided here,
\* or what the channel of the request holds.
Hands(r) ==
    client[r] = "asking" /\
      \/ client'[r] = "native"
      \/ \E m \in Responses : mailbox[r] = <<m>> /\ client'[r] = m

\* Codex hears about one request at a time, unless the connection or the process
\* ends, and while the store decides nothing.
LEMMA CodexHears ==
    ASSUME ManagedInv, [ManagedNext]_allVars, client' # client
    PROVE  /\ UNCHANGED <<cmd, counted>>
           /\ \/ client' = [q \in Requests |-> IF client[q] = "asking" THEN "native" ELSE client[q]]
              \/ \E r \in Requests :
                   /\ client' \in [Requests -> ClientStates]
                   /\ \A q \in Requests \ {r} : client'[q] = client[q]
                   /\ (client[r] = "idle" /\ client'[r] = "asking") \/ Hands(r)
<1>0. /\ ServerTypeOK /\ ThreadsTypeOK /\ ChannelsFit /\ ThreadsFit
      /\ client \in [Requests -> ClientStates]
  BY DEF ManagedInv, ServerInv, ThreadsTypeOK
<1>1. ASSUME NEW r \in Requests, RequestMove(r)
      PROVE  /\ UNCHANGED <<cmd, counted>>
             /\ client' \in [Requests -> ClientStates]
             /\ \A q \in Requests \ {r} : client'[q] = client[q]
             /\ (client[r] = "idle" /\ client'[r] = "asking") \/ Hands(r)
  <2>1. ASSUME client' \in [Requests -> ClientStates],
               \A q \in Requests \ {r} : client'[q] = client[q]
        PROVE  client'[r] # client[r]
    BY <1>0, <2>1
  <2>2. CASE CodexAsks(r)
    <3>1. client[r] = "idle" /\ client' = [client EXCEPT ![r] = "asking"] /\ UNCHANGED storeVars
      BY <2>2 DEF CodexAsks
    <3>2. client' \in [Requests -> ClientStates]
      BY <1>0, <3>1 DEF ClientStates
    <3> QED BY <1>0, <3>1, <3>2 DEF storeVars
  <2>3. CASE CodexResolves(r) \/ ManagedRefuse(r) \/ ManagedError(r)
    <3>1. Tell(r, "native") /\ UNCHANGED storeVars
      BY <2>3 DEF CodexResolves, ManagedRefuse, ManagedError
    <3>2. /\ client' \in [Requests -> ClientStates]
          /\ client'[r] = IF client[r] = "asking" THEN "native" ELSE client[r]
          /\ \A q \in Requests \ {r} : client'[q] = client[q]
      BY <1>0, <3>1, Told1 DEF Responses
    <3>3. Hands(r)
      BY <2>1, <3>2 DEF Hands
    <3> QED BY <3>1, <3>2, <3>3 DEF storeVars
  <2>4. CASE ManagedRespond(r)
    <3>1. mailbox[r] # <<>> /\ UNCHANGED storeVars
      BY <1>0, <2>4 DEF ManagedRespond, ThreadsFit, ThreadFit
    <3>2. Tell(r, Head(mailbox[r]))
      BY <2>4 DEF ManagedRespond
    <3>3. Head(mailbox[r]) \in Responses /\ mailbox[r] = <<Head(mailbox[r])>>
      BY <1>0, <3>1, HeadOf
    <3>4. /\ client' \in [Requests -> ClientStates]
          /\ client'[r] = IF client[r] = "asking" THEN Head(mailbox[r]) ELSE client[r]
          /\ \A q \in Requests \ {r} : client'[q] = client[q]
      BY <1>0, <3>2, <3>3, Told1
    <3>5. Hands(r)
      BY <2>1, <3>3, <3>4 DEF Hands
    <3> QED BY <3>1, <3>4, <3>5 DEF storeVars
  <2>5. ~(\/ ManagedRegister(r) \/ ManagedIngest(r) \/ ManagedIngestFails(r) \/ ManagedReceive(r)
          \/ ManagedTimeout(r) \/ ManagedForget(r) \/ ManagedPass(r) \/ ManagedExpire(r)
          \/ NoticeTake(r) \/ NoticePass(r) \/ NoticeResolve(r)
          \/ ReconnectPass(r) \/ ReconnectExpire(r))
    BY DEF ManagedRegister, ManagedIngest, ManagedIngestFails, ManagedReceive, ManagedTimeout,
       ManagedForget, ManagedPass, ManagedExpire, NoticeTake, NoticePass, NoticeResolve,
       ReconnectPass, ReconnectExpire, loopVars, threadVars
  <2> QED BY <1>1, <2>2, <2>3, <2>4, <2>5 DEF RequestMove
<1>2. CASE ConnectionLost \/ Crash
  <2>1. /\ client' = [q \in Requests |-> IF client[q] = "asking" THEN "native" ELSE client[q]]
        /\ UNCHANGED storeVars
    BY <1>2 DEF ConnectionLost, Crash
  <2> QED BY <2>1 DEF storeVars
<1>3. ~(CredentialsChange \/ CredentialRestartFails \/ UNCHANGED allVars)
  BY DEF CredentialsChange, CredentialRestartFails, allVars, loopVars, threadVars
<1>4. ASSUME RuntimeStep, ~Crash
      PROVE  FALSE
  <2>1. ~Startup
    BY DEF Startup, threadVars
  <2> QED BY <1>0, <1>4, <2>1, RuntimeKeeps
<1> QED BY <1>1, <1>2, <1>3, <1>4, ManagedOwners DEF ConnectionTurn

\* A verdict that Codex heard was on the channel of its request.
HeardWasSent ==
    \A r \in Requests : client[r] \in Verdict => mailbox[r] = <<client[r]>>

LEMMA HeardWasSentStep ==
    ASSUME ManagedInv, HeardWasSent, [ManagedNext]_allVars
    PROVE  HeardWasSent'
<1> SUFFICES ASSUME NEW r \in Requests, client'[r] \in Verdict
             PROVE  mailbox'[r] = <<client'[r]>>
  BY DEF HeardWasSent
<1>0. ServerTypeOK /\ JobsFit /\ ChannelsFit /\ Turn
  BY ManagedServer DEF ManagedInv, ServerInv
<1>1. mailbox[r] = <<client'[r]>>
  <2>1. CASE client'[r] = client[r]
    BY <2>1 DEF HeardWasSent
  <2>2. CASE client'[r] # client[r]
    <3>1. client'[r] \notin {"asking", "native"}
      BY DEF Verdict, Decisions
    <3>2. Hands(r)
      BY <2>2, <3>1, CodexHears
    <3> QED BY <3>1, <3>2 DEF Hands
  <2> QED BY <2>1, <2>2
<1>a. \A m : <<m>> # <<>>
  OBVIOUS
<1>2. mailbox[r] # <<>>
  BY <1>1, <1>a
<1> QED BY <1>0, <1>1, <1>2, MailStays

LEMMA ManagedHeardWasSent == ManagedSpec => []HeardWasSent
<1>1. ManagedInit => HeardWasSent
  <2> SUFFICES ASSUME ManagedInit, NEW r \in Requests PROVE client[r] \notin Verdict
    BY DEF HeardWasSent
  <2>1. client = [q \in Requests |-> "idle"]
    BY DEF ManagedInit, LoopInit
  <2> QED BY <2>1 DEF Verdict, Decisions
<1>2. ManagedInv /\ HeardWasSent /\ [ManagedNext]_allVars => HeardWasSent'
  BY HeardWasSentStep
<1> QED BY <1>1, <1>2, ManagedKeepsInv, PTL DEF ManagedSpec

\* What Codex hears is a decision that stands, an answer, or that its requests are
\* handed back.
LEMMA HandsMapped ==
    ASSUME ManagedInv, SentFromDecision, [ManagedNext]_allVars, client' # client
    PROVE  Contract!ContractNext \/ UNCHANGED <<Standing, Told>>
<1>0. UNCHANGED <<cmd, counted>> /\ client \in [Requests -> ClientStates]
  BY CodexHears DEF ManagedInv, ThreadsTypeOK
<1>1. CASE client' = [q \in Requests |-> IF client[q] = "asking" THEN "native" ELSE client[q]]
  BY <1>0, <1>1, LossMapped
<1>2. ASSUME NEW r \in Requests, client' \in [Requests -> ClientStates],
             \A q \in Requests \ {r} : client'[q] = client[q],
             client[r] = "idle" /\ client'[r] = "asking"
      PROVE  UNCHANGED <<Standing, Told>>
  <2>1. Standing' = Standing
    BY <1>0 DEF Standing, Stands
  <2>2. Told' = Told
    BY <1>2 DEF Told
  <2> QED BY <2>1, <2>2
<1>3. ASSUME NEW r \in Requests, client' \in [Requests -> ClientStates],
             \A q \in Requests \ {r} : client'[q] = client[q],
             Hands(r)
      PROVE  Contract!ContractNext
  <2>1. Told[r] = "waiting"
    BY <1>3 DEF Hands, Told
  <2>2. \A q \in Requests \ {r} : Told'[q] = Told[q]
    BY <1>3 DEF Told
  <2>3. CASE client'[r] = "native"
    <3>1. Told'[r] = "native"
      BY <2>3 DEF Told
    <3> DEFINE R == {r}
    <3>2. Told' = [q \in Requests |-> IF q \in R THEN "native" ELSE Told[q]]
      BY <2>2, <3>1 DEF Told
    <3>3. R \subseteq Requests
      OBVIOUS
    <3>4. \A q \in R : Told[q] = "waiting"
      BY <2>1
    <3>5. UNCHANGED <<cmd, counted>>
      BY <1>0
    <3> HIDE DEF R
    <3> QED BY <3>2, <3>3, <3>4, <3>5, HandedBack
  <2>4. CASE client'[r] # "native"
    <3>1. PICK m \in Responses : mailbox[r] = <<m>> /\ client'[r] = m
      BY <1>3, <2>4 DEF Hands
    <3>2. Told'[r] = m
      BY <3>1 DEF Told, Responses, Decisions
    <3>3. Told' = [Told EXCEPT ![r] = m]
      BY <2>2, <3>2 DEF Told
    <3> QED BY <1>0, <2>1, <2>4, <3>1, <3>3, HeardMapped
  <2> QED BY <2>3, <2>4
<1> QED BY <1>1, <1>2, <1>3, CodexHears

\* The app-server connection keeps the contract as the Hooks do: through every
\* race of the answer with a notification, the deadline, a lost connection, changed
\* credentials, an event, undo and crashes, Codex is told approve or deny only if
\* exactly that decision of the user stands, and none is withdrawn that it was told.
THEOREM ManagedImplements == ManagedSpec => ImplementsContract
<1>1. ManagedInit => Contract!ContractInit
  BY LoopInitMapped DEF ManagedInit
<1>2. ManagedInv /\ HeardWasSent /\ SentFromDecision /\ [ManagedNext]_allVars =>
        [Contract!ContractNext]_(Contract!contractVars)
  <2> SUFFICES ASSUME ManagedInv, HeardWasSent, SentFromDecision, [ManagedNext]_allVars
               PROVE  [Contract!ContractNext]_(Contract!contractVars)
    OBVIOUS
  <2>1. ServerInv /\ Turn
    BY ManagedServer DEF ManagedInv
  <2>2. \A r \in Requests : client[r] \in Decisions => mailbox[r] = <<client[r]>>
    BY DEF HeardWasSent, Verdict
  <2> QED BY <2>1, <2>2, StoreMapped, HandsMapped DEF Contract!contractVars
<1> QED BY <1>1, <1>2, ManagedKeepsInv, ManagedHeardWasSent, ManagedSendsDecisions, PTL
    DEF ManagedSpec, ImplementsContract, Contract!ContractSpec
=============================================================================
