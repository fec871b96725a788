----------------------------- MODULE ApprovalLoop -----------------------------
(***************************************************************************)
(* How the Runtime process decides approvals and questions in widget mode: *)
(* Hook connection threads (crates/app/src/main.rs, serve), HTTP command   *)
(* handlers (crates/server/src/server.rs, process_command and              *)
(* process_answer_question), the tasks they spawn to commit after the undo *)
(* window, the expiry thread, lifecycle events of the provider, a graceful *)
(* restart, and a crash of the process.  The threads share the             *)
(* WaiterRegistry, in memory, and the ApprovalStore, on disk.              *)
(*                                                                         *)
(* Every call into the registry or the store is one atomic step, so that a *)
(* handler that makes several calls can be overtaken between any two.      *)
(***************************************************************************)
EXTENDS ApprovalStore, Sequences

CONSTANTS
    CorrelationOf,  \* the correlation key of each request
    ByAgent,        \* requests of Kimi and Grok, which an ActRealm client relays
    Handlers,       \* slots for HTTP handlers and the tasks they spawn
    Events,         \* lifecycle events of the provider
    EventOf,        \* the session, kind and tool of each event
    MaxTime,        \* bound on the clock
    MaxRestarts     \* bound on crashes and restarts of the Runtime

Correlations == {CorrelationOf[r] : r \in Requests}

VARIABLES
    now,            \* wall clock
    up,             \* the Runtime process runs
    restarts,       \* ends of the process so far
    leaving,        \* how far the accept loop is with a restart
    byRequest, byCorrelation, issued, mailbox,  \* WaiterRegistry
    hook,           \* the connection thread of each request
    client,         \* what the provider's Hook process has been told
    job,            \* what each handler is doing
    delivery,       \* the connection thread of each lifecycle event
    sweep,          \* expired ids the expiry thread has yet to store
    closing         \* requests their relay withdrew: what is left to do for each

waiterVars == <<byRequest, byCorrelation, issued, mailbox>>
threadVars == <<hook, client, job, delivery, sweep, closing>>
processVars == <<now, up, restarts, leaving>>
loopVars == <<processVars, storeVars, waiterVars, threadVars>>

Responses == Decisions \cup {"answer", "native"}

\* A request registers once, so its channel is named after it.
Registry == INSTANCE WaiterRegistry
    WITH Tickets <- Requests, PassThrough <- "native", Times <- 0..MaxTime

ASSUME LoopAssumption ==
    /\ MaxTime \in Nat
    /\ 0..MaxTime \subseteq Times
    /\ MaxRestarts \in Nat
    /\ None \notin Commands \cup Registry!Entry
    /\ \A r \in Requests : Envelope[r].deadline \in 0..MaxTime
    /\ CorrelationOf \in [Requests -> Correlations]
    /\ ByAgent \subseteq Requests
    /\ EventOf \in [Events -> [session : Sessions, kind : EventKinds, tool : Tools]]

\* idle: not connected.  replace, ingest: registered, on the way to the store.
\* collect: refused by the store.  wait: blocked on the channel.  giveup, expire:
\* the wait timed out.  unwritten: the reply of a relay could not be written.
\* unconfirm: a relay may be gone.  close: about to drop the connection.  lost:
\* died with the Runtime.
HookPC ==
    {"idle", "replace", "ingest", "collect", "wait", "giveup", "expire", "unwritten",
     "unconfirm", "close", "done", "lost"}

\* old: the request this registration replaced, if any.
HookType == [pc : HookPC, old : SUBSET Requests]

JobPC ==
    {"idle", "claim", "sleep", "probe", "commit", "decide", "handback", "stale", "undo",
     "answer", "ack"}

NoJob ==
    [pc |-> "idle", command |-> None, request |-> None, action |-> "none",
     at |-> 0, delay |-> 0, active |-> FALSE]

JobType ==
    [pc : JobPC, command : Commands \cup {None}, request : Requests \cup {None},
     action : {"none", "pass_through"} \cup Responses, at : Nat, delay : Nat,
     active : BOOLEAN]

\* no: the accept loop accepts.  release: it hands the waiters of todo back.
\* exec: it is about to replace the process.
LeavingType == [pc : {"no", "release", "exec"}, todo : SUBSET Requests]

Staying == [pc |-> "no", todo |-> {}]

LoopTypeOK ==
    /\ StoreTypeOK
    /\ Registry!RegistryTypeOK
    /\ now \in 0..MaxTime
    /\ up \in BOOLEAN
    /\ restarts \in 0..MaxRestarts
    /\ leaving \in LeavingType
    /\ hook \in [Requests -> HookType]
    /\ client \in [Requests -> {"idle", "asking"} \cup Responses]
    /\ job \in [Handlers -> JobType]
    /\ delivery \in [Events -> [pc : {"idle", "answer"}, todo : SUBSET Requests]]
    /\ sweep \subseteq Requests
    /\ closing \in [ByAgent -> {"no", "expire", "unconfirm"}]

LoopInit ==
    /\ StoreInit
    /\ Registry!RegistryInit
    /\ now = 0
    /\ up = TRUE
    /\ restarts = 0
    /\ leaving = Staying
    /\ hook = [r \in Requests |-> [pc |-> "idle", old |-> {}]]
    /\ client = [r \in Requests |-> "idle"]
    /\ job = [h \in Handlers |-> NoJob]
    /\ delivery = [e \in Events |-> [pc |-> "idle", todo |-> {}]]
    /\ sweep = {}
    /\ closing = [r \in ByAgent |-> "no"]

Active(r) == byRequest[r] # None

\* resolve, when the caller ignores NotActive.
TryResolve(r, response) ==
    \/ Registry!Resolve(r, response)
    \/ ~Active(r) /\ UNCHANGED waiterVars

-----------------------------------------------------------------------------
(* Hook connection threads *)

HookGoes(r, pc) == hook' = [hook EXCEPT ![r].pc = pc]

\* The waiter is registered before the request reaches the store.
HookRegister(r) ==
    LET old == Registry!Replaced(r, CorrelationOf[r], now)
    IN  /\ up
        /\ hook[r].pc = "idle" /\ client[r] = "idle"
        /\ Envelope[r].receivedAt <= now
        /\ Registry!Register(r, CorrelationOf[r], Envelope[r].deadline, r, now)
        /\ hook' = [hook EXCEPT ![r] =
             [pc |-> IF old = {} THEN "ingest" ELSE "replace", old |-> old]]
        /\ client' = [client EXCEPT ![r] = "asking"]
        /\ UNCHANGED <<processVars, storeVars, job, delivery, sweep, closing>>

\* The item of the waiter that was replaced expires.
HookExpireReplaced(r) ==
    /\ hook[r].pc = "replace"
    /\ \E q \in hook[r].old : ExpireApproval(q, "other")
    /\ HookGoes(r, "ingest")
    /\ UNCHANGED <<processVars, waiterVars, client, job, delivery, sweep, closing>>

HookIngest(r) ==
    /\ hook[r].pc = "ingest"
    /\ \E fresh \in BOOLEAN : IngestRequest(r, fresh)
    /\ HookGoes(r, "wait")
    /\ UNCHANGED <<processVars, waiterVars, client, job, delivery, sweep, closing>>

\* The store failed, or suppressed the request as internal to the provider.
HookRefused(r) ==
    /\ hook[r].pc = "ingest"
    /\ TryResolve(r, "native")
    /\ HookGoes(r, "collect")
    /\ UNCHANGED <<processVars, storeVars, client, job, delivery, sweep, closing>>

\* Mutant: a request that the store refused never reads its channel.
HookReceiveAccepted(r) ==
    /\ hook[r].pc = "wait"
    /\ mailbox[r] # <<>>
    /\ client' = [client EXCEPT ![r] = IF @ = "asking" THEN Head(mailbox[r]) ELSE @]
    /\ HookGoes(r, "done")
    /\ UNCHANGED <<processVars, storeVars, waiterVars, job, delivery, sweep, closing>>

\* A response arrives and is written to the Hook process, if that still lives.
\* For a relay it matters whether it does.
HookReceive(r) ==
    /\ hook[r].pc \in {"wait", "collect"}
    /\ mailbox[r] # <<>>
    /\ client' = [client EXCEPT ![r] = IF @ = "asking" THEN Head(mailbox[r]) ELSE @]
    /\ HookGoes(r, IF r \in ByAgent /\ hook[r].pc = "wait" /\ client[r] # "asking"
                   THEN "unwritten" ELSE "done")
    /\ UNCHANGED <<processVars, storeVars, waiterVars, job, delivery, sweep, closing>>

\* recv_timeout ran out; a response may still be sent before the next step.
HookTimeout(r) ==
    /\ r \notin ByAgent
    /\ hook[r].pc = "wait"
    /\ mailbox[r] = <<>>
    /\ now >= Envelope[r].deadline
    /\ HookGoes(r, "giveup")
    /\ UNCHANGED <<processVars, storeVars, waiterVars, client, job, delivery, sweep, closing>>

\* wait_for_agent_reply looks at its peer and at the deadline before it looks at
\* the channel, and does not look again: a response that is there is lost.
AgentGivesUp(r) ==
    /\ r \in ByAgent
    /\ hook[r].pc = "wait"
    /\ client[r] # "asking" \/ now >= Envelope[r].deadline
    /\ HookGoes(r, "giveup")
    /\ UNCHANGED <<processVars, storeVars, waiterVars, client, job, delivery, sweep, closing>>

\* Mutant: the waiter stays in the registry.
HookGiveUpSilently(r) ==
    /\ hook[r].pc = "giveup"
    /\ HookGoes(r, "expire")
    /\ UNCHANGED <<processVars, storeVars, waiterVars, client, job, delivery, sweep, closing>>

HookGiveUp(r) ==
    /\ hook[r].pc = "giveup"
    /\ TryResolve(r, "native")
    /\ HookGoes(r, "expire")
    /\ UNCHANGED <<processVars, storeVars, client, job, delivery, sweep, closing>>

HookExpire(r) ==
    /\ hook[r].pc = "expire"
    /\ ExpireApproval(r, IF r \in ByAgent THEN "other" ELSE "deadline")
    /\ HookGoes(r, IF r \in ByAgent THEN "unconfirm" ELSE "close")
    /\ UNCHANGED <<processVars, waiterVars, client, job, delivery, sweep, closing>>

\* Mutant: a reply that could not be written is forgotten.
AgentForgets(r) ==
    /\ hook[r].pc = "unwritten"
    /\ HookGoes(r, "done")
    /\ UNCHANGED <<processVars, storeVars, waiterVars, client, job, delivery, sweep, closing>>

\* A reply that did not reach its relay ends the item, whatever was decided.
AgentExpire(r) ==
    /\ hook[r].pc = "unwritten"
    /\ ExpireApproval(r, "other")
    /\ HookGoes(r, "done")
    /\ UNCHANGED <<processVars, waiterVars, client, job, delivery, sweep, closing>>

\* mark_lost: news of the session may come between its snapshot and its update.
\* Then the connection is dropped.
AgentUnconfirm(r) ==
    /\ hook[r].pc = "unconfirm"
    /\ \E current \in BOOLEAN : MarkUnconfirmed(Envelope[r].session, current)
    /\ client' = [client EXCEPT ![r] = IF @ = "asking" THEN "native" ELSE @]
    /\ HookGoes(r, "done")
    /\ UNCHANGED <<processVars, waiterVars, job, delivery, sweep, closing>>

\* A relay that ends withdraws the requests it still waits for, on a connection of
\* its own (AgentRequestClosed).  Only one that has its waiter yet is looked at.
AgentCloses(r) ==
    /\ up
    /\ closing[r] = "no"
    /\ client[r] = "asking"
    /\ Registry!Resolve(r, "native")
    /\ closing' = [closing EXCEPT ![r] = "expire"]
    /\ UNCHANGED <<processVars, storeVars, hook, client, job, delivery, sweep>>

AgentCloseExpires(r) ==
    /\ closing[r] = "expire"
    /\ ExpireApproval(r, "other")
    /\ closing' = [closing EXCEPT ![r] = "unconfirm"]
    /\ UNCHANGED <<processVars, waiterVars, hook, client, job, delivery, sweep>>

AgentCloseUnconfirms(r) ==
    /\ closing[r] = "unconfirm"
    /\ \E current \in BOOLEAN : MarkUnconfirmed(Envelope[r].session, current)
    /\ closing' = [closing EXCEPT ![r] = "no"]
    /\ UNCHANGED <<processVars, waiterVars, hook, client, job, delivery, sweep>>

\* The connection is dropped without a reply.
HookClose(r) ==
    /\ hook[r].pc = "close"
    /\ client' = [client EXCEPT ![r] = IF @ = "asking" THEN "native" ELSE @]
    /\ HookGoes(r, "done")
    /\ UNCHANGED <<processVars, storeVars, waiterVars, job, delivery, sweep, closing>>

\* The Hook process ends before a reply: the provider cancelled or killed it, it
\* timed out on its side, or it found no Runtime to connect to.
ClientGone(r) ==
    /\ client[r] = "asking" \/ (client[r] = "idle" /\ ~up)
    /\ client' = [client EXCEPT ![r] = "native"]
    /\ UNCHANGED <<processVars, storeVars, waiterVars, hook, job, delivery, sweep, closing>>

HookStep(r) ==
    \/ HookExpireReplaced(r) \/ HookIngest(r) \/ HookRefused(r) \/ HookReceive(r)
    \/ HookTimeout(r) \/ HookGiveUp(r) \/ HookExpire(r) \/ HookClose(r)
    \/ AgentGivesUp(r) \/ AgentExpire(r) \/ AgentUnconfirm(r)

-----------------------------------------------------------------------------
(* Commands of the user interface *)

\* The API server runs all its tasks on one thread: a handler runs to its end
\* before another one starts, and only the undo window of a decision is awaited.
\* The other threads of the process run meanwhile.
Running == {h \in Handlers : job[h].pc \notin {"idle", "sleep"}}

JobGoes(h, pc) == job' = [job EXCEPT ![h].pc = pc]

JobEnds(h) == job' = [job EXCEPT ![h] = NoJob]

\* process_command up to the read of is_active.  A question cannot be approved
\* or denied: such a command expires it, like an approval without a waiter.
Submit(h, c, r, action, delay) ==
    /\ up
    /\ Running = {}
    /\ job[h].pc = "idle"
    /\ att[r].state # "absent"
    /\ cmd[c].state = "absent"
    /\ action = "pass_through" => IsApproval(r)
    /\ action = "approve" /\ IsApproval(r) /\ Active(r) => Envelope[r].remoteActionable
    /\ job' = [job EXCEPT ![h] =
         [NoJob EXCEPT !.pc = IF IsApproval(r) /\ Active(r) THEN "claim" ELSE "stale",
            !.command = c, !.request = r, !.action = action, !.at = now,
            !.delay = IF action = "pass_through" THEN 0 ELSE delay]]
    /\ UNCHANGED <<processVars, storeVars, waiterVars, hook, client, delivery, sweep, closing>>

\* The claim fails if the command is known by now or the item is no longer open.
JobClaim(h) ==
    LET j == job[h]
    IN  /\ j.pc = "claim"
        /\ \/ /\ Claim(j.command, j.request, j.action, j.at, j.delay)
              /\ JobGoes(h, IF j.action = "pass_through" THEN "handback"
                            ELSE IF j.delay = 0 THEN "probe" ELSE "sleep")
           \/ /\ cmd[j.command].state # "absent" \/ ~Claimable(j.request, j.at)
              /\ JobEnds(h)
              /\ UNCHANGED storeVars
        /\ UNCHANGED <<processVars, waiterVars, hook, client, delivery, sweep, closing>>

\* The task of schedule_decision runs once the undo window closed.
MayWake(h) ==
    /\ job[h].pc = "sleep"
    /\ now >= job[h].at + job[h].delay
    /\ Running = {}

\* Mutant: the task ends when the waiter is gone and never commits.
JobProbeEnds(h) ==
    /\ job[h].pc = "probe" \/ MayWake(h)
    /\ IF Active(job[h].request)
       THEN job' = [job EXCEPT ![h].pc = "commit", ![h].active = TRUE]
       ELSE JobEnds(h)
    /\ UNCHANGED <<processVars, storeVars, waiterVars, hook, client, delivery, sweep, closing>>

\* At once without an undo window, else when it closed: is the waiter still there?
JobProbe(h) ==
    /\ job[h].pc = "probe" \/ MayWake(h)
    /\ job' = [job EXCEPT ![h].pc = "commit", ![h].active = Active(job[h].request)]
    /\ UNCHANGED <<processVars, storeVars, waiterVars, hook, client, delivery, sweep, closing>>

\* Mutant: the decision is sent even when its commit failed.
JobCommitIgnored(h) ==
    LET c == job[h].command
        due == job[h].at + job[h].delay
    IN  /\ job[h].pc = "commit"
        /\ \/ job[h].active /\ CommitSent(c, due) /\ JobGoes(h, "decide")
           \/ ~job[h].active /\ CommitStale(c, due) /\ JobEnds(h)
           \/ cmd[c].state # "pending_commit" /\ JobGoes(h, "decide") /\ UNCHANGED storeVars
        /\ UNCHANGED <<processVars, waiterVars, hook, client, delivery, sweep, closing>>

\* The commit fails if the command was undone, failed or confirmed meanwhile.
JobCommit(h) ==
    LET c == job[h].command
        due == job[h].at + job[h].delay
    IN  /\ job[h].pc = "commit"
        /\ \/ job[h].active /\ CommitSent(c, due) /\ JobGoes(h, "decide")
           \/ ~job[h].active /\ CommitStale(c, due) /\ JobEnds(h)
           \/ cmd[c].state # "pending_commit" /\ JobEnds(h) /\ UNCHANGED storeVars
        /\ UNCHANGED <<processVars, waiterVars, hook, client, delivery, sweep, closing>>

\* Mutant: a decision without a waiter is left as it was recorded.
JobDecideForgets(h) ==
    LET j == job[h]
    IN  /\ j.pc = "decide"
        /\ Registry!Resolve(j.request, j.action) \/ (~Active(j.request) /\ UNCHANGED waiterVars)
        /\ JobEnds(h)
        /\ UNCHANGED <<processVars, storeVars, hook, client, delivery, sweep, closing>>

\* The decision is sent to the waiter; without one its item expires.
JobDecide(h) ==
    LET j == job[h]
    IN  /\ j.pc = "decide"
        /\ \/ Registry!Resolve(j.request, j.action) /\ JobEnds(h)
           \/ ~Active(j.request) /\ JobGoes(h, "stale") /\ UNCHANGED waiterVars
        /\ UNCHANGED <<processVars, storeVars, hook, client, delivery, sweep, closing>>

JobHandBack(h) ==
    /\ job[h].pc = "handback"
    /\ TryResolve(job[h].request, "native")
    /\ JobEnds(h)
    /\ UNCHANGED <<processVars, storeVars, hook, client, delivery, sweep, closing>>

\* expire_approval with stale_waiter or waiter_delivery_failed
JobExpire(h) ==
    /\ job[h].pc = "stale"
    /\ ExpireApproval(job[h].request, "other")
    /\ JobEnds(h)
    /\ UNCHANGED <<processVars, waiterVars, hook, client, delivery, sweep, closing>>

\* process_undo reads the clock before its transaction runs.
UndoRequest(h, c) ==
    /\ up
    /\ Running = {}
    /\ job[h].pc = "idle"
    /\ Undoable(c, now)
    /\ job' = [job EXCEPT ![h] = [NoJob EXCEPT !.pc = "undo", !.command = c, !.at = now]]
    /\ UNCHANGED <<processVars, storeVars, waiterVars, hook, client, delivery, sweep, closing>>

JobUndo(h) ==
    LET c == job[h].command
    IN  /\ job[h].pc = "undo"
        /\ Undo(c, job[h].at) \/ (~Undoable(c, job[h].at) /\ UNCHANGED storeVars)
        /\ JobEnds(h)
        /\ UNCHANGED <<processVars, waiterVars, hook, client, delivery, sweep, closing>>

\* process_answer_question up to its snapshot
SubmitAnswer(h, q, response) ==
    /\ up
    /\ Running = {}
    /\ job[h].pc = "idle"
    /\ ~IsApproval(q)
    /\ att[q].state = "open"
    /\ job' = [job EXCEPT ![h] =
         [NoJob EXCEPT !.pc = "answer", !.request = q, !.action = response]]
    /\ UNCHANGED <<processVars, storeVars, waiterVars, hook, client, delivery, sweep, closing>>

JobAnswer(h) ==
    LET q == job[h].request
    IN  /\ job[h].pc = "answer"
        /\ \/ Registry!Resolve(q, job[h].action) /\ JobGoes(h, "ack")
           \/ ~Active(q) /\ JobGoes(h, "stale") /\ UNCHANGED waiterVars
        /\ UNCHANGED <<processVars, storeVars, hook, client, delivery, sweep, closing>>

JobAck(h) ==
    LET q == job[h].request
    IN  /\ job[h].pc = "ack"
        /\ \/ AckAnswered(q)
           \/ att[q].state \notin {"open", "snoozed"} /\ UNCHANGED storeVars
        /\ JobEnds(h)
        /\ UNCHANGED <<processVars, waiterVars, hook, client, delivery, sweep, closing>>

\* ack, snooze and dismiss of a question: one transaction, no waiter involved.
Attend(c, q, action) ==
    /\ up
    /\ Running = {}
    /\ ActAttention(c, q, action)
    /\ UNCHANGED <<processVars, waiterVars, threadVars>>

JobStep(h) ==
    \/ JobClaim(h) \/ JobProbe(h) \/ JobCommit(h) \/ JobDecide(h) \/ JobHandBack(h)
    \/ JobExpire(h) \/ JobUndo(h) \/ JobAnswer(h) \/ JobAck(h)

-----------------------------------------------------------------------------
(* Lifecycle events, the expiry thread, the clock and the process *)

\* The transaction of an event reports the approvals the provider handled.
EventIngest(e) ==
    \E handled \in HandledSets(EventOf[e].session, EventOf[e].kind, EventOf[e].tool) :
      /\ up
      /\ delivery[e].pc = "idle"
      /\ IngestEvent(EventOf[e].session, EventOf[e].kind, EventOf[e].tool, TRUE, handled)
      /\ delivery' = [delivery EXCEPT ![e] = [pc |-> "answer", todo |-> handled]]
      /\ UNCHANGED <<processVars, waiterVars, hook, client, job, sweep, closing>>

\* Each of them is passed through.
EventPassThrough(e) ==
    \E r \in delivery[e].todo :
      /\ TryResolve(r, "native")
      /\ delivery' = [delivery EXCEPT ![e].todo = @ \ {r}]
      /\ UNCHANGED <<processVars, storeVars, hook, client, job, sweep, closing>>

\* Mutant: due waiters are listed but stay in the registry.
SweepWaitersPeek ==
    /\ up
    /\ sweep = {}
    /\ Registry!Due(now) # {}
    /\ sweep' = Registry!Due(now)
    /\ UNCHANGED <<processVars, storeVars, waiterVars, hook, client, job, delivery, closing>>

\* The expiry thread, every two seconds: waiters first, then their items.
SweepWaiters ==
    /\ up
    /\ sweep = {}
    /\ Registry!Due(now) # {}
    /\ Registry!Expire(now)
    /\ sweep' = Registry!Due(now)
    /\ UNCHANGED <<processVars, storeVars, hook, client, job, delivery, closing>>

SweepItem ==
    \E r \in sweep :
      /\ ExpireApproval(r, "deadline")
      /\ sweep' = sweep \ {r}
      /\ UNCHANGED <<processVars, waiterVars, hook, client, job, delivery, closing>>

Wake(q) ==
    /\ up
    /\ WakeSnoozed(q)
    /\ UNCHANGED <<processVars, waiterVars, threadVars>>

Tick ==
    /\ now < MaxTime
    /\ now' = now + 1
    /\ UNCHANGED <<up, restarts, leaving, storeVars, waiterVars, threadVars>>

\* A restart the accept loop accepted, see RestartHandshake: every waiter that is
\* active now is passed through, then every live item expires.  Connections and
\* handlers that are under way go on meanwhile, and until the process is replaced.
BeginRestart ==
    /\ up
    /\ leaving = Staying
    /\ restarts < MaxRestarts
    /\ leaving' = [pc |-> "release", todo |-> Registry!ActiveRequests]
    /\ UNCHANGED <<now, up, restarts, storeVars, waiterVars, threadVars>>

ReleaseForRestart ==
    \E r \in leaving.todo :
      /\ TryResolve(r, "native")
      /\ leaving' = [leaving EXCEPT !.todo = @ \ {r}]
      /\ UNCHANGED <<now, up, restarts, storeVars, threadVars>>

ReconcileForRestart ==
    /\ leaving = [pc |-> "release", todo |-> {}]
    /\ Reconcile({})
    /\ leaving' = [leaving EXCEPT !.pc = "exec"]
    /\ UNCHANGED <<now, up, restarts, waiterVars, threadVars>>

\* The process dies, or is replaced by a restart, with its threads and waiters.
\* Connected Hooks read the end of their connection.  The store keeps what was
\* committed.
Crash ==
    /\ up
    /\ restarts < MaxRestarts
    /\ up' = FALSE
    /\ restarts' = restarts + 1
    /\ leaving' = Staying
    /\ byRequest' = [r \in Requests |-> None]
    /\ byCorrelation' = [k \in Correlations |-> None]
    /\ hook' = [r \in Requests |->
         IF hook[r].pc \in {"idle", "done"} THEN hook[r] ELSE [hook[r] EXCEPT !.pc = "lost"]]
    /\ client' = [r \in Requests |-> IF client[r] = "asking" THEN "native" ELSE client[r]]
    /\ job' = [h \in Handlers |-> NoJob]
    /\ delivery' = [e \in Events |-> [delivery[e] EXCEPT !.todo = {}]]
    /\ sweep' = {}
    /\ closing' = [r \in ByAgent |-> "no"]
    /\ UNCHANGED <<now, issued, mailbox, storeVars>>

\* serve: open the store and reconcile it, then listen.
Startup ==
    /\ ~up
    /\ up' = TRUE
    /\ Reopen
    /\ UNCHANGED <<now, restarts, leaving, waiterVars, threadVars>>

\* The Runtime but for the threads that wait on a request.
ServerNext ==
    \/ \E h \in Handlers :
         \/ JobStep(h)
         \/ \E c \in Commands, r \in Requests, action \in Actions, delay \in Delays :
              Submit(h, c, r, action, delay)
         \/ \E c \in Commands : UndoRequest(h, c)
         \/ \E q \in Requests, response \in {"answer", "native"} : SubmitAnswer(h, q, response)
    \/ \E c \in Commands, q \in Requests, action \in {"ack", "snooze", "dismiss"} :
         Attend(c, q, action)
    \/ \E e \in Events : EventIngest(e) \/ EventPassThrough(e)
    \/ \E q \in Requests : Wake(q)
    \/ SweepWaiters \/ SweepItem \/ Tick
    \/ BeginRestart \/ ReleaseForRestart \/ ReconcileForRestart \/ Crash \/ Startup

LoopNext ==
    \/ \E r \in Requests : HookRegister(r) \/ HookStep(r) \/ ClientGone(r)
    \/ \E r \in ByAgent : AgentCloses(r) \/ AgentCloseExpires(r) \/ AgentCloseUnconfirms(r)
    \/ ServerNext

LoopSafety == LoopInit /\ [][LoopNext]_loopVars

\* The operating system schedules every thread of a running process, the API
\* thread polls its tasks in turn, and time passes.  Nothing is assumed of
\* users, providers, crashes or a restart.
Fairness ==
    /\ \A r \in Requests : WF_loopVars(HookStep(r))
    /\ \A h \in Handlers : SF_loopVars(JobStep(h))
    /\ \A e \in Events : WF_loopVars(EventPassThrough(e))
    /\ \A r \in ByAgent : WF_loopVars(AgentCloseExpires(r)) /\ WF_loopVars(AgentCloseUnconfirms(r))
    /\ WF_loopVars(SweepWaiters) /\ WF_loopVars(SweepItem) /\ WF_loopVars(Tick)

LoopSpec == LoopSafety /\ Fairness

-----------------------------------------------------------------------------
(* Properties *)

\* A handler or its task is still at work on the command.
InFlight(c) == \E h \in Handlers : job[h].command = c

\* A request's standing decisions and what its provider was told.
Standing ==
    [r \in Requests |->
        {cmd[c].action : c \in {d \in Commands : cmd[d].request = r /\ Stands(d)}} \cap Decisions]

Told == [r \in Requests |-> IF client[r] \in {"idle", "asking"} THEN "waiting" ELSE client[r]]

Contract == INSTANCE ApprovalContract WITH proposed <- Standing, verdict <- Told

\* The loop keeps the promise of ApprovalContract: through every race of
\* commands, undo, timeouts, provider events and a crash, the provider is told
\* approve or deny only if that decision of the user stands.
ImplementsContract == Contract!ContractSpec

\* An approval that is counted as timed out was not decided: its provider is
\* never told approve or deny, even when a decision raced the deadline.
TimeoutNeverDecided ==
    \A r \in Requests : timeouts[r] # 0 => client[r] \notin Decisions

\* No approval of an earlier Runtime process can be decided after a restart: its
\* connection is gone, and its item is no longer live.
ApprovalsEndWithTheirRuntime ==
    \A r \in Requests :
      up /\ hook[r].pc = "lost" /\ IsApproval(r) => att[r].state \notin LiveStates

\* A waiter in the registry has a connection thread behind it that will look at
\* its channel or give the waiter back.
WaitersAreServed ==
    \A r \in Requests :
      Active(r) => up /\ hook[r].pc \in {"replace", "ingest", "wait", "giveup"}

\* A question that was answered does not ask again: whatever ran between the
\* answer and its acknowledgement, another answer, a snooze or the deadline, the
\* item is closed once the handler is done.
AnsweredIsClosed ==
    \A q \in Requests :
      /\ \E i \in DOMAIN mailbox[q] : mailbox[q][i] = "answer"
      /\ \A h \in Handlers : job[h].request = q => job[h].pc # "ack"
      => att[q].state \notin BlockingStates

\* Every Hook process that asks gets an end: a reply or a closed connection.
\* The deadline does it when nobody else does.
HookReleased == \A r \in Requests : client[r] = "asking" ~> client[r] # "asking"

\* A claimed decision leaves its undo window: it is sent, taken back or failed,
\* even when the provider ended its request meanwhile, unless the Runtime dies.
ClaimSettles ==
    \A c \in Commands :
      cmd[c].state = "pending_commit" /\ InFlight(c) ~> cmd[c].state # "pending_commit" \/ ~up

\* A decision that is recorded as sent was put into the channel of its request,
\* or the provider had ended the request by itself meanwhile: a waiter that went
\* away between commit and decide fails the command.
SentIsDelivered ==
    up => \A c \in Commands :
      LET r == cmd[c].request
      IN  cmd[c].state = "decision_sent" /\ ~InFlight(c) =>
            \/ \E i \in DOMAIN mailbox[r] : mailbox[r][i] = cmd[c].action
            \/ att[r].state = "resolved"

\* A decision for a request of Kimi or Grok that stays recorded as sent was
\* written to a relay that was alive: a response that is lost because the peer
\* or the deadline was looked at first, and one that could not be written, fail
\* their command.  The exceptions end by an event of the provider.
AgentHearsOrFails ==
    up => \A c \in Commands :
      LET r == cmd[c].request
      IN  cmd[c].state = "decision_sent" /\ r \in ByAgent /\ hook[r].pc = "done" /\ ~InFlight(c) =>
            client[r] = cmd[c].action \/ att[r].state = "resolved"

\* A session that is shown to wait for the user has an item that the user can
\* decide or that comes back.  One exception: an approval that was handed back
\* by a command leaves its session waiting until the next event.
WaitsForSomething ==
    up => \A s \in Sessions :
      sess[s] = [exec |-> "awaiting_approval", owner |-> "widget"] =>
        \E r \in RequestsOf(s) :
          att[r].state \in BlockingStates \cup {"passed_through"}
=============================================================================
