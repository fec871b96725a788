--------------------------- MODULE ManagedApprovals ---------------------------
(***************************************************************************)
(* Requests that Codex sends over the app-server connection of a managed   *)
(* thread (crates/server/src/server.rs, handle_codex_server_request and    *)
(* handle_codex_approval_request).  Commands, undo, the store, the waiter  *)
(* registry and the expiry thread are those of ApprovalLoop; in place of   *)
(* Hooks there is one connection with two threads of its own, one for      *)
(* requests and one for notifications, so that a notification may overtake *)
(* the request it is about.                                                *)
(*                                                                         *)
(* A request stays in managed_request_ids until serverRequest/resolved     *)
(* takes it out, or the thread that waits for its answer.  hook[r] is that *)
(* thread, with program counters of its own, and client[r] is what Codex   *)
(* was told; the Hook threads of ApprovalLoop take no steps.               *)
(***************************************************************************)
EXTENDS ApprovalLoop

VARIABLES
    asked,      \* requests in the channel of the connection
    ids,        \* managed_request_ids
    notice,     \* serverRequest/resolved of each request, and who handles it
    withdrawn,  \* requests that Codex ended without our response
    conn,       \* the connection to the app-server
    reconnect   \* credential_change_handled, and requests left to give back

managedVars == <<asked, ids, notice, withdrawn, conn, reconnect>>
allVars == <<loopVars, managedVars>>

Connected == [pc |-> "no", pass |-> {}, expire |-> {}]

ManagedInit ==
    /\ LoopInit
    /\ asked = {}
    /\ ids = {}
    /\ notice = [r \in Requests |-> "none"]
    /\ withdrawn = {}
    /\ conn = "open"
    /\ reconnect = Connected

\* Registration and ingest of a request hold the mutex of CodexManagerState.
Unlocked == \A r \in Requests : hook[r].pc # "ingest"

\* One thread handles the requests one after the other.
Handling == \E r \in Requests : hook[r].pc \in {"ingest", "refuse", "refused"}

\* A response is of use to Codex only while it waits.
Tell(r, response) == client' = [client EXCEPT ![r] = IF @ = "asking" THEN response ELSE @]

-----------------------------------------------------------------------------
(* Codex *)

CodexAsks(r) ==
    /\ up
    /\ conn = "open"
    /\ client[r] = "idle"
    /\ client' = [client EXCEPT ![r] = "asking"]
    /\ asked' = asked \cup {r}
    /\ UNCHANGED <<processVars, storeVars, waiterVars, hook, job, delivery, sweep, closing,
                   ids, notice, withdrawn, conn, reconnect>>

\* serverRequest/resolved: after a response, or because another client answered
\* or the turn was interrupted.
CodexResolves(r) ==
    /\ conn = "open"
    /\ client[r] # "idle"
    /\ notice[r] = "none"
    /\ notice' = [notice EXCEPT ![r] = "sent"]
    /\ withdrawn' = IF client[r] = "asking" THEN withdrawn \cup {r} ELSE withdrawn
    /\ Tell(r, "native")
    /\ UNCHANGED <<processVars, storeVars, waiterVars, hook, job, delivery, sweep, closing,
                   asked, ids, conn, reconnect>>

\* The app-server ends, stops reading, or is shut down.  What it sent is still
\* in the two channels.
ConnectionLost ==
    /\ conn = "open"
    /\ conn' = "lost"
    /\ client' = [r \in Requests |-> IF client[r] = "asking" THEN "native" ELSE client[r]]
    /\ UNCHANGED <<processVars, storeVars, waiterVars, hook, job, delivery, sweep, closing,
                   asked, ids, notice, withdrawn, reconnect>>

-----------------------------------------------------------------------------
(* The thread of the requests *)

\* A request that cannot be taken: no managed thread, an unknown version, a
\* connector that is about to restart.
ManagedRefuse(r) ==
    /\ r \in asked
    /\ ~Handling
    /\ asked' = asked \ {r}
    /\ hook' = [hook EXCEPT ![r].pc = "done"]
    /\ Tell(r, "native")
    /\ UNCHANGED <<processVars, storeVars, waiterVars, job, delivery, sweep, closing,
                   ids, notice, withdrawn, conn, reconnect>>

\* A waiter that this one replaces is told so; its item is left alone.
ManagedRegister(r) ==
    /\ r \in asked
    /\ ~Handling
    /\ reconnect.pc = "no"
    /\ Registry!Register(r, CorrelationOf[r], Envelope[r].deadline, r, now)
    /\ ids' = ids \cup {r}
    /\ asked' = asked \ {r}
    /\ HookGoes(r, "ingest")
    /\ UNCHANGED <<processVars, storeVars, client, job, delivery, sweep, closing,
                   notice, withdrawn, conn, reconnect>>

ManagedIngest(r) ==
    /\ hook[r].pc = "ingest"
    /\ \E fresh \in BOOLEAN : IngestRequest(r, fresh)
    /\ HookGoes(r, "wait")
    /\ UNCHANGED <<processVars, waiterVars, client, job, delivery, sweep, closing, managedVars>>

\* The store failed, or suppressed the request as internal to Codex.
ManagedIngestFails(r) ==
    /\ hook[r].pc = "ingest"
    /\ ids' = ids \ {r}
    /\ HookGoes(r, "refuse")
    /\ UNCHANGED <<processVars, storeVars, waiterVars, client, job, delivery, sweep, closing,
                   asked, notice, withdrawn, conn, reconnect>>

-----------------------------------------------------------------------------
(* The thread that waits for the answer *)

\* Mutant: the request leaves the table with its answer, before Codex confirms.
ManagedReceiveForgets(r) ==
    /\ hook[r].pc = "wait"
    /\ mailbox[r] # <<>>
    /\ HookGoes(r, "forget")
    /\ UNCHANGED <<processVars, storeVars, waiterVars, client, job, delivery, sweep, closing,
                   managedVars>>

\* A question leaves the table at once, an approval when Codex confirms.
ManagedReceive(r) ==
    /\ hook[r].pc = "wait"
    /\ mailbox[r] # <<>>
    /\ HookGoes(r, IF IsApproval(r) THEN "respond" ELSE "forget")
    /\ UNCHANGED <<processVars, storeVars, waiterVars, client, job, delivery, sweep, closing,
                   managedVars>>

\* recv_timeout ran out; a response may still be sent before the next step.
ManagedTimeout(r) ==
    /\ hook[r].pc = "wait"
    /\ mailbox[r] = <<>>
    /\ now >= Envelope[r].deadline
    /\ HookGoes(r, "giveup")
    /\ UNCHANGED <<processVars, storeVars, waiterVars, client, job, delivery, sweep, closing,
                   managedVars>>

AfterForget == [forget |-> "respond", giveup |-> "pass", unwritten |-> "fail"]

ManagedForget(r) ==
    /\ hook[r].pc \in DOMAIN AfterForget
    /\ Unlocked
    /\ ids' = ids \ {r}
    /\ HookGoes(r, AfterForget[hook[r].pc])
    /\ UNCHANGED <<processVars, storeVars, waiterVars, client, job, delivery, sweep, closing,
                   asked, notice, withdrawn, conn, reconnect>>

\* Mutant: a response that could not be written is forgotten.
ManagedRespondBlindly(r) ==
    /\ hook[r].pc = "respond"
    /\ Tell(r, Head(mailbox[r]))
    /\ HookGoes(r, "done")
    /\ UNCHANGED <<processVars, storeVars, waiterVars, job, delivery, sweep, closing, managedVars>>

\* Mutant: a request that is handed back is declined.
ManagedRespondDeclines(r) ==
    LET heard == Head(mailbox[r])
    IN  /\ hook[r].pc = "respond"
        /\ IF conn = "open" THEN Tell(r, IF heard = "native" THEN "deny" ELSE heard) ELSE UNCHANGED client
        /\ HookGoes(r, IF conn # "open" /\ IsApproval(r) THEN "unwritten" ELSE "done")
        /\ UNCHANGED <<processVars, storeVars, waiterVars, job, delivery, sweep, closing, managedVars>>

\* The response is written, or an error if there is no decision.  A decision
\* that could not be written expires its item.
ManagedRespond(r) ==
    /\ hook[r].pc = "respond"
    /\ IF conn = "open" THEN Tell(r, Head(mailbox[r])) ELSE UNCHANGED client
    /\ HookGoes(r, IF conn # "open" /\ IsApproval(r) THEN "unwritten" ELSE "done")
    /\ UNCHANGED <<processVars, storeVars, waiterVars, job, delivery, sweep, closing, managedVars>>

\* The waiter is given back, after the deadline or a failed ingest.
ManagedPass(r) ==
    /\ hook[r].pc \in {"pass", "refuse"}
    /\ TryResolve(r, "native")
    /\ HookGoes(r, IF hook[r].pc = "pass" THEN "expire" ELSE "refused")
    /\ UNCHANGED <<processVars, storeVars, client, job, delivery, sweep, closing, managedVars>>

ManagedExpire(r) ==
    /\ hook[r].pc \in {"expire", "fail"}
    /\ ExpireApproval(r, IF hook[r].pc = "expire" THEN "deadline" ELSE "other")
    /\ HookGoes(r, IF hook[r].pc = "expire" THEN "late" ELSE "done")
    /\ UNCHANGED <<processVars, waiterVars, client, job, delivery, sweep, closing, managedVars>>

\* respond_error; Codex falls back to its own interface.
ManagedError(r) ==
    /\ hook[r].pc \in {"refused", "late"}
    /\ Tell(r, "native")
    /\ HookGoes(r, "done")
    /\ UNCHANGED <<processVars, storeVars, waiterVars, job, delivery, sweep, closing, managedVars>>

-----------------------------------------------------------------------------
(* The thread of the notifications *)

NoticeGoes(r, to) == notice' = [notice EXCEPT ![r] = to]

\* The request is taken out of the table.  early: it has not been handled yet.
NoticeTake(r) ==
    /\ notice[r] = "sent"
    /\ \A q \in Requests : notice[q] \notin {"pass", "resolve"}
    /\ Unlocked
    /\ ids' = ids \ {r}
    /\ NoticeGoes(r, IF r \in ids THEN "pass" ELSE IF r \in asked THEN "early" ELSE "done")
    /\ UNCHANGED <<loopVars, asked, withdrawn, conn, reconnect>>

NoticePass(r) ==
    /\ notice[r] = "pass"
    /\ TryResolve(r, "native")
    /\ NoticeGoes(r, "resolve")
    /\ UNCHANGED <<processVars, storeVars, threadVars, asked, ids, withdrawn, conn, reconnect>>

NoticeResolve(r) ==
    /\ notice[r] = "resolve"
    /\ ResolveManaged(r)
    /\ NoticeGoes(r, "done")
    /\ UNCHANGED <<processVars, waiterVars, threadVars, asked, ids, withdrawn, conn, reconnect>>

-----------------------------------------------------------------------------
(* Changed credentials: the quota loop shuts the connector down and asks for *)
(* a restart of the Runtime.                                                 *)

CredentialsChange ==
    /\ up
    /\ reconnect.pc = "no"
    /\ Unlocked
    /\ reconnect' = [Connected EXCEPT !.pc = "shutdown"]
    /\ UNCHANGED <<loopVars, asked, ids, notice, withdrawn, conn>>

\* mark_credential_restart_failed: no restart; every request is given back.
CredentialRestartFails ==
    /\ reconnect.pc = "shutdown"
    /\ conn = "lost"
    /\ Unlocked
    /\ reconnect' = [pc |-> "failed", pass |-> ids, expire |-> {}]
    /\ ids' = {}
    /\ UNCHANGED <<loopVars, asked, notice, withdrawn, conn>>

ReconnectPass(r) ==
    /\ r \in reconnect.pass
    /\ reconnect.expire = {}
    /\ TryResolve(r, "native")
    /\ reconnect' = [reconnect EXCEPT !.pass = @ \ {r}, !.expire = {r}]
    /\ UNCHANGED <<processVars, storeVars, threadVars, asked, ids, notice, withdrawn, conn>>

ReconnectExpire(r) ==
    /\ r \in reconnect.expire
    /\ ExpireApproval(r, "other")
    /\ reconnect' = [reconnect EXCEPT !.expire = {}]
    /\ UNCHANGED <<processVars, waiterVars, threadVars, asked, ids, notice, withdrawn, conn>>

\* Everything else the Runtime does.  A process that ends takes its connection
\* with it, and a new one opens another.
RuntimeStep ==
    /\ ServerNext
    /\ IF up' = up
       THEN UNCHANGED managedVars
       ELSE /\ asked' = {}
            /\ ids' = {}
            /\ notice' = [r \in Requests |-> IF client[r] = "idle" THEN "none" ELSE "done"]
            /\ conn' = IF up' THEN "open" ELSE "lost"
            /\ reconnect' = Connected
            /\ UNCHANGED withdrawn

ManagedNext ==
    \/ \E r \in Requests :
         \/ CodexAsks(r) \/ CodexResolves(r)
         \/ ManagedRefuse(r) \/ ManagedRegister(r) \/ ManagedIngest(r) \/ ManagedIngestFails(r)
         \/ ManagedReceive(r) \/ ManagedTimeout(r) \/ ManagedForget(r) \/ ManagedRespond(r)
         \/ ManagedPass(r) \/ ManagedExpire(r) \/ ManagedError(r)
         \/ NoticeTake(r) \/ NoticePass(r) \/ NoticeResolve(r)
         \/ ReconnectPass(r) \/ ReconnectExpire(r)
    \/ ConnectionLost \/ CredentialsChange \/ CredentialRestartFails
    \/ RuntimeStep

ManagedSpec == ManagedInit /\ [][ManagedNext]_allVars

-----------------------------------------------------------------------------
(* Properties *)

\* Threads, handlers and notifications that still have something to do for r.
AtWorkOn(r) ==
    \/ hook[r].pc # "done"
    \/ r \in sweep \cup reconnect.pass \cup reconnect.expire
    \/ \E h \in Handlers : job[h].request = r

\* A decision for Codex that stays recorded as sent was written while Codex
\* waited for it: one that raced the deadline, the loss of the connection or its
\* end for changed credentials fails its command.  Only what Codex ended by itself
\* meanwhile is left to its notification, and what an event of its session ended
\* to the event: such an item is resolved although its command stays sent.
SentIsHeard ==
    up => \A c \in Commands :
      LET r == cmd[c].request
      IN  cmd[c].state = "decision_sent" /\ ~AtWorkOn(r) =>
            \/ client[r] = cmd[c].action \/ r \in withdrawn
            \/ att[r].state = "resolved"

\* Codex has said that it is done with an approval: no item is left on which the
\* user could still decide, whoever took the request out of the table.  The
\* exception is a notification that overtook its request.
ResolvedIsClosed ==
    up => \A r \in Requests :
      notice[r] = "done" /\ IsApproval(r) /\ ~AtWorkOn(r) => att[r].state \notin BlockingStates
=============================================================================
