---------------------------- MODULE ApprovalStore ----------------------------
(***************************************************************************)
(* The persistent side of an approval (crates/runtime/src/storage.rs):     *)
(* attention items that ask the user, the commands that answer them, the   *)
(* session's execution state and the decision counters.  One SQLite writer *)
(* thread runs every operation as one transaction, so that each operation  *)
(* below is one action, atomic also with respect to a crash.               *)
(*                                                                         *)
(* A request is what a blocking Hook sends: a permission request, which    *)
(* raises an attention item of kind approval, or a question.  All events   *)
(* of a session belong to one turn.                                        *)
(***************************************************************************)
EXTENDS Naturals, FiniteSets

CONSTANTS
    Requests,   \* request ids of blocking Hooks
    Commands,   \* command ids chosen by the user interface
    Sessions,   \* provider sessions
    Tools,      \* tool names
    Envelope,   \* the BridgeRequest of each request id
    Times,      \* clock readings
    Delays,     \* undo delays a command may ask for
    None        \* no request

Kinds == {"approval", "question"}

EnvelopeType ==
    [session : Sessions, kind : Kinds, tool : Tools, deadline : Times,
     receivedAt : Times, remoteActionable : BOOLEAN]

ASSUME StoreAssumption ==
    /\ Times \subseteq Nat
    /\ Delays \subseteq Nat
    /\ None \notin Requests
    /\ Envelope \in [Requests -> EnvelopeType]

VARIABLES
    att,      \* attention_items: state and resolution of each request's item
    cmd,      \* commands: the row of each command id
    sess,     \* sessions: exec_state and approval_owner
    counted,  \* metrics_daily: how often each command was counted as a decision
    timeouts  \* metrics_daily: how often each request was counted as timed out

storeVars == <<att, cmd, sess, counted, timeouts>>

\* States in which an item still blocks its session on a reply channel.
LiveStates == {"open", "committing", "decision_sent"}
BlockingStates == LiveStates \cup {"snoozed"}
AttStates ==
    BlockingStates \cup
      {"absent", "passed_through", "resolved", "expired", "dismissed"}

\* resolution: no value, the decision taken, or how else the item ended.
Resolutions == {"none", "approve", "deny", "other"}

Decisions == {"approve", "deny"}
ActiveCommand == {"pending_commit", "decision_sent"}
FinalCommand == {"confirmed", "failed", "undone", "passed_through"}

ExecStates ==
    {"idle", "interrupted", "thinking", "tool_running", "awaiting_approval",
     "waiting_for_event", "response_finished", "failed"}

NoCommand ==
    [state |-> "absent", request |-> None, action |-> "none", due |-> 0, delay |-> 0]

CommandType ==
    [state : {"absent"} \cup ActiveCommand \cup FinalCommand,
     request : Requests \cup {None},
     action : {"none", "pass_through", "ack", "snooze", "dismiss"} \cup Decisions,
     due : Nat, delay : Nat]

StoreTypeOK ==
    /\ att \in [Requests -> [state : AttStates, resolution : Resolutions]]
    /\ cmd \in [Commands -> CommandType]
    /\ sess \in [Sessions -> [exec : ExecStates, owner : {"none", "widget"}]]
    /\ counted \in [Commands -> Nat]
    /\ timeouts \in [Requests -> Nat]

StoreInit ==
    /\ att = [r \in Requests |-> [state |-> "absent", resolution |-> "none"]]
    /\ cmd = [c \in Commands |-> NoCommand]
    /\ sess = [s \in Sessions |-> [exec |-> "idle", owner |-> "none"]]
    /\ counted = [c \in Commands |-> 0]
    /\ timeouts = [r \in Requests |-> 0]

-----------------------------------------------------------------------------
(* Shared parts of the transactions *)

IsApproval(r) == Envelope[r].kind = "approval"

RequestsOf(s) == {r \in Requests : Envelope[r].session = s}

\* The items of R move to a state with a resolution.
Settle(R, state, resolution) ==
    att' = [r \in Requests |->
              IF r \in R THEN [state |-> state, resolution |-> resolution] ELSE att[r]]

\* Commands of the items in R that are still under way are marked failed.
FailCommands(R) ==
    cmd' = [c \in Commands |->
              IF cmd[c].request \in R /\ cmd[c].state \in ActiveCommand
              THEN [cmd[c] EXCEPT !.state = "failed"]
              ELSE cmd[c]]

\* release_session_if_unblocked, run after the items in attention moved: a
\* session of S that no item blocks any more stops waiting for the user.
Released(S, attention) ==
    [s \in Sessions |->
        IF /\ s \in S
           /\ \A r \in RequestsOf(s) : attention[r].state \notin BlockingStates
           /\ sess[s].exec = "awaiting_approval" \/ sess[s].owner = "widget"
        THEN [exec |-> "waiting_for_event", owner |-> "none"]
        ELSE sess[s]]

SessionsOf(R) == {Envelope[r].session : r \in R}

-----------------------------------------------------------------------------
(* ingest_transaction *)

\* Lifecycle events of a Hook that waits for no reply, and the execution state
\* each projects (project_event).
Projected ==
    [SessionStarted |-> "idle", SessionEnded |-> "idle", PromptSubmitted |-> "thinking",
     ToolStarted |-> "tool_running", ToolFinished |-> "thinking", ToolFailed |-> "thinking",
     PermissionDenied |-> "thinking", Stopped |-> "response_finished",
     Interrupted |-> "interrupted", Failed |-> "failed"]

EventKinds == DOMAIN Projected

ReopensTurn == {"PromptSubmitted", "SessionStarted", "SessionEnded", "ToolStarted"}

TurnOver(s) == sess[s].exec \in {"response_finished", "failed", "interrupted"}

\* may_update: an event older than the newest one of its session (fresh is
\* FALSE), or a late one of a turn that is over, leaves the session row alone.
MayUpdate(s, kind, fresh) == fresh /\ (TurnOver(s) => kind \in ReopensTurn)

Project(s, kind, fresh, exec, owner) ==
    sess' = IF MayUpdate(s, kind, fresh)
            THEN [sess EXCEPT ![s] = [exec |-> exec, owner |-> owner]]
            ELSE sess

\* A permission request or a question: one open item per request id, and a
\* session that waits for the user.
IngestRequest(r, fresh) ==
    /\ att[r].state = "absent" =>
         Settle({r}, "open", "none")
    /\ att[r].state # "absent" => UNCHANGED att
    /\ Project(Envelope[r].session, "Request", fresh, "awaiting_approval", "widget")
    /\ UNCHANGED <<cmd, counted, timeouts>>

\* What an event says about an approval the provider handled by itself.
Outcome(kind) ==
    CASE kind \in {"ToolStarted", "ToolFinished"} -> "approve"
      [] kind \in {"ToolFailed", "PermissionDenied"} -> "deny"
      [] kind \in {"Stopped", "Failed", "SessionEnded", "PromptSubmitted"} -> "closed"
      [] OTHER -> "nothing"

ToolEvents == {"ToolStarted", "ToolFinished", "ToolFailed"}

\* The sets of approvals an event may answer.  A tool event answers the newest
\* live approval that is already decided or whose title names its tool, either
\* one of two that are equally new; any other outcome answers every live one.
HandledSets(s, kind, tool) ==
    LET live == {r \in RequestsOf(s) : IsApproval(r) /\ att[r].state \in LiveStates}
        named == {r \in live : att[r].resolution # "none" \/ Envelope[r].tool = tool}
        newest == {r \in named :
                     \A q \in named : Envelope[q].receivedAt <= Envelope[r].receivedAt}
    IN  IF Outcome(kind) = "nothing" THEN {{}}
        ELSE IF kind \notin ToolEvents THEN {live}
        ELSE IF newest = {} THEN {{}} ELSE {{r} : r \in newest}

\* Mutant: the command records what the event said instead of a command state.
AfterHandledRaw(c, outcome) ==
    IF cmd[c].action = outcome THEN "confirmed" ELSE outcome

\* The fate of a command under way when the provider handled its approval: the
\* same decision is confirmed, any other failed, a closed turn leaves it alone.
AfterHandled(c, outcome) ==
    IF /\ cmd[c].action = outcome
       /\ att[cmd[c].request].resolution = outcome
    THEN "confirmed"
    ELSE IF outcome = "closed" THEN cmd[c].state ELSE "failed"

\* `handled` is one of HandledSets: the approvals this event answers.
IngestEvent(s, kind, tool, fresh, handled) ==
    /\ att' = [r \in Requests |->
         IF r \in handled
         THEN [state |-> "resolved",
               resolution |-> IF att[r].resolution = "none" THEN "other"
                              ELSE att[r].resolution]
         ELSE att[r]]
    /\ cmd' = [c \in Commands |->
         IF cmd[c].request \in handled /\ cmd[c].state \in ActiveCommand
         THEN [cmd[c] EXCEPT !.state = AfterHandled(c, Outcome(kind))]
         ELSE cmd[c]]
    /\ Project(s, kind, fresh, Projected[kind], "none")
    /\ UNCHANGED <<counted, timeouts>>

-----------------------------------------------------------------------------
(* Commands *)

\* Mutant: an item that is already committing can be claimed again.
ClaimableTwice(r, at) ==
    att[r].state \in {"open", "committing"} /\ at < Envelope[r].deadline

\* claim_transaction for a command id not seen before: the item must be open and
\* not past its deadline at the time the caller read.
Claimable(r, at) == att[r].state = "open" /\ at < Envelope[r].deadline

Claim(c, r, action, at, delay) ==
    /\ cmd[c].state = "absent"
    /\ Claimable(r, at)
    /\ IF action = "pass_through"
       THEN /\ Settle({r}, "passed_through", "other")
            /\ cmd' = [cmd EXCEPT ![c] =
                 [state |-> "passed_through", request |-> r, action |-> action,
                  due |-> at, delay |-> 0]]
            /\ counted' = [counted EXCEPT ![c] = @ + 1]
       ELSE /\ Settle({r}, "committing", "none")
            /\ cmd' = [cmd EXCEPT ![c] =
                 [state |-> "pending_commit", request |-> r, action |-> action,
                  due |-> at + delay, delay |-> delay]]
            /\ UNCHANGED counted
    /\ UNCHANGED <<sess, timeouts>>

\* Mutant: a decision that was sent can be undone.
UndoableSent(c, at) ==
    cmd[c].state \in ActiveCommand /\ cmd[c].delay > 0 /\ at < cmd[c].due

\* undo_transaction: only a pending command with an undo window that has not
\* closed at the time the caller read.
Undoable(c, at) ==
    cmd[c].state = "pending_commit" /\ cmd[c].delay > 0 /\ at < cmd[c].due

\* Mutant: undo opens the item whatever became of it.
UndoReopens(c, at) ==
    /\ Undoable(c, at)
    /\ cmd' = [cmd EXCEPT ![c].state = "undone"]
    /\ Settle({cmd[c].request}, "open", "none")
    /\ UNCHANGED <<sess, counted, timeouts>>

Undo(c, at) ==
    /\ Undoable(c, at)
    /\ cmd' = [cmd EXCEPT ![c].state = "undone"]
    /\ IF att[cmd[c].request].state = "committing"
       THEN Settle({cmd[c].request}, "open", "none")
       ELSE UNCHANGED att
    /\ UNCHANGED <<sess, counted, timeouts>>

\* commit_transaction with a live waiter: the decision is recorded as sent and
\* counted.  The item moves only if it is still committing.
CommitSent(c, at) ==
    /\ cmd[c].state = "pending_commit"
    /\ cmd[c].due <= at
    /\ cmd' = [cmd EXCEPT ![c].state = "decision_sent"]
    /\ IF att[cmd[c].request].state = "committing"
       THEN Settle({cmd[c].request}, "decision_sent", cmd[c].action)
       ELSE UNCHANGED att
    /\ counted' = [counted EXCEPT ![c] = @ + 1]
    /\ UNCHANGED <<sess, timeouts>>

\* commit_transaction without a live waiter: whatever state the item is in, it
\* expires as stale.
CommitStale(c, at) ==
    LET r == cmd[c].request
    IN  /\ cmd[c].state = "pending_commit"
        /\ cmd[c].due <= at
        /\ cmd' = [cmd EXCEPT ![c].state = "failed"]
        /\ Settle({r}, "expired", "other")
        /\ sess' = Released({Envelope[r].session}, att')
        /\ UNCHANGED <<counted, timeouts>>

\* act_attention_transaction on a question; a repeated command id is a replay.
ActAttention(c, q, action) ==
    /\ cmd[c].state = "absent"
    /\ ~IsApproval(q)
    /\ att[q].state \in {"open", "snoozed"}
    /\ Settle({q}, CASE action = "ack" -> "resolved"
                     [] action = "snooze" -> "snoozed"
                     [] action = "dismiss" -> "dismissed",
                   IF action = "snooze" THEN "none" ELSE "other")
    /\ cmd' = [cmd EXCEPT ![c] =
         [state |-> "confirmed", request |-> None, action |-> action, due |-> 0, delay |-> 0]]
    /\ sess' = IF action = "snooze" THEN sess ELSE Released({Envelope[q].session}, att')
    /\ UNCHANGED <<counted, timeouts>>

\* The same transaction run by answer_question with a command id of its own,
\* whose row nothing reads again.
AckAnswered(q) ==
    /\ att[q].state \in {"open", "snoozed"}
    /\ Settle({q}, "resolved", "other")
    /\ sess' = Released({Envelope[q].session}, att')
    /\ UNCHANGED <<cmd, counted, timeouts>>

\* Mutant: a question that was answered is opened again with the snoozed ones.
WakeClosed(q) ==
    /\ att[q].state \in {"snoozed", "resolved"}
    /\ Settle({q}, "open", "none")
    /\ UNCHANGED <<cmd, sess, counted, timeouts>>

\* refresh_time_driven_attention: a snooze that ran out opens the item again.
WakeSnoozed(q) ==
    /\ att[q].state = "snoozed"
    /\ Settle({q}, "open", "none")
    /\ UNCHANGED <<cmd, sess, counted, timeouts>>

-----------------------------------------------------------------------------
(* Items whose reply channel is gone *)

\* Mutant: the session of an expired item still waits for the user.
ExpireAndWait(r, reason) ==
    IF att[r].state \in LiveStates
    THEN /\ Settle({r}, "expired", "other")
         /\ FailCommands({r})
         /\ timeouts' = IF reason = "deadline" /\ IsApproval(r)
                        THEN [timeouts EXCEPT ![r] = @ + 1]
                        ELSE timeouts
         /\ UNCHANGED <<sess, counted>>
    ELSE UNCHANGED storeVars

\* expire_approval_transaction; nothing happens to an item that is not live.
ExpireApproval(r, reason) ==
    IF att[r].state \in LiveStates
    THEN /\ Settle({r}, "expired", "other")
         /\ FailCommands({r})
         /\ sess' = Released({Envelope[r].session}, att')
         /\ timeouts' = IF reason = "deadline" /\ IsApproval(r)
                        THEN [timeouts EXCEPT ![r] = @ + 1]
                        ELSE timeouts
         /\ UNCHANGED counted
    ELSE UNCHANGED storeVars

\* A decision that reads as sent is confirmed, one still to be sent has failed.
AfterResolved(c) == IF cmd[c].state = "decision_sent" THEN "confirmed" ELSE "failed"

\* resolve_managed_request_transaction: Codex is done with the request.
ResolveManaged(r) ==
    IF att[r].state \in BlockingStates
    THEN /\ Settle({r}, "resolved", "other")
         /\ cmd' = [c \in Commands |->
              IF cmd[c].request = r /\ cmd[c].state \in ActiveCommand
              THEN [cmd[c] EXCEPT !.state = AfterResolved(c)]
              ELSE cmd[c]]
         /\ sess' = Released({Envelope[r].session}, att')
         /\ UNCHANGED <<counted, timeouts>>
    ELSE UNCHANGED storeVars

\* reconcile_transaction: every live item without an active waiter expires.
Reconcile(active) ==
    LET orphans == {r \in Requests : att[r].state \in LiveStates} \ active
    IN  /\ Settle(orphans, "expired", "other")
        /\ FailCommands(orphans)
        /\ sess' = Released(SessionsOf(orphans), att')
        /\ UNCHANGED <<counted, timeouts>>

\* What a start of the Runtime does to the store before it accepts connections:
\* opening it frees the sessions that wait on nothing, then the orphans expire.
WaitsOnNothing(s) ==
    /\ sess[s] = [exec |-> "awaiting_approval", owner |-> "widget"]
    /\ \A r \in RequestsOf(s) : att[r].state \notin BlockingStates

\* Mutant: a decision in its undo window survives the restart.
ReopenKeepsClaims ==
    LET orphans == {r \in Requests : att[r].state \in {"open", "decision_sent"}}
    IN  /\ Settle(orphans, "expired", "other")
        /\ FailCommands(orphans)
        /\ sess' = [s \in Sessions |->
                      IF WaitsOnNothing(s)
                      THEN [exec |-> "waiting_for_event", owner |-> "none"]
                      ELSE Released(SessionsOf(orphans), att')[s]]
        /\ UNCHANGED <<counted, timeouts>>

Reopen ==
    LET orphans == {r \in Requests : att[r].state \in LiveStates}
    IN  /\ Settle(orphans, "expired", "other")
        /\ FailCommands(orphans)
        /\ sess' = [s \in Sessions |->
                      IF WaitsOnNothing(s)
                      THEN [exec |-> "waiting_for_event", owner |-> "none"]
                      ELSE Released(SessionsOf(orphans), att')[s]]
        /\ UNCHANGED <<counted, timeouts>>

\* mark_execution_unconfirmed_transaction: the provider's process may be gone, and
\* its session is no longer shown at work, unless it waits for the user or has
\* news: then `current` is FALSE.
MarkUnconfirmed(s, current) ==
    /\ sess' = IF /\ current
                  /\ sess[s].exec \in {"thinking", "tool_running", "awaiting_approval"}
                  /\ \A r \in RequestsOf(s) : att[r].state \notin BlockingStates
               THEN [sess EXCEPT ![s] = [exec |-> "waiting_for_event", owner |-> "none"]]
               ELSE sess
    /\ UNCHANGED <<att, cmd, counted, timeouts>>

-----------------------------------------------------------------------------
(* The store on its own, under callers that order the transactions in any way *)

Actions == Decisions \cup {"pass_through"}

StoreNext ==
    \/ \E r \in Requests, fresh \in BOOLEAN : IngestRequest(r, fresh)
    \/ \E s \in Sessions, k \in EventKinds, tool \in Tools, fresh \in BOOLEAN :
         \E handled \in HandledSets(s, k, tool) : IngestEvent(s, k, tool, fresh, handled)
    \/ \E c \in Commands, r \in Requests, a \in Actions, at \in Times, d \in Delays :
         IsApproval(r) /\ Claim(c, r, a, at, d)
    \/ \E c \in Commands, at \in Times : Undo(c, at)
    \/ \E c \in Commands, at \in Times : CommitSent(c, at) \/ CommitStale(c, at)
    \/ \E c \in Commands, q \in Requests, a \in {"ack", "snooze", "dismiss"} :
         ActAttention(c, q, a)
    \/ \E q \in Requests : ~IsApproval(q) /\ (AckAnswered(q) \/ WakeSnoozed(q))
    \/ \E r \in Requests, reason \in {"deadline", "other"} : ExpireApproval(r, reason)
    \/ \E r \in Requests : ResolveManaged(r)
    \/ \E active \in SUBSET Requests : Reconcile(active)
    \/ Reopen
    \/ \E s \in Sessions : MarkUnconfirmed(s, TRUE)

StoreSpec == StoreInit /\ [][StoreNext]_storeVars

-----------------------------------------------------------------------------
(* Properties *)

ActiveOn(r) == {c \in Commands : cmd[c].request = r /\ cmd[c].state \in ActiveCommand}

\* A decision stands while its command is under way, and for ever once it was
\* committed, unless it was undone.
Stands(c) ==
    cmd[c].state \in ActiveCommand \/ (counted[c] = 1 /\ cmd[c].state # "undone")

\* First valid wins: no two decisions are ever under way for one request, and
\* the item knows which one.  An open item has none, so that the user may
\* decide; a committing one has a pending command, which undo or commit will
\* find; one whose decision was sent names the command that was sent.
OneDecisionUnderWay ==
    /\ \A c, d \in Commands :
         /\ cmd[c].state \in ActiveCommand
         /\ cmd[d].state \in ActiveCommand
         /\ cmd[c].request = cmd[d].request
         => c = d
    /\ \A r \in Requests :
         /\ att[r].state \in {"absent", "open", "snoozed"} => ActiveOn(r) = {}
         /\ att[r].state = "committing" =>
              \E c \in ActiveOn(r) : cmd[c].state = "pending_commit"
         /\ att[r].state = "decision_sent" =>
              \E c \in ActiveOn(r) :
                cmd[c].state = "decision_sent" /\ cmd[c].action = att[r].resolution

\* The decision counters: a command is counted once at most, never before its
\* undo window closed and never when it was undone.  A retried commit, a late
\* provider event or a restart does not count it again.
DecisionsCounted ==
    \A c \in Commands :
      /\ cmd[c].state \in {"absent", "pending_commit", "undone"} => counted[c] = 0
      /\ cmd[c].state \in {"decision_sent", "passed_through"} => counted[c] = 1
      /\ counted[c] \in {0, 1}

\* The timeout counter: an approval that ended otherwise is never a timeout.
TimeoutsCounted ==
    \A r \in Requests :
      timeouts[r] # 0 => timeouts[r] = 1 /\ att[r].state = "expired" /\ IsApproval(r)

\* The counters of sent decisions and of timeouts count each command and each
\* request once at most, whatever order of claim, undo, commit, expiry, events
\* and restarts brought it to its end.
CountedOnce == DecisionsCounted /\ TimeoutsCounted

\* An item that ended never asks the user again, and a command that ended keeps
\* its outcome, whatever arrives late: a provider event after an expiry, a
\* commit after an undo, a restart after either.
KeepsEnded ==
    /\ \A r \in Requests :
         att[r].state \notin BlockingStates \cup {"absent"} =>
           att'[r].state \notin BlockingStates \cup {"absent"}
    /\ \A c \in Commands : cmd[c].state \in FinalCommand => cmd'[c] = cmd[c]

EndedStaysEnded == [][KeepsEnded]_storeVars
=============================================================================
