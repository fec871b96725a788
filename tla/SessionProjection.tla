-------------------------- MODULE SessionProjection --------------------------
(***************************************************************************)
(* How the store projects the events of one Provider session onto what the *)
(* user sees of it (crates/runtime/src/storage.rs): the session's state,   *)
(* its turns, the interval during which the Agent is counted as running,   *)
(* and its reminders.                                                      *)
(*                                                                         *)
(* Events arrive through Hook processes, the spool, the connector and a    *)
(* watcher of session files, so they may come late, twice or out of order; *)
(* SessionFeed says how.  Each operation is one transaction of the writer  *)
(* thread and is one action here.  Requests that wait for a reply have a   *)
(* model of their own (ApprovalStore) and do not occur.                    *)
(***************************************************************************)
EXTENDS Naturals, Sequences, FiniteSets

CONSTANTS
    Ids,        \* identities of the events that Hooks report
    TurnIds     \* the Provider's names of its turns

VARIABLES
    session,    \* the row in sessions
    turns,      \* the rows in turns, by ordinal
    interval,   \* the open row in agent_execution_intervals
    native,     \* open native_approval items: the turns they belong to, 0 for none
    reminders,  \* open completion and error items
    completed,  \* turns whose completion has been raised: the dedupe key
    ids,        \* events.id
    keys,       \* events.provider_event_key of the ends and starts of turns
    ignored     \* the row in ignored_provider_sessions

projectionVars ==
    <<session, turns, interval, native, reminders, completed, ids, keys, ignored>>

Kinds ==
    {"SessionStarted", "SessionEnded", "PromptSubmitted", "ToolStarted", "ToolFinished",
     "PermissionRequested", "Compacting", "SubagentStarted",
     "Notification", "Stopped", "Interrupted", "Failed"}

\* What a payload may say besides its kind.  subagent: it carries agent_id.
\* helper: it is about the tool request_permissions.  reviewed: Codex decides on
\* the permission itself.  background: the Stop lists
\* work that goes on.  idle: notification_type is idle_prompt.  internal: the
\* prompt is one of Codex's own.  compact: source is compact.
Marks == {"", "subagent", "helper", "reviewed", "background", "idle", "internal", "compact"}

Providers == {"codex", "claude"}

Event == [id : Ids, provider : Providers, kind : Kinds, mark : Marks, turn : TurnIds, at : Nat]

Active == {"thinking", "tool_running", "compacting"}
States == Active \cup {"idle", "awaiting_approval", "waiting_for_event", "response_finished", "failed"}
TurnEnds == {"response_finished", "interrupted", "failed", "idle"}

\* work: the turn holds a prompt or a tool start.  meaningful: it holds an event
\* that turn_contains_meaningful_activity counts.
Turn == [open : BOOLEAN, end : TurnEnds \cup {"none"}, work : BOOLEAN, meaningful : BOOLEAN]

Absent ==
    [exists |-> FALSE, state |-> "idle", owner |-> "none", interrupted |-> FALSE,
     last |-> 0, background |-> FALSE, meaningful |-> FALSE]

Closed == [open |-> FALSE, turn |-> 0]

ProjectionTypeOK ==
    /\ session \in [exists : BOOLEAN, state : States, owner : {"none", "terminal", "provider"},
                    interrupted : BOOLEAN, last : Nat, background : BOOLEAN, meaningful : BOOLEAN]
    /\ turns \in Seq(Turn)
    /\ interval \in [open : BOOLEAN, turn : Nat]
    /\ native \subseteq Nat
    /\ reminders \subseteq [kind : {"completion", "error"}, turn : Nat, at : Nat]
    /\ completed \subseteq Nat
    /\ ids \subseteq Ids
    /\ keys \subseteq Kinds \X TurnIds
    /\ ignored \in BOOLEAN

ProjectionInit ==
    /\ session = Absent
    /\ turns = <<>>
    /\ interval = Closed
    /\ native = {}
    /\ reminders = {}
    /\ completed = {}
    /\ ids = {}
    /\ keys = {}
    /\ ignored = FALSE

-----------------------------------------------------------------------------
(* Turns *)

OpenTurns == {i \in DOMAIN turns : turns[i].open}

\* 0 is no turn.  At most one turn is open, so that the last open one is the one.
CurrentTurn == IF OpenTurns = {} THEN 0 ELSE CHOOSE i \in OpenTurns : TRUE

Terminal ==
    \/ session.state \in {"response_finished", "failed"}
    \/ session.state = "idle" /\ session.interrupted

Fresh == [open |-> TRUE, end |-> "none", work |-> FALSE, meaningful |-> FALSE]

Reopened(t) == [t EXCEPT !.open = TRUE, !.end = "none"]

EndedWith(t, end) == [t EXCEPT !.open = FALSE, !.end = end]

FromSubagent(e) == e.provider = "claude" /\ e.mark = "subagent"

TurnLess == {"SessionStarted", "SessionEnded"}

\* A prompt opens a turn; so does any other event that finds none open, unless
\* the session says that its last turn is over.
OpensTurn(e) ==
    /\ e.kind \notin TurnLess
    /\ e.kind = "PromptSubmitted" \/ (OpenTurns = {} /\ ~Terminal)

\* The Agent goes on with a turn it had ended.
ReopensTurn(e) ==
    /\ e.kind = "ToolStarted"
    /\ ~FromSubagent(e)
    /\ OpenTurns = {}
    /\ Terminal
    /\ turns # <<>>

\* The turn an event is stored with.
TurnOf(e) ==
    IF e.kind \in TurnLess THEN 0
    ELSE IF OpensTurn(e) THEN Len(turns) + 1
    ELSE IF OpenTurns # {} THEN CurrentTurn
    ELSE Len(turns)

\* Mutant: a prompt leaves the turn before it open.
TurnsLeftOpen(e) ==
    IF OpensTurn(e) THEN Append(turns, Fresh)
    ELSE IF ReopensTurn(e)
    THEN [turns EXCEPT ![Len(turns)] = Reopened(@)]
    ELSE turns

SelectedTurns(e) ==
    IF OpensTurn(e)
    THEN Append([i \in DOMAIN turns |->
                    IF turns[i].open THEN EndedWith(turns[i], "response_finished") ELSE turns[i]],
                Fresh)
    ELSE IF ReopensTurn(e)
    THEN [turns EXCEPT ![Len(turns)] = Reopened(@)]
    ELSE turns

Meaningful ==
    Kinds \ {"SessionStarted", "SessionEnded", "Stopped", "Notification"}

Holding(t, e) ==
    [t EXCEPT !.work = @ \/ e.kind \in {"PromptSubmitted", "ToolStarted"},
              !.meaningful = @ \/ e.kind \in Meaningful]

\* The turns once the event is stored.
RecordedTurns(e) ==
    [i \in DOMAIN SelectedTurns(e) |->
        IF i = TurnOf(e) THEN Holding(SelectedTurns(e)[i], e) ELSE SelectedTurns(e)[i]]

-----------------------------------------------------------------------------
(* Native permission sheets of Codex, which ActRealm sees but cannot answer *)

ObservesSheet(e) == e.kind = "PermissionRequested" /\ e.mark # "reviewed"

ProviderAdvanced(e) == e.kind \in {"ToolStarted", "ToolFinished"} /\ e.mark # "helper"

\* The open items that this event shows to be over.
SheetsClosed(e) ==
    IF e.provider # "codex" THEN {}
    ELSE IF ProviderAdvanced(e)
    THEN {t \in native : TurnOf(e) = 0 \/ t = TurnOf(e)}
    ELSE IF e.kind \in {"PromptSubmitted", "Interrupted", "Failed", "SessionEnded"}
    THEN native
    ELSE {}

NativeAfter(e) ==
    IF ObservesSheet(e) THEN native \cup {TurnOf(e)}
    ELSE native \ SheetsClosed(e)

-----------------------------------------------------------------------------
(* Reminders *)

Supersedes ==
    {"SessionStarted", "PromptSubmitted", "ToolStarted", "PermissionRequested", "Compacting",
     "SubagentStarted"}

\* A turn that ends with work in the background raises no completion, nor does
\* one without activity or one whose permission sheet is still on the screen.
RaisesCompletion(e) ==
    /\ e.kind = "Stopped"
    /\ e.mark # "background"
    /\ TurnOf(e) # 0
    /\ RecordedTurns(e)[TurnOf(e)].meaningful
    /\ native = {}
    /\ TurnOf(e) \notin completed

NewReminders(e) ==
    IF RaisesCompletion(e) THEN {[kind |-> "completion", turn |-> TurnOf(e), at |-> e.at]}
    ELSE IF e.kind = "Failed" THEN {[kind |-> "error", turn |-> TurnOf(e), at |-> e.at]}
    ELSE {}

\* Mutant: reminders stay until the user deals with them.
RemindersKept(e) == reminders \cup NewReminders(e)

\* What the Agent does next makes an older reminder pointless.
RemindersAfter(e) ==
    {r \in reminders : ~(e.kind \in Supersedes /\ r.at < e.at)} \cup NewReminders(e)

-----------------------------------------------------------------------------
(* The state of the session *)

LastEventAt(e) == IF session.exists THEN session.last ELSE e.at

\* Mutant: also an event that shows the sheet to be over.
PreservesAnySheet(e) ==
    /\ session.state = "awaiting_approval"
    /\ session.owner = "terminal"
    /\ e.kind \notin {"PromptSubmitted", "Interrupted", "Failed", "SessionEnded"}

\* A sheet on the screen outlasts what the Agent reports beside it.
PreservesSheet(e) ==
    /\ session.state = "awaiting_approval"
    /\ session.owner = "terminal"
    /\ SheetsClosed(e) = {}
    /\ e.kind \notin {"PromptSubmitted", "Interrupted", "Failed", "SessionEnded"}

PreservesCompactingTurn(e) ==
    /\ e.kind = "SessionStarted"
    /\ e.mark = "compact"
    /\ session.state \notin {"idle", "response_finished", "failed"}

\* Mutant: a subagent that works on revives the session.
MayUpdateFromSubagent(e) ==
    /\ e.at >= LastEventAt(e)
    /\ \/ ~Terminal
       \/ e.kind \in {"PromptSubmitted", "SessionStarted", "SessionEnded", "ToolStarted"}

MayUpdate(e) ==
    /\ e.at >= LastEventAt(e)
    /\ \/ ~Terminal
       \/ e.kind \in {"PromptSubmitted", "SessionStarted", "SessionEnded"}
       \/ e.kind = "ToolStarted" /\ ~FromSubagent(e)

\* Claude's notice that it waits for input: the end of a turn whose Stop was lost.
IdleTurnEnd(e) ==
    /\ e.provider = "claude"
    /\ e.kind = "Notification"
    /\ e.mark = "idle"
    /\ session.state \in Active
    /\ native = {}

Projected(e) ==
    CASE e.kind \in {"SessionStarted", "SessionEnded", "Interrupted"} -> "idle"
      [] e.kind \in {"PromptSubmitted", "ToolFinished", "PermissionRequested", "SubagentStarted"} -> "thinking"
      [] e.kind = "ToolStarted" -> "tool_running"
      [] e.kind = "Compacting" -> "compacting"
      [] e.kind = "Stopped" -> "response_finished"
      [] e.kind = "Failed" -> "failed"
      [] OTHER -> session.state

NextState(e) ==
    IF ObservesSheet(e) THEN "awaiting_approval"
    ELSE IF PreservesSheet(e) \/ PreservesCompactingTurn(e) THEN session.state
    ELSE IF IdleTurnEnd(e) THEN "response_finished"
    ELSE Projected(e)

NextOwner(e) ==
    IF ObservesSheet(e) THEN "terminal"
    ELSE IF PreservesSheet(e) \/ PreservesCompactingTurn(e) THEN session.owner
    ELSE IF e.kind = "PermissionRequested" THEN "provider"
    ELSE "none"

NextBackground(e) ==
    /\ NextState(e) = "response_finished"
    /\ IF e.kind = "Stopped" THEN e.mark = "background" ELSE session.background

SessionAfter(e) ==
    LET row == [session EXCEPT !.exists = TRUE, !.meaningful = @ \/ e.kind \in Meaningful]
    IN  IF MayUpdate(e)
        THEN [row EXCEPT !.state = NextState(e),
                         !.owner = NextOwner(e),
                         !.interrupted = e.kind = "Interrupted",
                         !.last = e.at,
                         !.background = NextBackground(e)]
        ELSE row

\* Mutant: the interval ends with the next turn only.
CountedUntilNextTurn(turn, next) ==
    IF next \in Active /\ (~interval.open \/ (turn # 0 /\ interval.turn # turn))
    THEN [open |-> TRUE, turn |-> turn]
    ELSE interval

\* The interval once the session's state is next, in a transaction about turn.
Counted(turn, next) ==
    IF next \notin Active THEN Closed
    ELSE IF ~interval.open \/ (turn # 0 /\ interval.turn # turn)
    THEN [open |-> TRUE, turn |-> turn]
    ELSE interval

EndsTurn(e) ==
    \/ e.kind = "Stopped" /\ ~PreservesSheet(e)
    \/ e.kind \in {"Interrupted", "Failed"}
    \/ IdleTurnEnd(e) /\ MayUpdate(e)

\* Mutant: the row takes the kind of the event.
TurnEndRaw(e) == e.kind

TurnEnd(e) ==
    CASE e.kind = "Interrupted" -> "interrupted"
      [] e.kind = "Failed" -> "failed"
      [] OTHER -> "response_finished"

\* The end of the session ends the turns still open; one that was at work was
\* interrupted.
EndedWithSession(t) ==
    EndedWith(t, IF session.state \notin {"idle", "response_finished", "failed"} /\ t.work
                 THEN "interrupted" ELSE "idle")

TurnsAfter(e) ==
    LET recorded == RecordedTurns(e)
    IN  [i \in DOMAIN recorded |->
            IF EndsTurn(e) /\ i = TurnOf(e) THEN EndedWith(recorded[i], TurnEnd(e))
            ELSE IF e.kind = "SessionEnded" /\ MayUpdate(e) /\ recorded[i].open
            THEN EndedWithSession(recorded[i])
            ELSE recorded[i]]

-----------------------------------------------------------------------------
(* The operations *)

Keyed == {"PromptSubmitted", "Stopped", "Interrupted", "Failed"}

Key(e) == <<e.kind, e.turn>>

Internal(e) == e.provider = "codex" /\ e.kind = "PromptSubmitted" /\ e.mark = "internal"

\* Mutant: the identity of the event is not looked at.
KnownByKey(e) == e.kind \in Keyed /\ Key(e) \in keys

Known(e) == e.id \in ids \/ (e.kind \in Keyed /\ Key(e) \in keys)

\* An event of a session that is ignored, or one that was stored before.
Drop(e) ==
    /\ ignored \/ (~Internal(e) /\ Known(e))
    /\ UNCHANGED projectionVars

\* The session turns out to be Codex's own work: nothing of it is kept.
Suppress(e) ==
    /\ ~ignored
    /\ Internal(e)
    /\ ignored' = TRUE
    /\ session' = Absent
    /\ turns' = <<>>
    /\ interval' = Closed
    /\ native' = {}
    /\ reminders' = {}
    /\ completed' = {}
    /\ ids' = {}
    /\ keys' = {}

IsNew(e) == ~ignored /\ ~Internal(e) /\ ~Known(e)

Record(e) ==
    /\ IsNew(e)
    /\ ids' = ids \cup {e.id}
    /\ keys' = IF e.kind \in Keyed THEN keys \cup {Key(e)} ELSE keys
    /\ session' = SessionAfter(e)
    /\ turns' = TurnsAfter(e)
    /\ interval' = IF MayUpdate(e) THEN Counted(TurnOf(e), NextState(e)) ELSE interval
    /\ native' = NativeAfter(e)
    /\ reminders' = RemindersAfter(e)
    /\ completed' = IF RaisesCompletion(e) THEN completed \cup {TurnOf(e)} ELSE completed
    /\ UNCHANGED ignored

Ingest(e) == Drop(e) \/ Suppress(e) \/ Record(e)

SetState(state, owner, last) ==
    session' = [session EXCEPT !.state = state, !.owner = owner, !.interrupted = FALSE, !.last = last]

Later(now) == IF now > session.last THEN now ELSE session.last

\* The connector says that a sheet is on the screen.
SheetSeen(now) ==
    /\ session.exists
    /\ session.owner # "provider"
    /\ native' = IF native = {} THEN {0} ELSE native
    /\ IF native = {} \/ session.state # "awaiting_approval" \/ session.owner # "terminal"
       THEN SetState("awaiting_approval", "terminal", Later(now))
       ELSE UNCHANGED session
    /\ interval' = Closed
    /\ UNCHANGED <<turns, reminders, completed, ids, keys, ignored>>

\* The turn a sheet was stored with; of several, one of the latest.
SheetTurns == IF native = {} THEN {0} ELSE native

\* The connector says that none is, and whether the turn goes on.
SheetGone(active, now) ==
    /\ session.exists
    /\ native' = {}
    /\ IF session.owner = "none"
       THEN UNCHANGED <<session, interval, reminders, completed>>
       ELSE \E turn \in SheetTurns :
              /\ SetState(IF active THEN "thinking" ELSE "response_finished", "none", Later(now))
              /\ interval' = Counted(turn, IF active THEN "thinking" ELSE "response_finished")
              /\ IF ~active /\ session.meaningful /\ turn \notin completed
                 THEN /\ reminders' =
                           reminders \cup {[kind |-> "completion", turn |-> turn, at |-> now]}
                      /\ completed' = completed \cup {turn}
                 ELSE UNCHANGED <<reminders, completed>>
    /\ UNCHANGED <<turns, ids, keys, ignored>>

\* The connector says whether a turn runs; a sheet on the screen comes first.
SyncExecution(active, now) ==
    LET next == IF active
                THEN IF session.state \in {"idle", "response_finished", "failed", "waiting_for_event"}
                     THEN "thinking" ELSE session.state
                ELSE IF session.state \notin {"idle", "response_finished", "failed"}
                     THEN "response_finished" ELSE session.state
    IN  /\ session.exists
        /\ native = {}
        /\ IF next # session.state THEN SetState(next, "none", Later(now)) ELSE UNCHANGED session
        /\ interval' = Counted(CurrentTurn, next)
        /\ UNCHANGED <<turns, native, reminders, completed, ids, keys, ignored>>

\* Mutant: the snapshot's time is not compared.
AtWorkNow(expected) ==
    /\ session.exists
    /\ session.state \in Active \cup {"awaiting_approval"}
    /\ native = {}

\* Mutant: a session that runs a tool is left alone.
StillThinking(expected) ==
    /\ session.exists
    /\ session.last = expected
    /\ session.state = "thinking"
    /\ native = {}

\* The session is as it was when its Agent was seen at work.
StillAtWork(expected) ==
    /\ session.exists
    /\ session.last = expected
    /\ session.state \in Active \cup {"awaiting_approval"}
    /\ native = {}

\* The process of that Agent cannot be found.
MarkUnconfirmed(expected) ==
    /\ StillAtWork(expected)
    /\ SetState("waiting_for_event", "none", session.last)
    /\ interval' = Closed
    /\ UNCHANGED <<turns, native, reminders, completed, ids, keys, ignored>>

\* The user acknowledges or dismisses the sheets, as far as ActRealm is concerned.
DismissSheet(turn) ==
    /\ turn \in native
    /\ native' = native \ {turn}
    /\ IF native = {turn} /\ session.state = "awaiting_approval"
       THEN SetState("waiting_for_event", "none", session.last) /\ interval' = Closed
       ELSE UNCHANGED <<session, interval>>
    /\ UNCHANGED <<turns, reminders, completed, ids, keys, ignored>>

\* The user acknowledges a reminder.
Acknowledge(r) ==
    /\ r \in reminders
    /\ reminders' = reminders \ {r}
    /\ IF native = {} /\ session.state = "awaiting_approval"
       THEN SetState("waiting_for_event", "none", session.last) /\ interval' = Closed
       ELSE UNCHANGED <<session, interval>>
    /\ UNCHANGED <<turns, native, completed, ids, keys, ignored>>

=============================================================================
