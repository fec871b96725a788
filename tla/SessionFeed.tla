----------------------------- MODULE SessionFeed -----------------------------
(***************************************************************************)
(* How the events of one Provider session reach the store.                 *)
(*                                                                         *)
(* The Agent runs one Hook process per event (run_hook in                  *)
(* crates/app/src/main.rs).  It hands the event to a connection thread of  *)
(* the Runtime and returns, or, when that fails, leaves it in the spool    *)
(* (crates/runtime/src/spool.rs), which the Runtime replays when it        *)
(* starts.  Hook processes run beside each other, connection threads too,  *)
(* so that an event may overtake another.  For Codex, the connector and a  *)
(* watcher of session files report what they see as well.                  *)
(***************************************************************************)
EXTENDS SessionProjection

CONSTANTS
    MaxEvents,   \* bound: events of one behaviour
    MaxFlying,   \* bound: Hook processes and connection threads at a time
    MaxStops,    \* bound: ends of the Runtime
    MaxFiles,    \* files the spool may hold (DEFAULT_MAX_FILES)
    TimeOf,      \* the clock reading of each event, in milliseconds
    NoEvent

ASSUME FeedAssumption ==
    /\ MaxEvents \in Nat /\ MaxStops \in Nat
    /\ Ids = 1 .. MaxEvents
    /\ TurnIds \subseteq Nat /\ 0 \in TurnIds
    /\ NoEvent \notin Event
    /\ TimeOf \in [Ids -> Nat]
    /\ \A i, j \in Ids : i <= j => TimeOf[i] <= TimeOf[j]

VARIABLES
    agent,      \* the Agent: what it does, which turn it is in, events so far
    hooks,      \* Hook processes with their event
    threads,    \* connection threads with an event that is not yet stored
    spool,      \* files of the spool
    runtime,    \* the Runtime
    listed,     \* the files that the replay has yet to take
    replayed,   \* the file that was stored and has yet to be removed
    watched,    \* last_event_at in the snapshot that judges the Agent's process,
                \* and for the properties the events it rests on
    history     \* for the properties: what became of the events

feedVars == <<agent, hooks, threads, spool, runtime, listed, replayed, watched, history>>
vars == <<projectionVars, feedVars>>

Phases == {"new", "idle", "stopped", "working", "tool", "sheet", "answered", "gone"}

\* answered: the user has dealt with the sheet, and no event said so yet.
AtWork == {"working", "answered"}

\* stopped: its turn ended with a Stop, after which the Agent may go on.
AtRest == {"idle", "stopped"}

NotWatched == [on |-> FALSE, last |-> 0, ids |-> {}]

FeedTypeOK ==
    /\ ProjectionTypeOK
    /\ agent \in [provider : Providers, phase : Phases, turn : TurnIds, events : 0 .. MaxEvents,
                  again : BOOLEAN]
    /\ hooks \subseteq Event
    /\ threads \subseteq Event
    /\ spool \subseteq Event
    /\ runtime \in [phase : {"down", "replay", "up"}, stops : 0 .. MaxStops, sheet : BOOLEAN]
    /\ listed \subseteq Event
    /\ replayed \in Event \cup {NoEvent}
    /\ watched \in [on : BOOLEAN, last : Nat, ids : SUBSET Ids]
    /\ history \in [lost : SUBSET Ids, known : SUBSET Ids, stored : [Ids -> Nat],
                    mishap : 0 .. MaxEvents, anchor : 0 .. MaxEvents]

FeedInit ==
    /\ ProjectionInit
    /\ \E provider \in Providers :
         agent = [provider |-> provider, phase |-> "new", turn |-> 0, events |-> 0, again |-> FALSE]
    /\ hooks = {}
    /\ threads = {}
    /\ spool = {}
    /\ runtime = [phase |-> "down", stops |-> 0, sheet |-> FALSE]
    /\ listed = {}
    /\ replayed = NoEvent
    /\ watched = NotWatched
    /\ history = [lost |-> {}, known |-> {}, stored |-> [i \in Ids |-> 0], mishap |-> 0, anchor |-> 0]

-----------------------------------------------------------------------------
(* The Agent *)

Now == IF agent.events = 0 THEN 0 ELSE TimeOf[agent.events]

\* The Agent starts a Hook with its next event.
Emit(kind, mark, phase, turn, again) ==
    /\ agent.events < MaxEvents
    /\ hooks = {}
    /\ Cardinality(threads) < MaxFlying
    /\ LET n == agent.events + 1
       IN  /\ hooks' = hooks \cup {[id |-> n, provider |-> agent.provider, kind |-> kind,
                                    mark |-> mark, turn |-> turn, at |-> TimeOf[n]]}
           /\ agent' = [agent EXCEPT !.phase = phase, !.turn = turn, !.events = n, !.again = again]
    /\ UNCHANGED <<projectionVars, threads, spool, runtime, listed, replayed, watched, history>>

Same(kind, mark, phase) == Emit(kind, mark, phase, agent.turn, agent.again)

Prompt ==
    /\ agent.phase \in AtRest
    /\ agent.turn + 1 \in TurnIds
    /\ \E mark \in {""} \cup (IF agent.provider = "codex" THEN {"internal"} ELSE {}) :
         Emit("PromptSubmitted", mark, "working", agent.turn + 1, FALSE)

\* A Stop may leave work in the background; Claude lists it.
Stop ==
    /\ agent.phase \in AtWork
    /\ \E mark \in {""} \cup (IF agent.provider = "claude" THEN {"background"} ELSE {}) :
         Same("Stopped", mark, "stopped")

\* The Agent goes on with the turn it has just ended.
GoOn ==
    /\ agent.phase = "stopped"
    /\ Emit("ToolStarted", "", "tool", agent.turn, TRUE)

CodexSteps ==
    /\ agent.provider = "codex"
    /\ \/ agent.phase \in AtWork /\ Same("PermissionRequested", "", "sheet")
       \/ agent.phase = "working" /\ Same("PermissionRequested", "reviewed", "working")
       \* The helper ends while its sheet is on the screen.
       \/ agent.phase = "sheet" /\ Same("ToolFinished", "helper", "sheet")
       \/ agent.phase \in AtWork /\ Same("SessionStarted", "compact", agent.phase)
       \/ agent.phase \in {"working", "tool", "sheet", "answered"} /\ Same("Interrupted", "", "idle")

\* The user answers the sheet; no Hook says so.
AnswerSheet ==
    /\ agent.phase = "sheet"
    /\ agent' = [agent EXCEPT !.phase = "answered"]
    /\ UNCHANGED <<projectionVars, hooks, threads, spool, runtime, listed, replayed, watched, history>>

ClaudeSteps ==
    /\ agent.provider = "claude"
    /\ \/ agent.phase \in AtWork /\ Same("SubagentStarted", "", "working")
       \/ agent.phase \in AtRest /\ agent.turn # 0 /\ Same("ToolStarted", "subagent", agent.phase)
       \/ agent.phase \in AtRest /\ agent.turn # 0 /\ Same("Notification", "idle", agent.phase)
       \/ agent.phase \in AtRest \cup {"working", "tool"} /\ Same("SessionEnded", "", "gone")

AgentStep ==
    \/ agent.phase = "new" /\ Same("SessionStarted", "", "idle")
    \/ Prompt
    \/ agent.phase \in AtWork /\ Same("ToolStarted", "", "tool")
    \/ agent.phase = "tool" /\ Same("ToolFinished", "", "working")
    \/ agent.phase \in AtWork /\ Same("Failed", "", "idle")
    \/ agent.phase \in AtWork /\ Same("Compacting", "", agent.phase)
    \/ Stop
    \/ GoOn
    \/ CodexSteps
    \/ AnswerSheet
    \/ ClaudeSteps

\* The process of the Agent is killed.
AgentDies ==
    /\ agent.phase \notin {"new", "gone"}
    /\ agent' = [agent EXCEPT !.phase = "gone"]
    /\ UNCHANGED <<projectionVars, hooks, threads, spool, runtime, listed, replayed, watched, history>>

-----------------------------------------------------------------------------
(* Hook processes and the spool *)

\* What a file of the spool keeps of an event: no prompt, no background tasks and
\* no type of notification.
Durable(e) == [e EXCEPT !.mark = IF @ \in {"background", "idle", "internal"} THEN "" ELSE @]

Older(d, e) == d.at < e.at \/ (d.at = e.at /\ d.id < e.id)

OldestOf(e, files) == e \in files /\ \A d \in files : d = e \/ Older(e, d)

\* append writes the file and then removes the oldest ones beyond the limit.
Pruned(files) ==
    IF Cardinality(files) > MaxFiles THEN {e \in files : ~OldestOf(e, files)} ELSE files

Lose(events) ==
    [history EXCEPT !.lost = @ \cup {e.id : e \in events},
                    !.mishap = IF events = {} THEN @ ELSE agent.events]

\* The Runtime takes the event; the Hook process is done.
Send(e) ==
    /\ e \in hooks
    /\ runtime.phase = "up"
    /\ hooks' = hooks \ {e}
    /\ threads' = threads \cup {e}
    /\ UNCHANGED <<projectionVars, agent, spool, runtime, listed, replayed, watched, history>>

\* Nobody listens, or not within the 200 ms the Hook allows.
Spool(e) ==
    LET files == spool \cup {Durable(e)}
    IN  /\ e \in hooks
        /\ hooks' = hooks \ {e}
        /\ spool' = Pruned(files)
        /\ history' = Lose(files \ Pruned(files))
        /\ UNCHANGED <<projectionVars, agent, threads, runtime, listed, replayed, watched>>

\* A newer event was stored before this one.
Overtaken(e) == \E i \in ids : i > e.id

Stored(e) ==
    history' = [history EXCEPT
        !.known = IF ~ignored /\ Known(e) THEN @ \cup {e.id} ELSE @,
        !.stored[e.id] = IF IsNew(e) THEN @ + 1 ELSE @,
        !.mishap = IF Overtaken(e) THEN agent.events ELSE @,
        !.anchor = IF e.kind = "PromptSubmitted" /\ ~Overtaken(e) THEN e.id ELSE @]

\* A connection thread stores its event.
Store(e) ==
    /\ e \in threads
    /\ Ingest(e)
    /\ Stored(e)
    /\ threads' = threads \ {e}
    /\ UNCHANGED <<agent, hooks, spool, runtime, listed, replayed, watched>>

-----------------------------------------------------------------------------
(* The Runtime *)

\* It ends at any time, with its threads.
StopRuntime ==
    /\ runtime.phase # "down"
    /\ runtime.stops < MaxStops
    /\ runtime' = [phase |-> "down", stops |-> runtime.stops + 1, sheet |-> FALSE]
    /\ history' = Lose(threads)
    /\ threads' = {}
    /\ listed' = {}
    /\ replayed' = NoEvent
    /\ watched' = NotWatched
    /\ UNCHANGED <<projectionVars, agent, hooks, spool>>

\* Mutant: the files are removed once they are listed.
StartRuntimeAndClear ==
    /\ runtime.phase = "down"
    /\ runtime' = [runtime EXCEPT !.phase = "replay"]
    /\ listed' = spool
    /\ spool' = {}
    /\ UNCHANGED <<projectionVars, agent, hooks, threads, replayed, watched, history>>

StartRuntime ==
    /\ runtime.phase = "down"
    /\ runtime' = [runtime EXCEPT !.phase = "replay"]
    /\ listed' = spool
    /\ UNCHANGED <<projectionVars, agent, hooks, threads, spool, replayed, watched, history>>

\* drain: the oldest file is read and its event is stored ...
Replay(e) ==
    /\ runtime.phase = "replay"
    /\ replayed = NoEvent
    /\ OldestOf(e, listed)
    /\ e \in spool
    /\ Ingest(e)
    /\ Stored(e)
    /\ replayed' = e
    /\ listed' = listed \ {e}
    /\ UNCHANGED <<agent, hooks, threads, spool, runtime, watched>>

\* ... and then it is removed.
RemoveReplayed ==
    /\ runtime.phase = "replay"
    /\ replayed # NoEvent
    /\ replayed \in spool
    /\ spool' = spool \ {replayed}
    /\ replayed' = NoEvent
    /\ UNCHANGED <<projectionVars, agent, hooks, threads, runtime, listed, watched, history>>

\* Mutant: a file that has gone keeps the Runtime waiting.
ListenWhenDone ==
    /\ runtime.phase = "replay"
    /\ listed = {}
    /\ replayed = NoEvent
    /\ runtime' = [runtime EXCEPT !.phase = "up"]
    /\ UNCHANGED <<projectionVars, agent, hooks, threads, spool, listed, replayed, watched, history>>

\* The Runtime listens once the replay is over, also when that failed on a file
\* that a Hook process has pruned.
Listen ==
    /\ runtime.phase = "replay"
    /\ IF replayed = NoEvent
       THEN \A e \in listed : OldestOf(e, listed) => e \notin spool
       ELSE replayed \notin spool
    /\ runtime' = [runtime EXCEPT !.phase = "up"]
    /\ listed' = {}
    /\ replayed' = NoEvent
    /\ UNCHANGED <<projectionVars, agent, hooks, threads, spool, watched, history>>

-----------------------------------------------------------------------------
(* What the Runtime sees on other ways *)

\* The connector reports that Codex waits for the user, or no longer does.
SyncSheet ==
    /\ agent.provider = "codex"
    /\ runtime.phase = "up"
    /\ \/ agent.phase = "sheet" /\ SheetSeen(Now) /\ runtime' = [runtime EXCEPT !.sheet = TRUE]
       \/ /\ agent.phase # "sheet"
          /\ runtime.sheet
          /\ SheetGone(agent.phase \in {"working", "tool", "answered"}, Now)
          /\ runtime' = [runtime EXCEPT !.sheet = FALSE]
    /\ UNCHANGED <<agent, hooks, threads, spool, listed, replayed, watched, history>>

\* The connector reports whether a turn runs.
SyncTurn ==
    /\ agent.provider = "codex"
    /\ runtime.phase = "up"
    /\ SyncExecution(agent.phase \in {"working", "tool", "sheet", "answered"}, Now)
    /\ UNCHANGED feedVars

\* A snapshot finds the session at work and its process gone ...
Watch ==
    /\ runtime.phase = "up"
    /\ agent.phase = "gone"
    /\ session.exists /\ session.state \in Active
    /\ watched' = [on |-> TRUE, last |-> session.last, ids |-> ids]
    /\ UNCHANGED <<projectionVars, agent, hooks, threads, spool, runtime, listed, replayed, history>>

\* ... and says so, unless an event came in between.
Unconfirm ==
    /\ watched.on
    /\ \/ MarkUnconfirmed(watched.last)
       \/ ~StillAtWork(watched.last) /\ UNCHANGED projectionVars
    /\ watched' = NotWatched
    /\ UNCHANGED <<agent, hooks, threads, spool, runtime, listed, replayed, history>>

UserStep ==
    /\ runtime.phase = "up"
    /\ (\E t \in native : DismissSheet(t)) \/ (\E r \in reminders : Acknowledge(r))
    /\ UNCHANGED feedVars

HookStep == \E e \in hooks : Send(e) \/ Spool(e)

RuntimeStep == (\E e \in threads : Store(e)) \/ (\E e \in listed : Replay(e)) \/ RemoveReplayed \/ Listen

FeedNext ==
    \/ AgentStep
    \/ AgentDies
    \/ HookStep
    \/ RuntimeStep
    \/ StopRuntime
    \/ StartRuntime
    \/ SyncSheet
    \/ SyncTurn
    \/ Watch
    \/ Unconfirm
    \/ UserStep

FeedSpec == FeedInit /\ [][FeedNext]_vars

\* A Hook gives up after 200 ms, threads run, launchd keeps the Runtime alive
\* (KeepAlive in crates/app/src/service.rs) and clients ask for snapshots.
FairFeedSpec ==
    /\ FeedSpec
    /\ WF_vars(HookStep)
    /\ WF_vars(RuntimeStep)
    /\ WF_vars(StartRuntime)
    /\ WF_vars(Watch)
    /\ WF_vars(Unconfirm)

-----------------------------------------------------------------------------
(* Properties *)

\* The Agent is counted as running exactly while its session is shown at work:
\* every transaction that moves the state reconciles the interval as well
\* (reconcile_agent_execution_interval), late events included, which move neither.
IntervalFitsState == interval.open <=> session.state \in Active

\* A session has one open turn at most, whatever order prompts, tool starts that
\* reopen a turn, and ends arrive in: select_or_create_turn and the reminders of
\* a turn rely on it.
OneTurnOpen == \A i, j \in OpenTurns : i = j

\* No event is projected twice, although a Hook may fall back to the spool and a
\* file of the spool is replayed again when the Runtime ended between storing and
\* removing it.
StoredOnce == \A i \in Ids : history.stored[i] <= 1

Underway == {e.id : e \in hooks \cup threads \cup spool}

\* Every event a Hook reported is stored, on its way, recognised as a repetition,
\* or lost in one of the two places that may lose it: the limit of the spool, and
\* a connection thread whose Runtime ends.  The replay itself loses none.
EventsAreKept ==
    ~ignored => 1 .. agent.events \subseteq ids \cup Underway \cup history.lost \cup history.known

\* Whatever was lost or overtaken happened before the last prompt.
Recovered == history.mishap = 0 \/ history.mishap < history.anchor

Quiet == Underway = {} /\ Recovered

\* What a session that has nothing to do is shown as.
Over == {"idle", "response_finished", "failed"}

\* Once every event has arrived, the session is not shown at work while its Agent
\* rests, nor at rest while its Agent works.  A loss or a late event is forgotten
\* with the next prompt.  Turns that go on after their Stop are left to StopIsShown.
ShownIsTrue ==
    Quiet /\ ~agent.again /\ ~ignored =>
        /\ agent.phase \in AtRest => session.state \notin Active
        /\ agent.phase \in {"working", "tool", "sheet", "answered"} => session.state \notin Over

\* A Stop that has arrived ends the work that is shown
\* (docs/POST_M14_PROVIDER_LIFECYCLE_PROJECTION.md: a completion follows a real
\* end of the turn, which is a Hook Stop).  stable_provider_event_key takes the
\* second Stop of a turn for the first one.
StopIsShown == Quiet /\ agent.phase = "stopped" /\ ~ignored => session.state \notin Active

\* A session that is shown waiting for a permission has the item the user would
\* look for, whoever closed it: an event, the connector or the user.
SheetIsOpen == Quiet /\ session.state = "awaiting_approval" => native # {}

\* No two events fall on one reading of the clock, which counts milliseconds.
Alone(at) == \A i, j \in Ids : TimeOf[i] = at /\ TimeOf[j] = at => i = j

\* A session that works again shows no reminder of an end before that: what the
\* Agent does next resolves the completion or the error of its last turn.  What it
\* does in the same millisecond does not.
CompletionMeansEnded ==
    Quiet => \A r \in reminders :
                session.state \in Active /\ Alone(r.at) => session.last <= r.at

\* A verdict about the Agent's process never overrides an event that came in
\* between the snapshot and the write: mark_execution_unconfirmed compares
\* last_event_at, which two events of one millisecond share.
NewerEvidenceWins ==
    [][watched.on /\ ~watched'.on /\ session'.state # session.state /\ Alone(watched.last) =>
        \A i \in ids \ watched.ids : TimeOf[i] <= watched.last]_vars

\* The Runtime begins to listen whatever it finds in the spool, also when a Hook
\* prunes a file that the replay has listed or is about to remove.
StartupEnds == runtime.phase = "replay" ~> runtime.phase # "replay"

\* An Agent that is killed does not stay shown at work, unless the item of a
\* permission sheet is open: that one needs the user.
GoneIsNoticed == agent.phase = "gone" ~> [](session.state \in Active => native # {})
=============================================================================
