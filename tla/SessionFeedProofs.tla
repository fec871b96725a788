-------------------------- MODULE SessionFeedProofs --------------------------
(***************************************************************************)
(* Proofs about SessionProjection and SessionFeed, for any number of       *)
(* events, any clock readings and any limits of the spool.                 *)
(***************************************************************************)
EXTENDS SessionFeed, SequenceTheorems, TLAPS

USE FeedAssumption

-----------------------------------------------------------------------------
(* Turns stay a sequence of turns *)

\* A function on the positions of a sequence is a sequence.
LEMMA SameLength ==
    ASSUME NEW s \in Seq(Turn), NEW f, f = [i \in DOMAIN s |-> f[i]],
           \A i \in DOMAIN s : f[i] \in Turn
    PROVE  f \in Seq(Turn)
<1>1. DOMAIN s = 1 .. Len(s) /\ Len(s) \in Nat
  OBVIOUS
<1>2. f \in [1 .. Len(s) -> Turn]
  BY <1>1
<1> QED BY <1>1, <1>2, SeqDef

LEMMA EndedType ==
    ASSUME NEW t \in Turn, NEW end \in TurnEnds
    PROVE  EndedWith(t, end) \in Turn /\ ~EndedWith(t, end).open
BY DEF EndedWith, Turn

LEMMA ReopenedType ==
    ASSUME NEW t \in Turn
    PROVE  Reopened(t) \in Turn
BY DEF Reopened, Turn

LEMMA HoldingType ==
    ASSUME NEW t \in Turn, NEW e
    PROVE  Holding(t, e) \in Turn /\ Holding(t, e).open = t.open
BY DEF Holding, Turn

LEMMA FreshType == Fresh \in Turn /\ Fresh.open
BY DEF Fresh, Turn, TurnEnds

\* Selecting a turn keeps the turns typed and leaves one open at most.
LEMMA SelectType ==
    ASSUME turns \in Seq(Turn), NEW e
    PROVE  /\ SelectedTurns(e) \in Seq(Turn)
           /\ TurnOf(e) \in Nat
           /\ OneTurnOpen => \A i, j \in DOMAIN SelectedTurns(e) :
                SelectedTurns(e)[i].open /\ SelectedTurns(e)[j].open => i = j
<1> DEFINE closed == [i \in DOMAIN turns |->
                        IF turns[i].open THEN EndedWith(turns[i], "response_finished")
                        ELSE turns[i]]
<1>1. DOMAIN turns = 1 .. Len(turns) /\ Len(turns) \in Nat /\ \A i \in DOMAIN turns : turns[i] \in Turn
  OBVIOUS
<1>2. \A i \in DOMAIN turns : closed[i] \in Turn /\ ~closed[i].open
  BY <1>1, EndedType DEF TurnEnds, Turn
<1>3. closed \in Seq(Turn) /\ Len(closed) = Len(turns)
  <2>1. closed \in Seq(Turn)
    BY <1>2, SameLength, Zenon
  <2> QED BY <1>1, <2>1
<1>4. TurnOf(e) \in Nat
  BY <1>1 DEF TurnOf, CurrentTurn, OpenTurns
<1>5. CASE OpensTurn(e)
  <2>1. SelectedTurns(e) = Append(closed, Fresh)
    BY <1>5 DEF SelectedTurns
  <2> HIDE DEF closed
  <2>2. Append(closed, Fresh) \in Seq(Turn)
    BY <1>3, FreshType
  <2>3. \A i \in DOMAIN Append(closed, Fresh) : Append(closed, Fresh)[i].open => i = Len(turns) + 1
    BY <1>1, <1>2, <1>3
  <2> QED BY <1>4, <2>1, <2>2, <2>3
<1>6. CASE ~OpensTurn(e) /\ ReopensTurn(e)
  <2> DEFINE last == Len(turns)
             again == [turns EXCEPT ![last] = Reopened(@)]
  <2>1. SelectedTurns(e) = again
    BY <1>6 DEF SelectedTurns
  <2>2. last \in DOMAIN turns
    BY <1>1, <1>6 DEF ReopensTurn
  <2>3. \A i \in DOMAIN turns : again[i] \in Turn
    BY <1>1, <2>2, ReopenedType
  <2>4. again \in Seq(Turn)
    BY <2>3, SameLength, Zenon
  <2>5. \A i \in DOMAIN turns : again[i].open => i = last
    BY <1>6, <1>1, <2>2 DEF ReopensTurn, OpenTurns
  <2> QED BY <1>4, <2>1, <2>4, <2>5
<1>7. CASE ~OpensTurn(e) /\ ~ReopensTurn(e)
  <2>1. SelectedTurns(e) = turns
    BY <1>7 DEF SelectedTurns
  <2> QED BY <1>4, <2>1 DEF OneTurnOpen, OpenTurns
<1> QED BY <1>5, <1>6, <1>7

\* Storing an event and ending its turn keep the turns typed and open none.
LEMMA TurnsType ==
    ASSUME turns \in Seq(Turn), NEW e
    PROVE  /\ TurnsAfter(e) \in Seq(Turn)
           /\ DOMAIN TurnsAfter(e) = DOMAIN SelectedTurns(e)
           /\ \A i \in DOMAIN SelectedTurns(e) : TurnsAfter(e)[i].open => SelectedTurns(e)[i].open
<1> DEFINE s == SelectedTurns(e)
           r == RecordedTurns(e)
<1>1. s \in Seq(Turn) /\ \A i \in DOMAIN s : s[i] \in Turn
  BY SelectType
<1>2. DOMAIN r = DOMAIN s /\ \A i \in DOMAIN s : r[i] \in Turn /\ r[i].open = s[i].open
  <2>1. SUFFICES ASSUME NEW i \in DOMAIN s
                 PROVE  r[i] \in Turn /\ r[i].open = s[i].open
    BY DEF RecordedTurns
  <2>2. s[i] \in Turn
    BY <1>1
  <2> QED BY <2>1, <2>2, HoldingType DEF RecordedTurns
<1> HIDE DEF s, r
<1>3. \A i \in DOMAIN s : /\ TurnsAfter(e)[i] \in Turn
                          /\ TurnsAfter(e)[i].open => r[i].open
  <2>1. TurnEnd(e) \in TurnEnds
    BY DEF TurnEnd, TurnEnds
  <2>2. \A t \in Turn : EndedWithSession(t) \in Turn /\ ~EndedWithSession(t).open
    BY EndedType DEF EndedWithSession, TurnEnds
  <2>3. TurnsAfter(e) = [i \in DOMAIN s |->
            IF EndsTurn(e) /\ i = TurnOf(e) THEN EndedWith(r[i], TurnEnd(e))
            ELSE IF e.kind = "SessionEnded" /\ MayUpdate(e) /\ r[i].open
            THEN EndedWithSession(r[i])
            ELSE r[i]]
    BY <1>2 DEF TurnsAfter, r
  <2> QED BY <1>2, <2>1, <2>2, <2>3, EndedType
<1>4. DOMAIN TurnsAfter(e) = DOMAIN s
  BY <1>2 DEF TurnsAfter, r
<1>5. TurnsAfter(e) = [i \in DOMAIN s |-> TurnsAfter(e)[i]]
  BY <1>2 DEF TurnsAfter, r
<1>6. TurnsAfter(e) \in Seq(Turn)
  BY <1>1, <1>3, <1>5, SameLength, Zenon
<1> QED BY <1>2, <1>3, <1>4, <1>6 DEF s

-----------------------------------------------------------------------------
(* Each operation keeps the rows typed, the interval in step with the state,  *)
(* and one turn open at most.                                                 *)

SessionType ==
    [exists : BOOLEAN, state : States, owner : {"none", "terminal", "provider"},
     interrupted : BOOLEAN, last : Nat, background : BOOLEAN, meaningful : BOOLEAN]

ReminderType == [kind : {"completion", "error"}, turn : Nat, at : Nat]

ProjectionInv == ProjectionTypeOK /\ IntervalFitsState /\ OneTurnOpen

\* Every operation of the store, with a clock reading it may be called with.
ProjectionStep ==
    \/ \E e \in Event : Ingest(e)
    \/ \E now \in Nat : SheetSeen(now)
    \/ \E now \in Nat : \E active : SheetGone(active, now)
    \/ \E now \in Nat : \E active : SyncExecution(active, now)
    \/ MarkUnconfirmed(watched.last)
    \/ \E turn \in native : DismissSheet(turn)
    \/ \E r \in reminders : Acknowledge(r)
    \/ UNCHANGED projectionVars

\* Opening, moving or closing the interval with the state keeps the two in step.
LEMMA CountedFits ==
    ASSUME ProjectionTypeOK, NEW turn \in Nat, NEW next
    PROVE  /\ Counted(turn, next) \in [open : BOOLEAN, turn : Nat]
           /\ Counted(turn, next).open <=> next \in Active
BY DEF Counted, ProjectionTypeOK, Closed

\* Setting the state keeps the row typed.
LEMMA SetStateType ==
    ASSUME ProjectionTypeOK, NEW state \in States, NEW owner \in {"none", "terminal", "provider"},
           NEW last \in Nat, SetState(state, owner, last)
    PROVE  session' \in SessionType /\ session'.state = state
BY DEF SetState, ProjectionTypeOK, SessionType

LEMMA LaterType ==
    ASSUME ProjectionTypeOK, NEW now \in Nat
    PROVE  Later(now) \in Nat
BY DEF Later, ProjectionTypeOK

LEMMA NextStateType ==
    ASSUME ProjectionTypeOK, NEW e \in Event
    PROVE  NextState(e) \in States /\ NextOwner(e) \in {"none", "terminal", "provider"}
<1>1. session.state \in States /\ session.owner \in {"none", "terminal", "provider"}
  BY DEF ProjectionTypeOK
<1>2. Projected(e) \in States
  BY <1>1 DEF Projected, States, Active
<1>3. NextState(e) \in States
  BY <1>1, <1>2 DEF NextState, States
<1>4. NextOwner(e) \in {"none", "terminal", "provider"}
  BY <1>1 DEF NextOwner
<1> QED BY <1>3, <1>4

LEMMA SessionAfterType ==
    ASSUME ProjectionTypeOK, NEW e \in Event
    PROVE  /\ SessionAfter(e) \in SessionType
           /\ SessionAfter(e).state = IF MayUpdate(e) THEN NextState(e) ELSE session.state
<1> DEFINE row == [session EXCEPT !.exists = TRUE, !.meaningful = @ \/ e.kind \in Meaningful]
<1>1. session \in SessionType /\ e.at \in Nat
  BY DEF ProjectionTypeOK, SessionType, Event
<1>2. row \in SessionType /\ row.state = session.state
  BY <1>1 DEF SessionType
<1> HIDE DEF row
<1>3. NextBackground(e) \in BOOLEAN
  <2>1. session.background \in BOOLEAN
    BY <1>1 DEF SessionType
  <2> QED BY <2>1, Zenon DEF NextBackground
<1>4. CASE MayUpdate(e)
  <2> DEFINE interrupted == e.kind = "Interrupted"
             background == NextBackground(e)
             state == NextState(e)
             owner == NextOwner(e)
             at == e.at
  <2>1. SessionAfter(e) =
           [row EXCEPT !.state = state, !.owner = owner, !.interrupted = interrupted,
                       !.last = at, !.background = background]
    BY <1>4, Zenon DEF SessionAfter, row
  <2>2. /\ interrupted \in BOOLEAN /\ background \in BOOLEAN /\ at \in Nat
        /\ state \in States /\ owner \in {"none", "terminal", "provider"}
    BY <1>1, <1>3, NextStateType
  <2> HIDE DEF interrupted, background, state, owner, at
  <2>3. SessionAfter(e) \in SessionType /\ SessionAfter(e).state = state
    BY <1>2, <2>1, <2>2 DEF SessionType
  <2> QED BY <1>4, <2>3 DEF state
<1>5. CASE ~MayUpdate(e)
  BY <1>2, <1>5 DEF SessionAfter, row
<1> QED BY <1>4, <1>5

LEMMA RecordKeeps ==
    ASSUME ProjectionInv, NEW e \in Event, Record(e)
    PROVE  ProjectionInv'
<1>1. turns \in Seq(Turn) /\ TurnOf(e) \in Nat
  BY SelectType DEF ProjectionInv, ProjectionTypeOK
<1>2. session' \in SessionType
      /\ session'.state = IF MayUpdate(e) THEN NextState(e) ELSE session.state
  BY SessionAfterType DEF Record, ProjectionInv
<1>3. /\ interval' \in [open : BOOLEAN, turn : Nat]
      /\ interval'.open <=> session'.state \in Active
  BY <1>1, <1>2, CountedFits DEF Record, ProjectionInv, ProjectionTypeOK, IntervalFitsState
<1>4. turns' \in Seq(Turn)
  BY <1>1, TurnsType DEF Record
<1>5. OneTurnOpen'
  <2>1. \A i, j \in DOMAIN SelectedTurns(e) :
           SelectedTurns(e)[i].open /\ SelectedTurns(e)[j].open => i = j
    BY <1>1, SelectType DEF ProjectionInv
  <2>2. /\ DOMAIN turns' = DOMAIN SelectedTurns(e)
        /\ \A i \in DOMAIN turns' : turns'[i].open => SelectedTurns(e)[i].open
    BY <1>1, TurnsType DEF Record
  <2> QED BY <2>1, <2>2 DEF OneTurnOpen, OpenTurns
<1>6. native' \subseteq Nat
  BY <1>1 DEF Record, NativeAfter, ProjectionInv, ProjectionTypeOK
<1>7. reminders' \subseteq ReminderType
  BY <1>1 DEF Record, RemindersAfter, NewReminders, ReminderType, Event, ProjectionInv, ProjectionTypeOK
<1>8. /\ completed' \subseteq Nat /\ ids' \subseteq Ids /\ keys' \subseteq Kinds \X TurnIds
      /\ ignored' \in BOOLEAN
  <2>1. completed' \subseteq Nat /\ ids' \subseteq Ids /\ ignored' \in BOOLEAN
    BY <1>1 DEF Record, Event, ProjectionInv, ProjectionTypeOK
  <2>2. Key(e) \in Kinds \X TurnIds
    BY DEF Key, Event
  <2> QED BY <2>1, <2>2 DEF Record, ProjectionInv, ProjectionTypeOK
<1> QED
  BY <1>2, <1>3, <1>4, <1>5, <1>6, <1>7, <1>8
  DEF ProjectionInv, ProjectionTypeOK, IntervalFitsState, SessionType, ReminderType

LEMMA SuppressKeeps ==
    ASSUME ProjectionInv, NEW e \in Event, Suppress(e)
    PROVE  ProjectionInv'
BY DEF Suppress, ProjectionInv, ProjectionTypeOK, IntervalFitsState, OneTurnOpen, OpenTurns,
       Absent, Closed, States, Active

\* Operations that only set the state: the interval is closed or counted with it.
LEMMA StateKeeps ==
    ASSUME ProjectionInv, UNCHANGED <<turns, ids, keys, ignored>>,
           session' \in SessionType, interval' \in [open : BOOLEAN, turn : Nat],
           interval'.open <=> session'.state \in Active,
           native' \subseteq Nat, reminders' \subseteq ReminderType, completed' \subseteq Nat
    PROVE  ProjectionInv'
BY DEF ProjectionInv, ProjectionTypeOK, IntervalFitsState, OneTurnOpen, OpenTurns, SessionType,
       ReminderType

LEMMA ClosedType == Closed \in [open : BOOLEAN, turn : Nat] /\ ~Closed.open
BY DEF Closed

LEMMA ProjectionKeeps ==
    ASSUME ProjectionInv, ProjectionStep, watched.last \in Nat
    PROVE  ProjectionInv'
<1> USE DEF ProjectionInv
<1>a. /\ session \in SessionType /\ interval \in [open : BOOLEAN, turn : Nat]
      /\ native \subseteq Nat /\ reminders \subseteq ReminderType /\ completed \subseteq Nat
      /\ session.last \in Nat /\ session.state \in States
      /\ interval.open <=> session.state \in Active
  BY DEF ProjectionTypeOK, SessionType, ReminderType, IntervalFitsState
<1>b. /\ {"thinking", "awaiting_approval", "waiting_for_event", "response_finished"} \subseteq States
      /\ "thinking" \in Active
      /\ Active \cap {"awaiting_approval", "waiting_for_event", "response_finished"} = {}
  BY DEF States, Active
<1>1. ASSUME NEW e \in Event, Ingest(e)
      PROVE  ProjectionInv'
  <2>1. CASE Drop(e)
    BY <2>1 DEF Drop, projectionVars, ProjectionTypeOK, IntervalFitsState, OneTurnOpen, OpenTurns
  <2> QED BY <1>1, <2>1, RecordKeeps, SuppressKeeps DEF Ingest
<1>2. ASSUME NEW now \in Nat, SheetSeen(now)
      PROVE  ProjectionInv'
  <2>1. session' \in SessionType /\ session'.state \notin Active
    BY <1>2, <1>a, <1>b, SetStateType, LaterType DEF SheetSeen
  <2> QED BY <1>2, <1>a, <2>1, ClosedType, StateKeeps DEF SheetSeen
<1>3. ASSUME NEW now \in Nat, NEW active, SheetGone(active, now)
      PROVE  ProjectionInv'
  <2>1. CASE session.owner = "none"
    BY <1>3, <1>a, <2>1, StateKeeps DEF SheetGone
  <2>2. CASE session.owner # "none"
    <3> DEFINE next == IF active THEN "thinking" ELSE "response_finished"
    <3>1. PICK turn \in SheetTurns :
            /\ SetState(next, "none", Later(now))
            /\ interval' = Counted(turn, next)
            /\ IF ~active /\ session.meaningful /\ turn \notin completed
               THEN /\ reminders' =
                         reminders \cup {[kind |-> "completion", turn |-> turn, at |-> now]}
                    /\ completed' = completed \cup {turn}
               ELSE UNCHANGED <<reminders, completed>>
      BY <1>3, <2>2 DEF SheetGone
    <3>2. turn \in Nat
      BY <1>a DEF SheetTurns
    <3>3. session' \in SessionType /\ session'.state = next
      BY <1>b, <3>1, SetStateType, LaterType
    <3>4. reminders' \subseteq ReminderType /\ completed' \subseteq Nat
      <4>1. [kind |-> "completion", turn |-> turn, at |-> now] \in ReminderType
        BY <1>3, <3>2 DEF ReminderType
      <4> QED BY <1>a, <3>1, <3>2, <4>1
    <3>5. /\ interval' \in [open : BOOLEAN, turn : Nat]
          /\ interval'.open <=> session'.state \in Active
      BY <3>1, <3>2, <3>3, CountedFits
    <3> QED BY <1>3, <3>3, <3>4, <3>5, StateKeeps DEF SheetGone
  <2> QED BY <2>1, <2>2
<1>4. ASSUME NEW now \in Nat, NEW active, SyncExecution(active, now)
      PROVE  ProjectionInv'
  <2>1. PICK next \in States :
          /\ IF next # session.state THEN SetState(next, "none", Later(now)) ELSE UNCHANGED session
          /\ interval' = Counted(CurrentTurn, next)
    BY <1>4, <1>a, <1>b DEF SyncExecution
  <2>2. CurrentTurn \in Nat
    BY DEF CurrentTurn, OpenTurns, ProjectionTypeOK
  <2>3. session' \in SessionType /\ session'.state = next
    BY <1>a, <2>1, SetStateType, LaterType
  <2>4. /\ interval' \in [open : BOOLEAN, turn : Nat]
        /\ interval'.open <=> session'.state \in Active
    BY <2>1, <2>2, <2>3, CountedFits
  <2> QED BY <1>4, <1>a, <2>3, <2>4, StateKeeps DEF SyncExecution
<1>5. ASSUME MarkUnconfirmed(watched.last)
      PROVE  ProjectionInv'
  <2>1. session' \in SessionType /\ session'.state \notin Active
    BY <1>5, <1>a, <1>b, SetStateType DEF MarkUnconfirmed
  <2> QED BY <1>5, <1>a, <2>1, ClosedType, StateKeeps DEF MarkUnconfirmed
<1>6. ASSUME NEW turn \in native, DismissSheet(turn)
      PROVE  ProjectionInv'
  <2>1. CASE native = {turn} /\ session.state = "awaiting_approval"
    <3>1. session' \in SessionType /\ session'.state \notin Active
      BY <1>6, <1>a, <1>b, <2>1, SetStateType DEF DismissSheet
    <3> QED BY <1>6, <1>a, <2>1, <3>1, ClosedType, StateKeeps DEF DismissSheet
  <2> QED BY <1>6, <1>a, <2>1, StateKeeps DEF DismissSheet
<1>7. ASSUME NEW r \in reminders, Acknowledge(r)
      PROVE  ProjectionInv'
  <2>1. CASE native = {} /\ session.state = "awaiting_approval"
    <3>1. session' \in SessionType /\ session'.state \notin Active
      BY <1>7, <1>a, <1>b, <2>1, SetStateType DEF Acknowledge
    <3> QED BY <1>7, <1>a, <2>1, <3>1, ClosedType, StateKeeps DEF Acknowledge
  <2> QED BY <1>7, <1>a, <2>1, StateKeeps DEF Acknowledge
<1>8. CASE UNCHANGED projectionVars
  BY <1>8 DEF projectionVars, ProjectionTypeOK, IntervalFitsState, OneTurnOpen, OpenTurns
<1> QED BY <1>1, <1>2, <1>3, <1>4, <1>5, <1>6, <1>7, <1>8 DEF ProjectionStep

-----------------------------------------------------------------------------
(* The feed *)

FeedInv == FeedTypeOK /\ IntervalFitsState /\ OneTurnOpen

HistoryType ==
    [lost : SUBSET Ids, known : SUBSET Ids, stored : [Ids -> Nat],
     mishap : 0 .. MaxEvents, anchor : 0 .. MaxEvents]

LEMMA NowType ==
    ASSUME FeedTypeOK
    PROVE  Now \in Nat
BY DEF Now, FeedTypeOK

\* Every step of the feed is an operation of the store or none.
LEMMA FeedProjects ==
    ASSUME FeedTypeOK, FeedNext
    PROVE  ProjectionStep
<1>1. Now \in Nat
  BY NowType
<1>2. hooks \subseteq Event /\ threads \subseteq Event /\ spool \subseteq Event /\ listed \subseteq Event
  BY DEF FeedTypeOK
<1>3. CASE AgentStep
  BY <1>3
  DEF AgentStep, Prompt, Stop, GoOn, CodexSteps, ClaudeSteps, AnswerSheet, Same, Emit, ProjectionStep
<1>4. CASE AgentDies
  BY <1>4 DEF AgentDies, ProjectionStep
<1>5. CASE HookStep
  BY <1>5 DEF HookStep, Send, Spool, ProjectionStep
<1>6. CASE RuntimeStep
  BY <1>2, <1>6 DEF RuntimeStep, Store, Replay, RemoveReplayed, Listen, ProjectionStep
<1>7. CASE StopRuntime \/ StartRuntime \/ Watch
  BY <1>7 DEF StopRuntime, StartRuntime, Watch, ProjectionStep
<1>8. CASE SyncSheet
  <2>1. SheetSeen(Now) \/ \E active : SheetGone(active, Now)
    BY <1>8, Zenon DEF SyncSheet
  <2> QED BY <1>1, <2>1 DEF ProjectionStep
<1>9. CASE SyncTurn
  <2>1. \E active : SyncExecution(active, Now)
    BY <1>9, Zenon DEF SyncTurn
  <2> QED BY <1>1, <2>1 DEF ProjectionStep
<1>10. CASE Unconfirm
  BY <1>10 DEF Unconfirm, ProjectionStep
<1>11. CASE UserStep
  BY <1>11 DEF UserStep, ProjectionStep
<1> QED
  BY <1>3, <1>4, <1>5, <1>6, <1>7, <1>8, <1>9, <1>10, <1>11 DEF FeedNext

\* What one event does to the record of what became of it.
LEMMA StoredType ==
    ASSUME FeedTypeOK, NEW e \in Event, Stored(e)
    PROVE  history' \in HistoryType
<1>1. e.id \in Ids /\ e.id \in 0 .. MaxEvents
  BY DEF Event
<1>2. agent.events \in 0 .. MaxEvents
  BY DEF FeedTypeOK
<1> DEFINE known == IF ~ignored /\ Known(e) THEN history.known \cup {e.id} ELSE history.known
           stored == [history.stored EXCEPT ![e.id] = IF IsNew(e) THEN @ + 1 ELSE @]
           mishap == IF Overtaken(e) THEN agent.events ELSE history.mishap
           anchor == IF e.kind = "PromptSubmitted" /\ ~Overtaken(e) THEN e.id ELSE history.anchor
<1>3. /\ known \in SUBSET Ids /\ stored \in [Ids -> Nat]
      /\ mishap \in 0 .. MaxEvents /\ anchor \in 0 .. MaxEvents
  <2>1. known \in SUBSET Ids
    BY <1>1 DEF FeedTypeOK
  <2>2. stored \in [Ids -> Nat]
    <3>1. history.stored \in [Ids -> Nat]
      BY DEF FeedTypeOK, HistoryType
    <3>2. history.stored[e.id] \in Nat /\ history.stored[e.id] + 1 \in Nat
      BY <1>1, <3>1
    <3>3. (IF IsNew(e) THEN history.stored[e.id] + 1 ELSE history.stored[e.id]) \in Nat
      BY <3>2
    <3> QED BY <1>1, <3>1, <3>3
  <2>3. mishap \in 0 .. MaxEvents /\ anchor \in 0 .. MaxEvents
    BY <1>1, <1>2 DEF FeedTypeOK
  <2> QED BY <2>1, <2>2, <2>3
<1>4. history' = [history EXCEPT !.known = known, !.stored = stored, !.mishap = mishap, !.anchor = anchor]
  BY DEF Stored
<1> HIDE DEF known, stored, mishap, anchor
<1> QED BY <1>3, <1>4 DEF FeedTypeOK, HistoryType

\* Emitting an event, whatever it is.
LEMMA EmitType ==
    ASSUME FeedTypeOK, NEW kind \in Kinds, NEW mark \in Marks, NEW phase \in Phases,
           NEW turn \in TurnIds, NEW again \in BOOLEAN, Emit(kind, mark, phase, turn, again)
    PROVE  /\ hooks' \subseteq Event
           /\ agent' \in [provider : Providers, phase : Phases, turn : TurnIds,
                          events : 0 .. MaxEvents, again : BOOLEAN]
           /\ hooks \subseteq hooks'
           /\ 1 .. agent'.events \subseteq (1 .. agent.events) \cup {e.id : e \in hooks'}
           /\ UNCHANGED <<projectionVars, threads, spool, runtime, listed, replayed, watched, history>>
<1> DEFINE n == agent.events + 1
<1>1. n \in Ids /\ n \in 0 .. MaxEvents /\ TimeOf[n] \in Nat /\ agent.provider \in Providers
  BY DEF FeedTypeOK, Emit
<1>2. hooks' \subseteq Event
  BY <1>1 DEF FeedTypeOK, Emit, Event
<1>3. agent' = [agent EXCEPT !.phase = phase, !.turn = turn, !.events = n, !.again = again]
  BY DEF Emit
<1>5. hooks \subseteq hooks' /\ n \in {e.id : e \in hooks'}
  BY DEF Emit
<1>6. 1 .. n \subseteq (1 .. agent.events) \cup {n}
  BY DEF FeedTypeOK
<1> HIDE DEF n
<1>4. agent' \in [provider : Providers, phase : Phases, turn : TurnIds,
                  events : 0 .. MaxEvents, again : BOOLEAN]
  BY <1>1, <1>3 DEF FeedTypeOK
<1>7. agent'.events = n
  BY <1>3 DEF FeedTypeOK
<1> QED BY <1>2, <1>4, <1>5, <1>6, <1>7 DEF Emit

\* Every step of the Agent emits a well typed event, or only changes its phase.
LEMMA AgentStepType ==
    ASSUME FeedTypeOK, AgentStep
    PROVE  /\ hooks' \subseteq Event
           /\ agent' \in [provider : Providers, phase : Phases, turn : TurnIds,
                          events : 0 .. MaxEvents, again : BOOLEAN]
           /\ hooks \subseteq hooks'
           /\ 1 .. agent'.events \subseteq (1 .. agent.events) \cup {e.id : e \in hooks'}
           /\ UNCHANGED <<projectionVars, threads, spool, runtime, listed, replayed, watched, history>>
<1>1. agent.turn \in TurnIds /\ agent.again \in BOOLEAN /\ agent.phase \in Phases
  BY DEF FeedTypeOK
<1>2. \/ AnswerSheet
      \/ \E kind \in Kinds, mark \in Marks, phase \in Phases, turn \in TurnIds, again \in BOOLEAN :
           Emit(kind, mark, phase, turn, again)
  <2>1. ASSUME NEW kind \in Kinds, NEW mark \in Marks, NEW phase \in Phases, Same(kind, mark, phase)
        PROVE  \E turn \in TurnIds, again \in BOOLEAN : Emit(kind, mark, phase, turn, again)
    BY <1>1, <2>1 DEF Same
  <2>2. CASE Prompt
    BY <2>2 DEF Prompt, Kinds, Marks, Phases
  <2>3. CASE GoOn
    BY <1>1, <2>3 DEF GoOn, Kinds, Marks, Phases
  <2>4. CASE Stop
    BY <2>1, <2>4 DEF Stop, Kinds, Marks, Phases
  <2>5. CASE CodexSteps
    BY <1>1, <2>1, <2>5 DEF CodexSteps, Kinds, Marks, Phases
  <2>6. CASE ClaudeSteps
    BY <1>1, <2>1, <2>6 DEF ClaudeSteps, Kinds, Marks, Phases
  <2>7. CASE AgentStep /\ ~(Prompt \/ GoOn \/ Stop \/ CodexSteps \/ ClaudeSteps \/ AnswerSheet)
    BY <1>1, <2>1, <2>7 DEF AgentStep, Kinds, Marks, Phases
  <2> QED BY <2>2, <2>3, <2>4, <2>5, <2>6, <2>7
<1>3. CASE AnswerSheet
  BY <1>3 DEF AnswerSheet, FeedTypeOK, Phases
<1> QED BY <1>2, <1>3, EmitType

LEMMA PrunedKeeps ==
    ASSUME NEW files
    PROVE  Pruned(files) \subseteq files
BY DEF Pruned

LEMMA DurableType ==
    ASSUME NEW e \in Event
    PROVE  Durable(e) \in Event /\ Durable(e).id = e.id
BY DEF Durable, Event, Marks

\* What is lost is recorded with its identity.
LEMMA LoseType ==
    ASSUME FeedTypeOK, NEW events, events \subseteq Event, history' = Lose(events)
    PROVE  /\ history' \in HistoryType
           /\ history'.lost = history.lost \cup {e.id : e \in events}
           /\ history'.known = history.known /\ history'.stored = history.stored
<1>1. history \in HistoryType
  BY DEF FeedTypeOK, HistoryType
<1> DEFINE gone == {e.id : e \in events}
           mishap == IF events = {} THEN history.mishap ELSE agent.events
<1>2. gone \subseteq Ids /\ mishap \in 0 .. MaxEvents
  BY DEF FeedTypeOK, Event
<1>3. history' = [history EXCEPT !.lost = @ \cup gone, !.mishap = mishap]
  BY DEF Lose
<1>4. gone = {e.id : e \in events}
  OBVIOUS
<1> HIDE DEF gone, mishap
<1>5. history' \in HistoryType
  BY <1>1, <1>2, <1>3 DEF HistoryType
<1>6. /\ history'.lost = history.lost \cup gone
      /\ history'.known = history.known /\ history'.stored = history.stored
  BY <1>1, <1>3 DEF HistoryType
<1> QED BY <1>4, <1>5, <1>6

LEMMA FeedKeeps ==
    ASSUME FeedInv, FeedNext
    PROVE  FeedInv'
<1> USE DEF FeedInv
<1> DEFINE Own ==
        /\ agent \in [provider : Providers, phase : Phases, turn : TurnIds,
                      events : 0 .. MaxEvents, again : BOOLEAN]
        /\ hooks \subseteq Event /\ threads \subseteq Event /\ spool \subseteq Event
        /\ runtime \in [phase : {"down", "replay", "up"}, stops : 0 .. MaxStops, sheet : BOOLEAN]
        /\ listed \subseteq Event /\ replayed \in Event \cup {NoEvent}
        /\ watched \in [on : BOOLEAN, last : Nat, ids : SUBSET Ids]
        /\ history \in HistoryType
<1>1. ProjectionInv'
  BY FeedProjects, ProjectionKeeps DEF ProjectionInv, FeedTypeOK
<1>2. Own
  BY DEF FeedTypeOK, HistoryType
<1>3. SUFFICES Own'
  BY <1>1 DEF ProjectionInv, FeedTypeOK, HistoryType
<1>4. CASE AgentStep
  BY <1>2, <1>4, AgentStepType
<1>5. CASE AgentDies
  BY <1>2, <1>5 DEF AgentDies, Phases
<1>6. CASE HookStep
  <2>1. ASSUME NEW e \in hooks, Send(e)
        PROVE  Own'
    BY <1>2, <2>1 DEF Send
  <2>2. ASSUME NEW e \in hooks, Spool(e)
        PROVE  Own'
    <3> DEFINE files == spool \cup {Durable(e)}
    <3>1. files \subseteq Event
      BY <1>2, DurableType
    <3>2. spool' \subseteq Event
      BY <2>2, <3>1, PrunedKeeps DEF Spool
    <3>3. history' \in HistoryType
      BY <2>2, <3>1, LoseType DEF Spool
    <3> QED BY <1>2, <2>2, <3>2, <3>3 DEF Spool
  <2> QED BY <1>6, <2>1, <2>2 DEF HookStep
<1>7. CASE RuntimeStep
  <2>1. ASSUME NEW e \in threads, Store(e)
        PROVE  Own'
    BY <1>2, <2>1, StoredType DEF Store
  <2>2. ASSUME NEW e \in listed, Replay(e)
        PROVE  Own'
    BY <1>2, <2>2, StoredType DEF Replay
  <2>3. CASE RemoveReplayed
    BY <1>2, <2>3 DEF RemoveReplayed
  <2>4. CASE Listen
    BY <1>2, <2>4 DEF Listen
  <2> QED BY <1>7, <2>1, <2>2, <2>3, <2>4 DEF RuntimeStep
<1>8. CASE StopRuntime
  <2>1. history' \in HistoryType
    BY <1>2, <1>8, LoseType DEF StopRuntime
  <2>2. runtime' \in [phase : {"down", "replay", "up"}, stops : 0 .. MaxStops, sheet : BOOLEAN]
    BY <1>2, <1>8 DEF StopRuntime
  <2> QED BY <1>2, <1>8, <2>1, <2>2 DEF StopRuntime, NotWatched
<1>9. CASE StartRuntime
  BY <1>2, <1>9 DEF StartRuntime
<1>10. CASE SyncSheet
  BY <1>2, <1>10 DEF SyncSheet
<1>11. CASE SyncTurn
  BY <1>2, <1>11 DEF SyncTurn, feedVars
<1>12. CASE Watch
  <2>1. session.last \in Nat /\ ids \in SUBSET Ids
    BY DEF FeedTypeOK, ProjectionTypeOK
  <2> QED BY <1>2, <1>12, <2>1 DEF Watch
<1>13. CASE Unconfirm
  BY <1>2, <1>13 DEF Unconfirm, NotWatched
<1>14. CASE UserStep
  BY <1>2, <1>14 DEF UserStep, feedVars
<1> QED
  BY <1>4, <1>5, <1>6, <1>7, <1>8, <1>9, <1>10, <1>11, <1>12, <1>13, <1>14 DEF FeedNext

LEMMA FeedStutters ==
    ASSUME UNCHANGED vars
    PROVE  /\ FeedInv => FeedInv'
           /\ UNCHANGED <<session, ids, ignored, agent, hooks, threads, spool, replayed, history>>
<1>1. UNCHANGED projectionVars /\ UNCHANGED feedVars
  BY DEF vars
<1>2. ProjectionTypeOK => ProjectionTypeOK'
  BY <1>1 DEF projectionVars, ProjectionTypeOK
<1>3. FeedTypeOK => FeedTypeOK'
  BY <1>1, <1>2 DEF feedVars, FeedTypeOK
<1>4. (IntervalFitsState => IntervalFitsState') /\ (OneTurnOpen => OneTurnOpen')
  BY <1>1 DEF projectionVars, IntervalFitsState, OneTurnOpen, OpenTurns
<1> QED BY <1>1, <1>3, <1>4 DEF FeedInv, projectionVars, feedVars

LEMMA FeedStarts == FeedInit => FeedInv
<1> SUFFICES ASSUME FeedInit PROVE FeedInv
  OBVIOUS
<1>1. ProjectionTypeOK /\ IntervalFitsState /\ OneTurnOpen
  <2>1. turns \in Seq(Turn) /\ OneTurnOpen
    BY DEF FeedInit, ProjectionInit, OneTurnOpen, OpenTurns
  <2>2. session \in SessionType /\ IntervalFitsState /\ interval \in [open : BOOLEAN, turn : Nat]
    BY DEF FeedInit, ProjectionInit, IntervalFitsState, SessionType, Absent, Closed, States, Active
  <2> QED BY <2>1, <2>2 DEF FeedInit, ProjectionInit, ProjectionTypeOK, SessionType
<1>2. history \in HistoryType
  BY DEF FeedInit, HistoryType
<1> QED
  BY <1>1, <1>2 DEF FeedInit, FeedInv, FeedTypeOK, HistoryType, Phases, NotWatched

LEMMA FeedInvariant == FeedSpec => []FeedInv
<1>1. FeedInv /\ [FeedNext]_vars => FeedInv'
  BY FeedKeeps, FeedStutters
<1> QED BY <1>1, FeedStarts, PTL DEF FeedSpec

\* Rows, events on their way and the state of the Runtime stay well typed, for
\* any number of events and any number of ends of the Runtime.
THEOREM FeedTypes == FeedSpec => []FeedTypeOK
<1>1. FeedInv => FeedTypeOK
  BY DEF FeedInv
<1> QED BY <1>1, FeedInvariant, PTL

\* Whatever order events, reports of the connector, verdicts about the process
\* and the user come in, the Agent is counted as running exactly while its
\* session is shown at work.
THEOREM FeedIntervals == FeedSpec => []IntervalFitsState
<1>1. FeedInv => IntervalFitsState
  BY DEF FeedInv
<1> QED BY <1>1, FeedInvariant, PTL

\* No order of events leaves two turns of a session open.
THEOREM FeedTurns == FeedSpec => []OneTurnOpen
<1>1. FeedInv => OneTurnOpen
  BY DEF FeedInv
<1> QED BY <1>1, FeedInvariant, PTL

-----------------------------------------------------------------------------
(* Nothing is stored twice, nothing is lost on the way                        *)

\* An event that was stored is known by its identity, or its session is ignored.
OnceInv == \A i \in Ids : history.stored[i] <= 1 /\ (history.stored[i] = 1 => i \in ids \/ ignored)

\* A file the replay has stored may be removed: its event is in the store.
KeptInv ==
    ignored \/ /\ 1 .. agent.events \subseteq ids \cup Underway \cup history.lost \cup history.known
               /\ replayed # NoEvent => replayed.id \in ids \cup history.known

\* Storing an event records it once, or finds it known, or drops its session.
LEMMA StoreRecords ==
    ASSUME FeedTypeOK, NEW e \in Event, Ingest(e), Stored(e)
    PROVE  /\ history' \in HistoryType
           /\ ignored => ignored'
           /\ \/ ignored'
              \/ ids \subseteq ids' /\ e.id \in ids' \cup history'.known
           /\ history'.lost = history.lost /\ history.known \subseteq history'.known
           /\ OnceInv => OnceInv'
<1>1. e.id \in Ids /\ history \in HistoryType
  BY DEF Event, FeedTypeOK, HistoryType
<1>2. /\ history'.lost = history.lost /\ history.known \subseteq history'.known
      /\ history'.known = IF ~ignored /\ Known(e) THEN history.known \cup {e.id} ELSE history.known
      /\ history'.stored = [history.stored EXCEPT ![e.id] = IF IsNew(e) THEN @ + 1 ELSE @]
  BY <1>1 DEF Stored, HistoryType
<1>3. CASE Record(e)
  <2>1. IsNew(e) /\ ids' = ids \cup {e.id} /\ ignored' = ignored /\ ~ignored /\ e.id \notin ids
    BY <1>3 DEF Record, IsNew, Known
  <2>2. OnceInv => OnceInv'
    <3> SUFFICES ASSUME OnceInv, NEW i \in Ids
                 PROVE  history'.stored[i] <= 1 /\ (history'.stored[i] = 1 => i \in ids' \/ ignored')
      BY DEF OnceInv
    <3>1. history.stored \in [Ids -> Nat]
      BY <1>1 DEF HistoryType
    <3>2. history.stored[i] <= 1 /\ (history.stored[i] = 1 => i \in ids \/ ignored)
      BY DEF OnceInv
    <3> QED BY <1>1, <1>2, <2>1, <3>1, <3>2
  <2> QED BY <1>2, <2>1, <2>2, StoredType
<1>4. CASE Suppress(e) \/ Drop(e)
  <2>1. ~IsNew(e) /\ (ignored => ignored') /\ (ignored' \/ ids \subseteq ids')
    BY <1>4 DEF Suppress, Drop, IsNew, projectionVars
  <2>2. ignored' \/ (~ignored /\ Known(e))
    BY <1>4 DEF Suppress, Drop, projectionVars
  <2>3. history'.stored = history.stored
    BY <1>1, <1>2, <2>1 DEF HistoryType
  <2>4. OnceInv => OnceInv'
    BY <2>1, <2>3 DEF OnceInv
  <2> QED BY <1>2, <2>1, <2>2, <2>4, StoredType
<1> QED BY <1>3, <1>4 DEF Ingest

\* Every operation but the storing of an event leaves identities alone.
IdsStay == UNCHANGED <<ids, ignored>>

\* A step either stores one event, or leaves identities alone.
LEMMA StepStores ==
    ASSUME FeedTypeOK, FeedNext
    PROVE  IdsStay \/ (\E e \in threads : Store(e)) \/ (\E e \in listed : Replay(e))
<1>1. CASE AgentStep
  BY <1>1, AgentStepType DEF IdsStay, projectionVars
<1>2. CASE AgentDies \/ HookStep \/ StopRuntime \/ StartRuntime \/ Watch
  BY <1>2 DEF AgentDies, HookStep, Send, Spool, StopRuntime, StartRuntime, Watch, IdsStay, projectionVars
<1>3. CASE RuntimeStep
  BY <1>3 DEF RuntimeStep, RemoveReplayed, Listen, IdsStay, projectionVars
<1>4. CASE SyncSheet \/ SyncTurn \/ Unconfirm \/ UserStep
  BY <1>4 DEF SyncSheet, SyncTurn, Unconfirm, UserStep, SheetSeen, SheetGone, SyncExecution,
              MarkUnconfirmed, DismissSheet, Acknowledge, IdsStay, projectionVars
<1> QED BY <1>1, <1>2, <1>3, <1>4 DEF FeedNext

LEMMA OnceKeeps ==
    ASSUME FeedTypeOK, OnceInv, FeedNext
    PROVE  OnceInv'
<1>1. ASSUME NEW e \in threads, Store(e) PROVE OnceInv'
  BY <1>1, StoreRecords DEF Store, FeedTypeOK
<1>2. ASSUME NEW e \in listed, Replay(e) PROVE OnceInv'
  BY <1>2, StoreRecords DEF Replay, FeedTypeOK
<1>3. ASSUME IdsStay, ~(\E e \in threads : Store(e)), ~(\E e \in listed : Replay(e))
      PROVE  OnceInv'
  <2>1. history'.stored = history.stored
    <3>1. CASE AgentStep
      BY <3>1, AgentStepType
    <3>2. ASSUME NEW events, events \subseteq Event, history' = Lose(events)
          PROVE  history'.stored = history.stored
      BY <3>2, LoseType
    <3>3. CASE HookStep
      <4>1. ASSUME NEW e \in hooks, Spool(e) PROVE history'.stored = history.stored
        <5>1. (spool \cup {Durable(e)}) \ Pruned(spool \cup {Durable(e)}) \subseteq Event
          BY DurableType DEF FeedTypeOK
        <5> QED BY <3>2, <4>1, <5>1 DEF Spool
      <4> QED BY <3>3, <4>1 DEF HookStep, Send
    <3>4. CASE StopRuntime
      BY <3>2, <3>4 DEF StopRuntime, FeedTypeOK
    <3>5. CASE RuntimeStep
      BY <1>3, <3>5 DEF RuntimeStep, RemoveReplayed, Listen
    <3>6. CASE AgentDies \/ StartRuntime \/ Watch \/ SyncSheet \/ SyncTurn \/ Unconfirm \/ UserStep
      BY <3>6 DEF AgentDies, StartRuntime, Watch, SyncSheet, SyncTurn, Unconfirm, UserStep, feedVars
    <3> QED BY <3>1, <3>3, <3>4, <3>5, <3>6 DEF FeedNext
  <2> QED BY <1>3, <2>1 DEF IdsStay, OnceInv
<1> QED BY <1>1, <1>2, <1>3, StepStores

LEMMA OnceInvariant == FeedSpec => []OnceInv
<1>1. FeedInit => OnceInv
  BY DEF FeedInit, OnceInv
<1>2. FeedTypeOK /\ OnceInv /\ [FeedNext]_vars => OnceInv'
  BY OnceKeeps, FeedStutters DEF OnceInv
<1> QED BY <1>1, <1>2, FeedTypes, PTL DEF FeedSpec

\* No event is projected twice, however often the spool is replayed and however
\* often the Runtime ends between storing an event and removing its file.
THEOREM FeedOnce == FeedSpec => []StoredOnce
<1>1. OnceInv => StoredOnce
  BY DEF OnceInv, StoredOnce
<1> QED BY <1>1, OnceInvariant, PTL

\* The identities of the events on their way do not depend on what a file of the
\* spool keeps of them; what the spool prunes is recorded as lost.
LEMMA SpoolKeeps ==
    ASSUME FeedTypeOK, NEW e \in hooks, Spool(e)
    PROVE  /\ Underway \subseteq Underway' \cup history'.lost
           /\ history.lost \subseteq history'.lost /\ history'.known = history.known
<1> DEFINE files == spool \cup {Durable(e)}
<1>1. e \in Event /\ files \subseteq Event /\ Durable(e).id = e.id
  BY DurableType DEF FeedTypeOK
<1>2. /\ history'.lost = history.lost \cup {d.id : d \in files \ Pruned(files)}
      /\ history'.known = history.known
  BY <1>1, LoseType DEF Spool
<1>3. hooks' = hooks \ {e} /\ threads' = threads /\ spool' = Pruned(files)
  BY DEF Spool
<1> HIDE DEF files
<1>4. \A d \in files : d.id \in Underway' \cup history'.lost
  BY <1>2, <1>3 DEF Underway
<1>5. spool \subseteq files /\ Durable(e) \in files
  BY DEF files
<1> QED BY <1>1, <1>2, <1>3, <1>4, <1>5 DEF Underway

\* Steps that leave identities alone keep every event somewhere.
LEMMA WayKeeps ==
    ASSUME FeedTypeOK, KeptInv, FeedNext, IdsStay, ~ignored,
           ~(\E e \in threads : Store(e)), ~(\E e \in listed : Replay(e))
    PROVE  KeptInv'
<1> DEFINE Places == ids \cup Underway \cup history.lost \cup history.known
<1>1. /\ 1 .. agent.events \subseteq Places
      /\ replayed # NoEvent => replayed.id \in ids \cup history.known
      /\ ids' = ids
  BY DEF KeptInv, IdsStay
<1>2. CASE AgentStep
  BY <1>1, <1>2, AgentStepType DEF Underway, KeptInv
<1>3. CASE HookStep
  <2>1. ASSUME NEW e \in hooks, Send(e) PROVE KeptInv'
    BY <1>1, <2>1 DEF Send, Underway, KeptInv
  <2>2. ASSUME NEW e \in hooks, Spool(e) PROVE KeptInv'
    <3>1. UNCHANGED <<agent, replayed>>
      BY <2>2 DEF Spool
    <3> QED BY <1>1, <2>2, <3>1, SpoolKeeps DEF KeptInv
  <2> QED BY <1>3, <2>1, <2>2 DEF HookStep
<1>4. CASE StopRuntime
  <2>1. /\ history'.lost = history.lost \cup {e.id : e \in threads}
        /\ history'.known = history.known
    BY <1>4, LoseType DEF StopRuntime, FeedTypeOK
  <2>2. UNCHANGED <<agent, hooks, spool>> /\ replayed' = NoEvent
    BY <1>4 DEF StopRuntime
  <2> QED BY <1>1, <2>1, <2>2 DEF Underway, KeptInv
<1>5. CASE RuntimeStep
  <2>1. CASE RemoveReplayed
    <3>1. /\ replayed.id \in ids \cup history.known /\ spool' = spool \ {replayed}
          /\ replayed' = NoEvent /\ UNCHANGED <<agent, hooks, threads, history>>
      BY <1>1, <2>1 DEF RemoveReplayed
    <3> QED BY <1>1, <3>1 DEF Underway, KeptInv
  <2>2. CASE Listen
    BY <1>1, <2>2 DEF Listen, Underway, KeptInv
  <2> QED BY <1>5, <2>1, <2>2 DEF RuntimeStep
<1>6. CASE AgentDies
  <2>1. agent'.events = agent.events /\ UNCHANGED <<hooks, threads, spool, replayed, history>>
    BY <1>6 DEF AgentDies, FeedTypeOK
  <2> QED BY <1>1, <2>1 DEF Underway, KeptInv
<1>7. CASE StartRuntime \/ Watch \/ SyncSheet \/ SyncTurn \/ Unconfirm \/ UserStep
  <2>1. UNCHANGED <<agent, hooks, threads, spool, replayed, history>>
    BY <1>7 DEF StartRuntime, Watch, SyncSheet, SyncTurn, Unconfirm, UserStep, feedVars
  <2> QED BY <1>1, <2>1 DEF Underway, KeptInv
<1> QED BY <1>2, <1>3, <1>4, <1>5, <1>6, <1>7 DEF FeedNext

LEMMA KeptKeeps ==
    ASSUME FeedTypeOK, KeptInv, FeedNext
    PROVE  KeptInv'
<1>1. ASSUME NEW e \in threads, Store(e) PROVE KeptInv'
  <2>1. /\ ignored => ignored'
        /\ ignored' \/ (ids \subseteq ids' /\ e.id \in ids' \cup history'.known)
        /\ history'.lost = history.lost /\ history.known \subseteq history'.known
    BY <1>1, StoreRecords DEF Store, FeedTypeOK
  <2>2. threads' = threads \ {e} /\ UNCHANGED <<agent, hooks, spool, replayed>>
    BY <1>1 DEF Store
  <2> QED BY <2>1, <2>2 DEF KeptInv, Underway
<1>2. ASSUME NEW e \in listed, Replay(e) PROVE KeptInv'
  <2>1. /\ ignored => ignored'
        /\ ignored' \/ (ids \subseteq ids' /\ e.id \in ids' \cup history'.known)
        /\ history'.lost = history.lost /\ history.known \subseteq history'.known
    BY <1>2, StoreRecords DEF Replay, FeedTypeOK
  <2>2. replayed' = e /\ UNCHANGED <<agent, hooks, threads, spool>>
    BY <1>2 DEF Replay
  <2> QED BY <2>1, <2>2 DEF KeptInv, Underway
<1>3. CASE IdsStay /\ ignored
  BY <1>3 DEF IdsStay, KeptInv
<1> QED BY <1>1, <1>2, <1>3, StepStores, WayKeeps

LEMMA KeptInvariant == FeedSpec => []KeptInv
<1>1. FeedInit => KeptInv
  BY DEF FeedInit, KeptInv
<1>2. FeedTypeOK /\ KeptInv /\ [FeedNext]_vars => KeptInv'
  BY KeptKeeps, FeedStutters DEF KeptInv, Underway
<1> QED BY <1>1, <1>2, FeedTypes, PTL DEF FeedSpec

\* Only the limit of the spool and the end of a connection thread may lose an
\* event: the replay removes a file only when its event is in the store.
THEOREM FeedKeepsEvents == FeedSpec => []EventsAreKept
<1>1. KeptInv => EventsAreKept
  BY DEF KeptInv, EventsAreKept
<1> QED BY <1>1, KeptInvariant, PTL

-----------------------------------------------------------------------------
(* Events on their way, and who moves them *)

Busy == {"working", "tool", "sheet", "answered"}

Waiting == hooks \cup threads \cup spool

Pending == {e \in Waiting : e.id \notin ids}

\* The events that come in time: nothing newer was stored, and nothing went wrong
\* since they were reported.
Due == {e \in Pending : e.id > history.mishap /\ \A i \in ids : i < e.id}

\* The same event, as far as a file of the spool keeps it.
Kept == {"subagent", "helper", "reviewed", "compact"}

Like(d, e) ==
    /\ d.id = e.id /\ d.kind = e.kind /\ d.turn = e.turn /\ d.at = e.at /\ d.provider = e.provider
    /\ \A mark \in Kept : d.mark = mark <=> e.mark = mark

\* The Agent reports x.
Emits(x) ==
    /\ hooks = {} /\ hooks' = {x} /\ x \in Event
    /\ x.id = agent.events + 1 /\ agent'.events = x.id /\ x.at = TimeOf[x.id]
    /\ x.provider = agent.provider /\ x.turn = agent'.turn /\ agent'.provider = agent.provider
    /\ UNCHANGED <<projectionVars, threads, spool, runtime, listed, replayed, watched, history>>

\* What the Agent does when it reports x.
Does(x) ==
    LET Says(kind, phase) ==
          /\ x.kind = kind /\ agent'.phase = phase
          /\ agent'.turn = agent.turn /\ agent'.again = agent.again
        plain == x.mark \notin Kept
    IN  \/ agent.phase = "new" /\ Says("SessionStarted", "idle") /\ plain
        \/ /\ agent.phase \in AtRest /\ x.kind = "PromptSubmitted" /\ plain
           /\ agent'.phase = "working" /\ agent'.turn = agent.turn + 1 /\ ~agent'.again
        \/ agent.phase \in AtWork /\ Says("ToolStarted", "tool") /\ plain
        \/ agent.phase = "tool" /\ Says("ToolFinished", "working") /\ plain
        \/ agent.phase \in AtWork /\ Says("Failed", "idle") /\ plain
        \/ agent.phase \in AtWork /\ Says("Compacting", agent.phase) /\ plain
        \/ agent.phase \in AtWork /\ Says("Stopped", "stopped") /\ plain
        \/ /\ agent.phase = "stopped" /\ x.kind = "ToolStarted" /\ plain
           /\ agent'.phase = "tool" /\ agent'.turn = agent.turn /\ agent'.again
        \/ /\ agent.provider = "codex"
           /\ \/ agent.phase \in AtWork /\ Says("PermissionRequested", "sheet") /\ plain
              \/ agent.phase = "working" /\ Says("PermissionRequested", "working") /\ x.mark = "reviewed"
              \/ agent.phase = "sheet" /\ Says("ToolFinished", "sheet") /\ x.mark = "helper"
              \/ agent.phase \in AtWork /\ Says("SessionStarted", agent.phase) /\ x.mark = "compact"
              \/ agent.phase \in Busy /\ Says("Interrupted", "idle") /\ plain
        \/ /\ agent.provider = "claude"
           /\ \/ agent.phase \in AtWork /\ Says("SubagentStarted", "working") /\ plain
              \/ agent.phase \in AtRest /\ agent.turn # 0 /\ Says("ToolStarted", agent.phase) /\ x.mark = "subagent"
              \/ agent.phase \in AtRest /\ agent.turn # 0 /\ Says("Notification", agent.phase) /\ plain
              \/ agent.phase \in AtRest \cup {"working", "tool"} /\ Says("SessionEnded", "gone") /\ plain

\* The Agent gets an answer, or its process is killed.
Dwells ==
    /\ \/ agent.phase = "sheet" /\ agent'.phase = "answered"
       \/ agent.phase # "new" /\ agent'.phase = "gone"
    /\ agent'.events = agent.events /\ agent'.turn = agent.turn /\ agent'.again = agent.again
    /\ agent'.provider = agent.provider
    /\ UNCHANGED <<projectionVars, hooks, threads, spool, runtime, listed, replayed, watched, history>>

\* Events move or are lost.
Carries ==
    /\ UNCHANGED <<projectionVars, agent>>
    /\ \/ watched' = watched \/ watched' = NotWatched
       \/ /\ agent.phase = "gone" /\ session.exists /\ session.state \in Active
          /\ watched' = [on |-> TRUE, last |-> session.last, ids |-> ids]
    /\ replayed' = replayed \/ replayed' = NoEvent
    /\ history'.anchor = history.anchor
    /\ \A e \in Waiting' : \E d \in Waiting : Like(d, e)
    /\ \/ Waiting # {} /\ history'.mishap = agent.events
       \/ /\ history'.mishap = history.mishap
          /\ \A d \in Waiting : (\E e \in Waiting' : Like(d, e)) \/ (d = replayed /\ d # NoEvent)

\* An event is projected, or dropped.
Takes(e) ==
    /\ e \in threads \cup spool
    /\ Ingest(e) /\ Stored(e)
    /\ UNCHANGED <<agent, watched>>
    /\ Waiting' \subseteq Waiting /\ Waiting \ {e} \subseteq Waiting'
    /\ replayed' = replayed \/ replayed' = e

\* The rows change on another way.
Reports ==
    /\ UNCHANGED <<ids, keys, ignored, agent, hooks, threads, spool, replayed, history>>
    /\ \/ /\ agent.provider = "codex" /\ watched' = watched
          /\ \/ agent.phase = "sheet" /\ SheetSeen(Now)
             \/ agent.phase # "sheet" /\ SheetGone(agent.phase \in {"working", "tool", "answered"}, Now)
             \/ SyncExecution(agent.phase \in Busy, Now)
       \/ /\ watched.on /\ MarkUnconfirmed(watched.last) /\ watched' = NotWatched
       \/ /\ watched' = watched
          /\ (\E turn \in native : DismissSheet(turn)) \/ (\E r \in reminders : Acknowledge(r))
       \/ UNCHANGED projectionVars /\ (watched' = watched \/ watched' = NotWatched)

LEMMA LikeSelf ==
    ASSUME NEW e
    PROVE  Like(e, e)
BY DEF Like

LEMMA DurableLike ==
    ASSUME NEW e \in Event
    PROVE  Like(e, Durable(e)) /\ Durable(e) \in Event
BY DEF Like, Durable, Event, Marks, Kept

LEMMA Emission ==
    ASSUME FeedTypeOK, NEW kind \in Kinds, NEW mark \in Marks, NEW phase \in Phases,
           NEW turn \in TurnIds, NEW again \in BOOLEAN, Emit(kind, mark, phase, turn, again)
    PROVE  \E x \in Event :
             /\ Emits(x) /\ x.kind = kind /\ x.mark = mark
             /\ agent'.phase = phase /\ agent'.turn = turn /\ agent'.again = again
<1> DEFINE n == agent.events + 1
           x == [id |-> n, provider |-> agent.provider, kind |-> kind, mark |-> mark,
                 turn |-> turn, at |-> TimeOf[n]]
<1>1. n \in Ids /\ TimeOf[n] \in Nat /\ agent.provider \in Providers
  BY DEF FeedTypeOK, Emit
<1>2. x \in Event
  BY <1>1 DEF Event
<1>3. hooks = {} /\ hooks' = {x}
      /\ agent' = [agent EXCEPT !.phase = phase, !.turn = turn, !.events = n, !.again = again]
      /\ UNCHANGED <<projectionVars, threads, spool, runtime, listed, replayed, watched, history>>
  BY DEF Emit
<1>4. /\ agent'.phase = phase /\ agent'.turn = turn /\ agent'.events = n /\ agent'.again = again
      /\ agent'.provider = agent.provider
  BY <1>3 DEF FeedTypeOK
<1>5. Emits(x)
  BY <1>2, <1>3, <1>4 DEF Emits
<1> QED BY <1>2, <1>4, <1>5

\* The marks that a file of the spool does not keep.
LEMMA PlainMarks == "" \notin Kept /\ "background" \notin Kept /\ "idle" \notin Kept /\ "internal" \notin Kept
BY Zenon DEF Kept

LEMMA AgentMoves ==
    ASSUME FeedTypeOK, AgentStep
    PROVE  Dwells \/ \E x \in Event : Emits(x) /\ Does(x)
<1>1. agent.turn \in TurnIds /\ agent.turn \in Nat /\ agent.again \in BOOLEAN /\ agent.phase \in Phases
  BY DEF FeedTypeOK
<1>0. /\ \A kind \in {"SessionStarted", "SessionEnded", "PromptSubmitted", "ToolStarted",
                     "ToolFinished", "PermissionRequested", "Compacting", "SubagentStarted",
                     "Notification", "Stopped", "Interrupted", "Failed"} : kind \in Kinds
      /\ \A mark \in {"", "subagent", "helper", "reviewed", "background", "idle", "internal",
                      "compact"} : mark \in Marks
      /\ \A phase \in {"idle", "stopped", "working", "tool", "sheet", "gone"} : phase \in Phases
      /\ TRUE \in BOOLEAN /\ FALSE \in BOOLEAN
  BY DEF Kinds, Marks, Phases
<1>2. ASSUME NEW kind \in Kinds, NEW mark \in Marks, NEW phase \in Phases, Same(kind, mark, phase)
      PROVE  \E x \in Event :
               /\ Emits(x) /\ x.kind = kind /\ x.mark = mark
               /\ agent'.phase = phase /\ agent'.turn = agent.turn /\ agent'.again = agent.again
  BY <1>1, <1>2, Emission DEF Same
<1>3. CASE Prompt
  <2>1. PICK mark \in {"", "internal"} :
          agent.turn + 1 \in TurnIds /\ Emit("PromptSubmitted", mark, "working", agent.turn + 1, FALSE)
    BY <1>3 DEF Prompt
  <2>2. PICK x \in Event :
             /\ Emits(x) /\ x.kind = "PromptSubmitted" /\ x.mark = mark
             /\ agent'.phase = "working" /\ agent'.turn = agent.turn + 1 /\ agent'.again = FALSE
    <3>1. mark \in Marks /\ agent.turn + 1 \in TurnIds /\ Emit("PromptSubmitted", mark, "working", agent.turn + 1, FALSE)
      BY <2>1 DEF Marks
    <3>2. "PromptSubmitted" \in Kinds /\ "working" \in Phases /\ FALSE \in BOOLEAN
      BY DEF Kinds, Phases
    <3> QED BY <3>1, <3>2, Emission, Zenon
  <2>3. x.mark \notin Kept
    BY <2>2, PlainMarks, Zenon
  <2> QED BY <2>2, <2>3, <1>3, Zenon DEF Prompt, Does
<1>4. CASE GoOn
  <2>1. PICK x \in Event :
             /\ Emits(x) /\ x.kind = "ToolStarted" /\ x.mark = ""
             /\ agent'.phase = "tool" /\ agent'.turn = agent.turn /\ agent'.again = TRUE
    BY <1>0, <1>1, <1>4, Emission, Zenon DEF GoOn
  <2> QED BY <1>4, <2>1, PlainMarks, Zenon DEF GoOn, Does
<1>5. CASE Stop
  <2>1. PICK mark \in {"", "background"} : agent.phase \in AtWork /\ Same("Stopped", mark, "stopped")
    BY <1>5 DEF Stop
  <2>2. PICK x \in Event :
             /\ Emits(x) /\ x.kind = "Stopped" /\ x.mark = mark
             /\ agent'.phase = "stopped" /\ agent'.turn = agent.turn /\ agent'.again = agent.again
    <3>1. mark \in Marks
      BY DEF Marks
    <3> QED BY <1>0, <1>2, <2>1, <3>1, Zenon
  <2> QED BY <2>1, <2>2, PlainMarks, Zenon DEF Does
<1>6. CASE CodexSteps
  <2>1. agent.provider = "codex"
    BY <1>6 DEF CodexSteps
  <2>2. CASE agent.phase \in AtWork /\ Same("PermissionRequested", "", "sheet")
    <3>1. PICK x \in Event :
            /\ Emits(x) /\ x.kind = "PermissionRequested" /\ x.mark = ""
            /\ agent'.phase = "sheet" /\ agent'.turn = agent.turn /\ agent'.again = agent.again
      BY <1>0, <1>1, <1>2, <2>2, Zenon
    <3> QED BY <2>1, <2>2, <3>1, PlainMarks, Zenon DEF Does
  <2>3. CASE agent.phase = "working" /\ Same("PermissionRequested", "reviewed", "working")
    <3>1. PICK x \in Event :
            /\ Emits(x) /\ x.kind = "PermissionRequested" /\ x.mark = "reviewed"
            /\ agent'.phase = "working" /\ agent'.turn = agent.turn /\ agent'.again = agent.again
      BY <1>0, <1>1, <1>2, <2>3, Zenon
    <3> QED BY <2>1, <2>3, <3>1, PlainMarks, Zenon DEF Does
  <2>4. CASE agent.phase = "sheet" /\ Same("ToolFinished", "helper", "sheet")
    <3>1. PICK x \in Event :
            /\ Emits(x) /\ x.kind = "ToolFinished" /\ x.mark = "helper"
            /\ agent'.phase = "sheet" /\ agent'.turn = agent.turn /\ agent'.again = agent.again
      BY <1>0, <1>1, <1>2, <2>4, Zenon
    <3> QED BY <2>1, <2>4, <3>1, PlainMarks, Zenon DEF Does
  <2>5. CASE agent.phase \in AtWork /\ Same("SessionStarted", "compact", agent.phase)
    <3>1. PICK x \in Event :
            /\ Emits(x) /\ x.kind = "SessionStarted" /\ x.mark = "compact"
            /\ agent'.phase = agent.phase /\ agent'.turn = agent.turn /\ agent'.again = agent.again
      BY <1>0, <1>1, <1>2, <2>5, Zenon
    <3> QED BY <2>1, <2>5, <3>1, PlainMarks, Zenon DEF Does
  <2>6. CASE agent.phase \in Busy /\ Same("Interrupted", "", "idle")
    <3>1. PICK x \in Event :
            /\ Emits(x) /\ x.kind = "Interrupted" /\ x.mark = ""
            /\ agent'.phase = "idle" /\ agent'.turn = agent.turn /\ agent'.again = agent.again
      BY <1>0, <1>1, <1>2, <2>6, Zenon
    <3> QED BY <2>1, <2>6, <3>1, PlainMarks, Zenon DEF Does
  <2> QED BY <1>6, <2>2, <2>3, <2>4, <2>5, <2>6 DEF CodexSteps, Busy
<1>7. CASE ClaudeSteps
  <2>1. agent.provider = "claude"
    BY <1>7 DEF ClaudeSteps
  <2>2. CASE agent.phase \in AtWork /\ Same("SubagentStarted", "", "working")
    <3>1. PICK x \in Event :
            /\ Emits(x) /\ x.kind = "SubagentStarted" /\ x.mark = ""
            /\ agent'.phase = "working" /\ agent'.turn = agent.turn /\ agent'.again = agent.again
      BY <1>0, <1>1, <1>2, <2>2, Zenon
    <3> QED BY <2>1, <2>2, <3>1, PlainMarks, Zenon DEF Does
  <2>3. CASE agent.phase \in AtRest /\ agent.turn # 0 /\ Same("ToolStarted", "subagent", agent.phase)
    <3>1. PICK x \in Event :
            /\ Emits(x) /\ x.kind = "ToolStarted" /\ x.mark = "subagent"
            /\ agent'.phase = agent.phase /\ agent'.turn = agent.turn /\ agent'.again = agent.again
      BY <1>0, <1>1, <1>2, <2>3, Zenon
    <3> QED BY <2>1, <2>3, <3>1, PlainMarks, Zenon DEF Does
  <2>4. CASE agent.phase \in AtRest /\ agent.turn # 0 /\ Same("Notification", "idle", agent.phase)
    <3>1. PICK x \in Event :
            /\ Emits(x) /\ x.kind = "Notification" /\ x.mark = "idle"
            /\ agent'.phase = agent.phase /\ agent'.turn = agent.turn /\ agent'.again = agent.again
      BY <1>0, <1>1, <1>2, <2>4, Zenon
    <3> QED BY <2>1, <2>4, <3>1, PlainMarks, Zenon DEF Does
  <2>5. CASE agent.phase \in AtRest \cup {"working", "tool"} /\ Same("SessionEnded", "", "gone")
    <3>1. PICK x \in Event :
            /\ Emits(x) /\ x.kind = "SessionEnded" /\ x.mark = ""
            /\ agent'.phase = "gone" /\ agent'.turn = agent.turn /\ agent'.again = agent.again
      BY <1>0, <1>1, <1>2, <2>5, Zenon
    <3> QED BY <2>1, <2>5, <3>1, PlainMarks, Zenon DEF Does
  <2> QED BY <1>7, <2>2, <2>3, <2>4, <2>5 DEF ClaudeSteps
<1>8. CASE AnswerSheet
  BY <1>8 DEF AnswerSheet, Dwells, FeedTypeOK
<1>9. CASE agent.phase = "new" /\ Same("SessionStarted", "", "idle")
  <2>1. PICK x \in Event :
            /\ Emits(x) /\ x.kind = "SessionStarted" /\ x.mark = ""
            /\ agent'.phase = "idle" /\ agent'.turn = agent.turn /\ agent'.again = agent.again
    BY <1>0, <1>1, <1>2, <1>9, Zenon
  <2> QED BY <1>9, <2>1, PlainMarks, Zenon DEF Does
<1>10. CASE agent.phase \in AtWork /\ Same("ToolStarted", "", "tool")
  <2>1. PICK x \in Event :
            /\ Emits(x) /\ x.kind = "ToolStarted" /\ x.mark = ""
            /\ agent'.phase = "tool" /\ agent'.turn = agent.turn /\ agent'.again = agent.again
    BY <1>0, <1>1, <1>2, <1>10, Zenon
  <2> QED BY <1>10, <2>1, PlainMarks, Zenon DEF Does
<1>11. CASE agent.phase = "tool" /\ Same("ToolFinished", "", "working")
  <2>1. PICK x \in Event :
            /\ Emits(x) /\ x.kind = "ToolFinished" /\ x.mark = ""
            /\ agent'.phase = "working" /\ agent'.turn = agent.turn /\ agent'.again = agent.again
    BY <1>0, <1>1, <1>2, <1>11, Zenon
  <2> QED BY <1>11, <2>1, PlainMarks, Zenon DEF Does
<1>12. CASE agent.phase \in AtWork /\ Same("Failed", "", "idle")
  <2>1. PICK x \in Event :
            /\ Emits(x) /\ x.kind = "Failed" /\ x.mark = ""
            /\ agent'.phase = "idle" /\ agent'.turn = agent.turn /\ agent'.again = agent.again
    BY <1>0, <1>1, <1>2, <1>12, Zenon
  <2> QED BY <1>12, <2>1, PlainMarks, Zenon DEF Does
<1>13. CASE agent.phase \in AtWork /\ Same("Compacting", "", agent.phase)
  <2>1. PICK x \in Event :
            /\ Emits(x) /\ x.kind = "Compacting" /\ x.mark = ""
            /\ agent'.phase = agent.phase /\ agent'.turn = agent.turn /\ agent'.again = agent.again
    BY <1>0, <1>1, <1>2, <1>13, Zenon
  <2> QED BY <1>13, <2>1, PlainMarks, Zenon DEF Does
<1> QED
  BY <1>3, <1>4, <1>5, <1>6, <1>7, <1>8, <1>9, <1>10, <1>11, <1>12, <1>13 DEF AgentStep

LEMMA HooksCarry ==
    ASSUME FeedTypeOK, HookStep
    PROVE  Carries
<1>1. ASSUME NEW e \in hooks, Send(e) PROVE Carries
  <2>1. Waiting' = Waiting
    BY <1>1 DEF Send, Waiting
  <2> QED BY <1>1, <2>1, LikeSelf DEF Send, Carries
<1>2. ASSUME NEW e \in hooks, Spool(e) PROVE Carries
  <2> DEFINE files == spool \cup {Durable(e)}
  <2>1. e \in Event /\ Like(e, Durable(e)) /\ Pruned(files) \subseteq files
    BY DurableLike, PrunedKeeps DEF FeedTypeOK
  <2>2. /\ hooks' = hooks \ {e} /\ spool' = Pruned(files) /\ history' = Lose(files \ Pruned(files))
        /\ UNCHANGED <<projectionVars, agent, threads, replayed, watched>>
    BY <1>2 DEF Spool
  <2>3. \A d \in Waiting' : d \in Waiting \/ d = Durable(e)
    BY <2>1, <2>2 DEF Waiting
  <2>4. \A d \in Waiting' : \E c \in Waiting : Like(c, d)
    BY <2>1, <2>3, LikeSelf DEF Waiting
  <2>5. history'.anchor = history.anchor
        /\ history'.mishap = IF files \ Pruned(files) = {} THEN history.mishap ELSE agent.events
    BY <2>2 DEF Lose, FeedTypeOK
  <2>6. CASE files \ Pruned(files) = {}
    <3>1. \A d \in Waiting : d \in Waiting' \/ (d = e /\ Durable(e) \in Waiting')
      BY <2>1, <2>2, <2>6 DEF Waiting
    <3>2. \A d \in Waiting : \E c \in Waiting' : Like(d, c)
      BY <2>1, <3>1, LikeSelf
    <3> HIDE DEF files
    <3> QED BY <2>2, <2>4, <2>5, <2>6, <3>2 DEF Carries
  <2>7. CASE files \ Pruned(files) # {}
    <3>1. Waiting # {}
      BY DEF Waiting
    <3> HIDE DEF files
    <3> QED BY <2>2, <2>4, <2>5, <2>7, <3>1 DEF Carries
  <2> QED BY <2>6, <2>7
<1> QED BY <1>1, <1>2 DEF HookStep

LEMMA StopCarries ==
    ASSUME FeedTypeOK, StopRuntime
    PROVE  Carries
<1>1. /\ UNCHANGED <<projectionVars, agent, hooks, spool>> /\ threads' = {} /\ replayed' = NoEvent
      /\ watched' = NotWatched /\ history' = Lose(threads)
  BY DEF StopRuntime
<1>2. history'.anchor = history.anchor
      /\ history'.mishap = IF threads = {} THEN history.mishap ELSE agent.events
  BY <1>1 DEF Lose, FeedTypeOK
<1>3. Waiting' \subseteq Waiting /\ (threads = {} => Waiting' = Waiting) /\ (threads # {} => Waiting # {})
  BY <1>1 DEF Waiting
<1> QED BY <1>1, <1>2, <1>3, LikeSelf DEF Carries

\* Every step is one of these.
LEMMA FeedMoves ==
    ASSUME FeedTypeOK, [FeedNext]_vars
    PROVE  \/ \E x \in Event : Emits(x) /\ Does(x)
           \/ Dwells \/ Carries \/ Reports
           \/ \E e \in Event : Takes(e)
<1>0. hooks \subseteq Event /\ threads \subseteq Event /\ spool \subseteq Event
  BY DEF FeedTypeOK
<1>1. CASE AgentStep
  BY <1>1, AgentMoves
<1>2. CASE AgentDies
  BY <1>2 DEF AgentDies, Dwells, FeedTypeOK
<1>3. CASE HookStep
  BY <1>3, HooksCarry
<1>4. CASE StopRuntime
  BY <1>4, StopCarries
<1>5. CASE StartRuntime \/ Watch \/ Listen
  <2>1. Waiting' = Waiting
    BY <1>5 DEF StartRuntime, Watch, Listen, Waiting
  <2> QED BY <1>5, <2>1, LikeSelf DEF StartRuntime, Watch, Listen, Carries
<1>6. CASE RemoveReplayed
  <2>1. Waiting' \subseteq Waiting /\ Waiting \ {replayed} \subseteq Waiting' /\ replayed # NoEvent
    BY <1>6 DEF RemoveReplayed, Waiting
  <2> QED BY <1>6, <2>1, LikeSelf DEF RemoveReplayed, Carries
<1>7. ASSUME NEW e \in threads, Store(e)
      PROVE  \E d \in Event : Takes(d)
  BY <1>0, <1>7 DEF Store, Takes, Waiting
<1>8. ASSUME NEW e \in listed, Replay(e)
      PROVE  \E d \in Event : Takes(d)
  BY <1>0, <1>8 DEF Replay, Takes, Waiting
<1>9. CASE SyncSheet
  <2>1. SheetSeen(Now) \/ (\E active : SheetGone(active, Now)) => UNCHANGED <<ids, keys, ignored>>
    BY DEF SheetSeen, SheetGone
  <2> QED BY <1>9, <2>1 DEF SyncSheet, Reports
<1>10. CASE SyncTurn
  <2>1. \A active : SyncExecution(active, Now) => UNCHANGED <<ids, keys, ignored>>
    BY DEF SyncExecution
  <2> QED BY <1>10, <2>1 DEF SyncTurn, feedVars, Reports, Busy
<1>11. CASE Unconfirm
  BY <1>11 DEF Unconfirm, MarkUnconfirmed, projectionVars, Reports
<1>12. CASE UserStep
  BY <1>12 DEF UserStep, DismissSheet, Acknowledge, feedVars, Reports
<1>13. CASE UNCHANGED vars
  BY <1>13 DEF vars, projectionVars, feedVars, Reports
<1> QED
  BY <1>1, <1>2, <1>3, <1>4, <1>5, <1>6, <1>7, <1>8, <1>9, <1>10, <1>11, <1>12, <1>13
  DEF FeedNext, RuntimeStep

HIDE FeedAssumption

-----------------------------------------------------------------------------
(* Where events come from and what became of them *)

\* What holds of every event on its way.
Origin(e) ==
    /\ e.id \in 1 .. agent.events /\ e.at = TimeOf[e.id]
    /\ e.turn <= agent.turn /\ e.provider = agent.provider
    /\ e.mark = "subagent" => e.provider = "claude" /\ e.turn # 0 /\ e.kind = "ToolStarted"
    /\ e.provider = "codex" => e.kind \notin {"Notification", "SubagentStarted", "SessionEnded"}
    /\ e.provider = "claude" =>
          e.kind \notin {"PermissionRequested", "Interrupted"} /\ e.mark \notin {"helper", "reviewed", "compact"}
    /\ e.kind = "Notification" => e.turn # 0
    /\ e.kind = "SessionEnded" => agent.phase = "gone" /\ e.id = agent.events

Stages ==
    /\ agent.phase = "new" => agent.events = 0 /\ agent.turn = 0
    /\ agent.phase # "new" => agent.events # 0
    /\ agent.phase \in Busy \cup {"stopped"} => agent.turn # 0
    /\ watched.on => agent.phase = "gone"

Traces ==
    /\ ids \subseteq 1 .. agent.events
    /\ history.mishap <= agent.events
    /\ \A d, e \in Waiting : d.id = e.id => Like(d, e)
    /\ ~ignored =>
        /\ history.anchor \in ids \cup {0}
        /\ \A e \in Waiting : e.kind = "PromptSubmitted" /\ e.id \in ids /\ ~Overtaken(e) => history.anchor = e.id
        /\ replayed # NoEvent => Known(replayed)

\* The rows, as far as every Provider keeps them.
Rows ==
    /\ session.last <= Now
    /\ ~session.exists => session = Absent
    /\ ignored => session = Absent /\ native = {} /\ reminders = {} /\ ids = {}
    /\ \A r \in reminders : r.at <= Now
    /\ agent.provider = "claude" => session.state # "awaiting_approval" /\ native = {}
    /\ session.state = "awaiting_approval" => session.owner = "terminal"

Ending == {"Stopped", "Interrupted", "Failed"}

\* No prompt on its way is taken for one that was stored, nor is the end of a turn
\* that has not gone on after it.
KeysFree ==
    ~ignored =>
      /\ \A d, e \in Waiting : d.kind = "PromptSubmitted" /\ e.kind = "PromptSubmitted" /\ d.turn = e.turn => d.id = e.id
      /\ \A k \in keys : k[2] <= agent.turn
      /\ \A e \in Pending : e.kind = "PromptSubmitted" => Key(e) \notin keys
      /\ ~agent.again /\ agent.phase \in Busy =>
           /\ \A e \in Waiting : e.kind \in Ending => e.turn # agent.turn
           /\ \A k \in keys : k[1] \in Ending => k[2] # agent.turn
      /\ ~agent.again /\ agent.phase \in AtRest =>
           /\ \A d, e \in Waiting :
                d.kind \in Ending /\ e.kind \in Ending /\ d.turn = agent.turn /\ e.turn = agent.turn => d.id = e.id
           /\ \A e \in Pending : e.kind \in Ending /\ e.turn = agent.turn => Key(e) \notin keys

Origins == \A e \in Waiting : Origin(e)

Base == FeedTypeOK /\ Origins /\ Stages /\ Traces /\ Rows /\ KeysFree

LEMMA EventType ==
    ASSUME NEW e \in Event
    PROVE  /\ e.id \in Ids /\ e.id \in Nat /\ e.id >= 1 /\ e.turn \in Nat /\ e.at \in Nat
           /\ e.kind \in Kinds /\ e.provider \in Providers
<1>1. /\ e.id \in Ids /\ e.turn \in TurnIds /\ e.at \in Nat /\ e.kind \in Kinds
      /\ e.provider \in Providers
  BY DEF Event
<1>2. e.id \in Ids /\ Ids = 1 .. MaxEvents /\ MaxEvents \in Nat
  BY <1>1, FeedAssumption
<1>3. e.turn \in TurnIds /\ TurnIds \subseteq Nat
  BY <1>1, FeedAssumption
<1>4. e.id \in Nat /\ e.id >= 1
  BY <1>2
<1>5. e.turn \in Nat
  BY <1>3
<1> QED BY <1>1, <1>4, <1>5

LEMMA LikeTwice ==
    ASSUME NEW c, NEW d, NEW e, Like(c, d), Like(d, e)
    PROVE  Like(c, e) /\ Like(d, c)
BY DEF Like

LEMMA Clock ==
    ASSUME FeedTypeOK
    PROVE  /\ Now \in Nat /\ agent.events \in Nat
           /\ \A i \in 1 .. agent.events : i \in Ids /\ TimeOf[i] \in Nat /\ TimeOf[i] <= Now
           /\ \A i, j \in 1 .. agent.events : TimeOf[i] < TimeOf[j] => i < j
           /\ \A i, j \in 1 .. agent.events : i <= j => TimeOf[i] <= TimeOf[j]
<1>1. agent.events \in 0 .. MaxEvents
  BY DEF FeedTypeOK
<1> QED BY <1>1, FeedAssumption DEF Now

LEMMA OriginLike ==
    ASSUME NEW d \in Event, NEW e \in Event, Like(d, e), Origin(d)
    PROVE  Origin(e)
BY DEF Like, Origin, Kept

LEMMA WaitingType ==
    ASSUME FeedTypeOK
    PROVE  Waiting \subseteq Event /\ Pending \subseteq Waiting /\ Due \subseteq Pending
BY DEF FeedTypeOK, Waiting, Pending, Due

\* A new event comes on top of those on their way.
LEMMA EmitsMore ==
    ASSUME Base, NEW x \in Event, Emits(x)
    PROVE  /\ Waiting' = Waiting \cup {x} /\ Pending' = Pending \cup {x}
           /\ \A e \in Waiting : e.id < x.id
           /\ x.id \notin ids
<1>1. x.id \notin ids /\ x.id \in Nat /\ x.id = agent.events + 1 /\ agent.events \in Nat
  BY Clock DEF Emits, Base, Traces
<1>2. Waiting' = Waiting \cup {x} /\ ids' = ids
  BY DEF Waiting, Emits, projectionVars
<1>3. \A e \in Waiting : e.id < x.id
  BY <1>1 DEF Base, Origins, Origin
<1> QED BY <1>1, <1>2, <1>3 DEF Pending

LEMMA OriginsKeep ==
    ASSUME Base, FeedTypeOK', [FeedNext]_vars
    PROVE  Origins'
<1>0. FeedTypeOK /\ Origins /\ Waiting \subseteq Event /\ Waiting' \subseteq Event /\ agent.turn \in Nat /\ agent.events \in Nat
  BY Clock, FeedAssumption DEF Base, FeedTypeOK, Waiting
<1>1. ASSUME NEW x \in Event, Emits(x), Does(x) PROVE Origins'
  <2>1. Waiting' = Waiting \cup {x} /\ agent'.events = agent.events + 1 /\ x.id = agent.events + 1
    BY <1>1, EmitsMore DEF Emits
  <2>2. agent'.turn \in Nat /\ agent.turn <= agent'.turn /\ agent.phase # "gone"
    BY <1>0, <1>1 DEF Does, AtRest, AtWork, Busy
  <2>5. agent'.provider = agent.provider /\ agent'.events \in Nat
    BY <1>0, <1>1, <2>1 DEF Emits
  <2>3. ASSUME NEW e \in Waiting PROVE Origin(e)'
    <3>1. Origin(e)
      BY <1>0 DEF Origins
    <3>2. e.id \in 1 .. agent.events /\ e.kind # "SessionEnded" /\ e.id \in Nat /\ e.turn \in Nat
      BY <1>0, <2>2, <3>1, EventType DEF Origin
    <3> QED BY <1>0, <2>1, <2>2, <2>5, <3>1, <3>2 DEF Origin
  <2>4. Origin(x)'
    <3>1. /\ x.id \in 1 .. agent'.events /\ x.at = TimeOf[x.id]
          /\ x.turn <= agent'.turn /\ x.provider = agent'.provider
      BY <1>0, <1>1, <2>1, <2>2 DEF Emits, Event
    <3>2. /\ x.mark = "subagent" => x.provider = "claude" /\ x.turn # 0 /\ x.kind = "ToolStarted"
          /\ x.provider = "codex" => x.kind \notin {"Notification", "SubagentStarted", "SessionEnded"}
          /\ x.provider = "claude" =>
                x.kind \notin {"PermissionRequested", "Interrupted"} /\ x.mark \notin {"helper", "reviewed", "compact"}
          /\ x.kind = "Notification" => x.turn # 0
          /\ x.kind = "SessionEnded" => agent'.phase = "gone" /\ x.id = agent'.events
      <4>1. x.provider = agent.provider /\ x.turn = agent'.turn /\ x.id = agent'.events
        BY <1>1 DEF Emits
      <4> QED BY <1>1, <4>1 DEF Does, Kept
    <3> QED BY <3>1, <3>2 DEF Origin
  <2> QED BY <2>1, <2>3, <2>4 DEF Origins
<1>2. CASE Dwells
  BY <1>0, <1>2 DEF Dwells, Origins, Origin, Waiting
<1>3. CASE Carries
  <2>1. \A e \in Waiting' : Origin(e)
    BY <1>0, <1>3, OriginLike DEF Carries, Origins
  <2> QED BY <1>3, <2>1 DEF Carries, Origins, Origin
<1>4. CASE Reports
  BY <1>0, <1>4 DEF Reports, Origins, Origin, Waiting
<1>5. ASSUME NEW e \in Event, Takes(e) PROVE Origins'
  BY <1>0, <1>5 DEF Takes, Origins, Origin
<1> QED BY <1>0, <1>1, <1>2, <1>3, <1>4, <1>5, FeedMoves

LEMMA StagesKeep ==
    ASSUME Base, FeedTypeOK', [FeedNext]_vars
    PROVE  Stages'
<1>0. FeedTypeOK /\ Stages /\ agent.turn \in Nat /\ agent.events \in Nat
  BY Clock, FeedAssumption DEF Base, FeedTypeOK
<1>1. ASSUME NEW x \in Event, Emits(x), Does(x) PROVE Stages'
  <2>1. agent'.events # 0 /\ watched' = watched
    BY <1>0, <1>1 DEF Emits
  <2>3. agent.phase \in Busy \cup {"stopped"} => agent.turn # 0
    BY <1>0 DEF Stages
  <2>4. agent'.phase # "new" /\ agent.phase # "gone"
    BY <1>1 DEF Does, Busy, AtRest, AtWork
  <2>5. agent.turn + 1 # 0
    BY <1>0
  <2>2. agent'.phase # "new" /\ agent.phase # "gone" /\ (agent'.phase \in Busy \cup {"stopped"} => agent'.turn # 0)
    BY <1>1, <2>3, <2>4, <2>5, Zenon DEF Does, Busy, AtRest, AtWork
  <2> QED BY <1>0, <2>1, <2>2 DEF Stages
<1>2. CASE Dwells
  BY <1>0, <1>2 DEF Dwells, Stages, Busy
<1>3. CASE Carries
  BY <1>0, <1>3 DEF Carries, Stages, NotWatched
<1>4. CASE Reports
  BY <1>0, <1>4 DEF Reports, Stages, NotWatched
<1>5. ASSUME NEW e \in Event, Takes(e) PROVE Stages'
  BY <1>0, <1>5 DEF Takes, Stages
<1> QED BY <1>0, <1>1, <1>2, <1>3, <1>4, <1>5, FeedMoves

-----------------------------------------------------------------------------
(* What the operations do to the rows *)

\* What storing an event does to the session's row.
LEMMA RecordRow ==
    ASSUME ProjectionTypeOK, NEW e \in Event, Record(e), ~session.exists => session = Absent
    PROVE  /\ MayUpdate(e) <=> /\ e.at >= session.last
                               /\ \/ ~Terminal
                                  \/ e.kind \in {"PromptSubmitted", "SessionStarted", "SessionEnded"}
                                  \/ e.kind = "ToolStarted" /\ ~FromSubagent(e)
           /\ session'.exists
           /\ MayUpdate(e) =>
                /\ session'.state = NextState(e) /\ session'.owner = NextOwner(e)
                /\ session'.interrupted = (e.kind = "Interrupted") /\ session'.last = e.at
           /\ ~MayUpdate(e) =>
                /\ session'.state = session.state /\ session'.owner = session.owner
                /\ session'.interrupted = session.interrupted /\ session'.last = session.last
<1>1. session \in SessionType
  BY DEF ProjectionTypeOK, SessionType
<1>2. session' = SessionAfter(e)
  BY DEF Record
<1>3. e.at \in Nat
  BY EventType
<1>4. LastEventAt(e) = IF session.exists THEN session.last ELSE e.at
  BY DEF LastEventAt
<1>5. ~session.exists => session.last = 0 /\ ~Terminal
  BY DEF Absent, Terminal
<1>6. MayUpdate(e) <=> /\ e.at >= session.last
                       /\ \/ ~Terminal
                          \/ e.kind \in {"PromptSubmitted", "SessionStarted", "SessionEnded"}
                          \/ e.kind = "ToolStarted" /\ ~FromSubagent(e)
  BY <1>1, <1>3, <1>4, <1>5 DEF MayUpdate, SessionType
<1>7. session'.exists
  BY <1>1, <1>2 DEF SessionAfter, SessionType
<1>8. MayUpdate(e) =>
        /\ session'.state = NextState(e) /\ session'.owner = NextOwner(e)
        /\ session'.interrupted = (e.kind = "Interrupted") /\ session'.last = e.at
  BY <1>1, <1>2 DEF SessionAfter, SessionType
<1>9. ~MayUpdate(e) =>
        /\ session'.state = session.state /\ session'.owner = session.owner
        /\ session'.interrupted = session.interrupted /\ session'.last = session.last
  BY <1>1, <1>2 DEF SessionAfter, SessionType
<1> QED BY <1>6, <1>7, <1>8, <1>9

\* What a report does to the session's row.
LEMMA SetRow ==
    ASSUME ProjectionTypeOK, NEW state, NEW owner, NEW last, SetState(state, owner, last)
    PROVE  /\ session'.state = state /\ session'.owner = owner /\ session'.last = last
           /\ session'.exists = session.exists /\ ~session'.interrupted
<1>1. session \in SessionType
  BY DEF ProjectionTypeOK, SessionType
<1> QED BY <1>1 DEF SetState, SessionType

\* The sheets that Codex shows, and what the connector and the user say of them.
LEMMA ReportRow ==
    ASSUME Base, Reports
    PROVE  /\ session'.exists = session.exists
           /\ session' = session \/ session.exists
           /\ session'.last >= session.last /\ session'.last <= Now
           /\ session'.last = session.last \/ agent.provider = "codex"
           /\ session'.state = "awaiting_approval" => session'.owner = "terminal"
           /\ agent.provider = "claude" => session'.state # "awaiting_approval" /\ native' = {}
           /\ ~session.exists => native' \subseteq native
           /\ \A r \in reminders' : r \in reminders \/ (r.at = Now /\ session.exists)
<1>0. /\ ProjectionTypeOK /\ Now \in Nat /\ session.last \in Nat /\ session.last <= Now /\ Rows
      /\ agent.provider \in Providers
  BY Clock DEF Base, FeedTypeOK, ProjectionTypeOK, Rows
<1>1. Later(Now) >= session.last /\ Later(Now) <= Now
  BY <1>0 DEF Later
<1>11. session.state = "awaiting_approval" => session.owner = "terminal"
  BY <1>0 DEF Rows
<1>12. session.last >= session.last /\ session.last <= Now
  BY <1>0
<1>2. ASSUME agent.provider = "codex", SheetSeen(Now)
      PROVE  /\ session'.exists = session.exists /\ session.exists
             /\ session'.last >= session.last /\ session'.last <= Now
             /\ session'.state = "awaiting_approval" => session'.owner = "terminal"
             /\ reminders' = reminders
  <2>1. CASE session' = session
    BY <1>11, <1>12, <1>2, <2>1, Zenon DEF SheetSeen
  <2>2. CASE SetState("awaiting_approval", "terminal", Later(Now))
    BY <1>0, <1>1, <1>2, <2>2, SetRow DEF SheetSeen
  <2> QED BY <1>2, <2>1, <2>2 DEF SheetSeen
<1>3. ASSUME agent.provider = "codex", NEW active \in BOOLEAN, SheetGone(active, Now)
      PROVE  /\ session'.exists = session.exists /\ session.exists
             /\ session'.last >= session.last /\ session'.last <= Now
             /\ session'.state = "awaiting_approval" => session'.owner = "terminal"
             /\ \A r \in reminders' : r \in reminders \/ r.at = Now
  <2>1. CASE session.owner = "none"
    <3>1. session' = session /\ reminders' = reminders /\ session.exists
      BY <1>3, <2>1, Zenon DEF SheetGone
    <3> QED BY <1>11, <1>12, <3>1, Zenon
  <2>2. CASE session.owner # "none"
    <3>1. PICK turn \in SheetTurns :
              /\ SetState(IF active THEN "thinking" ELSE "response_finished", "none", Later(Now))
              /\ IF ~active /\ session.meaningful /\ turn \notin completed
                 THEN reminders' = reminders \cup {[kind |-> "completion", turn |-> turn, at |-> Now]}
                 ELSE UNCHANGED reminders
      BY <1>3, <2>2 DEF SheetGone
    <3>2. /\ session'.state = IF active THEN "thinking" ELSE "response_finished"
          /\ session'.last = Later(Now) /\ session'.exists = session.exists
      BY <1>0, <3>1, SetRow
    <3> QED BY <1>1, <1>3, <3>1, <3>2 DEF SheetGone
  <2> QED BY <2>1, <2>2
<1>4. ASSUME agent.provider = "codex", NEW active \in BOOLEAN, SyncExecution(active, Now)
      PROVE  /\ session'.exists = session.exists /\ session.exists
             /\ session'.last >= session.last /\ session'.last <= Now
             /\ session'.state = "awaiting_approval" => session'.owner = "terminal"
             /\ reminders' = reminders
  <2> DEFINE next == IF active
                     THEN IF session.state \in {"idle", "response_finished", "failed", "waiting_for_event"}
                          THEN "thinking" ELSE session.state
                     ELSE IF session.state \notin {"idle", "response_finished", "failed"}
                          THEN "response_finished" ELSE session.state
  <2>1. /\ session.exists /\ reminders' = reminders
        /\ IF next # session.state THEN SetState(next, "none", Later(Now)) ELSE UNCHANGED session
    BY <1>4, Zenon DEF SyncExecution
  <2>2. next # session.state => next # "awaiting_approval"
    BY Zenon
  <2> HIDE DEF next
  <2>3. CASE next # session.state
    <3>1. SetState(next, "none", Later(Now))
      BY <2>1, <2>3, Zenon
    <3>2. session'.state = next /\ session'.last = Later(Now) /\ session'.exists = session.exists
      BY <1>0, <3>1, SetRow, Zenon
    <3> QED BY <1>1, <2>1, <2>2, <2>3, <3>2, Zenon
  <2>4. CASE next = session.state
    <3>1. session' = session
      BY <2>1, <2>4, Zenon
    <3> QED BY <1>11, <1>12, <2>1, <3>1, Zenon
  <2> QED BY <2>3, <2>4
<1>5. ASSUME \/ watched.on /\ MarkUnconfirmed(watched.last)
             \/ (\E turn \in native : DismissSheet(turn)) \/ (\E r \in reminders : Acknowledge(r))
      PROVE  /\ session' = session \/ session.exists
             /\ session'.exists = session.exists /\ session'.last = session.last
             /\ native' \subseteq native /\ reminders' \subseteq reminders
             /\ session' = session \/ session'.state = "waiting_for_event"
  <2>1. SetState("waiting_for_event", "none", session.last) =>
          /\ session'.exists = session.exists /\ session'.last = session.last
          /\ session'.state = "waiting_for_event"
    BY <1>0, SetRow
  <2>2. session.state \in Active \cup {"awaiting_approval"} => session.exists
    BY <1>0 DEF Rows, Absent, Active
  <2>3. CASE watched.on /\ MarkUnconfirmed(watched.last)
    BY <2>1, <2>3 DEF MarkUnconfirmed, StillAtWork
  <2>4. ASSUME NEW turn \in native, DismissSheet(turn)
        PROVE  /\ session' = session \/ (session.exists /\ SetState("waiting_for_event", "none", session.last))
               /\ native' \subseteq native /\ reminders' = reminders
    BY <2>2, <2>4 DEF DismissSheet
  <2>5. ASSUME NEW r \in reminders, Acknowledge(r)
        PROVE  /\ session' = session \/ (session.exists /\ SetState("waiting_for_event", "none", session.last))
               /\ native' = native /\ reminders' \subseteq reminders
    BY <2>2, <2>5 DEF Acknowledge
  <2> QED BY <1>5, <2>1, <2>3, <2>4, <2>5
<1>6. CASE UNCHANGED projectionVars
  BY <1>0, <1>6 DEF projectionVars, Rows
<1>7. CASE \/ watched.on /\ MarkUnconfirmed(watched.last)
           \/ (\E turn \in native : DismissSheet(turn)) \/ (\E r \in reminders : Acknowledge(r))
  BY <1>0, <1>5, <1>7 DEF Rows
<1>8. CASE agent.provider = "codex" /\ SheetSeen(Now)
  BY <1>2, <1>8
<1>9. CASE agent.provider = "codex" /\ SheetGone(agent.phase \in {"working", "tool", "answered"}, Now)
  <2>1. (agent.phase \in {"working", "tool", "answered"}) \in BOOLEAN
    OBVIOUS
  <2>2. PICK active \in BOOLEAN : SheetGone(active, Now)
    BY <1>9, <2>1, Zenon
  <2> QED BY <1>3, <1>9, <2>2
<1>10. CASE agent.provider = "codex" /\ SyncExecution(agent.phase \in Busy, Now)
  <2>1. (agent.phase \in Busy) \in BOOLEAN
    OBVIOUS
  <2>2. PICK active \in BOOLEAN : SyncExecution(active, Now)
    BY <1>10, <2>1, Zenon
  <2> QED BY <1>4, <1>10, <2>2
<1> QED
  BY <1>6, <1>7, <1>8, <1>9, <1>10, Zenon DEF Reports

LEMMA StoredRow ==
    ASSUME FeedTypeOK, NEW e \in Event, Stored(e)
    PROVE  /\ history'.mishap = IF Overtaken(e) THEN agent.events ELSE history.mishap
           /\ history'.anchor = IF e.kind = "PromptSubmitted" /\ ~Overtaken(e) THEN e.id ELSE history.anchor
BY DEF Stored, FeedTypeOK

\* What taking an event comes to while the session is not ignored.
LEMMA TakesWay ==
    ASSUME FeedTypeOK, NEW e \in Event, Takes(e), ~ignored'
    PROVE  /\ ~ignored /\ e \in Waiting
           /\ \/ Known(e) /\ UNCHANGED projectionVars
              \/ Record(e) /\ ~Known(e) /\ ids' = ids \cup {e.id}
                 /\ keys' = IF e.kind \in Keyed THEN keys \cup {Key(e)} ELSE keys
<1>1. e \in Waiting
  BY DEF Takes, Waiting
<1>2. Drop(e) \/ Suppress(e) \/ Record(e)
  BY DEF Takes, Ingest
<1>3. CASE Drop(e)
  BY <1>1, <1>3 DEF Drop, projectionVars
<1>4. ~Suppress(e)
  BY DEF Suppress
<1>5. CASE Record(e)
  BY <1>1, <1>5 DEF Record, IsNew
<1> QED BY <1>2, <1>3, <1>4, <1>5

LEMMA TracesKeep ==
    ASSUME Base, FeedTypeOK', [FeedNext]_vars
    PROVE  Traces'
<1>0. /\ FeedTypeOK /\ Traces /\ agent.events \in Nat /\ Waiting \subseteq Event /\ Waiting' \subseteq Event
      /\ history.mishap \in Nat
  BY Clock DEF Base, FeedTypeOK, Waiting
<1>1. ASSUME NEW x \in Event, Emits(x) PROVE Traces'
  <2>1. /\ Waiting' = Waiting \cup {x} /\ x.id \notin ids /\ agent'.events = agent.events + 1
        /\ \A e \in Waiting : e.id < x.id /\ e.id # x.id
        /\ UNCHANGED <<ids, keys, ignored, history, replayed>>
    BY <1>0, <1>1, EmitsMore, EventType DEF Emits, projectionVars
  <2>2. ids' \subseteq 1 .. agent'.events /\ history'.mishap <= agent'.events
    BY <1>0, <2>1 DEF Traces
  <2>3. \A d, e \in Waiting' : d.id = e.id => Like(d, e)
    BY <1>0, <2>1, LikeSelf DEF Traces
  <2>4. \A e : Overtaken(e)' <=> Overtaken(e)
    BY <2>1 DEF Overtaken
  <2>5. \A e : Known(e)' <=> Known(e)
    BY <2>1 DEF Known
  <2> QED BY <1>0, <2>1, <2>2, <2>3, <2>4, <2>5 DEF Traces
<1>2. CASE Dwells \/ Reports
  <2>1. /\ Waiting' = Waiting /\ agent'.events = agent.events
        /\ UNCHANGED <<ids, keys, ignored, history, replayed>>
    BY <1>2 DEF Dwells, Reports, Waiting, projectionVars
  <2>4. \A e : Overtaken(e)' <=> Overtaken(e)
    BY <2>1 DEF Overtaken
  <2>5. \A e : Known(e)' <=> Known(e)
    BY <2>1 DEF Known
  <2> QED BY <1>0, <2>1, <2>4, <2>5 DEF Traces
<1>3. CASE Carries
  <2>1. /\ UNCHANGED <<ids, keys, ignored, agent>> /\ history'.anchor = history.anchor
        /\ replayed' = replayed \/ replayed' = NoEvent
        /\ history'.mishap \in {history.mishap, agent.events}
        /\ \A e \in Waiting' : \E d \in Waiting : Like(d, e)
    BY <1>3 DEF Carries, projectionVars
  <2>2. ids' \subseteq 1 .. agent'.events /\ history'.mishap <= agent'.events
    BY <1>0, <2>1 DEF Traces
  <2>3. ASSUME NEW d \in Waiting', NEW e \in Waiting', d.id = e.id PROVE Like(d, e)
    <3>1. PICK b \in Waiting : Like(b, d)
      BY <2>1
    <3>2. PICK c \in Waiting : Like(c, e)
      BY <2>1
    <3>3. Like(b, c)
      BY <1>0, <2>3, <3>1, <3>2 DEF Traces, Like
    <3> QED BY <3>1, <3>2, <3>3 DEF Like
  <2>4. \A e : Overtaken(e)' <=> Overtaken(e)
    BY <2>1 DEF Overtaken
  <2>5. \A e : Known(e)' <=> Known(e)
    BY <2>1 DEF Known
  <2>6. \A d, e : Like(d, e) => d.kind = e.kind /\ d.id = e.id /\ (Overtaken(d) <=> Overtaken(e))
    BY DEF Like, Overtaken
  <2>7. ASSUME ~ignored', NEW e \in Waiting', e.kind = "PromptSubmitted", e.id \in ids', ~Overtaken(e)'
        PROVE  history'.anchor = e.id
    <3>1. PICK d \in Waiting : Like(d, e)
      BY <2>1
    <3>2. d.kind = "PromptSubmitted" /\ d.id = e.id /\ d.id \in ids /\ ~Overtaken(d) /\ ~ignored
      BY <2>1, <2>4, <2>6, <2>7, <3>1
    <3>3. history.anchor = d.id
      BY <1>0, <3>1, <3>2, Zenon DEF Traces
    <3> QED BY <2>1, <3>2, <3>3
  <2> QED BY <1>0, <2>1, <2>2, <2>3, <2>5, <2>7 DEF Traces
<1>4. ASSUME NEW e \in Event, Takes(e) PROVE Traces'
  <2>1. /\ agent' = agent /\ Waiting' \subseteq Waiting /\ e \in Waiting
        /\ replayed' = replayed \/ replayed' = e
        /\ history'.mishap = IF Overtaken(e) THEN agent.events ELSE history.mishap
        /\ history'.anchor = IF e.kind = "PromptSubmitted" /\ ~Overtaken(e) THEN e.id ELSE history.anchor
    BY <1>0, <1>4, StoredRow DEF Takes, Waiting
  <2>2. e.id \in 1 .. agent.events
    BY <2>1 DEF Base, Origins, Origin
  <2>3. ids' \subseteq ids \cup {e.id}
    BY <1>4 DEF Takes, Ingest, Drop, Suppress, Record, projectionVars
  <2>4. ids' \subseteq 1 .. agent'.events /\ history'.mishap <= agent'.events
        /\ \A c, d \in Waiting' : c.id = d.id => Like(c, d)
    BY <1>0, <2>1, <2>2, <2>3 DEF Traces
  <2>5. ASSUME ~ignored'
        PROVE  /\ history'.anchor \in ids' \cup {0}
               /\ \A d \in Waiting' : d.kind = "PromptSubmitted" /\ d.id \in ids' /\ ~Overtaken(d)' => history'.anchor = d.id
               /\ replayed' # NoEvent => Known(replayed)'
    <3>1. CASE Known(e) /\ UNCHANGED projectionVars /\ ~ignored
      <4>1. UNCHANGED <<ids, keys, ignored>>
        BY <3>1 DEF projectionVars
      <4>2. e.kind = "PromptSubmitted" => e.id \in ids
        BY <2>1, <3>1 DEF Base, KeysFree, Known, Pending
      <4>3. history'.anchor = history.anchor
        BY <1>0, <2>1, <3>1, <4>2 DEF Traces
      <4>4. \A d : Overtaken(d)' <=> Overtaken(d)
        BY <4>1 DEF Overtaken
      <4>5. \A d : Known(d)' <=> Known(d)
        BY <4>1 DEF Known
      <4> QED BY <1>0, <2>1, <3>1, <4>1, <4>3, <4>4, <4>5 DEF Traces
    <3>2. CASE /\ ~ignored /\ Record(e) /\ ~Known(e) /\ ids' = ids \cup {e.id}
               /\ keys' = IF e.kind \in Keyed THEN keys \cup {Key(e)} ELSE keys
      <4>1. history'.anchor \in ids' \cup {0}
        BY <1>0, <2>1, <3>2 DEF Traces
      <4>2. Known(e)' /\ \A d : Known(d) => Known(d)'
        BY <3>2 DEF Known, Key
      <4>3. ASSUME NEW d \in Waiting', d.kind = "PromptSubmitted", d.id \in ids', ~Overtaken(d)'
            PROVE  history'.anchor = d.id
        <5>1. d \in Waiting /\ d.id \in Nat /\ e.id \in Nat /\ ids \subseteq Nat
              /\ (\A i \in ids' : i <= d.id) /\ e.id <= d.id
          <6>1. d \in Waiting /\ d.id \in Nat /\ e.id \in Nat /\ ids \subseteq Nat
            BY <1>0, <2>1, <2>2, <2>4, <4>3, EventType DEF Traces
          <6> QED BY <3>2, <4>3, <6>1 DEF Overtaken
        <5>2. CASE d.id = e.id
          <6>1. d.kind = e.kind
            BY <1>0, <2>1, <5>1, <5>2 DEF Traces, Like
          <6>2. ~Overtaken(e)
            BY <3>2, <5>1, <5>2 DEF Overtaken
          <6> QED BY <2>1, <4>3, <5>2, <6>1, <6>2
        <5>3. CASE d.id # e.id
          <6>1. d.id \in ids /\ d.id > e.id /\ Overtaken(e) /\ ~Overtaken(d)
            BY <3>2, <4>3, <5>1, <5>3 DEF Overtaken
          <6> QED BY <1>0, <2>1, <3>2, <4>3, <5>1, <6>1 DEF Traces
        <5> QED BY <5>2, <5>3
      <4>4. replayed' # NoEvent => Known(replayed)'
        BY <1>0, <2>1, <3>2, <4>2 DEF Traces
      <4> QED BY <4>1, <4>3, <4>4
    <3> QED BY <1>0, <1>4, <2>5, <3>1, <3>2, TakesWay
  <2> QED BY <2>4, <2>5 DEF Traces
<1> QED BY <1>0, <1>1, <1>2, <1>3, <1>4, FeedMoves

LEMMA RowsKeep ==
    ASSUME Base, FeedTypeOK', [FeedNext]_vars
    PROVE  Rows'
<1>0. /\ FeedTypeOK /\ ProjectionTypeOK /\ Rows /\ Now \in Nat /\ session.last \in Nat /\ agent.events \in Nat
      /\ agent.provider \in Providers /\ reminders \subseteq ReminderType
  BY Clock DEF Base, FeedTypeOK, ProjectionTypeOK, ReminderType
<1>1. ASSUME NEW x \in Event, Emits(x) PROVE Rows'
  <2>1. /\ UNCHANGED <<session, native, reminders, ids, ignored>>
        /\ agent'.provider = agent.provider /\ agent'.events = agent.events + 1
    BY <1>0, <1>1 DEF Emits, projectionVars
  <2>2. Now <= Now' /\ Now' \in Nat
    <3>1. agent'.events \in 0 .. MaxEvents /\ MaxEvents \in Nat
      BY FeedAssumption DEF FeedTypeOK
    <3> QED BY <1>0, <2>1, <3>1, FeedAssumption DEF Now
  <2>3. session'.last <= Now' /\ \A r \in reminders' : r.at <= Now'
    BY <1>0, <2>1, <2>2 DEF Rows, ReminderType
  <2> QED BY <1>0, <2>1, <2>3 DEF Rows
<1>2. CASE Dwells \/ Carries
  <2>1. /\ UNCHANGED <<session, native, reminders, ids, ignored>>
        /\ agent'.provider = agent.provider /\ agent'.events = agent.events
    BY <1>2 DEF Dwells, Carries, projectionVars
  <2> QED BY <1>0, <2>1 DEF Rows, Now
<1>3. CASE Reports
  <2>1. UNCHANGED <<ids, ignored, agent>>
    BY <1>3 DEF Reports
  <2>2. \A r \in reminders' : r.at <= Now
    BY <1>0, <1>3, ReportRow DEF Rows
  <2>3. Now' = Now
    BY <2>1 DEF Now
  <2>4. CASE session.exists
    <3>1. session'.exists
      BY <1>3, <2>4, ReportRow
    <3>2. ~ignored
      BY <1>0, <2>4 DEF Rows, Absent
    <3> QED BY <1>3, <2>1, <2>2, <2>3, <3>1, <3>2, ReportRow DEF Rows
  <2>5. CASE ~session.exists
    <3>1. session' = session /\ native' \subseteq native /\ reminders' \subseteq reminders
      BY <1>3, <2>5, ReportRow
    <3> QED BY <1>0, <2>1, <2>2, <2>3, <3>1 DEF Rows
  <2> QED BY <2>4, <2>5
<1>4. ASSUME NEW e \in Event, Takes(e) PROVE Rows'
  <2>1. agent' = agent /\ Now' = Now /\ e \in Waiting
    BY <1>4 DEF Takes, Waiting, Now
  <2>2. e.at <= Now /\ e.at \in Nat
    BY <1>0, <2>1, Clock, EventType DEF Base, Origins, Origin
  <2>3. CASE UNCHANGED projectionVars
    BY <1>0, <2>1, <2>3 DEF Rows, projectionVars
  <2>4. CASE Suppress(e)
    BY <1>0, <2>1, <2>4 DEF Rows, Suppress, Absent
  <2>5. CASE Record(e)
    <3>1. session'.exists /\ ~ignored'
      BY <1>0, <2>5, RecordRow DEF Rows, Record, IsNew
    <3>2. session'.last <= Now'
      BY <1>0, <2>1, <2>2, <2>5, RecordRow DEF Rows
    <3>3. \A r \in reminders' : r.at <= Now'
      BY <1>0, <2>1, <2>2, <2>5 DEF Rows, Record, RemindersAfter, NewReminders
    <3>4. session'.state = "awaiting_approval" => session'.owner = "terminal"
      BY <1>0, <2>5, RecordRow DEF Rows, NextState, NextOwner, IdleTurnEnd, Projected, PreservesSheet,
         SheetsClosed, ProviderAdvanced, PreservesCompactingTurn, Kinds, Active
    <3>5. agent.provider = "claude" => session'.state # "awaiting_approval" /\ native' = {}
      <4>1. agent.provider = "claude" => e.kind # "PermissionRequested" /\ ~ObservesSheet(e)
        BY <2>1 DEF Base, Origins, Origin, ObservesSheet
      <4>2. agent.provider = "claude" => native' = {}
        BY <1>0, <2>5, <4>1 DEF Rows, Record, NativeAfter
      <4>3. agent.provider = "claude" => NextState(e) # "awaiting_approval"
        BY <1>0, <4>1 DEF Rows, NextState, Projected
      <4> QED BY <1>0, <2>5, <4>2, <4>3, RecordRow DEF Rows
    <3> QED BY <2>1, <3>1, <3>2, <3>3, <3>4, <3>5 DEF Rows
  <2>6. UNCHANGED projectionVars \/ Suppress(e) \/ Record(e)
    BY <1>4 DEF Takes, Ingest, Drop
  <2> QED BY <2>3, <2>4, <2>5, <2>6
<1> QED BY <1>0, <1>1, <1>2, <1>3, <1>4, FeedMoves

\* How an Agent that reports x comes to be at work ...
LEMMA GetsBusy ==
    ASSUME NEW x, Does(x), agent'.phase \in Busy, ~agent'.again
    PROVE  \/ x.kind = "PromptSubmitted" /\ x.mark \notin Kept /\ agent'.turn = agent.turn + 1
           \/ /\ agent.phase \in Busy /\ ~agent.again /\ agent'.turn = agent.turn
              /\ x.kind \in {"ToolStarted", "ToolFinished", "Compacting", "PermissionRequested", "SubagentStarted"}
                 \/ (x.kind = "SessionStarted" /\ x.mark = "compact")
BY DEF Does, Busy, AtRest, AtWork

\* ... or at rest.
LEMMA GetsRest ==
    ASSUME NEW x, Does(x), agent'.phase \in AtRest, ~agent'.again
    PROVE  /\ ~agent.again /\ agent'.turn = agent.turn
           /\ \/ agent.phase \in Busy /\ x.kind \in Ending
              \/ agent.phase = "new" /\ x.kind = "SessionStarted" /\ x.mark \notin Kept
              \/ /\ agent.phase \in AtRest /\ agent.provider = "claude"
                 /\ x.kind = "Notification" \/ (x.kind = "ToolStarted" /\ x.mark = "subagent")
BY DEF Does, Busy, AtRest, AtWork, Ending

LEMMA DoesTurn ==
    ASSUME NEW x, Does(x), agent.turn \in Nat
    PROVE  /\ agent'.turn \in Nat /\ agent.turn <= agent'.turn
           /\ x.kind = "PromptSubmitted" => agent'.turn = agent.turn + 1
BY DEF Does

LEMMA KeysKeep ==
    ASSUME Base, FeedTypeOK', [FeedNext]_vars
    PROVE  KeysFree'
<1>0. /\ FeedTypeOK /\ KeysFree /\ agent.events \in Nat /\ agent.turn \in Nat
      /\ Waiting \subseteq Event /\ Waiting' \subseteq Event
      /\ \A k \in keys : k[2] \in Nat
      /\ \A e \in Waiting : e.turn \in Nat /\ e.turn <= agent.turn
  <2>1. FeedTypeOK /\ KeysFree /\ agent.events \in Nat /\ agent.turn \in TurnIds /\ TurnIds \subseteq Nat
        /\ Waiting \subseteq Event /\ Waiting' \subseteq Event /\ keys \subseteq Kinds \X TurnIds
    BY Clock, FeedAssumption DEF Base, FeedTypeOK, ProjectionTypeOK, Waiting
  <2>2. \A e \in Waiting : e.turn \in Nat /\ e.turn <= agent.turn
    BY <2>1, EventType DEF Base, Origins, Origin
  <2>3. \A k \in keys : k[2] \in Nat
    BY <2>1
  <2> QED BY <2>1, <2>2, <2>3
<1>1. ASSUME NEW x \in Event, Emits(x), Does(x), ~ignored' PROVE KeysFree'
  <2>1. /\ Waiting' = Waiting \cup {x} /\ Pending' = Pending \cup {x} /\ x.turn = agent'.turn
        /\ UNCHANGED <<ids, keys, ignored>> /\ ~ignored
    BY <1>0, <1>1, EmitsMore DEF Emits, projectionVars
  <2>2. agent'.turn \in Nat /\ agent.turn <= agent'.turn
        /\ (x.kind = "PromptSubmitted" => agent'.turn = agent.turn + 1)
    BY <1>0, <1>1, DoesTurn
  <2>3. /\ \A k \in keys : k[2] <= agent.turn
        /\ \A e \in Pending : e.kind = "PromptSubmitted" => Key(e) \notin keys
        /\ \A d, e \in Waiting : d.kind = "PromptSubmitted" /\ e.kind = "PromptSubmitted" /\ d.turn = e.turn => d.id = e.id
    BY <1>0, <2>1 DEF KeysFree
  <2>4. \A d, e \in Waiting' : d.kind = "PromptSubmitted" /\ e.kind = "PromptSubmitted" /\ d.turn = e.turn => d.id = e.id
    BY <1>0, <2>1, <2>2, <2>3
  <2>5. \A k \in keys' : k[2] <= agent'.turn
    BY <1>0, <2>1, <2>2, <2>3
  <2>6. \A e \in Pending' : e.kind = "PromptSubmitted" => Key(e) \notin keys'
    <3>1. x.kind = "PromptSubmitted" => Key(x) \notin keys
      BY <1>0, <2>1, <2>2, <2>3 DEF Key
    <3> QED BY <2>1, <2>3, <3>1
  <2>7. ASSUME ~agent'.again, agent'.phase \in Busy
        PROVE  /\ \A e \in Waiting' : e.kind \in Ending => e.turn # agent'.turn
               /\ \A k \in keys' : k[1] \in Ending => k[2] # agent'.turn
    <3>1. CASE x.kind = "PromptSubmitted"
      BY <1>0, <2>1, <2>2, <2>3, <3>1 DEF Ending
    <3>2. CASE x.kind # "PromptSubmitted"
      <4>1. agent.phase \in Busy /\ ~agent.again /\ agent'.turn = agent.turn /\ x.kind \notin Ending
        BY <1>1, <2>7, <3>2, GetsBusy DEF Ending
      <4> QED BY <1>0, <2>1, <4>1 DEF KeysFree
    <3> QED BY <3>1, <3>2
  <2>8. ASSUME ~agent'.again, agent'.phase \in AtRest
        PROVE  /\ \A d, e \in Waiting' :
                    d.kind \in Ending /\ e.kind \in Ending /\ d.turn = agent'.turn /\ e.turn = agent'.turn => d.id = e.id
               /\ \A e \in Pending' : e.kind \in Ending /\ e.turn = agent'.turn => Key(e) \notin keys'
    <3>1. ~agent.again /\ agent'.turn = agent.turn
      BY <1>1, <2>8, GetsRest
    <3>2. CASE agent.phase \in Busy
      <4>1. /\ \A e \in Waiting : e.kind \in Ending => e.turn # agent.turn
            /\ \A k \in keys : k[1] \in Ending => k[2] # agent.turn
        BY <1>0, <2>1, <3>1, <3>2 DEF KeysFree
      <4>2. x.kind \in Ending => Key(x) \notin keys
        BY <2>1, <3>1, <4>1 DEF Key
      <4> QED BY <2>1, <3>1, <4>1, <4>2, WaitingType, <1>0
    <3>3. CASE agent.phase \notin Busy
      <4>1. x.kind \notin Ending /\ (agent.phase \in AtRest \/ agent.phase = "new")
        BY <1>1, <2>8, <3>3, GetsRest DEF Ending
      <4>2. agent.phase = "new" => Waiting = {}
        BY <1>0 DEF Base, Stages, Origins, Origin
      <4> QED BY <1>0, <2>1, <3>1, <4>1, <4>2, WaitingType DEF KeysFree
    <3> QED BY <3>2, <3>3
  <2> QED BY <2>4, <2>5, <2>6, <2>7, <2>8, Zenon DEF KeysFree
<1>2. CASE Dwells
  <2>1. /\ Waiting' = Waiting /\ Pending' = Pending /\ UNCHANGED <<ids, keys, ignored>>
        /\ agent'.turn = agent.turn /\ agent'.again = agent.again
        /\ agent'.phase \in Busy => agent.phase \in Busy
        /\ agent'.phase \notin AtRest
    BY <1>2 DEF Dwells, Waiting, Pending, projectionVars, Busy, AtRest
  <2> QED BY <1>0, <2>1 DEF KeysFree
<1>3. CASE Reports
  <2>1. /\ Waiting' = Waiting /\ Pending' = Pending /\ UNCHANGED <<ids, keys, ignored, agent>>
    BY <1>3 DEF Reports, Waiting, Pending
  <2> QED BY <1>0, <2>1 DEF KeysFree
<1>4. CASE Carries
  <2>1. /\ UNCHANGED <<ids, keys, ignored, agent>>
        /\ \A e \in Waiting' : \E d \in Waiting : Like(d, e)
    BY <1>4 DEF Carries, projectionVars
  <2>2. \A d, e : Like(d, e) => d.kind = e.kind /\ d.id = e.id /\ d.turn = e.turn /\ Key(d) = Key(e)
    BY DEF Like, Key
  <2>3. \A e \in Pending' : \E d \in Pending : Like(d, e)
    BY <2>1, <2>2 DEF Pending
  <2>4. ASSUME ~ignored
        PROVE  \A d, e \in Waiting' : d.kind = "PromptSubmitted" /\ e.kind = "PromptSubmitted" /\ d.turn = e.turn => d.id = e.id
    BY <1>0, <2>1, <2>2, <2>4 DEF KeysFree
  <2>5. ASSUME ~ignored
        PROVE  \A e \in Pending' : e.kind = "PromptSubmitted" => Key(e) \notin keys
    BY <1>0, <2>2, <2>3, <2>5 DEF KeysFree
  <2>6. ASSUME ~ignored, ~agent.again, agent.phase \in Busy
        PROVE  \A e \in Waiting' : e.kind \in Ending => e.turn # agent.turn
    BY <1>0, <2>1, <2>2, <2>6 DEF KeysFree
  <2>7. ASSUME ~ignored, ~agent.again, agent.phase \in AtRest
        PROVE  /\ \A d, e \in Waiting' :
                    d.kind \in Ending /\ e.kind \in Ending /\ d.turn = agent.turn /\ e.turn = agent.turn => d.id = e.id
               /\ \A e \in Pending' : e.kind \in Ending /\ e.turn = agent.turn => Key(e) \notin keys
    BY <1>0, <2>1, <2>2, <2>3, <2>7 DEF KeysFree
  <2> QED BY <1>0, <2>1, <2>4, <2>5, <2>6, <2>7 DEF KeysFree
<1>5. ASSUME NEW e \in Event, Takes(e), ~ignored' PROVE KeysFree'
  <2>1. /\ agent' = agent /\ Waiting' \subseteq Waiting /\ e \in Waiting /\ ~ignored
        /\ Pending' \subseteq Waiting'
    BY <1>0, <1>5, TakesWay DEF Takes, Pending
  <2>2. CASE UNCHANGED projectionVars
    <3>1. UNCHANGED <<ids, keys, ignored>> /\ Pending' \subseteq Pending
      BY <2>1, <2>2 DEF projectionVars, Pending
    <3> QED BY <1>0, <2>1, <3>1 DEF KeysFree
  <2>3. CASE /\ Record(e) /\ ids' = ids \cup {e.id}
             /\ keys' = IF e.kind \in Keyed THEN keys \cup {Key(e)} ELSE keys
    <3>1. \A d \in Pending' : d \in Pending /\ d.id # e.id
      BY <2>1, <2>3 DEF Pending
    <3>2. \A k \in keys' : k \in keys \/ (k = Key(e) /\ k[1] = e.kind /\ k[2] = e.turn)
      BY <2>3 DEF Key
    <3>3. \A d \in Pending' : Key(d) \in keys' => Key(d) \in keys \/ (d.kind = e.kind /\ d.turn = e.turn)
      BY <3>2 DEF Key
    <3>4. \A k \in keys' : k[2] <= agent.turn
      BY <1>0, <2>1, <3>2 DEF KeysFree
    <3>5. \A d \in Pending' : d.kind = "PromptSubmitted" => Key(d) \notin keys'
      BY <1>0, <2>1, <3>1, <3>3 DEF KeysFree
    <3>6. ASSUME ~agent.again, agent.phase \in Busy
          PROVE  \A k \in keys' : k[1] \in Ending => k[2] # agent.turn
      BY <1>0, <2>1, <3>2, <3>6 DEF KeysFree
    <3>7. ASSUME ~agent.again, agent.phase \in AtRest
          PROVE  \A d \in Pending' : d.kind \in Ending /\ d.turn = agent.turn => Key(d) \notin keys'
      BY <1>0, <2>1, <3>1, <3>3, <3>7 DEF KeysFree
    <3> QED BY <1>0, <2>1, <3>4, <3>5, <3>6, <3>7 DEF KeysFree
  <2> QED BY <1>0, <1>5, <2>2, <2>3, TakesWay
<1> QED BY <1>0, <1>1, <1>2, <1>3, <1>4, <1>5, FeedMoves DEF KeysFree

LEMMA BaseStarts == FeedInit => Base
<1> SUFFICES ASSUME FeedInit PROVE Base
  OBVIOUS
<1>1. FeedTypeOK
  BY FeedStarts DEF FeedInv
<1>2. Waiting = {} /\ ids = {} /\ keys = {} /\ native = {} /\ reminders = {} /\ session = Absent
      /\ agent.phase = "new" /\ agent.events = 0 /\ agent.turn = 0 /\ ~watched.on /\ replayed = NoEvent /\ ~ignored
      /\ history.mishap = 0 /\ history.anchor = 0
  BY DEF FeedInit, ProjectionInit, Waiting, NotWatched
<1>3. Now = 0
  BY <1>2 DEF Now
<1> QED BY <1>1, <1>2, <1>3 DEF Base, Origins, Stages, Traces, Rows, KeysFree, Absent, Busy, AtRest, Pending

LEMMA BaseInvariant == FeedSpec => []Base
<1>1. ASSUME Base, FeedTypeOK', [FeedNext]_vars PROVE Base'
  BY <1>1, OriginsKeep, StagesKeep, TracesKeep, RowsKeep, KeysKeep DEF Base
<1> QED BY <1>1, BaseStarts, FeedTypes, PTL DEF FeedSpec

-----------------------------------------------------------------------------
(* What each step does to the events that come in time *)

Looks ==
    \/ watched' = watched \/ watched' = NotWatched
    \/ /\ agent.phase = "gone" /\ session.exists /\ session.state \in Active
       /\ watched' = [on |-> TRUE, last |-> session.last, ids |-> ids]

\* Something went wrong: no event on its way comes in time any more.
Loses ==
    /\ agent' = agent /\ agent.events # 0 /\ Looks
    /\ Due' = {} /\ ~Recovered' /\ history'.mishap = agent.events
    /\ \A e \in Pending' : \E d \in Pending : Like(d, e)
    /\ UNCHANGED projectionVars \/ (watched' = watched /\ \E e \in Pending : Record(e) /\ Overtaken(e))

\* Events move, or a repetition is dropped.
Keeps ==
    /\ agent' = agent /\ Looks /\ UNCHANGED projectionVars
    /\ history'.mishap = history.mishap /\ history'.anchor = history.anchor
    /\ \A e \in Pending' : \E d \in Pending : Like(d, e)
    /\ \A d \in Pending : Known(d) \/ \E e \in Pending' : Like(d, e)

\* An event is stored and none of those before it comes later.
Records(e) ==
    /\ agent' = agent /\ watched' = watched
    /\ e \in Pending /\ Record(e) /\ ~Known(e) /\ ~Overtaken(e)
    /\ ids' = ids \cup {e.id}
    /\ history'.mishap = history.mishap
    /\ history'.anchor = IF e.kind = "PromptSubmitted" THEN e.id ELSE history.anchor
    /\ Pending' = {d \in Pending : d.id # e.id}
    /\ Due' = {d \in Due : d.id > e.id}

LEMMA LosesWay ==
    ASSUME Base, Base', agent' = agent, agent.events # 0, history'.mishap = agent.events, ~ignored'
    PROVE  Due' = {} /\ ~Recovered'
<1>1. /\ agent.events \in Nat /\ ids' \subseteq 1 .. agent.events /\ history'.anchor \in ids' \cup {0}
      /\ \A e \in Waiting' : e.id \in 1 .. agent.events
  BY Clock DEF Base, Traces, Origins, Origin
<1>2. Due' = {}
  <2>1. ASSUME NEW e \in Due' PROVE FALSE
    <3>1. e.id > agent.events /\ e \in Waiting'
      BY <2>1 DEF Due, Pending
    <3> QED BY <1>1, <3>1
  <2> QED BY <2>1
<1>3. ~Recovered'
  <2>2. history'.anchor \in 1 .. agent.events \/ history'.anchor = 0
    BY <1>1
  <2>1. history'.anchor \in Nat /\ history'.anchor <= agent.events
    BY <1>1, <2>2
  <2> QED BY <1>1, <2>1 DEF Recovered
<1> QED BY <1>2, <1>3

LEMMA RecordsWay ==
    ASSUME Base, Base', NEW e \in Event, Takes(e), Record(e), ~Known(e), ids' = ids \cup {e.id}, ~Overtaken(e)
    PROVE  Records(e)
<1>0. /\ Waiting \subseteq Event /\ e.id \in Nat /\ ids \subseteq Nat /\ history.mishap \in Nat
      /\ \A d \in Waiting : d.id \in Nat
  BY WaitingType, EventType, Clock DEF Base, FeedTypeOK, Traces
<1>1. e \in Pending
  BY DEF Takes, Known, Pending, Waiting
<1>2. history'.mishap = history.mishap
      /\ history'.anchor = IF e.kind = "PromptSubmitted" THEN e.id ELSE history.anchor
  BY StoredRow DEF Takes, Base
<1>3. Pending' = {d \in Pending : d.id # e.id}
  BY DEF Pending, Takes
<1>4. Due' = {d \in Due : d.id > e.id}
  <2>1. ASSUME NEW d \in Due' PROVE d \in Due /\ d.id > e.id
    BY <1>0, <1>2, <1>3, <2>1 DEF Due, Pending
  <2>2. ASSUME NEW d \in Due, d.id > e.id PROVE d \in Due'
    BY <1>0, <1>2, <1>3, <2>2 DEF Due, Pending
  <2> QED BY <2>1, <2>2
<1> QED BY <1>1, <1>2, <1>3, <1>4 DEF Records, Takes

\* The steps of a session that is not ignored.
LEMMA FeedWays ==
    ASSUME Base, Base', [FeedNext]_vars, ~ignored'
    PROVE  /\ ~ignored
           /\ \/ \E x \in Event : Emits(x) /\ Does(x)
              \/ Dwells \/ Reports \/ Loses \/ Keeps
              \/ \E e \in Event : Records(e)
<1>0. FeedTypeOK /\ Waiting \subseteq Event /\ (\A e \in Waiting : e.id \in 1 .. agent.events) /\ agent.events \in Nat
  BY WaitingType, Clock DEF Base, Origins, Origin
<1>2. ASSUME Carries PROVE ~ignored /\ (Loses \/ Keeps)
  <2>1. /\ agent' = agent /\ Looks /\ UNCHANGED projectionVars /\ ids' = ids /\ ignored' = ignored
        /\ history'.anchor = history.anchor
    BY <1>2 DEF Carries, Looks, projectionVars
  <2>2. \A e \in Pending' : \E d \in Pending : Like(d, e)
    BY <1>2, <2>1 DEF Carries, Pending, Like
  <2>3. CASE Waiting # {} /\ history'.mishap = agent.events
    <3>1. agent.events # 0
      BY <1>0, <2>3
    <3> QED BY <2>1, <2>2, <2>3, <3>1, LosesWay DEF Loses
  <2>4. CASE /\ history'.mishap = history.mishap
             /\ \A d \in Waiting : (\E e \in Waiting' : Like(d, e)) \/ (d = replayed /\ d # NoEvent)
    <3>1. replayed # NoEvent => Known(replayed)
      BY <2>1 DEF Base, Traces
    <3>2. \A d \in Pending : Known(d) \/ \E e \in Pending' : Like(d, e)
      BY <2>1, <2>4, <3>1 DEF Pending, Like
    <3> QED BY <2>1, <2>2, <2>4, <3>2 DEF Keeps
  <2> QED BY <1>2, <2>3, <2>4 DEF Carries
<1>3. ASSUME NEW e \in Event, Takes(e)
      PROVE  ~ignored /\ (Loses \/ Keeps \/ Records(e))
  <2>1. /\ ~ignored /\ e \in Waiting /\ agent' = agent /\ watched' = watched /\ agent.events # 0
        /\ Waiting' \subseteq Waiting /\ Waiting \ {e} \subseteq Waiting'
        /\ history'.mishap = IF Overtaken(e) THEN agent.events ELSE history.mishap
        /\ history'.anchor = IF e.kind = "PromptSubmitted" /\ ~Overtaken(e) THEN e.id ELSE history.anchor
    BY <1>0, <1>3, TakesWay, StoredRow DEF Takes
  <2>2. CASE Known(e) /\ UNCHANGED projectionVars
    <3>1. ids' = ids /\ Pending' \subseteq Pending /\ Pending \ {e} \subseteq Pending' /\ Looks
      BY <2>1, <2>2 DEF projectionVars, Pending, Looks
    <3>2. \A d \in Pending' : \E c \in Pending : Like(c, d)
      BY <3>1, LikeSelf
    <3>3. CASE Overtaken(e)
      BY <2>1, <2>2, <3>1, <3>2, <3>3, LosesWay DEF Loses
    <3>4. CASE ~Overtaken(e)
      <4>1. e.kind = "PromptSubmitted" => e.id \in ids
        BY <2>1, <2>2 DEF Base, KeysFree, Known, Pending
      <4>2. history'.anchor = history.anchor
        BY <2>1, <3>4, <4>1 DEF Base, Traces
      <4>3. \A d \in Pending : Known(d) \/ \E c \in Pending' : Like(d, c)
        BY <2>2, <3>1, LikeSelf
      <4> QED BY <2>1, <2>2, <3>1, <3>2, <3>4, <4>2, <4>3 DEF Keeps
    <3> QED BY <3>3, <3>4
  <2>3. CASE Record(e) /\ ~Known(e) /\ ids' = ids \cup {e.id}
    <3>1. CASE Overtaken(e)
      <4>1. e \in Pending /\ Pending' \subseteq Pending /\ Looks
        BY <2>1, <2>3 DEF Pending, Known, Looks
      <4>2. \A d \in Pending' : \E c \in Pending : Like(c, d)
        BY <4>1, LikeSelf
      <4> QED BY <2>1, <2>3, <3>1, <4>1, <4>2, LosesWay DEF Loses
    <3>2. CASE ~Overtaken(e)
      BY <1>3, <2>1, <2>3, <3>2, RecordsWay
    <3> QED BY <3>1, <3>2
  <2> QED BY <1>0, <1>3, <2>1, <2>2, <2>3, TakesWay
<1>4. ASSUME NEW x \in Event, Emits(x) PROVE ~ignored
  BY <1>4 DEF Emits, projectionVars
<1>5. Dwells \/ Reports => ~ignored
  BY DEF Dwells, Reports, projectionVars
<1> QED BY <1>0, <1>2, <1>3, <1>4, <1>5, FeedMoves

-----------------------------------------------------------------------------
(* Events that others follow *)

\* Every event of A is followed by one of B.
Follows(D, A, B) == \A e \in D \cap A : \E s \in D \cap B : s.id > e.id

\* A class of events that does not tell an event from what a file keeps of it.
IsClass(A) == A \subseteq Event /\ \A d \in A, e \in Event : Like(d, e) => e \in A

\* E is what is left of D: an event may go when it was known, or with all before it.
Thins(D, E, K) ==
    /\ \A e \in E : \E d \in D : Like(d, e)
    /\ \A d \in D : d \in K \/ (\E e \in E : Like(d, e)) \/ (\A e \in E : e.id > d.id)

LEMMA FollowsThins ==
    ASSUME NEW D, NEW E, NEW K, NEW A, NEW B, D \subseteq Event, E \subseteq Event, IsClass(A), IsClass(B),
           Thins(D, E, K), Follows(D, A, B), \A s \in D \cap B : s \notin K
    PROVE  Follows(E, A, B)
<1> SUFFICES ASSUME NEW e \in E \cap A
             PROVE  \E s \in E \cap B : s.id > e.id
  BY DEF Follows
<1>1. PICK d \in D : Like(d, e)
  BY DEF Thins
<1>2. d \in A /\ d.id = e.id /\ e.id \in Nat
  BY <1>1, LikeTwice, EventType DEF IsClass, Like
<1>3. PICK s \in D \cap B : s.id > d.id
  BY <1>1, <1>2 DEF Follows
<1>4. s \notin K /\ s.id \in Nat /\ ~(\A c \in E : c.id > s.id)
  BY <1>2, <1>3, EventType
<1>5. PICK c \in E : Like(s, c)
  BY <1>3, <1>4 DEF Thins
<1> QED BY <1>2, <1>3, <1>5 DEF IsClass, Like

\* A new event on top: it is not of A, or not the one that A waits for.
LEMMA FollowsMore ==
    ASSUME NEW D, NEW x, NEW A, NEW B, x \notin A, Follows(D, A, B) \/ (x \in B /\ \A e \in D : e.id < x.id)
    PROVE  Follows(D \cup {x}, A, B)
BY DEF Follows

LEMMA FollowsLess ==
    ASSUME NEW D, NEW A, NEW B, NEW C, Follows(D, A, B)
    PROVE  Follows(D, A \cap C, B)
BY DEF Follows

Before(at) == {e \in Event : e.at < at}

LEMMA BeforeClass ==
    ASSUME NEW A, NEW at, IsClass(A)
    PROVE  IsClass(A \cap Before(at))
BY DEF IsClass, Before, Like

Acquainted == {e \in Event : Known(e)}

LEMMA DueThins ==
    ASSUME Base, Base', ~ignored', Dwells \/ Reports \/ Loses \/ Keeps \/ \E e \in Event : Records(e)
    PROVE  Thins(Due, Due', Acquainted) /\ Due \subseteq Event /\ Due' \subseteq Event
<1>0. Due \subseteq Event /\ Due' \subseteq Event /\ Due \subseteq Pending
  BY WaitingType DEF Base, FeedTypeOK, Waiting, Due, Pending
<1>1. CASE Dwells \/ Reports
  <2>1. Due' = Due
    BY <1>1 DEF Dwells, Reports, Due, Pending, Waiting, projectionVars
  <2> QED BY <1>0, <2>1, LikeSelf DEF Thins
<1>2. CASE Loses
  BY <1>0, <1>2 DEF Loses, Thins
<1>3. CASE Keeps
  <2>1. ids' = ids /\ history'.mishap = history.mishap
    BY <1>3 DEF Keeps, projectionVars
  <2>2. \A d, e : Like(d, e) => d.id = e.id
    BY DEF Like
  <2>3. \A e \in Due' : \E d \in Due : Like(d, e)
    BY <1>3, <2>1, <2>2 DEF Keeps, Due
  <2>4. \A d \in Due : d \in Acquainted \/ \E e \in Due' : Like(d, e)
    BY <1>0, <1>3, <2>1, <2>2 DEF Keeps, Due, Acquainted
  <2> QED BY <1>0, <2>3, <2>4 DEF Thins
<1>4. ASSUME NEW e \in Event, Records(e) PROVE Thins(Due, Due', Acquainted)
  <2>1. Due' = {d \in Due : d.id > e.id} /\ e.id \in Nat /\ \A d \in Due : d.id \in Nat
    BY <1>0, <1>4, EventType DEF Records
  <2> QED BY <2>1, LikeSelf DEF Thins
<1> QED BY <1>0, <1>1, <1>2, <1>3, <1>4

\* A new event is due.
LEMMA EmitsDue ==
    ASSUME Base, NEW x \in Event, Emits(x)
    PROVE  /\ Due' = Due \cup {x} /\ Pending' = Pending \cup {x} /\ \A e \in Pending : e.id < x.id
           /\ x.at >= Now /\ x.at = Now' /\ x.at >= session.last
           /\ (Recovered' <=> Recovered)
<1>1. /\ x.id = agent.events + 1 /\ agent.events \in Nat /\ ids \subseteq 1 .. agent.events /\ history.mishap \in Nat
      /\ history.mishap <= agent.events /\ agent'.events = agent.events + 1 /\ x.at = TimeOf[x.id]
      /\ UNCHANGED <<history, ids, session>> /\ session.last \in Nat /\ session.last <= Now
      /\ Pending \subseteq Waiting /\ x.id \in Ids
  BY Clock, EventType DEF Base, Traces, Rows, FeedTypeOK, ProjectionTypeOK, Emits, projectionVars, Pending
<1>2. Pending' = Pending \cup {x} /\ \A e \in Waiting : e.id < x.id
  BY EmitsMore
<1>3. Due' = Due \cup {x}
  BY <1>1, <1>2 DEF Due
<1>4. Now <= x.at /\ Now \in Nat /\ x.at \in Nat
  BY <1>1, Clock, EventType, FeedAssumption DEF Base, Now
<1>5. Now' = x.at
  BY <1>1 DEF Now
<1> QED BY <1>1, <1>2, <1>3, <1>4, <1>5 DEF Recovered

\* Once the session has recovered, what is stored in order came in time.
LEMMA RecordsDue ==
    ASSUME Base, NEW e \in Event, Records(e), Recovered', ~ignored
    PROVE  /\ e \in Due
           /\ e.kind # "PromptSubmitted" => Recovered
<1>1. /\ e \in Pending /\ e.id \in Nat /\ e.id >= 1 /\ history.mishap \in Nat /\ ids \subseteq Nat
      /\ history.anchor \in ids \cup {0} /\ \A i \in ids : i <= e.id /\ i # e.id
      /\ history'.mishap = history.mishap
      /\ history'.anchor = IF e.kind = "PromptSubmitted" THEN e.id ELSE history.anchor
  <2>1. /\ e \in Pending /\ Pending \subseteq Waiting /\ e.id \in Nat /\ e.id >= 1 /\ ids \subseteq Nat
        /\ history'.mishap = history.mishap
        /\ history'.anchor = IF e.kind = "PromptSubmitted" THEN e.id ELSE history.anchor
    BY EventType, Clock DEF Base, Traces, Records, Pending
  <2>2. history.mishap \in Nat
    BY FeedAssumption DEF Base, FeedTypeOK
  <2>3. \A i \in ids : i <= e.id /\ i # e.id
    BY <2>1 DEF Records, Overtaken, Pending
  <2>4. history.anchor \in ids \cup {0}
    BY DEF Base, Traces
  <2> QED BY <2>1, <2>2, <2>3, <2>4
<1>2. history.anchor \in Nat /\ history.anchor <= e.id
  <2>1. CASE history.anchor \in ids
    BY <1>1, <2>1
  <2>2. CASE history.anchor = 0
    BY <1>1, <2>2
  <2> QED BY <1>1, <2>1, <2>2
<1>3. \A i \in ids : i < e.id
  BY <1>1
<1>4. history.mishap = 0 \/ history.mishap < history'.anchor
  BY <1>1 DEF Recovered
<1>5. e.id > history.mishap
  BY <1>1, <1>2, <1>4
<1>6. e.kind # "PromptSubmitted" => Recovered
  BY <1>1, <1>4 DEF Recovered
<1> QED BY <1>1, <1>3, <1>5, <1>6 DEF Due

-----------------------------------------------------------------------------
(* A session that waits for a permission has an item                         *)

SheetOpeners == {e \in Event : ObservesSheet(e)}

SheetClosers ==
    {e \in Event : ProviderAdvanced(e) \/ e.kind \in {"PromptSubmitted", "Interrupted", "Failed", "SessionEnded"}}

\* While the sheet is on the screen, what seems to close it came before it.
\* While the session waits, an event that would close the items without moving
\* the state is followed by one that opens an item.
SheetInv ==
    ~ignored =>
      /\ agent.phase = "sheet" => Follows(Due, SheetClosers, SheetOpeners)
      /\ session.state = "awaiting_approval" =>
           /\ Follows(Due, SheetClosers \cap Before(session.last), SheetOpeners)
           /\ native = {} /\ Recovered => Pending \cap SheetOpeners # {}

LEMMA SheetClasses == IsClass(SheetOpeners) /\ IsClass(SheetClosers)
<1>1. IsClass(SheetOpeners)
  BY DEF IsClass, SheetOpeners, ObservesSheet, Like, Kept
<1>2. IsClass(SheetClosers)
  BY DEF IsClass, SheetClosers, ProviderAdvanced, Like, Kept
<1> QED BY <1>1, <1>2

LEMMA SheetReports ==
    ASSUME Base, Reports, session'.state = "awaiting_approval"
    PROVE  \/ agent.phase = "sheet" /\ native' # {}
           \/ session' = session /\ (native' = {} => native = {})
<1>0. ProjectionTypeOK /\ (session.state = "awaiting_approval" => session.owner = "terminal")
  BY DEF Base, FeedTypeOK, Rows
<1>1. ASSUME NEW state, NEW owner, NEW last, SetState(state, owner, last), state # "awaiting_approval"
      PROVE  FALSE
  BY <1>0, <1>1, SetRow
<1>2. CASE agent.phase = "sheet" /\ SheetSeen(Now)
  BY <1>2 DEF SheetSeen
<1>3. ASSUME NEW active \in BOOLEAN, SheetGone(active, Now)
      PROVE  FALSE
  <2>1. CASE session.owner = "none"
    BY <1>0, <1>3, <2>1 DEF SheetGone
  <2>2. CASE session.owner # "none"
    <3>1. SetState(IF active THEN "thinking" ELSE "response_finished", "none", Later(Now))
      BY <1>3, <2>2 DEF SheetGone
    <3>2. (IF active THEN "thinking" ELSE "response_finished") # "awaiting_approval"
      OBVIOUS
    <3> QED BY <1>1, <3>1, <3>2
  <2> QED BY <2>1, <2>2
<1>4. ASSUME NEW active \in BOOLEAN, SyncExecution(active, Now)
      PROVE  session' = session /\ native' = native
  <2> DEFINE next == IF active
                     THEN IF session.state \in {"idle", "response_finished", "failed", "waiting_for_event"}
                          THEN "thinking" ELSE session.state
                     ELSE IF session.state \notin {"idle", "response_finished", "failed"}
                          THEN "response_finished" ELSE session.state
  <2>1. /\ native' = native
        /\ IF next # session.state THEN SetState(next, "none", Later(Now)) ELSE UNCHANGED session
    BY <1>4, Zenon DEF SyncExecution
  <2>2. next # session.state => next # "awaiting_approval"
    BY Zenon
  <2> HIDE DEF next
  <2> QED BY <1>1, <2>1, <2>2
<1>5. CASE watched.on /\ MarkUnconfirmed(watched.last)
  BY <1>1, <1>5 DEF MarkUnconfirmed
<1>6. ASSUME NEW turn \in native, DismissSheet(turn)
      PROVE  session' = session /\ (native' = {} => native = {})
  <2>1. ~SetState("waiting_for_event", "none", session.last)
    BY <1>1
  <2>2. session' = session /\ ~(native = {turn} /\ session.state = "awaiting_approval") /\ native' = native \ {turn}
    BY <1>6, <2>1 DEF DismissSheet
  <2> QED BY <2>2
<1>7. ASSUME NEW r \in reminders, Acknowledge(r)
      PROVE  session' = session /\ native' = native
  BY <1>1, <1>7 DEF Acknowledge
<1>8. CASE UNCHANGED projectionVars
  BY <1>8 DEF projectionVars
<1>9. CASE SheetGone(agent.phase \in {"working", "tool", "answered"}, Now)
  <2>1. (agent.phase \in {"working", "tool", "answered"}) \in BOOLEAN
    OBVIOUS
  <2> QED BY <1>3, <1>9, <2>1, Zenon
<1>10. CASE SyncExecution(agent.phase \in Busy, Now)
  <2>1. (agent.phase \in Busy) \in BOOLEAN
    OBVIOUS
  <2> QED BY <1>4, <1>10, <2>1, Zenon
<1> QED
  BY <1>2, <1>5, <1>6, <1>7, <1>8, <1>9, <1>10, Zenon DEF Reports

\* Storing an event that leaves the session waiting.
LEMMA SheetRecord ==
    ASSUME Base, NEW e \in Event, Record(e), session'.state = "awaiting_approval", native' = {}
    PROVE  /\ session.state = "awaiting_approval" /\ e \notin SheetOpeners
           /\ native # {} \/ e.kind = "PromptSubmitted" => e \in SheetClosers /\ e.at < session.last
<1>0. /\ ProjectionTypeOK /\ (~session.exists => session = Absent) /\ session.last \in Nat /\ e.at \in Nat
      /\ (session.state = "awaiting_approval" => session.owner = "terminal")
      /\ e.kind \in Kinds
  BY EventType DEF Base, FeedTypeOK, ProjectionTypeOK, Rows
<1>1. ~ObservesSheet(e) /\ native \ SheetsClosed(e) = {}
  BY DEF Record, NativeAfter
<1>2. CASE MayUpdate(e)
  <2>1. NextState(e) = "awaiting_approval"
    BY <1>0, <1>2, RecordRow
  <2>2. PreservesSheet(e) \/ PreservesCompactingTurn(e) \/ e.kind = "Notification"
    BY <1>0, <1>1, <2>1 DEF NextState, Projected, Kinds
  <2>3. session.state = "awaiting_approval"
    BY <1>1, <2>1 DEF NextState, Projected, PreservesSheet, PreservesCompactingTurn
  <2>4. e.kind # "PromptSubmitted" /\ SheetsClosed(e) = {}
    BY <2>2 DEF PreservesSheet, PreservesCompactingTurn, SheetsClosed, ProviderAdvanced
  <2> QED BY <1>1, <2>3, <2>4 DEF SheetOpeners
<1>3. CASE ~MayUpdate(e)
  <2>1. session.state = "awaiting_approval" /\ e.at < session.last
    BY <1>0, <1>3, RecordRow DEF Terminal
  <2>2. native # {} => SheetsClosed(e) # {}
    BY <1>1
  <2>3. native # {} \/ e.kind = "PromptSubmitted" => e \in SheetClosers
    BY <2>2 DEF SheetsClosed, SheetClosers
  <2> QED BY <1>1, <2>1, <2>3 DEF SheetOpeners
<1> QED BY <1>2, <1>3

LEMMA SheetKeeps ==
    ASSUME Base, Base', SheetInv, [FeedNext]_vars
    PROVE  SheetInv'
<1> SUFFICES ASSUME ~ignored' PROVE SheetInv'
  BY DEF SheetInv
<1>0. /\ ~ignored /\ Pending \subseteq Event /\ Due \subseteq Pending
      /\ session.last \in Nat /\ session'.last \in Nat
  BY FeedWays, WaitingType DEF Base, FeedTypeOK, ProjectionTypeOK
<1>1. agent.phase = "sheet" => Follows(Due, SheetClosers, SheetOpeners)
  BY <1>0 DEF SheetInv
<1>2. session.state = "awaiting_approval" =>
        /\ Follows(Due, SheetClosers \cap Before(session.last), SheetOpeners)
        /\ native = {} /\ Recovered => Pending \cap SheetOpeners # {}
  BY <1>0 DEF SheetInv
<1>3. \A s \in Pending \cap SheetOpeners : ~Known(s)
  BY DEF Pending, SheetOpeners, ObservesSheet, Known, Keyed
<1>4. \A s \in Due \cap SheetOpeners : s \notin Acquainted
  BY <1>0, <1>3 DEF Acquainted
<1>5. ASSUME NEW x \in Event, Emits(x), Does(x) PROVE SheetInv'
  <2>1. /\ Due' = Due \cup {x} /\ Pending' = Pending \cup {x} /\ (\A e \in Due : e.id < x.id)
        /\ x.at >= session.last /\ (Recovered' <=> Recovered)
        /\ session' = session /\ native' = native
    BY <1>0, <1>5, EmitsDue DEF Emits, projectionVars
  <2>2. ASSUME agent'.phase = "sheet" PROVE Follows(Due', SheetClosers, SheetOpeners)
    <3>1. \/ x.kind = "PermissionRequested" /\ x.mark \notin Kept
          \/ agent.phase = "sheet" /\ x.kind = "ToolFinished" /\ x.mark = "helper"
      BY <1>5, <2>2 DEF Does, AtRest, AtWork
    <3>2. x \notin SheetClosers /\ (x \in SheetOpeners \/ agent.phase = "sheet")
      BY <3>1 DEF SheetClosers, SheetOpeners, ProviderAdvanced, ObservesSheet, Kept
    <3> QED BY <1>1, <2>1, <3>2, FollowsMore
  <2>3. ASSUME session.state = "awaiting_approval"
        PROVE  Follows(Due', SheetClosers \cap Before(session.last), SheetOpeners)
    <3>1. x \notin SheetClosers \cap Before(session.last)
      BY <1>0, <2>1, EventType DEF Before
    <3> QED BY <1>2, <2>1, <2>3, <3>1, FollowsMore
  <2>4. session.state = "awaiting_approval" /\ native = {} /\ Recovered => Pending' \cap SheetOpeners # {}
    BY <1>2, <2>1
  <2> QED BY <2>1, <2>2, <2>3, <2>4 DEF SheetInv
<1>6. CASE Dwells \/ Keeps
  <2>1. /\ session' = session /\ native' = native /\ (agent'.phase = "sheet" => agent.phase = "sheet")
        /\ (Recovered' <=> Recovered)
    BY <1>6 DEF Dwells, Keeps, projectionVars, Recovered
  <2>2. Thins(Due, Due', Acquainted) /\ Due \subseteq Event /\ Due' \subseteq Event
    BY <1>6, DueThins
  <2>3. agent'.phase = "sheet" => Follows(Due', SheetClosers, SheetOpeners)
    BY <1>1, <1>4, <2>1, <2>2, SheetClasses, FollowsThins
  <2>4. session.state = "awaiting_approval" => Follows(Due', SheetClosers \cap Before(session.last), SheetOpeners)
    BY <1>2, <1>4, <2>2, SheetClasses, BeforeClass, FollowsThins
  <2>5. Pending \cap SheetOpeners # {} => Pending' \cap SheetOpeners # {}
    <3>1. ASSUME NEW s \in Pending \cap SheetOpeners PROVE Pending' \cap SheetOpeners # {}
      <4>1. CASE Dwells
        BY <3>1, <4>1 DEF Dwells, Pending, Waiting, projectionVars
      <4>2. CASE Keeps
        <5>1. PICK e \in Pending' : Like(s, e)
          BY <1>3, <3>1, <4>2 DEF Keeps
        <5>2. e \in Event
          BY <5>1, WaitingType DEF Pending, Waiting, Base, FeedTypeOK
        <5> QED BY <3>1, <5>1, <5>2, SheetClasses DEF IsClass
      <4> QED BY <1>6, <4>1, <4>2
    <3> QED BY <3>1
  <2> QED BY <1>2, <2>1, <2>3, <2>4, <2>5 DEF SheetInv
<1>7. CASE Loses
  BY <1>7 DEF Loses, SheetInv, Follows
<1>8. ASSUME NEW e \in Event, Records(e) PROVE SheetInv'
  <2>1. Record(e) /\ agent' = agent /\ Due' = {d \in Due : d.id > e.id} /\ Pending' = {d \in Pending : d.id # e.id}
    BY <1>8 DEF Records
  <2>2. Thins(Due, Due', Acquainted) /\ Due \subseteq Event /\ Due' \subseteq Event
    BY <1>8, DueThins
  <2>3. agent'.phase = "sheet" => Follows(Due', SheetClosers, SheetOpeners)
    BY <1>1, <1>4, <2>1, <2>2, SheetClasses, FollowsThins
  <2>4. ASSUME session'.state = "awaiting_approval"
        PROVE  Follows(Due', SheetClosers \cap Before(session'.last), SheetOpeners)
    <3>0. ProjectionTypeOK /\ (~session.exists => session = Absent)
      BY DEF Base, FeedTypeOK, Rows
    <3>1. CASE MayUpdate(e)
      <4>1. session'.last = e.at
        BY <2>1, <3>0, <3>1, RecordRow
      <4>2. \A d \in Due' : d.at >= e.at /\ d.at \in Nat /\ e.at \in Nat
        BY <1>0, <1>8, <2>1, Clock, EventType DEF Base, Origins, Origin, Records, Pending
      <4> QED BY <4>1, <4>2 DEF Follows, Before
    <3>2. CASE ~MayUpdate(e)
      <4>1. session'.last = session.last /\ session.state = "awaiting_approval"
        BY <2>1, <2>4, <3>0, <3>2, RecordRow
      <4> QED BY <1>2, <1>4, <2>2, <4>1, SheetClasses, BeforeClass, FollowsThins
    <3> QED BY <3>1, <3>2
  <2>5. ASSUME session'.state = "awaiting_approval", native' = {}, Recovered'
        PROVE  Pending' \cap SheetOpeners # {}
    <3>1. /\ session.state = "awaiting_approval" /\ e \notin SheetOpeners
          /\ native # {} \/ e.kind = "PromptSubmitted" => e \in SheetClosers /\ e.at < session.last
      BY <2>1, <2>5, SheetRecord
    <3>2. e \in Due /\ (e.kind # "PromptSubmitted" => Recovered)
      BY <1>0, <1>8, <2>5, RecordsDue
    <3>3. PICK s \in Pending : s \in SheetOpeners
      <4>1. CASE native # {} \/ e.kind = "PromptSubmitted"
        <5>1. e \in Due \cap (SheetClosers \cap Before(session.last))
          BY <3>1, <3>2, <4>1 DEF Before
        <5> QED BY <1>0, <1>2, <3>1, <5>1 DEF Follows
      <4>2. CASE native = {} /\ e.kind # "PromptSubmitted"
        BY <1>2, <3>1, <3>2, <4>2
      <4> QED BY <4>1, <4>2
    <3>4. s.id # e.id
      <4>1. s \in Waiting /\ e \in Waiting
        BY <1>0, <3>2, <3>3 DEF Pending
      <4>2. s.id = e.id => Like(s, e)
        BY <4>1 DEF Base, Traces
      <4> QED BY <3>1, <3>3, <4>2, SheetClasses DEF IsClass
    <3> QED BY <2>1, <3>3, <3>4
  <2> QED BY <2>3, <2>4, <2>5 DEF SheetInv
<1>9. CASE Reports
  <2>1. /\ Due' = Due /\ Pending' = Pending /\ agent' = agent /\ (Recovered' <=> Recovered)
    BY <1>9 DEF Reports, Due, Pending, Waiting, Recovered
  <2>2. ASSUME session'.state = "awaiting_approval"
        PROVE  /\ Follows(Due, SheetClosers \cap Before(session'.last), SheetOpeners)
               /\ native' = {} /\ Recovered => Pending \cap SheetOpeners # {}
    BY <1>1, <1>2, <1>9, <2>2, SheetReports, FollowsLess
  <2> QED BY <1>1, <2>1, <2>2 DEF SheetInv
<1> QED BY <1>5, <1>6, <1>7, <1>8, <1>9, FeedWays

LEMMA SheetInvariant == FeedSpec => []SheetInv
<1>1. FeedInit => SheetInv
  <2>1. FeedInit => agent.phase = "new" /\ session = Absent
    BY DEF FeedInit, ProjectionInit
  <2> QED BY <2>1 DEF SheetInv, Absent
<1> QED BY <1>1, SheetKeeps, BaseInvariant, PTL DEF FeedSpec

\* A session that is shown waiting for a permission has an open item, once every
\* event has arrived.
THEOREM FeedSheets == FeedSpec => []SheetIsOpen
<1>1. Base /\ SheetInv => SheetIsOpen
  <2> SUFFICES ASSUME Base, SheetInv, Quiet, session.state = "awaiting_approval" PROVE native # {}
    BY DEF SheetIsOpen
  <2>1. Waiting = {} /\ Recovered
    BY DEF Quiet, Underway, Waiting
  <2>2. ~ignored
    BY DEF Base, Rows, Absent
  <2> QED BY <2>1, <2>2 DEF SheetInv, Pending
<1> QED BY <1>1, BaseInvariant, SheetInvariant, PTL

-----------------------------------------------------------------------------
(* A session is shown at work while its Agent works                          *)

\* Events that bring a session to rest.
Ends(e) ==
    \/ e.kind \in Ending \cup {"SessionEnded", "Notification"}
    \/ e.kind = "SessionStarted" /\ e.mark # "compact"

CurPrompts(t) == {e \in Event : e.kind = "PromptSubmitted" /\ e.turn = t}

OldOnes(t) == {e \in Event : Ends(e) \/ (e.kind = "PromptSubmitted" /\ e.turn # t)}

\* The prompt of the turn the Agent works on comes after all that would bring the
\* session to rest, and once it was stored the session is shown at work.
WorkInv ==
    ~ignored /\ agent.phase \in Busy /\ ~agent.again =>
      /\ Follows(Due, OldOnes(agent.turn), CurPrompts(agent.turn))
      /\ Recovered /\ Pending \cap CurPrompts(agent.turn) = {} => session.state \notin Over
      /\ Due \cap (CurPrompts(agent.turn) \cap Before(session.last)) # {} => session.state \notin Over

LEMMA WorkClasses == \A t : IsClass(CurPrompts(t)) /\ IsClass(OldOnes(t))
<1> SUFFICES ASSUME NEW t PROVE IsClass(CurPrompts(t)) /\ IsClass(OldOnes(t))
  OBVIOUS
<1>1. IsClass(CurPrompts(t))
  BY DEF IsClass, CurPrompts, Like
<1>2. IsClass(OldOnes(t))
  BY DEF IsClass, OldOnes, Ends, Like, Kept
<1> QED BY <1>1, <1>2

\* An event of a class that is not known stays on its way.
LEMMA PendingStays ==
    ASSUME Base, Base', Keeps, NEW B, IsClass(B), NEW s \in Pending \cap B, ~Known(s)
    PROVE  \E c \in Pending' \cap B : Like(s, c)
<1>1. PICK c \in Pending' : Like(s, c)
  BY DEF Keeps
<1>2. c \in Event
  BY <1>1, WaitingType DEF Pending, Waiting, Base, FeedTypeOK
<1> QED BY <1>1, <1>2 DEF IsClass

\* An event of a class comes from one of the class.
LEMMA ClassComes ==
    ASSUME Base, NEW D, NEW E, D \subseteq Event, NEW B, IsClass(B), \A e \in E : \E d \in D : Like(d, e),
           E \cap B # {}
    PROVE  D \cap B # {}
<1>1. PICK e \in E \cap B : TRUE
  OBVIOUS
<1>2. PICK d \in D : Like(d, e)
  BY <1>1
<1>3. Like(e, d)
  BY <1>2 DEF Like
<1> QED BY <1>1, <1>2, <1>3 DEF IsClass

\* All that is left of a class is the event that is stored.
LEMMA ClassStored ==
    ASSUME Base, NEW e \in Event, Records(e), NEW B, IsClass(B), Pending' \cap B = {}, e \notin B
    PROVE  Pending \cap B = {}
<1>1. ASSUME NEW s \in Pending \cap B PROVE FALSE
  <2>1. s.id = e.id
    BY <1>1 DEF Records
  <2>2. s \in Waiting /\ e \in Waiting
    BY <1>1 DEF Records, Pending
  <2>3. Like(s, e)
    BY <2>1, <2>2 DEF Base, Traces
  <2> QED BY <1>1, <2>3 DEF IsClass
<1> QED BY <1>1

LEMMA LaterDue ==
    ASSUME Base, NEW e \in Event, Records(e), NEW d \in Due'
    PROVE  d \in Due /\ d.at >= e.at /\ d.at \in Nat /\ e.at \in Nat
BY Clock, EventType, WaitingType DEF Base, Origins, Origin, Records, Pending, Due

\* What the reports about an Agent at work come to.
LEMMA WorkReports ==
    ASSUME Base, Reports, agent.phase \in Busy
    PROVE  session' = session \/ session'.state \notin Over
<1>0. ProjectionTypeOK
  BY DEF Base, FeedTypeOK
<1>1. ASSUME NEW state, NEW owner, NEW last, SetState(state, owner, last), state \notin Over
      PROVE  session'.state \notin Over
  BY <1>0, <1>1, SetRow
<1>2. "waiting_for_event" \notin Over /\ "awaiting_approval" \notin Over /\ "thinking" \notin Over
  BY DEF Over
<1>3. CASE SheetSeen(Now)
  BY <1>1, <1>2, <1>3 DEF SheetSeen
<1>4. ASSUME SheetGone(TRUE, Now) PROVE session' = session \/ session'.state \notin Over
  <2>1. session' = session \/ SetState(IF TRUE THEN "thinking" ELSE "response_finished", "none", Later(Now))
    BY <1>4, Zenon DEF SheetGone
  <2> QED BY <1>1, <1>2, <2>1
<1>5. ASSUME SyncExecution(TRUE, Now) PROVE session' = session \/ session'.state \notin Over
  <2> DEFINE next == IF session.state \in {"idle", "response_finished", "failed", "waiting_for_event"}
                     THEN "thinking" ELSE session.state
  <2>1. IF next # session.state THEN SetState(next, "none", Later(Now)) ELSE UNCHANGED session
    BY <1>5, Zenon DEF SyncExecution
  <2>2. next # session.state => next \notin Over
    BY <1>2
  <2> HIDE DEF next
  <2> QED BY <1>1, <2>1, <2>2
<1>6. CASE \/ watched.on /\ MarkUnconfirmed(watched.last)
           \/ (\E turn \in native : DismissSheet(turn)) \/ (\E r \in reminders : Acknowledge(r))
  BY <1>1, <1>2, <1>6 DEF MarkUnconfirmed, DismissSheet, Acknowledge
<1>7. CASE UNCHANGED projectionVars
  BY <1>7 DEF projectionVars
<1>8. CASE agent.phase # "sheet" /\ SheetGone(agent.phase \in {"working", "tool", "answered"}, Now)
  <2>1. (agent.phase \in {"working", "tool", "answered"}) = TRUE
    BY <1>8 DEF Busy
  <2> QED BY <1>4, <1>8, <2>1, Zenon
<1>9. CASE SyncExecution(agent.phase \in Busy, Now)
  <2>1. (agent.phase \in Busy) = TRUE
    OBVIOUS
  <2> QED BY <1>5, <1>9, <2>1, Zenon
<1> QED
  BY <1>3, <1>6, <1>7, <1>8, <1>9, Zenon DEF Reports

\* What an event does that neither ends anything nor starts a turn.
LEMMA WorkRecord ==
    ASSUME Base, NEW e \in Event, Record(e), session.state \notin Over, ~Ends(e)
    PROVE  session'.state \notin Over
<1>0. ProjectionTypeOK /\ (~session.exists => session = Absent) /\ e.kind \in Kinds
  BY EventType DEF Base, FeedTypeOK, Rows
<1>1. NextState(e) \notin Over
  BY <1>0 DEF Ends, Ending, NextState, Projected, Kinds, Over, IdleTurnEnd, PreservesCompactingTurn
<1> QED BY <1>0, <1>1, RecordRow

LEMMA WorkKeeps ==
    ASSUME Base, Base', WorkInv, [FeedNext]_vars
    PROVE  WorkInv'
<1> SUFFICES ASSUME ~ignored', agent'.phase \in Busy, ~agent'.again PROVE WorkInv'
  BY DEF WorkInv
<1> DEFINE t == agent.turn
           Cur == CurPrompts(agent.turn)
           Old == OldOnes(agent.turn)
<1>0. /\ ~ignored /\ Pending \subseteq Event /\ Due \subseteq Pending /\ t \in Nat
      /\ session.last \in Nat /\ session'.last \in Nat /\ IsClass(Cur) /\ IsClass(Old)
      /\ ProjectionTypeOK /\ (~session.exists => session = Absent)
      /\ \A e \in Pending : e.turn \in Nat /\ e.turn <= t
  <2>1. /\ ~ignored /\ Pending \subseteq Event /\ Due \subseteq Pending /\ Pending \subseteq Waiting
        /\ session.last \in Nat /\ session'.last \in Nat /\ IsClass(Cur) /\ IsClass(Old)
        /\ ProjectionTypeOK /\ (~session.exists => session = Absent)
    BY FeedWays, WaitingType, WorkClasses DEF Base, FeedTypeOK, ProjectionTypeOK, Rows
  <2>2. t \in Nat
    BY FeedAssumption DEF Base, FeedTypeOK
  <2>3. \A e \in Pending : e.turn \in Nat /\ e.turn <= t
    BY <2>1, EventType DEF Base, Origins, Origin
  <2> QED BY <2>1, <2>2, <2>3
<1>1. \A s \in Pending \cap Cur : ~Known(s)
  BY <1>0 DEF Base, KeysFree, Pending, CurPrompts, Known
<1>2. \A s \in Due \cap Cur : s \notin Acquainted
  BY <1>0, <1>1 DEF Acquainted
<1>3. agent.phase \in Busy /\ ~agent.again =>
        /\ Follows(Due, Old, Cur)
        /\ Recovered /\ Pending \cap Cur = {} => session.state \notin Over
        /\ Due \cap (Cur \cap Before(session.last)) # {} => session.state \notin Over
  BY <1>0 DEF WorkInv
<1>5. ASSUME NEW x \in Event, Emits(x), Does(x) PROVE WorkInv'
  <2>1. /\ Due' = Due \cup {x} /\ Pending' = Pending \cup {x} /\ (\A e \in Due : e.id < x.id)
        /\ x.at >= session.last /\ x.at \in Nat /\ (Recovered' <=> Recovered)
        /\ session' = session /\ x.turn = agent'.turn
    BY <1>0, <1>5, EmitsDue, EventType DEF Emits, projectionVars
  <2>2. CASE x.kind = "PromptSubmitted" /\ x.mark \notin Kept /\ agent'.turn = t + 1
    <3>1. x \in CurPrompts(agent'.turn) /\ x \notin OldOnes(agent'.turn)
      BY <2>1, <2>2 DEF CurPrompts, OldOnes, Ends, Ending
    <3>2. Follows(Due', OldOnes(agent'.turn), CurPrompts(agent'.turn))
      BY <2>1, <3>1, FollowsMore
    <3>3. Due' \cap (CurPrompts(agent'.turn) \cap Before(session.last)) = {}
      <4>1. x \notin Before(session.last)
        BY <1>0, <2>1 DEF Before
      <4>2. \A d \in Due : d \notin CurPrompts(agent'.turn)
        BY <1>0, <2>2 DEF CurPrompts
      <4> QED BY <2>1, <4>1, <4>2
    <3> QED BY <2>1, <3>1, <3>2, <3>3 DEF WorkInv
  <2>3. CASE /\ agent.phase \in Busy /\ ~agent.again /\ agent'.turn = agent.turn
             /\ \/ x.kind \in {"ToolStarted", "ToolFinished", "Compacting", "PermissionRequested", "SubagentStarted"}
                \/ x.kind = "SessionStarted" /\ x.mark = "compact"
    <3>1. x \notin Cur /\ x \notin Old
      BY <2>3 DEF CurPrompts, OldOnes, Ends, Ending
    <3>2. Follows(Due', Old, Cur)
      BY <1>3, <2>1, <2>3, <3>1, FollowsMore
    <3>3. Pending' \cap Cur = Pending \cap Cur /\ Due' \cap (Cur \cap Before(session.last)) = Due \cap (Cur \cap Before(session.last))
      BY <2>1, <3>1
    <3> QED BY <1>3, <2>1, <2>3, <3>2, <3>3 DEF WorkInv
  <2> QED BY <1>5, <2>2, <2>3, GetsBusy
<1>6. CASE Dwells
  <2>1. /\ agent.phase \in Busy /\ agent'.turn = agent.turn /\ ~agent.again /\ session' = session
        /\ Due' = Due /\ Pending' = Pending /\ (Recovered' <=> Recovered)
    BY <1>6 DEF Dwells, projectionVars, Recovered, Busy, Due, Pending, Waiting
  <2> QED BY <1>3, <2>1 DEF WorkInv
<1>7. CASE Loses
  BY <1>7 DEF Loses, WorkInv, Follows
<1>8. CASE Keeps
  <2>1. agent' = agent /\ session' = session /\ (Recovered' <=> Recovered)
    BY <1>8 DEF Keeps, projectionVars, Recovered
  <2>2. Thins(Due, Due', Acquainted) /\ Due \subseteq Event /\ Due' \subseteq Event
    BY <1>8, DueThins
  <2>3. Follows(Due', Old, Cur)
    BY <1>0, <1>2, <1>3, <2>1, <2>2, FollowsThins
  <2>4. Pending' \cap Cur = {} => Pending \cap Cur = {}
    BY <1>0, <1>1, <1>8, PendingStays
  <2>5. Due' \cap (Cur \cap Before(session.last)) # {} => Due \cap (Cur \cap Before(session.last)) # {}
    <3>1. IsClass(Cur \cap Before(session.last))
      BY <1>0, BeforeClass
    <3> QED BY <2>2, <3>1, ClassComes DEF Thins
  <2> QED BY <1>3, <2>1, <2>3, <2>4, <2>5 DEF WorkInv
<1>9. ASSUME NEW e \in Event, Records(e) PROVE WorkInv'
  <2>1. Record(e) /\ agent' = agent /\ Due' = {d \in Due : d.id > e.id} /\ Pending' = {d \in Pending : d.id # e.id}
        /\ e \in Pending
    BY <1>9 DEF Records
  <2>2. Thins(Due, Due', Acquainted) /\ Due \subseteq Event /\ Due' \subseteq Event
    BY <1>9, DueThins
  <2>3. Follows(Due', Old, Cur)
    BY <1>0, <1>2, <1>3, <2>1, <2>2, FollowsThins
  <2>4. Due' \cap (Cur \cap Before(session'.last)) # {} => session'.state \notin Over
    <3>1. CASE MayUpdate(e)
      <4>1. session'.last = e.at
        BY <1>0, <2>1, <3>1, RecordRow
      <4>2. \A d \in Due' : d.at >= e.at /\ d.at \in Nat /\ e.at \in Nat
        BY <1>9, LaterDue
      <4> QED BY <4>1, <4>2 DEF Before
    <3>2. CASE ~MayUpdate(e)
      <4>1. session'.last = session.last /\ session'.state = session.state
        BY <1>0, <2>1, <3>2, RecordRow
      <4> QED BY <1>3, <2>1, <4>1
    <3> QED BY <3>1, <3>2
  <2>5. ASSUME Recovered', Pending' \cap Cur = {} PROVE session'.state \notin Over
    <3>1. e \in Due /\ (e.kind # "PromptSubmitted" => Recovered)
      BY <1>0, <1>9, <2>5, RecordsDue
    <3>2. CASE e \in Cur
      <4>1. e.kind = "PromptSubmitted" /\ e.at \in Nat
        BY <3>2, EventType DEF CurPrompts
      <4>2. CASE e.at >= session.last
        <5>1. session'.state = NextState(e)
          BY <1>0, <2>1, <4>1, <4>2, RecordRow
        <5>2. NextState(e) = "thinking"
          BY <4>1 DEF NextState, Projected, ObservesSheet, PreservesSheet, PreservesCompactingTurn, IdleTurnEnd
        <5> QED BY <5>1, <5>2 DEF Over
      <4>3. CASE e.at < session.last
        <5>1. session'.state = session.state
          BY <1>0, <2>1, <4>1, <4>3, RecordRow
        <5>2. e \in Due \cap (Cur \cap Before(session.last))
          BY <3>1, <3>2, <4>3 DEF Before
        <5> QED BY <1>3, <2>1, <5>1, <5>2
      <4> QED BY <1>0, <4>1, <4>2, <4>3
    <3>3. CASE e \notin Cur
      <4>1. Pending \cap Cur = {}
        BY <1>0, <1>9, <2>5, <3>3, ClassStored
      <4>2. e \notin Old
        BY <1>0, <1>3, <2>1, <3>1, <4>1 DEF Follows
      <4>3. ~Ends(e) /\ e.kind # "PromptSubmitted"
        BY <3>3, <4>2 DEF OldOnes, CurPrompts
      <4> QED BY <1>3, <2>1, <3>1, <4>1, <4>3, WorkRecord
    <3> QED BY <3>2, <3>3
  <2> QED BY <2>1, <2>3, <2>4, <2>5 DEF WorkInv
<1>10. CASE Reports
  <2>1. /\ Due' = Due /\ Pending' = Pending /\ agent' = agent /\ (Recovered' <=> Recovered)
    BY <1>10 DEF Reports, Due, Pending, Waiting, Recovered
  <2>2. session' = session \/ session'.state \notin Over
    BY <1>10, <2>1, WorkReports
  <2> QED BY <1>3, <2>1, <2>2 DEF WorkInv
<1> HIDE DEF t, Cur, Old
<1> QED BY <1>5, <1>6, <1>7, <1>8, <1>9, <1>10, FeedWays

-----------------------------------------------------------------------------
(* A session is shown at rest while its Agent rests                          *)

\* What an Agent at rest may report without going back to work.
Harmless(e) == e.kind = "Notification" \/ e.mark = "subagent"

\* What brought the Agent to rest in turn t; before the first one, its start did.
CurRests(t) ==
    {e \in Event : \/ e.kind \in Ending /\ e.turn = t
                   \/ e.kind = "SessionStarted" /\ e.mark # "compact" /\ t = 0}

Restless(t) == {e \in Event : ~Harmless(e) /\ e \notin CurRests(t)}

\* The end of the turn the Agent rests after comes after all that would bring the
\* session back to work, and once it was stored the session is shown at rest.
\* Claude goes on after that only where the session says so.
RestInv ==
    ~ignored /\ agent.phase \in AtRest /\ ~agent.again =>
      /\ Follows(Due, Restless(agent.turn), CurRests(agent.turn))
      /\ Recovered /\ Pending \cap CurRests(agent.turn) = {} =>
           session.state \notin Active /\ (agent.provider = "claude" /\ agent.turn # 0 => Terminal)
      /\ Due \cap (CurRests(agent.turn) \cap Before(session.last)) # {} => session.state \notin Active

\* Only events date the session of Claude, which no connector reports on.
ClaudeLast ==
    ~ignored /\ agent.provider = "claude" => session.last = 0 \/ \E i \in ids : session.last = TimeOf[i]

LEMMA RestClasses == \A t : IsClass(CurRests(t)) /\ IsClass(Restless(t))
<1> SUFFICES ASSUME NEW t PROVE IsClass(CurRests(t)) /\ IsClass(Restless(t))
  OBVIOUS
<1>1. IsClass(CurRests(t))
  BY DEF IsClass, CurRests, Like, Kept
<1>2. IsClass(Restless(t))
  <2>1. ASSUME NEW d \in Event, NEW e \in Event, Like(d, e), d \in Restless(t) PROVE e \in Restless(t)
    <3>1. Like(e, d) /\ ~Harmless(e)
      BY <2>1 DEF Like, Restless, Harmless, Kept
    <3> QED BY <1>1, <2>1, <3>1 DEF Restless, IsClass
  <2> QED BY <2>1 DEF IsClass, Restless
<1> QED BY <1>1, <1>2

LEMMA ClaudeLastKeeps ==
    ASSUME Base, Base', ClaudeLast, [FeedNext]_vars
    PROVE  ClaudeLast'
<1> SUFFICES ASSUME ~ignored', agent'.provider = "claude"
             PROVE  session'.last = 0 \/ \E i \in ids' : session'.last = TimeOf[i]
  BY DEF ClaudeLast
<1>0. ~ignored /\ ProjectionTypeOK /\ (~session.exists => session = Absent) /\ Pending \subseteq Event
  BY FeedWays, WaitingType DEF Base, FeedTypeOK, Rows
<1>1. ASSUME UNCHANGED <<session, ids>>, agent'.provider = agent.provider
      PROVE  session'.last = 0 \/ \E i \in ids' : session'.last = TimeOf[i]
  BY <1>0, <1>1 DEF ClaudeLast
<1>2. ASSUME NEW e \in Pending, Record(e), agent' = agent
      PROVE  session'.last = 0 \/ \E i \in ids' : session'.last = TimeOf[i]
  <2>1. ids' = ids \cup {e.id} /\ e.at = TimeOf[e.id] /\ e \in Event
    BY <1>0, <1>2 DEF Record, Base, Origins, Origin, Pending
  <2>2. session'.last = e.at \/ session'.last = session.last
    BY <1>0, <1>2, <2>1, RecordRow
  <2> QED BY <1>0, <1>2, <2>1, <2>2 DEF ClaudeLast
<1>3. ASSUME NEW x \in Event, Emits(x)
      PROVE  UNCHANGED <<session, ids>> /\ agent'.provider = agent.provider
  BY <1>3 DEF Emits, projectionVars
<1>4. Dwells \/ Keeps => UNCHANGED <<session, ids>> /\ agent'.provider = agent.provider
  BY DEF Dwells, Keeps, projectionVars
<1>5. CASE Loses
  BY <1>1, <1>2, <1>5 DEF Loses, projectionVars
<1>6. CASE Reports
  <2>1. ids' = ids /\ agent' = agent
    BY <1>6 DEF Reports
  <2>2. session'.last = session.last
    BY <1>6, <2>1, ReportRow
  <2> QED BY <1>0, <2>1, <2>2 DEF ClaudeLast
<1>7. ASSUME NEW e \in Event, Records(e)
      PROVE  session'.last = 0 \/ \E i \in ids' : session'.last = TimeOf[i]
  BY <1>2, <1>7 DEF Records
<1> QED BY <1>1, <1>3, <1>4, <1>5, <1>6, <1>7, FeedWays

\* Nothing that is stored in order is late for the session of Claude.
LEMMA ClaudeInTime ==
    ASSUME Base, ClaudeLast, ~ignored, agent.provider = "claude", NEW e \in Event, Records(e)
    PROVE  e.at >= session.last
<1>1. /\ e.id \in 1 .. agent.events /\ e.at = TimeOf[e.id] /\ e.at \in Nat /\ e.id \in Nat
      /\ ids \subseteq 1 .. agent.events /\ \A i \in ids : ~(i > e.id)
  BY EventType DEF Records, Base, Origins, Origin, Pending, Traces, Overtaken
<1>2. CASE session.last = 0
  BY <1>1, <1>2
<1>3. ASSUME NEW i \in ids, session.last = TimeOf[i] PROVE e.at >= session.last
  <2>1. i <= e.id /\ i \in 1 .. agent.events
    BY <1>1
  <2> QED BY <1>1, <1>3, <2>1, Clock DEF Base
<1> QED BY <1>2, <1>3 DEF ClaudeLast

\* What the reports about an Agent at rest come to.
LEMMA RestReports ==
    ASSUME Base, Reports, agent.phase \in AtRest
    PROVE  session' = session \/ (session'.state \notin Active /\ agent.provider = "codex")
<1>0. /\ ProjectionTypeOK /\ ~watched.on /\ agent.phase \notin Busy /\ agent.provider \in Providers
      /\ agent.provider = "claude" => session.state # "awaiting_approval" /\ native = {}
  BY DEF Base, FeedTypeOK, Rows, Stages, AtRest, Busy
<1>1. ASSUME NEW state, NEW owner, NEW last, SetState(state, owner, last), state \notin Active
      PROVE  session'.state \notin Active
  BY <1>0, <1>1, SetRow
<1>2. "waiting_for_event" \notin Active /\ "response_finished" \notin Active
  BY DEF Active
<1>3. ASSUME SheetGone(FALSE, Now) PROVE session' = session \/ session'.state \notin Active
  <2>1. session' = session \/ SetState(IF FALSE THEN "thinking" ELSE "response_finished", "none", Later(Now))
    BY <1>3, Zenon DEF SheetGone
  <2> QED BY <1>1, <1>2, <2>1
<1>4. ASSUME SyncExecution(FALSE, Now) PROVE session' = session \/ session'.state \notin Active
  <2> DEFINE next == IF session.state \notin {"idle", "response_finished", "failed"}
                     THEN "response_finished" ELSE session.state
  <2>1. IF next # session.state THEN SetState(next, "none", Later(Now)) ELSE UNCHANGED session
    BY <1>4, Zenon DEF SyncExecution
  <2>2. next # session.state => next \notin Active
    BY <1>2
  <2> HIDE DEF next
  <2> QED BY <1>1, <2>1, <2>2
<1>5. CASE (\E turn \in native : DismissSheet(turn)) \/ (\E r \in reminders : Acknowledge(r))
  BY <1>0, <1>1, <1>2, <1>5 DEF DismissSheet, Acknowledge, Providers
<1>6. CASE UNCHANGED projectionVars
  BY <1>6 DEF projectionVars
<1>7. CASE agent.provider = "codex" /\ SheetGone(agent.phase \in {"working", "tool", "answered"}, Now)
  <2>1. (agent.phase \in {"working", "tool", "answered"}) = FALSE
    BY <1>0 DEF Busy
  <2> QED BY <1>3, <1>7, <2>1, Zenon
<1>8. CASE agent.provider = "codex" /\ SyncExecution(agent.phase \in Busy, Now)
  <2>1. (agent.phase \in Busy) = FALSE
    BY <1>0
  <2> QED BY <1>4, <1>8, <2>1, Zenon
<1>9. agent.phase # "sheet"
  BY DEF AtRest
<1> QED
  BY <1>0, <1>5, <1>6, <1>7, <1>8, <1>9, Zenon DEF Reports

\* What the end of a turn does.
LEMMA RestRecord ==
    ASSUME Base, NEW t, NEW e \in Event, e \in CurRests(t), Record(e), MayUpdate(e),
           agent.provider = "claude" => session.state # "awaiting_approval"
    PROVE  session'.state \notin Active /\ (agent.provider = "claude" /\ t # 0 => Terminal')
<1>0. ProjectionTypeOK /\ (~session.exists => session = Absent)
  BY DEF Base, FeedTypeOK, Rows
<1>1. session'.state = NextState(e) /\ session'.interrupted = (e.kind = "Interrupted")
  BY <1>0, RecordRow
<1>2. CASE e.kind \in Ending
  <2>1. /\ NextState(e) \in {"awaiting_approval", "idle", "response_finished", "failed"}
        /\ session.state # "awaiting_approval" =>
             \/ NextState(e) \in {"response_finished", "failed"}
             \/ NextState(e) = "idle" /\ e.kind = "Interrupted"
    <3>1. ~ObservesSheet(e) /\ ~PreservesCompactingTurn(e) /\ ~IdleTurnEnd(e)
      BY <1>2 DEF Ending, ObservesSheet, PreservesCompactingTurn, IdleTurnEnd
    <3>2. NextState(e) = IF PreservesSheet(e) THEN session.state ELSE Projected(e)
      BY <3>1, Zenon DEF NextState
    <3>3. PreservesSheet(e) => session.state = "awaiting_approval"
      BY DEF PreservesSheet
    <3>4. \/ Projected(e) \in {"response_finished", "failed"}
          \/ Projected(e) = "idle" /\ e.kind = "Interrupted"
      BY <1>2 DEF Ending, Projected
    <3> QED BY <3>2, <3>3, <3>4
  <2>2. session'.state \notin Active
    BY <1>1, <2>1 DEF Active
  <2>3. agent.provider = "claude" =>
          \/ session'.state \in {"response_finished", "failed"}
          \/ session'.state = "idle" /\ session'.interrupted
    BY <1>1, <2>1
  <2> QED BY <2>2, <2>3 DEF Terminal
<1>3. CASE e.kind = "SessionStarted" /\ e.mark # "compact" /\ t = 0
  <2>1. NextState(e) \in {"awaiting_approval", "idle"}
    BY <1>3 DEF NextState, Projected, ObservesSheet, PreservesSheet, PreservesCompactingTurn, IdleTurnEnd
  <2> QED BY <1>1, <1>3, <2>1 DEF Active
<1> QED BY <1>2, <1>3 DEF CurRests

LEMMA RestKeeps ==
    ASSUME Base, Base', ClaudeLast, RestInv, [FeedNext]_vars
    PROVE  RestInv'
<1> SUFFICES ASSUME ~ignored', agent'.phase \in AtRest, ~agent'.again PROVE RestInv'
  BY DEF RestInv
<1> DEFINE t == agent.turn
           Cur == CurRests(agent.turn)
           Less == Restless(agent.turn)
           Shown == session.state \notin Active /\ (agent.provider = "claude" /\ agent.turn # 0 => Terminal)
<1>0. /\ ~ignored /\ Pending \subseteq Event /\ Due \subseteq Pending /\ t \in Nat
      /\ session.last \in Nat /\ session'.last \in Nat /\ IsClass(Cur) /\ IsClass(Less)
      /\ ProjectionTypeOK /\ (~session.exists => session = Absent)
      /\ Pending \subseteq Waiting
  <2>1. /\ ~ignored /\ Pending \subseteq Event /\ Due \subseteq Pending /\ Pending \subseteq Waiting
        /\ session.last \in Nat /\ session'.last \in Nat /\ IsClass(Cur) /\ IsClass(Less)
        /\ ProjectionTypeOK /\ (~session.exists => session = Absent)
    BY FeedWays, WaitingType, RestClasses DEF Base, FeedTypeOK, ProjectionTypeOK, Rows
  <2>2. t \in Nat
    BY FeedAssumption DEF Base, FeedTypeOK
  <2> QED BY <2>1, <2>2
<1>1. ASSUME agent.phase \in AtRest, ~agent.again
      PROVE  /\ \A s \in Pending \cap Cur : ~Known(s)
             /\ \A s \in Due \cap Cur : s \notin Acquainted
  <2>1. ASSUME NEW s \in Pending \cap Cur PROVE ~Known(s)
    <3>1. s.id \notin ids
      BY DEF Pending
    <3>2. CASE s.kind \in Ending /\ s.turn = agent.turn
      BY <1>0, <1>1, <3>1, <3>2 DEF Base, KeysFree, Known
    <3>3. CASE s.kind = "SessionStarted"
      BY <3>1, <3>3 DEF Known, Keyed
    <3> QED BY <3>2, <3>3 DEF CurRests
  <2> QED BY <1>0, <2>1 DEF Acquainted
<1>3. agent.phase \in AtRest /\ ~agent.again =>
        /\ Follows(Due, Less, Cur)
        /\ Recovered /\ Pending \cap Cur = {} => Shown
        /\ Due \cap (Cur \cap Before(session.last)) # {} => session.state \notin Active
  BY <1>0 DEF RestInv
<1>5. ASSUME NEW x \in Event, Emits(x), Does(x) PROVE RestInv'
  <2>1. /\ Due' = Due \cup {x} /\ Pending' = Pending \cup {x} /\ (\A e \in Due : e.id < x.id)
        /\ x.at >= session.last /\ x.at \in Nat /\ (Recovered' <=> Recovered)
        /\ session' = session /\ x.turn = agent'.turn /\ agent'.provider = agent.provider
    BY <1>0, <1>5, EmitsDue, EventType DEF Emits, projectionVars
  <2>2. ~agent.again /\ agent'.turn = agent.turn
    BY <1>5, GetsRest
  <2>3. CASE x \in Cur /\ Due \cap Cur = {}
    <3>1. Follows(Due', Less, Cur)
      BY <2>1, <2>3, FollowsMore DEF Restless
    <3>2. x \notin Before(session.last)
      BY <1>0, <2>1 DEF Before
    <3>3. Due' \cap (Cur \cap Before(session.last)) = {} /\ Pending' \cap Cur # {}
      BY <2>1, <2>3, <3>2
    <3> QED BY <2>1, <2>2, <3>1, <3>3 DEF RestInv
  <2>4. CASE agent.phase \in Busy /\ x.kind \in Ending
    <3>1. \A e \in Waiting : e.kind \in Ending => e.turn # agent.turn
      BY <1>0, <2>2, <2>4 DEF Base, KeysFree
    <3>2. agent.turn # 0
      BY <2>4 DEF Base, Stages
    <3>3. Due \cap Cur = {} /\ x \in Cur
      BY <1>0, <2>1, <2>2, <2>4, <3>1, <3>2 DEF CurRests
    <3> QED BY <2>3, <3>3
  <2>5. CASE agent.phase = "new" /\ x.kind = "SessionStarted" /\ x.mark \notin Kept
    <3>1. agent.turn = 0 /\ Waiting = {}
      BY <2>5 DEF Base, Stages, Origins, Origin
    <3>2. Due \cap Cur = {} /\ x \in Cur
      BY <1>0, <2>5, <3>1 DEF CurRests, Kept
    <3> QED BY <2>3, <3>2
  <2>6. CASE /\ agent.phase \in AtRest
             /\ x.kind = "Notification" \/ (x.kind = "ToolStarted" /\ x.mark = "subagent")
    <3>1. x \notin Cur /\ x \notin Less
      BY <2>6 DEF CurRests, Restless, Harmless, Ending
    <3>2. Follows(Due', Less, Cur)
      BY <1>3, <2>1, <2>2, <2>6, <3>1, FollowsMore
    <3>3. Pending' \cap Cur = Pending \cap Cur /\ Due' \cap (Cur \cap Before(session.last)) = Due \cap (Cur \cap Before(session.last))
      BY <2>1, <3>1
    <3>4. Terminal' <=> Terminal
      BY <2>1 DEF Terminal
    <3> QED BY <1>3, <2>1, <2>2, <2>6, <3>2, <3>3, <3>4 DEF RestInv
  <2> QED BY <1>5, <2>4, <2>5, <2>6, GetsRest
<1>6. ~Dwells
  BY DEF Dwells, AtRest
<1>7. CASE Loses
  BY <1>7 DEF Loses, RestInv, Follows
<1>8. CASE Keeps
  <2>1. agent' = agent /\ session' = session /\ (Recovered' <=> Recovered) /\ (Terminal' <=> Terminal)
    BY <1>8 DEF Keeps, projectionVars, Recovered, Terminal
  <2>2. Thins(Due, Due', Acquainted) /\ Due \subseteq Event /\ Due' \subseteq Event
    BY <1>8, DueThins
  <2>3. Follows(Due', Less, Cur)
    BY <1>0, <1>1, <1>3, <2>1, <2>2, FollowsThins
  <2>4. Pending' \cap Cur = {} => Pending \cap Cur = {}
    BY <1>0, <1>1, <1>8, <2>1, PendingStays
  <2>5. Due' \cap (Cur \cap Before(session.last)) # {} => Due \cap (Cur \cap Before(session.last)) # {}
    <3>1. IsClass(Cur \cap Before(session.last))
      BY <1>0, BeforeClass
    <3> QED BY <2>2, <3>1, ClassComes DEF Thins
  <2> QED BY <1>3, <2>1, <2>3, <2>4, <2>5 DEF RestInv
<1>9. ASSUME NEW e \in Event, Records(e) PROVE RestInv'
  <2>1. Record(e) /\ agent' = agent /\ Due' = {d \in Due : d.id > e.id} /\ Pending' = {d \in Pending : d.id # e.id}
        /\ e \in Pending
    BY <1>9 DEF Records
  <2>2. Thins(Due, Due', Acquainted) /\ Due \subseteq Event /\ Due' \subseteq Event
    BY <1>9, DueThins
  <2>3. Follows(Due', Less, Cur)
    BY <1>0, <1>1, <1>3, <2>1, <2>2, FollowsThins
  <2>4. Due' \cap (Cur \cap Before(session'.last)) # {} => session'.state \notin Active
    <3>1. CASE MayUpdate(e)
      <4>1. session'.last = e.at
        BY <1>0, <2>1, <3>1, RecordRow
      <4>2. \A d \in Due' : d.at >= e.at /\ d.at \in Nat /\ e.at \in Nat
        BY <1>9, LaterDue
      <4> QED BY <4>1, <4>2 DEF Before
    <3>2. CASE ~MayUpdate(e)
      <4>1. session'.last = session.last /\ session'.state = session.state
        BY <1>0, <2>1, <3>2, RecordRow
      <4> QED BY <1>3, <2>1, <4>1
    <3> QED BY <3>1, <3>2
  <2>5. ASSUME Recovered', Pending' \cap Cur = {} PROVE Shown'
    <3>1. e \in Due /\ (e.kind # "PromptSubmitted" => Recovered) /\ e.at \in Nat
      BY <1>0, <1>9, <2>5, RecordsDue, EventType
    <3>2. ASSUME ~MayUpdate(e)
          PROVE  session'.state = session.state /\ (Terminal' <=> Terminal)
      <4>1. session'.state = session.state /\ session'.interrupted = session.interrupted
        BY <1>0, <2>1, <3>2, RecordRow
      <4> QED BY <4>1 DEF Terminal
    <3>3. CASE e \in Cur
      <4>1. CASE MayUpdate(e)
        <5>1. agent.provider = "claude" => session.state # "awaiting_approval"
          BY DEF Base, Rows
        <5> QED BY <2>1, <3>3, <4>1, <5>1, RestRecord
      <4>2. CASE ~MayUpdate(e) /\ e.at < session.last
        <5>1. session.state \notin Active
          BY <1>3, <2>1, <3>1, <3>3, <4>2 DEF Before
        <5>2. agent.provider # "claude"
          BY <1>0, <1>9, <3>1, <4>2, ClaudeInTime
        <5> QED BY <2>1, <3>2, <4>2, <5>1, <5>2
      <4>3. CASE ~MayUpdate(e) /\ e.at >= session.last
        <5>1. Terminal
          BY <1>0, <2>1, <4>3, RecordRow
        <5>2. session.state \notin Active
          BY <5>1 DEF Terminal, Active
        <5> QED BY <3>2, <4>3, <5>1, <5>2
      <4> QED BY <1>0, <3>1, <4>1, <4>2, <4>3
    <3>4. CASE e \notin Cur
      <4>1. Pending \cap Cur = {}
        BY <1>0, <1>9, <2>5, <3>4, ClassStored
      <4>2. e \notin Less
        BY <1>0, <1>3, <2>1, <3>1, <4>1 DEF Follows
      <4>3. Harmless(e) /\ Origin(e) /\ e.turn \in Nat /\ e.provider \in Providers
        BY <1>0, <2>1, <3>4, <4>2, EventType DEF Restless, Base, Origins
      <4>4. agent.provider = "claude" /\ agent.turn # 0 /\ e.kind # "PromptSubmitted"
        BY <1>0, <4>3 DEF Harmless, Origin, Providers
      <4>5. Shown
        BY <1>3, <2>1, <3>1, <4>1, <4>4
      <4>6. ~MayUpdate(e)
        BY <1>0, <2>1, <4>3, <4>4, <4>5, RecordRow DEF Harmless, Origin, FromSubagent
      <4> QED BY <2>1, <3>2, <4>5, <4>6
    <3> QED BY <3>3, <3>4
  <2> QED BY <2>1, <2>3, <2>4, <2>5 DEF RestInv
<1>10. CASE Reports
  <2>1. /\ Due' = Due /\ Pending' = Pending /\ agent' = agent /\ (Recovered' <=> Recovered)
    BY <1>10 DEF Reports, Due, Pending, Waiting, Recovered
  <2>2. session' = session \/ (session'.state \notin Active /\ agent.provider = "codex")
    BY <1>10, <2>1, RestReports
  <2>3. session' = session => (Terminal' <=> Terminal)
    BY DEF Terminal
  <2> QED BY <1>3, <2>1, <2>2, <2>3 DEF RestInv
<1> HIDE DEF t, Cur, Less, Shown
<1> QED BY <1>5, <1>6, <1>7, <1>8, <1>9, <1>10, FeedWays

LEMMA ShownInvariant == FeedSpec => [](WorkInv /\ ClaudeLast /\ RestInv)
<1>1. FeedInit => WorkInv /\ ClaudeLast /\ RestInv
  <2>1. FeedInit => agent.phase = "new" /\ session = Absent
    BY DEF FeedInit, ProjectionInit
  <2> QED BY <2>1 DEF WorkInv, ClaudeLast, RestInv, Absent, Busy, AtRest
<1>2. WorkInv /\ ClaudeLast /\ RestInv /\ Base /\ Base' /\ [FeedNext]_vars => (WorkInv /\ ClaudeLast /\ RestInv)'
  BY WorkKeeps, ClaudeLastKeeps, RestKeeps
<1> QED BY <1>1, <1>2, BaseInvariant, PTL DEF FeedSpec

\* Once every event has arrived, the session is shown at work or at rest as its
\* Agent is.
THEOREM FeedShows == FeedSpec => []ShownIsTrue
<1>1. WorkInv /\ RestInv => ShownIsTrue
  <2> SUFFICES ASSUME WorkInv, RestInv, Quiet, ~agent.again, ~ignored
               PROVE  /\ agent.phase \in AtRest => session.state \notin Active
                      /\ agent.phase \in {"working", "tool", "sheet", "answered"} => session.state \notin Over
    BY DEF ShownIsTrue
  <2>1. Pending = {} /\ Recovered
    BY DEF Quiet, Underway, Waiting, Pending
  <2> QED BY <2>1 DEF WorkInv, RestInv, Busy
<1> QED BY <1>1, ShownInvariant, PTL

-----------------------------------------------------------------------------
(* A reminder of an end goes when the Agent works again                      *)

Sups == {e \in Event : e.kind \in Supersedes}

EndTurns == {e \in Event : e.kind \in {"Stopped", "Failed"}}

Finishes == {e \in Event : e.kind = "ToolFinished"}

\* What makes a reminder of that time pointless.
Beyond(at) == {e \in Event : e.kind \in Supersedes /\ e.at > at}

\* Between one of A and a later one of B comes one of C.
Parted(D, A, B, C) ==
    \A d \in D \cap A, e \in D \cap B : d.id < e.id => \E s \in D \cap C : d.id < s.id /\ s.id < e.id

\* Nothing went wrong since that time, and no other event falls on it.
Sure(r) == Alone(r.at) /\ (history.mishap = 0 \/ TimeOf[history.mishap] < r.at)

\* Where the session works, or will be shown at work, what makes the reminder
\* pointless is on its way.
Passing(r) ==
    /\ agent.phase \in Busy => Pending \cap Beyond(r.at) # {}
    /\ \A e \in Due \cap Finishes : e.at > r.at => \E s \in Pending \cap Beyond(r.at) : s.id < e.id
    /\ session.state \in Active /\ session.last > r.at => Pending \cap Beyond(r.at) # {}
    /\ agent.provider = "claude" =>
         /\ \E j \in ids : r.at = TimeOf[j]
         /\ Terminal \/ (agent.phase = "gone" /\ Due = {} /\ session.state \notin Active)

\* A reminder outlasts a prompt of its own time only.
Bounded ==
    Recovered /\ history.mishap # 0 => \A r \in reminders : r.at >= TimeOf[history.anchor]

\* What made the Agent rest, and what is reminded of, came before it works.
Earlier ==
    agent.phase \in Busy =>
      /\ \A r \in reminders : Alone(r.at) => r.at < Now
      /\ \A e \in Pending : Ends(e) => e.id < agent.events

\* An end on its way is followed by what makes its reminder pointless, where the
\* Agent works, before a tool finishes, and where it would not be shown any more.
Renewed ==
    /\ agent.phase \in Busy => Follows(Due, EndTurns, Sups)
    /\ Parted(Due, EndTurns, Finishes, Sups)
    /\ session.state \in Active => Follows(Due, EndTurns \cap Before(session.last), Sups)

RemindersInv ==
    ~ignored => Bounded /\ Earlier /\ Renewed /\ \A r \in reminders : Sure(r) => Passing(r)

LEMMA ReminderClasses ==
    IsClass(Sups) /\ IsClass(EndTurns) /\ IsClass(Finishes) /\ \A at : IsClass(Beyond(at))
BY DEF IsClass, Sups, EndTurns, Finishes, Beyond, Like

LEMMA PartedThins ==
    ASSUME NEW D, NEW E, NEW K, NEW A, NEW B, NEW C, D \subseteq Event, E \subseteq Event,
           IsClass(A), IsClass(B), IsClass(C),
           Thins(D, E, K), Parted(D, A, B, C), \A s \in D \cap C : s \notin K
    PROVE  Parted(E, A, B, C)
<1> SUFFICES ASSUME NEW a \in E \cap A, NEW b \in E \cap B, a.id < b.id
             PROVE  \E s \in E \cap C : a.id < s.id /\ s.id < b.id
  BY DEF Parted
<1>1. PICK c \in D : Like(c, a)
  BY DEF Thins
<1>2. PICK d \in D : Like(d, b)
  BY DEF Thins
<1>3. c \in A /\ c.id = a.id /\ d \in B /\ d.id = b.id /\ a.id \in Nat
  BY <1>1, <1>2, LikeTwice, EventType DEF IsClass, Like
<1>4. PICK s \in D \cap C : c.id < s.id /\ s.id < d.id
  BY <1>1, <1>2, <1>3 DEF Parted
<1>5. s \notin K /\ s.id \in Nat /\ ~(\A e \in E : e.id > s.id)
  BY <1>3, <1>4, EventType
<1>6. PICK e \in E : Like(s, e)
  BY <1>4, <1>5 DEF Thins
<1> QED BY <1>3, <1>4, <1>6 DEF IsClass, Like

\* The clock of the events on their way.
LEMMA PendingClock ==
    ASSUME Base, NEW d \in Pending, NEW e \in Pending
    PROVE  /\ d.at \in Nat /\ d.at <= Now /\ d.id \in Nat /\ d.id \in Ids /\ d.at = TimeOf[d.id]
           /\ d.id < e.id => d.at <= e.at
           /\ d.at < e.at => d.id < e.id
           /\ d.id < e.id /\ Alone(d.at) => d.at < e.at
<1>1. /\ d.id \in 1 .. agent.events /\ e.id \in 1 .. agent.events /\ d.at = TimeOf[d.id] /\ e.at = TimeOf[e.id]
      /\ d.id \in Nat /\ e.id \in Nat /\ d.at \in Nat /\ e.at \in Nat /\ d.id \in Ids /\ e.id \in Ids
  BY WaitingType, EventType DEF Base, Origins, Origin, Pending
<1>2. d.at <= Now /\ (d.at < e.at => d.id < e.id) /\ (d.id < e.id => d.at <= e.at)
  BY <1>1, Clock DEF Base
<1>3. d.id < e.id /\ Alone(d.at) => d.at # e.at
  BY <1>1 DEF Alone
<1> QED BY <1>1, <1>2, <1>3

\* What the reports do with reminders and with the work that is shown.
LEMMA ReminderReports ==
    ASSUME Base, Reports
    PROVE  /\ session' = session \/ session'.state \notin Active \/ agent.phase \in Busy
           /\ agent.phase \in Busy => reminders' \subseteq reminders
           /\ agent.provider = "claude" => reminders' \subseteq reminders
           /\ agent.provider = "claude" /\ session.state \notin Active => session' = session
<1>0. /\ ProjectionTypeOK /\ agent.provider \in Providers
      /\ agent.provider = "claude" => session.state # "awaiting_approval" /\ native = {}
  BY DEF Base, FeedTypeOK, Rows
<1>1. ASSUME NEW state, NEW owner, NEW last, SetState(state, owner, last), state \notin Active
      PROVE  session'.state \notin Active
  BY <1>0, <1>1, SetRow
<1>2. "waiting_for_event" \notin Active /\ "response_finished" \notin Active /\ "awaiting_approval" \notin Active
  BY DEF Active
<1>3. CASE agent.provider = "codex" /\ SheetSeen(Now)
  BY <1>1, <1>2, <1>3 DEF SheetSeen
<1>4. CASE agent.provider = "codex" /\ agent.phase # "sheet" /\ SheetGone(agent.phase \in {"working", "tool", "answered"}, Now)
  <2>1. CASE agent.phase \in Busy
    <3>1. (agent.phase \in {"working", "tool", "answered"}) = TRUE
      BY <1>4, <2>1 DEF Busy
    <3>2. SheetGone(TRUE, Now)
      BY <1>4, <3>1, Zenon
    <3>3. reminders' = reminders
      BY <3>2, Zenon DEF SheetGone
    <3> QED BY <1>4, <2>1, <3>3
  <2>2. CASE agent.phase \notin Busy
    <3>1. (agent.phase \in {"working", "tool", "answered"}) = FALSE
      BY <2>2 DEF Busy
    <3>2. SheetGone(FALSE, Now)
      BY <1>4, <3>1, Zenon
    <3>3. session' = session \/ SetState(IF FALSE THEN "thinking" ELSE "response_finished", "none", Later(Now))
      BY <3>2, Zenon DEF SheetGone
    <3> QED BY <1>1, <1>2, <1>4, <2>2, <3>3
  <2> QED BY <2>1, <2>2
<1>5. CASE agent.provider = "codex" /\ SyncExecution(agent.phase \in Busy, Now)
  <2>0. reminders' = reminders
    BY <1>5, Zenon DEF SyncExecution
  <2>1. CASE agent.phase \in Busy
    BY <1>5, <2>0, <2>1
  <2>2. CASE agent.phase \notin Busy
    <3>1. (agent.phase \in Busy) = FALSE
      BY <2>2
    <3>2. SyncExecution(FALSE, Now)
      BY <1>5, <3>1, Zenon
    <3> DEFINE next == IF session.state \notin {"idle", "response_finished", "failed"}
                       THEN "response_finished" ELSE session.state
    <3>3. IF next # session.state THEN SetState(next, "none", Later(Now)) ELSE UNCHANGED session
      BY <3>2, Zenon DEF SyncExecution
    <3>4. next # session.state => next \notin Active
      BY <1>2
    <3> HIDE DEF next
    <3> QED BY <1>1, <1>5, <2>0, <2>2, <3>3, <3>4
  <2> QED BY <2>1, <2>2
<1>6. CASE watched.on /\ MarkUnconfirmed(watched.last)
  <2>1. session'.state \notin Active /\ reminders' = reminders /\ session.state \in Active \cup {"awaiting_approval"}
    BY <1>1, <1>2, <1>6 DEF MarkUnconfirmed, StillAtWork
  <2> QED BY <1>0, <2>1
<1>7. ASSUME NEW turn \in native, DismissSheet(turn)
      PROVE  /\ session' = session \/ session'.state \notin Active
             /\ reminders' = reminders /\ agent.provider # "claude"
  BY <1>0, <1>1, <1>2, <1>7 DEF DismissSheet
<1>8. ASSUME NEW r \in reminders, Acknowledge(r)
      PROVE  /\ session' = session \/ session'.state \notin Active
             /\ reminders' \subseteq reminders
             /\ agent.provider = "claude" => session' = session
  BY <1>0, <1>1, <1>2, <1>8 DEF Acknowledge
<1>9. CASE UNCHANGED projectionVars
  BY <1>9 DEF projectionVars
<1>10. CASE \/ \E turn \in native : DismissSheet(turn)
            \/ \E r \in reminders : Acknowledge(r)
  BY <1>7, <1>8, <1>10
<1> QED
  BY <1>3, <1>4, <1>5, <1>6, <1>9, <1>10, Zenon DEF Reports

\* What storing an event does to the reminders.
LEMMA RecordReminders ==
    ASSUME NEW e \in Event, Record(e), NEW r \in reminders'
    PROVE  \/ r \in reminders /\ ~(e \in Sups /\ r.at < e.at)
           \/ r.at = e.at /\ e \in EndTurns
BY DEF Record, RemindersAfter, NewReminders, RaisesCompletion, Sups, EndTurns

\* What an Agent reports that is at work thereafter.
LEMMA ReportsAtWork ==
    ASSUME NEW x \in Event, Does(x)
    PROVE  /\ agent.phase # "gone" /\ (x \in Finishes => agent.phase \in Busy)
           /\ agent'.phase \in Busy =>
                /\ ~Ends(x) /\ x \notin EndTurns /\ agent.phase # "new"
                /\ agent.phase \in Busy \/ x \in Sups
BY DEF Does, Busy, AtRest, AtWork, Ends, Ending, EndTurns, Finishes, Sups, Supersedes

\* What supersedes a reminder is not taken for a repetition.
LEMMA SupsNew ==
    ASSUME Base, ~ignored
    PROVE  /\ \A s \in Pending \cap Sups : ~Known(s)
           /\ \A s \in Due \cap Sups : s \notin Acquainted
<1>1. ASSUME NEW s \in Pending \cap Sups PROVE ~Known(s)
  <2>1. s.id \notin ids
    BY DEF Pending
  <2>2. CASE s.kind = "PromptSubmitted"
    BY <1>1, <2>1, <2>2 DEF Base, KeysFree, Known
  <2>3. CASE s.kind # "PromptSubmitted"
    BY <2>1, <2>3 DEF Known, Keyed, Sups, Supersedes
  <2> QED BY <2>2, <2>3
<1>2. Due \subseteq Pending
  BY DEF Due
<1> QED BY <1>1, <1>2 DEF Acquainted

\* An event stored in order that is not due came before the last mishap.
LEMMA NotDue ==
    ASSUME Base, NEW e \in Event, Records(e), e \notin Due
    PROVE  history.mishap # 0 /\ e.at <= TimeOf[history.mishap]
<1>1. /\ e.id \in 1 .. agent.events /\ e.at = TimeOf[e.id] /\ e.id \in Nat /\ e.id # 0
      /\ e.id \notin ids /\ e \in Pending
      /\ ids \subseteq 1 .. agent.events /\ \A i \in ids : ~(i > e.id)
  BY EventType DEF Records, Base, Origins, Origin, Pending, Traces, Overtaken
<1>2. history.mishap \in Nat /\ history.mishap <= agent.events /\ agent.events \in Nat
  BY Clock, FeedAssumption DEF Base, FeedTypeOK, Traces
<1>3. \A i \in ids : i < e.id
  BY <1>1, <1>2
<1>4. e.id <= history.mishap
  BY <1>1, <1>2, <1>3 DEF Due
<1>5. history.mishap \in 1 .. agent.events
  BY <1>1, <1>2, <1>4
<1> QED BY <1>1, <1>4, <1>5, Clock DEF Base

LEMMA BoundedKeeps ==
    ASSUME Base, Base', RemindersInv, [FeedNext]_vars, ~ignored'
    PROVE  Bounded'
<1> SUFFICES ASSUME Recovered', history'.mishap # 0, NEW r \in reminders'
             PROVE  r.at >= TimeOf[history'.anchor]
  BY DEF Bounded
<1>0. ~ignored /\ Bounded
  BY FeedWays DEF RemindersInv
<1>1. ASSUME UNCHANGED <<reminders, history>> PROVE r.at >= TimeOf[history'.anchor]
  BY <1>0, <1>1 DEF Bounded, Recovered
<1>2. /\ history'.anchor \in ids' \cup {0} /\ history'.anchor # 0 /\ ids' \subseteq 1 .. agent'.events
  <2>1. history'.anchor \in ids' \cup {0} /\ ids' \subseteq 1 .. agent'.events
    BY DEF Base, Traces
  <2>2. history'.mishap \in Nat /\ history'.mishap < history'.anchor
    BY FeedAssumption DEF Base, FeedTypeOK, Recovered
  <2> QED BY <2>1, <2>2
<1>3. ASSUME NEW x \in Event, Emits(x) PROVE UNCHANGED <<reminders, history>>
  BY <1>3 DEF Emits, projectionVars
<1>4. CASE Dwells
  BY <1>1, <1>4 DEF Dwells, projectionVars
<1>5. CASE Loses
  BY <1>5 DEF Loses
<1>6. CASE Keeps
  BY <1>0, <1>6 DEF Keeps, projectionVars, Bounded, Recovered
<1>7. CASE Reports
  <2>1. history' = history /\ agent' = agent
    BY <1>7 DEF Reports
  <2>2. r \in reminders \/ r.at = Now
    BY <1>7, ReportRow
  <2>3. TimeOf[history'.anchor] <= Now
    BY <1>2, <2>1, Clock DEF Base
  <2> QED BY <1>0, <2>1, <2>2, <2>3 DEF Bounded, Recovered
<1>8. ASSUME NEW e \in Event, Records(e) PROVE r.at >= TimeOf[history'.anchor]
  <2>1. /\ e.at \in Nat /\ r.at \in Nat /\ e.at = TimeOf[e.id] /\ e.id \in Nat /\ e.id \in 1 .. agent.events
        /\ history'.anchor = IF e.kind = "PromptSubmitted" THEN e.id ELSE history.anchor
        /\ history'.mishap = history.mishap /\ Record(e) /\ agent' = agent /\ ids' = ids \cup {e.id}
        /\ \A i \in ids : ~(i > e.id)
    BY <1>8, EventType DEF Records, Base, FeedTypeOK, ProjectionTypeOK, Origins, Origin, Pending, Overtaken
  <2>2. \/ r \in reminders /\ ~(e \in Sups /\ r.at < e.at)
        \/ r.at = e.at /\ e \in EndTurns
    BY <2>1, RecordReminders
  <2>3. CASE e.kind = "PromptSubmitted"
    BY <2>1, <2>2, <2>3 DEF Sups, Supersedes, EndTurns
  <2>4. CASE e.kind # "PromptSubmitted"
    <3>1. Recovered /\ history'.anchor = history.anchor
      BY <1>0, <1>8, <2>1, <2>4, RecordsDue
    <3>2. history'.anchor \in ids \cup {e.id} /\ history'.anchor <= e.id
      BY <1>2, <2>1
    <3>3. TimeOf[history'.anchor] <= e.at
      BY <1>2, <2>1, <3>2, Clock DEF Base
    <3> QED BY <1>0, <2>1, <2>2, <3>1, <3>3 DEF Bounded
  <2> QED BY <2>3, <2>4
<1> QED BY <1>1, <1>3, <1>4, <1>5, <1>6, <1>7, <1>8, FeedWays

LEMMA EarlierKeeps ==
    ASSUME Base, Base', RemindersInv, [FeedNext]_vars, ~ignored'
    PROVE  Earlier'
<1> SUFFICES ASSUME agent'.phase \in Busy
             PROVE  /\ \A r \in reminders' : Alone(r.at) => r.at < Now'
                    /\ \A e \in Pending' : Ends(e) => e.id < agent'.events
  BY DEF Earlier, Alone
<1>0. ~ignored /\ Earlier /\ Pending \subseteq Event
  BY FeedWays, WaitingType DEF RemindersInv, Base, FeedTypeOK, Waiting, Pending
<1>1. ASSUME agent.phase \in Busy, Now' = Now, agent'.events = agent.events,
             \A r \in reminders' : r \in reminders \/ \E e \in Pending : Ends(e) /\ r.at = e.at,
             \A e \in Pending' : \E d \in Pending : Like(d, e)
      PROVE  /\ \A r \in reminders' : Alone(r.at) => r.at < Now'
             /\ \A e \in Pending' : Ends(e) => e.id < agent'.events
  <2>1. ASSUME NEW r \in reminders', Alone(r.at) PROVE r.at < Now'
    <3>1. CASE r \in reminders
      BY <1>0, <1>1, <2>1, <3>1 DEF Earlier
    <3>2. ASSUME NEW e \in Pending, Ends(e), r.at = e.at PROVE r.at < Now'
      <4>1. e.id < agent.events /\ e.at = TimeOf[e.id] /\ e.id \in 1 .. agent.events
        BY <1>0, <1>1, <3>2 DEF Earlier, Base, Origins, Origin, Pending
      <4>2. agent.events \in Ids /\ e.id \in Ids /\ Now = TimeOf[agent.events] /\ agent.events # e.id
            /\ e.at <= Now /\ e.at \in Nat /\ Now \in Nat
        <5>1. agent.events \in Nat /\ agent.events \in 1 .. agent.events /\ agent.events # 0
          BY <4>1, Clock DEF Base
        <5> QED BY <4>1, <5>1, Clock DEF Base, Now
      <4>3. r.at # Now
        BY <2>1, <3>2, <4>1, <4>2 DEF Alone
      <4> QED BY <1>1, <3>2, <4>2, <4>3
    <3> QED BY <1>1, <2>1, <3>1, <3>2
  <2>2. ASSUME NEW e \in Pending', Ends(e) PROVE e.id < agent'.events
    <3>1. PICK d \in Pending : Like(d, e)
      BY <1>1
    <3>2. Ends(d) /\ d.id = e.id
      BY <2>2, <3>1 DEF Ends, Like, Kept
    <3> QED BY <1>0, <1>1, <3>1, <3>2 DEF Earlier
  <2> QED BY <2>1, <2>2
<1>2. ASSUME NEW e \in Pending, Record(e), NEW r \in reminders'
      PROVE  r \in reminders \/ \E d \in Pending : Ends(d) /\ r.at = d.at
  <2>1. r \in reminders \/ (r.at = e.at /\ e \in EndTurns)
    BY <1>0, <1>2, RecordReminders
  <2> QED BY <1>2, <2>1 DEF EndTurns, Ends, Ending
<1>3. ASSUME NEW x \in Event, Emits(x), Does(x)
      PROVE  /\ \A r \in reminders' : Alone(r.at) => r.at < Now'
             /\ \A e \in Pending' : Ends(e) => e.id < agent'.events
  <2>1. /\ Pending' = Pending \cup {x} /\ x.at >= Now /\ x.at = Now' /\ reminders' = reminders
        /\ agent'.events = x.id /\ x.id = agent.events + 1 /\ x.at = TimeOf[x.id] /\ x.id \in Ids /\ x.at \in Nat
    BY <1>3, EmitsDue, EventType DEF Emits, projectionVars
  <2>2. ~Ends(x) /\ agent.phase # "new"
    BY <1>3, ReportsAtWork
  <2>3. \A e \in Pending : e.id < agent'.events
    BY <1>3, <2>1, EmitsDue
  <2>4. ASSUME NEW r \in reminders', Alone(r.at) PROVE r.at < Now'
    <3>1. agent.events \in 1 .. agent.events /\ Now = TimeOf[agent.events] /\ Now \in Nat /\ agent.events \in Ids
          /\ agent.events # x.id
      <4>1. agent.events # 0 /\ agent.events \in Nat /\ Now \in Nat
        BY <2>2, Clock DEF Base, Stages
      <4>2. agent.events \in 1 .. agent.events
        BY <4>1
      <4> QED BY <2>1, <4>1, <4>2, Clock DEF Base, Now
    <3>2. r.at <= Now /\ r.at \in Nat
      BY <2>1, <2>4 DEF Base, Rows, FeedTypeOK, ProjectionTypeOK
    <3>3. ~(r.at = Now /\ r.at = x.at)
      BY <2>1, <2>4, <3>1 DEF Alone
    <3> QED BY <2>1, <3>1, <3>2, <3>3
  <2> QED BY <2>1, <2>2, <2>3, <2>4
<1>4. CASE Dwells
  <2>1. agent.phase \in Busy /\ Now' = Now /\ agent'.events = agent.events /\ reminders' = reminders /\ Pending' = Pending
    BY <1>4 DEF Dwells, projectionVars, Pending, Waiting, Now, Busy
  <2> QED BY <1>1, <2>1, LikeSelf
<1>5. CASE Loses
  <2>1. agent' = agent /\ Now' = Now /\ \A e \in Pending' : \E d \in Pending : Like(d, e)
    BY <1>5 DEF Loses, Now
  <2>2. reminders' = reminders \/ \E e \in Pending : Record(e)
    BY <1>5 DEF Loses, projectionVars
  <2> QED BY <1>1, <1>2, <2>1, <2>2
<1>6. CASE Keeps
  BY <1>1, <1>6 DEF Keeps, projectionVars, Now
<1>7. CASE Reports
  <2>1. agent' = agent /\ Now' = Now /\ Pending' = Pending
    BY <1>7 DEF Reports, Now, Pending, Waiting
  <2>2. reminders' \subseteq reminders
    BY <1>7, <2>1, ReminderReports
  <2> QED BY <1>1, <2>1, <2>2, LikeSelf
<1>8. ASSUME NEW e \in Event, Records(e)
      PROVE  /\ \A r \in reminders' : Alone(r.at) => r.at < Now'
             /\ \A d \in Pending' : Ends(d) => d.id < agent'.events
  <2>1. agent' = agent /\ Now' = Now /\ Pending' \subseteq Pending /\ e \in Pending /\ Record(e)
    BY <1>8 DEF Records, Now
  <2> QED BY <1>1, <1>2, <2>1, LikeSelf
<1> QED BY <1>3, <1>4, <1>5, <1>6, <1>7, <1>8, FeedWays

LEMMA RenewedKeeps ==
    ASSUME Base, Base', RemindersInv, [FeedNext]_vars, ~ignored'
    PROVE  Renewed'
<1>0. /\ ~ignored /\ Renewed /\ Due \subseteq Pending /\ Pending \subseteq Event
      /\ session.last \in Nat /\ ProjectionTypeOK /\ (~session.exists => session = Absent)
  BY FeedWays, WaitingType DEF RemindersInv, Base, FeedTypeOK, ProjectionTypeOK, Rows, Waiting, Due, Pending
<1>1. \A s \in Due \cap Sups : s \notin Acquainted
  BY <1>0, SupsNew
<1>2. ASSUME Thins(Due, Due', Acquainted), Due \subseteq Event, Due' \subseteq Event,
             agent'.phase \in Busy => agent.phase \in Busy,
             session'.state \in Active =>
               \/ session.state \in Active /\ session'.last = session.last
               \/ Due' \cap Before(session'.last) = {}
      PROVE  Renewed'
  <2>1. agent'.phase \in Busy => Follows(Due', EndTurns, Sups)
    BY <1>0, <1>1, <1>2, ReminderClasses, FollowsThins DEF Renewed
  <2>2. Parted(Due', EndTurns, Finishes, Sups)
    BY <1>0, <1>1, <1>2, ReminderClasses, PartedThins DEF Renewed
  <2>3. ASSUME session.state \in Active
        PROVE  Follows(Due', EndTurns \cap Before(session.last), Sups)
    <3>1. Follows(Due, EndTurns \cap Before(session.last), Sups) /\ IsClass(EndTurns \cap Before(session.last))
      BY <1>0, <2>3, ReminderClasses, BeforeClass DEF Renewed
    <3> QED BY <1>1, <1>2, <3>1, ReminderClasses, FollowsThins
  <2>4. Due' \cap Before(session'.last) = {} => Follows(Due', EndTurns \cap Before(session'.last), Sups)
    BY DEF Follows
  <2> QED BY <1>2, <2>1, <2>2, <2>3, <2>4 DEF Renewed
<1>3. ASSUME NEW x \in Event, Emits(x), Does(x) PROVE Renewed'
  <2>1. /\ Due' = Due \cup {x} /\ (\A e \in Due : e.id < x.id) /\ x.at >= session.last /\ session' = session
        /\ x.at \in Nat /\ x.id \in Nat
    BY <1>0, <1>3, EmitsDue, EventType DEF Emits, projectionVars
  <2>2. ASSUME agent'.phase \in Busy PROVE Follows(Due', EndTurns, Sups)
    <3>1. x \notin EndTurns /\ (agent.phase \in Busy \/ x \in Sups)
      BY <1>3, <2>2, ReportsAtWork
    <3> QED BY <1>0, <2>1, <3>1, FollowsMore DEF Renewed
  <2>3. Parted(Due', EndTurns, Finishes, Sups)
    <3> SUFFICES ASSUME NEW d \in Due' \cap EndTurns, NEW e \in Due' \cap Finishes, d.id < e.id
                 PROVE  \E s \in Due' \cap Sups : d.id < s.id /\ s.id < e.id
      BY DEF Parted
    <3>1. d \in Due
      <4>1. \A c \in Due' : c.id \in Nat /\ c.id <= x.id
        BY <1>0, <2>1, EventType
      <4> QED BY <2>1, <4>1
    <3>2. CASE e = x
      <4>1. agent.phase \in Busy
        BY <1>3, <3>2, ReportsAtWork
      <4>2. PICK s \in Due \cap Sups : s.id > d.id
        BY <1>0, <3>1, <4>1 DEF Renewed, Follows
      <4>3. s.id \in Nat /\ d.id \in Nat
        BY <1>0, <3>1, EventType
      <4> QED BY <2>1, <3>2, <4>2, <4>3
    <3>3. CASE e \in Due
      BY <1>0, <2>1, <3>1, <3>3 DEF Renewed, Parted
    <3> QED BY <2>1, <3>2, <3>3
  <2>4. ASSUME session.state \in Active
        PROVE  Follows(Due', EndTurns \cap Before(session.last), Sups)
    <3>1. x \notin EndTurns \cap Before(session.last)
      BY <1>0, <2>1 DEF Before
    <3> QED BY <1>0, <2>1, <2>4, <3>1, FollowsMore DEF Renewed
  <2> QED BY <2>1, <2>2, <2>3, <2>4 DEF Renewed
<1>4. CASE Dwells \/ Keeps
  <2>1. Thins(Due, Due', Acquainted) /\ Due \subseteq Event /\ Due' \subseteq Event
    BY <1>0, <1>4, DueThins
  <2>2. session' = session /\ (agent'.phase \in Busy => agent.phase \in Busy)
    BY <1>4 DEF Dwells, Keeps, projectionVars, Busy
  <2> QED BY <1>2, <2>1, <2>2
<1>5. CASE Loses
  BY <1>5 DEF Loses, Renewed, Follows, Parted
<1>6. CASE Reports
  <2>1. Due' = Due /\ agent' = agent
    BY <1>6 DEF Reports, Due, Pending, Waiting
  <2>2. session' = session \/ session'.state \notin Active \/ agent.phase \in Busy
    BY <1>6, ReminderReports
  <2>3. agent.phase \in Busy => Follows(Due, EndTurns \cap Before(session'.last), Sups)
    BY <1>0, FollowsLess DEF Renewed
  <2> QED BY <1>0, <2>1, <2>2, <2>3 DEF Renewed
<1>7. ASSUME NEW e \in Event, Records(e) PROVE Renewed'
  <2>1. Record(e) /\ agent' = agent
    BY <1>7 DEF Records
  <2>2. Thins(Due, Due', Acquainted) /\ Due \subseteq Event /\ Due' \subseteq Event
    BY <1>7, DueThins
  <2>3. CASE MayUpdate(e)
    <3>1. session'.last = e.at
      BY <1>0, <2>1, <2>3, RecordRow
    <3>2. \A d \in Due' : d.at >= e.at /\ d.at \in Nat /\ e.at \in Nat
      BY <1>7, LaterDue
    <3>3. Due' \cap Before(session'.last) = {}
      BY <3>1, <3>2 DEF Before
    <3> QED BY <1>2, <2>1, <2>2, <3>3
  <2>4. CASE ~MayUpdate(e)
    <3>1. session'.last = session.last /\ session'.state = session.state
      BY <1>0, <2>1, <2>4, RecordRow
    <3> QED BY <1>2, <2>1, <2>2, <3>1
  <2> QED BY <2>3, <2>4
<1> QED BY <1>3, <1>4, <1>5, <1>6, <1>7, FeedWays

\* A new event makes no reminder outlast the work that follows.
LEMMA PassingEmits ==
    ASSUME Base, ~ignored, Earlier, Renewed, NEW x \in Event, Emits(x), Does(x),
           NEW r \in reminders, Alone(r.at), Passing(r)
    PROVE  Passing(r)'
<1>1. /\ Due' = Due \cup {x} /\ Pending' = Pending \cup {x} /\ (\A e \in Pending : e.id < x.id)
      /\ x.at >= Now /\ x.at \in Nat /\ x.at = TimeOf[x.id] /\ x.id \in Ids /\ x.id = agent.events + 1
      /\ session' = session /\ ids' = ids /\ agent'.provider = agent.provider /\ agent.phase # "gone"
  BY EmitsDue, EventType, ReportsAtWork DEF Emits, projectionVars
<1>2. r.at \in Nat /\ r.at <= Now /\ Now \in Nat
  BY Clock DEF Base, Rows, FeedTypeOK, ProjectionTypeOK
<1>3. ASSUME agent'.phase \in Busy PROVE Pending' \cap Beyond(r.at) # {}
  <2>1. CASE agent.phase \in Busy
    BY <1>1, <2>1 DEF Passing
  <2>2. CASE agent.phase \notin Busy
    <3>1. x \in Sups /\ agent.phase # "new"
      BY <1>3, <2>2, ReportsAtWork
    <3>2. agent.events # 0 /\ agent.events \in Nat /\ agent.events \in 1 .. agent.events
      BY <3>1, Clock DEF Base, Stages
    <3>3. agent.events \in Ids /\ Now = TimeOf[agent.events] /\ agent.events # x.id
      BY <1>1, <3>2, Clock DEF Base, Now
    <3>4. ~(r.at = Now /\ r.at = x.at)
      BY <1>1, <3>3 DEF Alone
    <3>5. r.at < x.at
      BY <1>1, <1>2, <3>4
    <3> QED BY <1>1, <3>1, <3>5 DEF Sups, Beyond
  <2> QED BY <2>1, <2>2
<1>4. ASSUME NEW e \in Due' \cap Finishes, e.at > r.at PROVE \E s \in Pending' \cap Beyond(r.at) : s.id < e.id
  <2>1. CASE e \in Due
    BY <1>1, <1>4, <2>1 DEF Passing
  <2>2. CASE e = x
    <3>1. agent.phase \in Busy
      BY <1>4, <2>2, ReportsAtWork
    <3> QED BY <1>1, <2>2, <3>1 DEF Passing
  <2> QED BY <1>1, <1>4, <2>1, <2>2
<1>5. session'.state \in Active /\ session'.last > r.at => Pending' \cap Beyond(r.at) # {}
  BY <1>1 DEF Passing
<1>6. agent'.provider = "claude" => (\E j \in ids' : r.at = TimeOf[j]) /\ Terminal'
  BY <1>1 DEF Passing, Terminal
<1> QED BY <1>3, <1>4, <1>5, <1>6 DEF Passing

\* Nor does a repetition that is dropped, or the Agent's end.
LEMMA PassingStays ==
    ASSUME Base, Base', ~ignored', ~ignored, Dwells \/ Keeps, NEW r \in reminders, Passing(r)
    PROVE  Passing(r)'
<1>0. /\ session' = session /\ ids' = ids /\ agent'.provider = agent.provider /\ (Terminal' <=> Terminal)
      /\ (agent'.phase \in Busy => agent.phase \in Busy) /\ (agent.phase = "gone" => agent'.phase = "gone")
  BY DEF Dwells, Keeps, projectionVars, Busy, Terminal
<1>1. ASSUME NEW s \in Pending \cap Beyond(r.at) PROVE \E c \in Pending' \cap Beyond(r.at) : c.id = s.id
  <2>1. CASE Dwells
    BY <2>1 DEF Dwells, Pending, Waiting, projectionVars
  <2>2. CASE Keeps
    <3>1. ~Known(s)
      BY SupsNew DEF Beyond, Sups
    <3> QED BY <2>2, <3>1, PendingStays, ReminderClasses DEF Like
  <2> QED BY <2>1, <2>2
<1>2. Thins(Due, Due', Acquainted)
  BY DueThins
<1>3. \A e \in Due' \cap Finishes : \E d \in Due \cap Finishes : d.id = e.id /\ d.at = e.at
  <2>1. Due \subseteq Event /\ Due' \subseteq Event
    BY DueThins
  <2>2. ASSUME NEW e \in Due' \cap Finishes PROVE \E d \in Due \cap Finishes : d.id = e.id /\ d.at = e.at
    <3>1. PICK d \in Due : Like(d, e)
      BY <1>2 DEF Thins
    <3> QED BY <2>1, <3>1 DEF Finishes, Like
  <2> QED BY <2>2
<1>4. Due = {} => Due' = {}
  BY <1>2 DEF Thins
<1>5. agent'.phase \in Busy => Pending' \cap Beyond(r.at) # {}
  BY <1>0, <1>1 DEF Passing
<1>6. ASSUME NEW e \in Due' \cap Finishes, e.at > r.at PROVE \E s \in Pending' \cap Beyond(r.at) : s.id < e.id
  <2>1. PICK d \in Due \cap Finishes : d.id = e.id /\ d.at = e.at
    BY <1>3, <1>6
  <2>2. PICK s \in Pending \cap Beyond(r.at) : s.id < d.id
    BY <1>6, <2>1 DEF Passing
  <2> QED BY <1>1, <2>1, <2>2
<1>7. session'.state \in Active /\ session'.last > r.at => Pending' \cap Beyond(r.at) # {}
  BY <1>0, <1>1 DEF Passing
<1>8. agent'.provider = "claude" =>
        /\ \E j \in ids' : r.at = TimeOf[j]
        /\ Terminal' \/ (agent'.phase = "gone" /\ Due' = {} /\ session'.state \notin Active)
  BY <1>0, <1>4 DEF Passing
<1> QED BY <1>5, <1>6, <1>7, <1>8 DEF Passing

LEMMA PassingReports ==
    ASSUME Base, Base', Reports, NEW r \in reminders', r \in reminders => Passing(r)
    PROVE  Passing(r)'
<1>0. /\ Due' = Due /\ Pending' = Pending /\ agent' = agent /\ ids' = ids
      /\ Due \subseteq Pending /\ agent.provider \in Providers
  BY DEF Reports, Due, Pending, Waiting, Base, FeedTypeOK
<1>1. CASE r \in reminders
  <2>1. session' = session \/ session'.state \notin Active \/ Pending \cap Beyond(r.at) # {}
    BY <1>1, ReminderReports DEF Passing
  <2>2. agent.provider = "claude" => session.state \notin Active
    BY <1>1 DEF Passing, Terminal, Active
  <2>3. agent.provider = "claude" => session' = session /\ (Terminal' <=> Terminal)
    BY <2>2, ReminderReports DEF Terminal
  <2> QED BY <1>0, <1>1, <2>1, <2>3 DEF Passing
<1>2. CASE r \notin reminders
  <2>1. r.at = Now /\ agent.phase \notin Busy /\ agent.provider # "claude"
    BY <1>2, ReportRow, ReminderReports
  <2>2. session'.last <= Now /\ session'.last \in Nat /\ Now \in Nat
    BY ReportRow, Clock DEF Base, FeedTypeOK, ProjectionTypeOK
  <2>3. ASSUME NEW e \in Due PROVE ~(e.at > r.at)
    BY <1>0, <2>1, <2>2, PendingClock
  <2> QED BY <1>0, <2>1, <2>2, <2>3 DEF Passing
<1> QED BY <1>1, <1>2

\* The order of what is stored.
LEMMA RecordsOrder ==
    ASSUME Base, NEW e \in Event, Records(e)
    PROVE  /\ e.at = TimeOf[e.id] /\ e.id \in Ids /\ e.id \in 1 .. agent.events /\ e.id \notin ids /\ ids' = ids \cup {e.id}
           /\ e \in Pending /\ Origin(e)
           /\ \A j \in ids : j \in Ids /\ j < e.id /\ TimeOf[j] <= e.at
           /\ \A s \in Pending : s.id = e.id => Like(s, e)
           /\ \A s \in Pending : s.id # e.id => s \in Pending'
<1>1. /\ e.id \in 1 .. agent.events /\ e.at = TimeOf[e.id] /\ e.id \in Nat /\ e.id \in Ids
      /\ e.id \notin ids /\ e \in Pending /\ Origin(e) /\ ids' = ids \cup {e.id}
      /\ ids \subseteq 1 .. agent.events /\ \A i \in ids : ~(i > e.id)
  BY EventType DEF Records, Base, Origins, Origin, Pending, Traces, Overtaken
<1>2. \A j \in ids : j \in Ids /\ j < e.id /\ TimeOf[j] <= e.at
  BY <1>1, Clock DEF Base
<1>3. \A s \in Pending : s.id = e.id => Like(s, e)
  BY <1>1 DEF Base, Traces, Pending
<1>4. \A s \in Pending : s.id # e.id => s \in Pending'
  BY DEF Records
<1> QED BY <1>1, <1>2, <1>3, <1>4

\* A reminder that outlasts the storing of an event.
LEMMA PassingOld ==
    ASSUME Base, Base', ~ignored, NEW e \in Event, Records(e), NEW r \in reminders,
           Sure(r), Passing(r), ~(e \in Sups /\ r.at < e.at)
    PROVE  Passing(r)'
<1>0. /\ Record(e) /\ agent' = agent /\ Due' = {d \in Due : d.id > e.id}
      /\ ProjectionTypeOK /\ (~session.exists => session = Absent) /\ agent.provider \in Providers
      /\ e.at \in Nat /\ r.at \in Nat /\ e.kind \in Kinds /\ Due \subseteq Pending
  BY EventType DEF Records, Base, FeedTypeOK, ProjectionTypeOK, Rows, Due
<1>1. ASSUME NEW s \in Pending \cap Beyond(r.at) PROVE s \in Pending'
  <2>1. CASE s.id = e.id
    <3>1. Like(s, e)
      BY <2>1, RecordsOrder
    <3> QED BY <3>1 DEF Beyond, Sups, Like
  <2>2. CASE s.id # e.id
    BY <2>2, RecordsOrder
  <2> QED BY <2>1, <2>2
<1>2. agent'.phase \in Busy => Pending' \cap Beyond(r.at) # {}
  BY <1>0, <1>1 DEF Passing
<1>3. ASSUME NEW d \in Due' \cap Finishes, d.at > r.at PROVE \E s \in Pending' \cap Beyond(r.at) : s.id < d.id
  BY <1>0, <1>1, <1>3 DEF Passing
<1>4. e \notin Due => e.at <= r.at
  <2> SUFFICES ASSUME e \notin Due PROVE e.at <= r.at
    OBVIOUS
  <2>1. history.mishap # 0 /\ e.at <= TimeOf[history.mishap]
    BY NotDue
  <2>2. TimeOf[history.mishap] < r.at /\ history.mishap \in 1 .. agent.events
    <3>1. history.mishap \in Nat /\ history.mishap <= agent.events /\ agent.events \in Nat
      BY Clock, FeedAssumption DEF Base, FeedTypeOK, Traces
    <3> QED BY <2>1, <3>1 DEF Sure
  <2>3. TimeOf[history.mishap] \in Nat
    BY <2>2, Clock DEF Base
  <2> QED BY <1>0, <2>1, <2>2, <2>3
<1>5. ASSUME session'.state \in Active, session'.last > r.at PROVE Pending' \cap Beyond(r.at) # {}
  <2>1. CASE ~MayUpdate(e)
    BY <1>0, <1>1, <1>5, <2>1, RecordRow DEF Passing
  <2>2. CASE MayUpdate(e)
    <3>1. NextState(e) \in Active /\ e.at > r.at
      BY <1>0, <1>5, <2>2, RecordRow
    <3>2. e.kind \notin Supersedes
      BY <1>0, <3>1 DEF Sups
    <3>3. e.kind = "ToolFinished" \/ (e.kind = "Notification" /\ session.state \in Active)
      BY <1>0, <3>1, <3>2 DEF Supersedes, NextState, ObservesSheet, PreservesSheet, PreservesCompactingTurn,
         IdleTurnEnd, Projected, Kinds, Active
    <3>4. CASE e.kind = "ToolFinished"
      <4>1. e \in Due \cap Finishes
        BY <1>0, <1>4, <3>1, <3>4 DEF Finishes
      <4> QED BY <1>1, <3>1, <4>1 DEF Passing
    <3>5. CASE e.kind = "Notification" /\ session.state \in Active
      <4>1. agent.provider = "claude"
        BY <1>0, <3>5, RecordsOrder DEF Origin, Providers
      <4> QED BY <3>5, <4>1 DEF Passing, Terminal, Active
    <3> QED BY <3>3, <3>4, <3>5
  <2> QED BY <2>1, <2>2
<1>6. ASSUME agent.provider = "claude"
      PROVE  /\ \E j \in ids' : r.at = TimeOf[j]
             /\ Terminal' \/ (agent.phase = "gone" /\ Due' = {} /\ session'.state \notin Active)
  <2>1. PICK j \in ids : r.at = TimeOf[j]
    BY <1>6 DEF Passing
  <2>2. j \in ids' /\ j \in Ids /\ e.id \in Ids /\ j # e.id /\ r.at <= e.at /\ e.at = TimeOf[e.id]
    BY <2>1, RecordsOrder
  <2>3. r.at < e.at
    <3>1. r.at # e.at
      BY <2>1, <2>2 DEF Sure, Alone
    <3> QED BY <1>0, <2>2, <3>1
  <2>4. e \in Due /\ e \notin Sups
    BY <1>0, <1>4, <2>3
  <2>5. Terminal
    BY <1>6, <2>4 DEF Passing
  <2>6. CASE ~MayUpdate(e)
    <3>1. session'.state = session.state /\ session'.interrupted = session.interrupted
      BY <1>0, <2>6, RecordRow
    <3> QED BY <2>1, <2>2, <2>5, <3>1 DEF Terminal
  <2>7. CASE MayUpdate(e)
    <3>1. e.kind = "SessionEnded"
      BY <1>0, <2>4, <2>5, <2>7, RecordRow DEF Sups, Supersedes
    <3>2. agent.phase = "gone" /\ e.id = agent.events /\ agent.events \in Nat
      BY <3>1, RecordsOrder, Clock DEF Origin, Base
    <3>3. \A d \in Due : d.id \in 1 .. agent.events
      BY <1>0 DEF Base, Origins, Origin, Pending
    <3>4. Due' = {}
      BY <1>0, <3>2, <3>3
    <3>5. NextState(e) = "idle"
      BY <3>1 DEF NextState, ObservesSheet, PreservesSheet, PreservesCompactingTurn, IdleTurnEnd, Projected
    <3>6. session'.state \notin Active
      BY <1>0, <2>7, <3>5, RecordRow DEF Active
    <3> QED BY <2>1, <2>2, <3>2, <3>4, <3>6
  <2> QED BY <2>6, <2>7
<1> QED BY <1>0, <1>2, <1>3, <1>5, <1>6 DEF Passing

\* The reminder that an end leaves.
LEMMA PassingNew ==
    ASSUME Base, Base', ~ignored, ClaudeLast, Renewed, NEW e \in Event, Records(e), e \in EndTurns,
           NEW r \in reminders', r.at = e.at, Sure(r)
    PROVE  Passing(r)'
<1>0. /\ Record(e) /\ agent' = agent /\ Due' = {d \in Due : d.id > e.id}
      /\ ProjectionTypeOK /\ (~session.exists => session = Absent) /\ agent.provider \in Providers
      /\ e.at \in Nat /\ e.kind \in {"Stopped", "Failed"} /\ Due \subseteq Pending /\ Pending \subseteq Event
      /\ e \in Pending /\ session.last \in Nat /\ e.id \in Nat
  BY EventType, WaitingType DEF Records, Base, FeedTypeOK, ProjectionTypeOK, Rows, Due, EndTurns, Pending, Waiting
<1>1. e \in Due
  <2> SUFFICES ASSUME e \notin Due PROVE FALSE
    OBVIOUS
  <2>1. history.mishap # 0 /\ e.at <= TimeOf[history.mishap]
    BY NotDue
  <2>2. TimeOf[history.mishap] < e.at /\ history.mishap \in 1 .. agent.events
    <3>1. history.mishap \in Nat /\ history.mishap <= agent.events /\ agent.events \in Nat
      BY Clock, FeedAssumption DEF Base, FeedTypeOK, Traces
    <3> QED BY <2>1, <3>1 DEF Sure
  <2>3. TimeOf[history.mishap] \in Nat
    BY <2>2, Clock DEF Base
  <2> QED BY <1>0, <2>1, <2>2, <2>3
<1>2. ASSUME NEW s \in Due \cap Sups, s.id > e.id PROVE s \in Pending' \cap Beyond(r.at)
  <2>1. s \in Pending' /\ s.id \in Nat /\ s \in Event
    BY <1>0, <1>2, RecordsOrder, EventType
  <2>2. s.at > e.at
    BY <1>0, <1>2, <2>1, PendingClock DEF Sure
  <2> QED BY <2>1, <2>2, <1>2 DEF Beyond, Sups
<1>3. ASSUME agent'.phase \in Busy PROVE Pending' \cap Beyond(r.at) # {}
  <2>1. PICK s \in Due \cap Sups : s.id > e.id
    BY <1>0, <1>1, <1>3 DEF Renewed, Follows
  <2> QED BY <1>2, <2>1
<1>4. ASSUME NEW f \in Due' \cap Finishes, f.at > r.at PROVE \E s \in Pending' \cap Beyond(r.at) : s.id < f.id
  <2>1. f \in Due \cap Finishes /\ e.id < f.id
    BY <1>0, <1>4, EventType
  <2>2. PICK s \in Due \cap Sups : e.id < s.id /\ s.id < f.id
    BY <1>1, <2>1 DEF Renewed, Parted
  <2>3. s.id > e.id
    BY <1>0, <2>2, EventType
  <2> QED BY <1>2, <2>2, <2>3
<1>5. ASSUME session'.state \in Active, session'.last > r.at PROVE Pending' \cap Beyond(r.at) # {}
  <2>1. ~MayUpdate(e)
    BY <1>0, <1>5, RecordRow
  <2>2. session.state \in Active /\ session.last > e.at
    BY <1>0, <1>5, <2>1, RecordRow
  <2>3. PICK s \in Due \cap Sups : s.id > e.id
    BY <1>0, <1>1, <2>2 DEF Renewed, Follows, Before
  <2> QED BY <1>2, <2>3
<1>6. ASSUME agent.provider = "claude" PROVE (\E j \in ids' : r.at = TimeOf[j]) /\ Terminal'
  <2>1. e.id \in ids' /\ r.at = TimeOf[e.id]
    BY RecordsOrder
  <2>2. e.at >= session.last
    BY <1>6, ClaudeInTime
  <2>3. CASE MayUpdate(e)
    <3>1. session.state # "awaiting_approval"
      BY <1>6 DEF Base, Rows
    <3>2. NextState(e) \in {"response_finished", "failed"}
      BY <1>0, <3>1 DEF NextState, ObservesSheet, PreservesSheet, PreservesCompactingTurn, IdleTurnEnd, Projected
    <3> QED BY <1>0, <2>1, <2>3, <3>2, RecordRow DEF Terminal
  <2>4. CASE ~MayUpdate(e)
    <3>1. Terminal /\ session'.state = session.state /\ session'.interrupted = session.interrupted
      BY <1>0, <2>2, <2>4, RecordRow
    <3> QED BY <2>1, <3>1 DEF Terminal
  <2> QED BY <2>3, <2>4
<1> QED BY <1>0, <1>3, <1>4, <1>5, <1>6 DEF Passing

LEMMA RemindersKeep ==
    ASSUME Base, Base', ClaudeLast, RemindersInv, [FeedNext]_vars
    PROVE  RemindersInv'
<1> SUFFICES ASSUME ~ignored' PROVE Bounded' /\ Earlier' /\ Renewed' /\ \A r \in reminders' : Sure(r)' => Passing(r)'
  BY DEF RemindersInv
<1>0. ~ignored /\ Earlier /\ Renewed /\ \A r \in reminders : Sure(r) => Passing(r)
  BY FeedWays DEF RemindersInv
<1> SUFFICES ASSUME NEW r \in reminders', Sure(r)' PROVE Passing(r)'
  BY BoundedKeeps, EarlierKeeps, RenewedKeeps
<1>1. Alone(r.at) /\ (history'.mishap = history.mishap => Sure(r))
  BY DEF Sure, Alone
<1>2. ASSUME NEW x \in Event, Emits(x), Does(x) PROVE Passing(r)'
  <2>1. history' = history /\ reminders' = reminders
    BY <1>2 DEF Emits, projectionVars
  <2> QED BY <1>0, <1>1, <1>2, <2>1, PassingEmits
<1>3. CASE Dwells \/ Keeps
  <2>1. history'.mishap = history.mishap /\ reminders' = reminders
    BY <1>3 DEF Dwells, Keeps, projectionVars
  <2> QED BY <1>0, <1>1, <1>3, <2>1, PassingStays
<1>4. ~Loses
  <2> SUFFICES ASSUME Loses PROVE FALSE
    OBVIOUS
  <2>1. history'.mishap = agent'.events /\ agent'.events # 0 /\ agent'.events \in Nat /\ agent'.events \in Ids
    <3>1. history'.mishap = agent'.events /\ agent'.events # 0 /\ agent'.events \in 0 .. MaxEvents
      BY DEF Loses, Base, FeedTypeOK
    <3> QED BY <3>1, FeedAssumption
  <2>2. Now' = TimeOf[agent'.events] /\ Now' \in Nat
    BY <2>1, FeedAssumption DEF Now
  <2>3. r.at <= Now' /\ r.at \in Nat
    BY DEF Base, Rows, FeedTypeOK, ProjectionTypeOK
  <2> QED BY <2>1, <2>2, <2>3 DEF Sure
<1>5. CASE Reports
  <2>1. history' = history
    BY <1>5 DEF Reports
  <2> QED BY <1>0, <1>1, <1>5, <2>1, PassingReports
<1>6. ASSUME NEW e \in Event, Records(e) PROVE Passing(r)'
  <2>1. history'.mishap = history.mishap /\ Record(e)
    BY <1>6 DEF Records
  <2>2. \/ r \in reminders /\ ~(e \in Sups /\ r.at < e.at)
        \/ r.at = e.at /\ e \in EndTurns
    BY <2>1, RecordReminders
  <2> QED BY <1>0, <1>1, <1>6, <2>1, <2>2, PassingOld, PassingNew
<1> QED BY <1>2, <1>3, <1>4, <1>5, <1>6, FeedWays

LEMMA RemindersInvariant == FeedSpec => []RemindersInv
<1>1. FeedInit => RemindersInv
  <2>1. FeedInit => agent.phase = "new" /\ session = Absent /\ reminders = {} /\ Waiting = {} /\ history.mishap = 0
    BY DEF FeedInit, ProjectionInit, Waiting
  <2>2. Waiting = {} => Due = {} /\ Pending = {}
    BY DEF Due, Pending
  <2>3. "new" \notin Busy /\ Absent.state \notin Active
    BY DEF Busy, Absent, Active
  <2> QED BY <2>1, <2>2, <2>3 DEF RemindersInv, Bounded, Earlier, Renewed, Follows, Parted
<1>2. RemindersInv /\ Base /\ Base' /\ ClaudeLast /\ [FeedNext]_vars => RemindersInv'
  BY RemindersKeep
<1> QED BY <1>1, <1>2, BaseInvariant, ShownInvariant, PTL DEF FeedSpec

\* Once every event has arrived, a session that works again shows no reminder of
\* an end before that: reminders of that millisecond excepted.
THEOREM FeedCompletions == FeedSpec => []CompletionMeansEnded
<1>1. Base /\ RemindersInv => CompletionMeansEnded
  <2> SUFFICES ASSUME Base, RemindersInv, Quiet, NEW r \in reminders, session.state \in Active, Alone(r.at)
               PROVE  session.last <= r.at
    BY DEF CompletionMeansEnded
  <2>1. Pending = {} /\ Recovered /\ ~ignored
    BY DEF Quiet, Underway, Waiting, Pending, Base, Rows
  <2>2. session.last \in Nat /\ r.at \in Nat /\ history.mishap \in Nat /\ history.mishap <= agent.events
        /\ history.anchor \in ids \cup {0} /\ ids \subseteq 1 .. agent.events /\ agent.events \in Nat
    BY <2>1, Clock, FeedAssumption DEF Base, FeedTypeOK, ProjectionTypeOK, Traces
  <2>3. Sure(r)
    <3> SUFFICES ASSUME history.mishap # 0 PROVE TimeOf[history.mishap] < r.at
      BY DEF Sure
    <3>0. history.mishap < history.anchor
      BY <2>1 DEF Recovered
    <3>1. history.anchor \in 1 .. agent.events /\ history.mishap \in 1 .. agent.events
      <4>1. history.anchor # 0 /\ history.mishap >= 1
        BY <2>2, <3>0
      <4>2. history.anchor \in ids
        BY <2>2, <4>1
      <4>3. history.mishap \in 1 .. agent.events
        BY <2>2, <4>1
      <4>4. history.anchor \in 1 .. agent.events
        BY <2>2, <4>2
      <4> QED BY <4>3, <4>4
    <3>2. /\ history.mishap \in Ids /\ history.anchor \in Ids /\ history.mishap # history.anchor
          /\ TimeOf[history.mishap] \in Nat /\ TimeOf[history.anchor] \in Nat
          /\ TimeOf[history.mishap] <= TimeOf[history.anchor]
      BY <2>2, <3>0, <3>1, Clock DEF Base
    <3>3. r.at >= TimeOf[history.anchor]
      BY <2>1 DEF RemindersInv, Bounded
    <3>4. ~(TimeOf[history.mishap] = r.at /\ TimeOf[history.anchor] = r.at)
      BY <3>2 DEF Alone
    <3> QED BY <2>2, <3>2, <3>3, <3>4
  <2>4. Passing(r)
    BY <2>1, <2>3 DEF RemindersInv
  <2> QED BY <2>1, <2>2, <2>4 DEF Passing
<1> QED BY <1>1, BaseInvariant, RemindersInvariant, PTL

-----------------------------------------------------------------------------
(* A verdict about the Agent's process gives way to newer evidence           *)

\* No end of the time of the last event is on its way while the session works:
\* that would be the last event itself.
NoEndAt(at) == \A e \in Pending : e.at = at => ~Ends(e)

\* Either the verdict would be refused, or nothing newer than the snapshot was
\* stored.
Vouched ==
    \/ session.last > watched.last
    \/ Now = watched.last
    \/ /\ ~Terminal /\ NoEndAt(watched.last)
       /\ \A i \in ids \ watched.ids : TimeOf[i] <= watched.last

WatchInv ==
    ~ignored =>
      /\ session.exists => agent.events # 0
      /\ session.state \in Active /\ Alone(session.last) => NoEndAt(session.last)
      /\ watched.on /\ Alone(watched.last) => session.last >= watched.last /\ Vouched

\* What a report dates, and what it leaves undated.
LEMMA ReportDate ==
    ASSUME Base, Reports
    PROVE  \/ session' = session
           \/ session'.last = Now /\ (session'.state \in Active => agent.phase \in Busy)
           \/ session'.state = "waiting_for_event" /\ session'.last = session.last
<1>0. ProjectionTypeOK /\ session.last \in Nat /\ Now \in Nat /\ session.last <= Now
  BY Clock DEF Base, FeedTypeOK, ProjectionTypeOK, Rows
<1>1. Later(Now) = Now
  BY <1>0 DEF Later
<1>2. session' = session \/ session'.state \notin Active \/ agent.phase \in Busy
  BY ReminderReports
<1>3. ASSUME NEW state, NEW owner, SetState(state, owner, Later(Now))
      PROVE  session'.last = Now
  BY <1>0, <1>1, <1>3, SetRow
<1>4. SetState("waiting_for_event", "none", session.last) =>
        session'.state = "waiting_for_event" /\ session'.last = session.last
  BY <1>0, SetRow
<1>5. CASE SheetSeen(Now)
  <2>1. session' = session \/ SetState("awaiting_approval", "terminal", Later(Now))
    BY <1>5 DEF SheetSeen
  <2> QED BY <1>2, <1>3, <2>1
<1>6. ASSUME NEW active \in BOOLEAN, SheetGone(active, Now) PROVE session' = session \/ session'.last = Now
  <2>1. session' = session \/ SetState(IF active THEN "thinking" ELSE "response_finished", "none", Later(Now))
    BY <1>6, Zenon DEF SheetGone
  <2> QED BY <1>3, <2>1
<1>7. ASSUME NEW active \in BOOLEAN, SyncExecution(active, Now) PROVE session' = session \/ session'.last = Now
  <2>1. session' = session \/ \E next : SetState(next, "none", Later(Now))
    BY <1>7, Zenon DEF SyncExecution
  <2> QED BY <1>3, <2>1
<1>8. CASE \/ watched.on /\ MarkUnconfirmed(watched.last)
           \/ (\E turn \in native : DismissSheet(turn)) \/ (\E r \in reminders : Acknowledge(r))
  BY <1>4, <1>8 DEF MarkUnconfirmed, DismissSheet, Acknowledge
<1>9. CASE UNCHANGED projectionVars
  BY <1>9 DEF projectionVars
<1>10. CASE SheetGone(agent.phase \in {"working", "tool", "answered"}, Now)
  <2>1. (agent.phase \in {"working", "tool", "answered"}) \in BOOLEAN
    OBVIOUS
  <2>2. session' = session \/ session'.last = Now
    BY <1>6, <1>10, <2>1, Zenon
  <2> QED BY <1>2, <2>2
<1>11. CASE SyncExecution(agent.phase \in Busy, Now)
  <2>1. (agent.phase \in Busy) \in BOOLEAN
    OBVIOUS
  <2>2. session' = session \/ session'.last = Now
    BY <1>7, <1>11, <2>1, Zenon
  <2> QED BY <1>2, <2>2
<1> QED
  BY <1>5, <1>8, <1>9, <1>10, <1>11, Zenon DEF Reports

\* Two events are not one.
LEMMA NotTwice ==
    ASSUME Base, NEW e \in Pending, e.id # agent.events, e.at = Now
    PROVE  ~Alone(Now)
<1>1. e.id \in 1 .. agent.events /\ e.at = TimeOf[e.id]
  BY DEF Base, Origins, Origin, Pending
<1>2. agent.events \in 1 .. agent.events /\ agent.events # 0
  BY <1>1, Clock DEF Base
<1>3. agent.events \in Ids /\ e.id \in Ids /\ Now = TimeOf[agent.events]
  BY <1>1, <1>2, Clock DEF Base, Now
<1> QED BY <1>1, <1>3 DEF Alone

LEMMA NoEndLike ==
    ASSUME NEW at, NoEndAt(at), \A e \in Pending' : \E d \in Pending : Like(d, e)
    PROVE  \A e \in Pending' : e.at = at => ~Ends(e)
<1> SUFFICES ASSUME NEW e \in Pending', e.at = at PROVE ~Ends(e)
  OBVIOUS
<1>1. PICK d \in Pending : Like(d, e)
  OBVIOUS
<1>2. Ends(e) => Ends(d)
  BY <1>1 DEF Ends, Like, Kept
<1> QED BY <1>1, <1>2 DEF NoEndAt, Like

\* Storing an event.
LEMMA WatchRecord ==
    ASSUME Base, ~ignored, WatchInv, NEW e \in Pending, Record(e), agent' = agent, watched' = watched,
           \A d \in Pending' : \E c \in Pending : Like(c, d)
    PROVE  /\ session'.state \in Active /\ Alone(session'.last) =>
                \A d \in Pending' : d.at = session'.last => ~Ends(d)
           /\ watched.on /\ Alone(watched.last) => session'.last >= watched.last /\ Vouched'
<1>0. /\ e \in Event /\ e.at = TimeOf[e.id] /\ e.id \in Ids /\ e.at \in Nat /\ e.kind \in Kinds
      /\ ids' = ids \cup {e.id} /\ ProjectionTypeOK /\ (~session.exists => session = Absent)
      /\ session.last \in Nat /\ watched.last \in Nat /\ Now' = Now
      /\ \A d \in Pending' : d.at = TimeOf[d.id] /\ d.id \in Ids /\ d.id # e.id
  <2>1. /\ e \in Event /\ ids' = ids \cup {e.id} /\ ProjectionTypeOK /\ (~session.exists => session = Absent)
        /\ session.last \in Nat /\ watched.last \in Nat /\ Now' = Now /\ e.at = TimeOf[e.id]
    BY WaitingType DEF Base, FeedTypeOK, ProjectionTypeOK, Rows, Record, Origins, Origin, Pending, Now
  <2>2. \A c \in Pending : c.at = TimeOf[c.id] /\ c.id \in Ids
    BY WaitingType, EventType DEF Base, Origins, Origin, Pending
  <2>3. \A d \in Pending' : d.at = TimeOf[d.id] /\ d.id \in Ids
    BY <2>2 DEF Like
  <2>4. \A d \in Pending' : d.id # e.id
    BY <2>1 DEF Pending
  <2> QED BY <2>1, <2>3, <2>4, EventType
<1>1. ASSUME Alone(e.at), NEW d \in Pending' PROVE d.at # e.at
  BY <1>0, <1>1 DEF Alone
<1>2. CASE MayUpdate(e)
  <2>1. session'.last = e.at /\ e.at >= session.last /\ session'.state = NextState(e)
        /\ session'.interrupted = (e.kind = "Interrupted")
    BY <1>0, <1>2, RecordRow
  <2>2. ASSUME watched.on, Alone(watched.last)
        PROVE  session'.last >= watched.last /\ Vouched'
    <3>1. session.last >= watched.last /\ Vouched
      BY <2>2 DEF WatchInv, Vouched
    <3>2. CASE session'.last > watched.last \/ Now = watched.last
      BY <1>0, <2>1, <3>1, <3>2 DEF Vouched
    <3>3. CASE ~(session'.last > watched.last) /\ Now # watched.last
      <4>1. /\ session'.last = watched.last /\ e.at = watched.last /\ ~(session.last > watched.last)
            /\ session'.last \in Nat
        BY <1>0, <2>1, <3>1, <3>3
      <4>2. ~Terminal /\ NoEndAt(watched.last) /\ \A i \in ids \ watched.ids : TimeOf[i] <= watched.last
        BY <3>1, <3>3, <4>1 DEF Vouched
      <4>3. ~Ends(e)
        BY <4>1, <4>2 DEF NoEndAt
      <4>4. NextState(e) \notin {"response_finished", "failed"} /\ e.kind # "Interrupted"
        BY <1>0, <4>2, <4>3 DEF Terminal, Ends, Ending, NextState, Projected, Kinds, IdleTurnEnd
      <4>5. ~Terminal'
        BY <2>1, <4>4 DEF Terminal
      <4>6. \A d \in Pending' : d.at # watched.last
        BY <1>1, <2>2, <4>1
      <4>7. ASSUME NEW i \in ids' \ watched.ids PROVE TimeOf[i] <= watched.last
        <5>1. CASE i \in ids
          BY <4>2, <4>7, <5>1
        <5>2. CASE i = e.id
          <6>1. TimeOf[i] = watched.last
            BY <1>0, <4>1, <5>2
          <6> QED BY <1>0, <6>1
        <5> QED BY <1>0, <4>7, <5>1, <5>2
      <4>8. session'.last >= watched.last
        BY <1>0, <4>1
      <4>9. NoEndAt(watched.last)'
        BY <4>6 DEF NoEndAt
      <4> QED BY <4>5, <4>7, <4>8, <4>9 DEF Vouched
    <3> QED BY <3>2, <3>3
  <2> QED BY <1>1, <2>1, <2>2
<1>3. CASE ~MayUpdate(e)
  <2>1. /\ session'.last = session.last /\ session'.state = session.state /\ (Terminal' <=> Terminal)
        /\ ~(e.at >= session.last) \/ Terminal
    <3>1. /\ session'.last = session.last /\ session'.state = session.state
          /\ session'.interrupted = session.interrupted /\ (~(e.at >= session.last) \/ Terminal)
      BY <1>0, <1>3, RecordRow
    <3> QED BY <3>1 DEF Terminal
  <2>2. ASSUME session'.state \in Active, Alone(session'.last)
        PROVE  \A d \in Pending' : d.at = session'.last => ~Ends(d)
    <3>1. NoEndAt(session.last)
      BY <2>1, <2>2 DEF WatchInv
    <3> QED BY <2>1, <3>1, NoEndLike
  <2>3. ASSUME watched.on, Alone(watched.last)
        PROVE  session'.last >= watched.last /\ Vouched'
    <3>1. session.last >= watched.last /\ Vouched
      BY <2>3 DEF WatchInv, Vouched
    <3>2. CASE session.last > watched.last \/ Now = watched.last
      BY <1>0, <2>1, <3>1, <3>2 DEF Vouched
    <3>3. CASE ~(session.last > watched.last) /\ Now # watched.last
      <4>1. ~Terminal /\ NoEndAt(watched.last) /\ \A i \in ids \ watched.ids : TimeOf[i] <= watched.last
        BY <3>1, <3>3 DEF Vouched
      <4>2. e.at <= watched.last
        BY <1>0, <2>1, <3>1, <3>3, <4>1
      <4>3. \A d \in Pending' : d.at = watched.last => ~Ends(d)
        BY <4>1, NoEndLike
      <4>4. \A i \in ids' \ watched.ids : TimeOf[i] <= watched.last
        BY <1>0, <4>1, <4>2
      <4> QED BY <2>1, <3>1, <4>1, <4>3, <4>4 DEF Vouched, NoEndAt
    <3> QED BY <3>2, <3>3
  <2> QED BY <2>2, <2>3
<1> QED BY <1>2, <1>3

LEMMA WatchKeeps ==
    ASSUME Base, Base', WatchInv, RemindersInv, [FeedNext]_vars
    PROVE  WatchInv'
<1> SUFFICES ASSUME ~ignored'
             PROVE  /\ session'.exists => agent'.events # 0
                    /\ session'.state \in Active /\ Alone(session'.last) =>
                         \A e \in Pending' : e.at = session'.last => ~Ends(e)
                    /\ watched'.on /\ Alone(watched'.last) => session'.last >= watched'.last /\ Vouched'
  BY DEF WatchInv, NoEndAt, Alone
<1>0. /\ ~ignored /\ Pending \subseteq Event /\ session.last \in Nat /\ session.last <= Now /\ Now \in Nat
      /\ watched.last \in Nat /\ agent.events \in Nat /\ (~session.exists => session = Absent)
      /\ (watched.on => agent.phase = "gone")
      /\ \A e \in Pending : e.id \in 1 .. agent.events
      /\ (session.exists => agent.events # 0)
  <2>1. ~ignored /\ Pending \subseteq Event /\ session.last \in Nat /\ session.last <= Now /\ Now \in Nat
        /\ watched.last \in Nat /\ agent.events \in Nat /\ (~session.exists => session = Absent)
        /\ (watched.on => agent.phase = "gone")
    BY FeedWays, WaitingType, Clock DEF Base, FeedTypeOK, ProjectionTypeOK, Rows, Stages, Pending
  <2>2. \A e \in Pending : e.id \in 1 .. agent.events
    BY DEF Base, Origins, Origin, Pending
  <2>3. session.exists => agent.events # 0
    BY <2>1 DEF WatchInv
  <2> QED BY <2>1, <2>2, <2>3
<1>1. session.state \in Active => session.exists
  BY <1>0 DEF Absent, Active
<1>2. session.state \in Active /\ Alone(session.last) => NoEndAt(session.last)
  BY <1>0 DEF WatchInv
<1>3. watched.on /\ Alone(watched.last) => session.last >= watched.last /\ Vouched
  BY <1>0 DEF WatchInv
\* Steps that leave the rows alone.
<1>4. ASSUME session' = session, ids' = ids, Now' = Now, agent'.events = agent.events, watched' = watched,
             \A e \in Pending' : \E d \in Pending : Like(d, e)
      PROVE  /\ session'.exists => agent'.events # 0
             /\ session'.state \in Active /\ Alone(session'.last) =>
                  \A e \in Pending' : e.at = session'.last => ~Ends(e)
             /\ watched'.on /\ Alone(watched'.last) => session'.last >= watched'.last /\ Vouched'
  <2>1. ASSUME session.state \in Active, Alone(session.last)
        PROVE  \A e \in Pending' : e.at = session.last => ~Ends(e)
    BY <1>2, <1>4, <2>1, NoEndLike
  <2>2. ASSUME watched.on, Alone(watched.last)
        PROVE  session'.last >= watched.last /\ Vouched'
    <3>1. NoEndAt(watched.last) => NoEndAt(watched.last)'
      <4>1. NoEndAt(watched.last) => \A e \in Pending' : e.at = watched.last => ~Ends(e)
        BY <1>4, NoEndLike
      <4> QED BY <1>4, <4>1 DEF NoEndAt
    <3>2. Terminal' <=> Terminal
      BY <1>4 DEF Terminal
    <3> QED BY <1>3, <1>4, <2>2, <3>1, <3>2 DEF Vouched
  <2> QED BY <1>0, <1>4, <2>1, <2>2
\* The snapshot is taken, or goes with the Runtime.
<1>5. ASSUME Looks, session' = session, ids' = ids, agent' = agent,
             \A e \in Pending' : \E d \in Pending : Like(d, e)
      PROVE  /\ session'.exists => agent'.events # 0
             /\ session'.state \in Active /\ Alone(session'.last) =>
                  \A e \in Pending' : e.at = session'.last => ~Ends(e)
             /\ watched'.on /\ Alone(watched'.last) => session'.last >= watched'.last /\ Vouched'
  <2>0. Now' = Now
    BY <1>5 DEF Now
  <2>1. CASE watched' = watched
    BY <1>4, <1>5, <2>0, <2>1
  <2>2. ASSUME session.state \in Active, Alone(session.last)
        PROVE  \A e \in Pending' : e.at = session.last => ~Ends(e)
    BY <1>2, <1>5, <2>2, NoEndLike
  <2>3. CASE watched' = NotWatched
    BY <1>0, <1>5, <2>2, <2>3 DEF NotWatched
  <2>4. CASE /\ session.state \in Active
             /\ watched' = [on |-> TRUE, last |-> session.last, ids |-> ids]
    <3>1. watched'.last = session.last /\ watched'.ids = ids
      BY <2>4
    <3>2. ASSUME Alone(session.last) PROVE NoEndAt(watched.last)'
      BY <2>2, <2>4, <3>1, <3>2 DEF NoEndAt
    <3>3. ~Terminal'
      BY <1>5, <2>4 DEF Terminal, Active
    <3>4. Alone(session.last) => Vouched'
      BY <1>5, <3>1, <3>2, <3>3 DEF Vouched
    <3> QED BY <1>0, <1>5, <2>2, <3>1, <3>4
  <2> QED BY <1>5, <2>1, <2>3, <2>4 DEF Looks
<1>6. ASSUME NEW e \in Pending, Record(e), agent' = agent, watched' = watched,
             \A d \in Pending' : \E c \in Pending : Like(c, d)
      PROVE  /\ session'.exists => agent'.events # 0
             /\ session'.state \in Active /\ Alone(session'.last) =>
                  \A d \in Pending' : d.at = session'.last => ~Ends(d)
             /\ watched'.on /\ Alone(watched'.last) => session'.last >= watched'.last /\ Vouched'
  <2>1. agent.events # 0
    BY <1>0
  <2> QED BY <1>0, <1>6, <2>1, WatchRecord
<1>7. ASSUME NEW x \in Event, Emits(x), Does(x)
      PROVE  /\ session'.exists => agent'.events # 0
             /\ session'.state \in Active /\ Alone(session'.last) =>
                  \A e \in Pending' : e.at = session'.last => ~Ends(e)
             /\ watched'.on /\ Alone(watched'.last) => session'.last >= watched'.last /\ Vouched'
  <2>1. /\ Pending' = Pending \cup {x} /\ x.at >= Now /\ x.at = TimeOf[x.id] /\ x.id \in Ids /\ x.id = agent.events + 1
        /\ agent'.events = x.id /\ session' = session /\ watched' = watched /\ agent.phase # "gone" /\ x.at \in Nat
    BY <1>7, EmitsDue, EventType, ReportsAtWork DEF Emits, projectionVars
  <2>2. ASSUME session.state \in Active, Alone(session.last) PROVE x.at # session.last
    <3>1. agent.events # 0 /\ agent.events \in 1 .. agent.events
      BY <1>0, <1>1, <2>2
    <3>2. agent.events \in Ids /\ Now = TimeOf[agent.events] /\ agent.events # x.id
      BY <1>0, <2>1, <3>1, Clock DEF Base, Now
    <3>3. ~(x.at = session.last /\ Now = session.last)
      BY <2>1, <2>2, <3>2 DEF Alone
    <3> QED BY <1>0, <2>1, <3>3
  <2>3. ~watched'.on /\ agent'.events # 0
    BY <1>0, <2>1
  <2>4. ASSUME session.state \in Active, Alone(session.last)
        PROVE  \A e \in Pending' : e.at = session.last => ~Ends(e)
    BY <1>2, <2>1, <2>2, <2>4 DEF NoEndAt
  <2> QED BY <2>1, <2>3, <2>4
<1>8. CASE Dwells
  <2>1. /\ session' = session /\ ids' = ids /\ agent'.events = agent.events /\ watched' = watched
        /\ Pending' = Pending /\ Now' = Now
    BY <1>8 DEF Dwells, projectionVars, Pending, Waiting, Now
  <2> QED BY <1>4, <2>1, LikeSelf
<1>9. CASE Keeps
  BY <1>5, <1>9 DEF Keeps, projectionVars
<1>10. CASE Loses
  BY <1>5, <1>6, <1>10 DEF Loses, projectionVars
<1>11. ASSUME NEW e \in Event, Records(e)
       PROVE  /\ session'.exists => agent'.events # 0
              /\ session'.state \in Active /\ Alone(session'.last) =>
                   \A d \in Pending' : d.at = session'.last => ~Ends(d)
              /\ watched'.on /\ Alone(watched'.last) => session'.last >= watched'.last /\ Vouched'
  <2>1. Pending' \subseteq Pending /\ e \in Pending /\ Record(e) /\ agent' = agent /\ watched' = watched
    BY <1>11 DEF Records
  <2> QED BY <1>6, <2>1, LikeSelf
<1>12. CASE Reports
  <2>1. /\ Pending' = Pending /\ agent' = agent /\ ids' = ids /\ Now' = Now
        /\ watched' = watched \/ ~watched'.on
        /\ session'.exists = session.exists /\ session'.last >= session.last /\ session'.last \in Nat
    <3>1. Pending' = Pending /\ agent' = agent /\ ids' = ids
      BY <1>12 DEF Reports, Pending, Waiting
    <3>2. Now' = Now
      BY <1>12 DEF Reports, Now
    <3>3. watched' = watched \/ ~watched'.on
      BY <1>12 DEF Reports, NotWatched
    <3>4. /\ session'.exists = session.exists
          /\ session'.last >= session.last /\ session'.last <= Now
      BY <1>12, ReportRow
    <3>5. session'.last \in Nat
      BY <1>12, <3>4 DEF Reports, Base, FeedTypeOK, ProjectionTypeOK
    <3> QED BY <3>1, <3>2, <3>3, <3>4, <3>5
  <2>2. \/ session' = session
        \/ session'.last = Now /\ (session'.state \in Active => agent.phase \in Busy)
        \/ session'.state = "waiting_for_event" /\ session'.last = session.last
    BY <1>12, ReportDate
  <2>3. ASSUME session'.state \in Active, Alone(session'.last)
        PROVE  \A e \in Pending : e.at = session'.last => ~Ends(e)
    <3>1. CASE session' = session
      BY <1>2, <2>3, <3>1 DEF NoEndAt
    <3>2. CASE session'.last = Now /\ agent.phase \in Busy
      <4>1. \A e \in Pending : Ends(e) => e.id < agent.events
        BY <1>0, <3>2 DEF RemindersInv, Earlier
      <4>2. \A e \in Pending : Ends(e) => e.id # agent.events
        BY <1>0, <4>1
      <4> QED BY <2>3, <3>2, <4>2, NotTwice
    <3>3. "waiting_for_event" \notin Active
      BY DEF Active
    <3> QED BY <2>2, <2>3, <3>1, <3>2, <3>3
  <2>4. ASSUME watched.on, Alone(watched.last), watched' = watched
        PROVE  session'.last >= watched.last /\ Vouched'
    <3>1. session.last >= watched.last /\ Vouched /\ session'.last >= watched.last
      BY <1>0, <1>3, <2>1, <2>4
    <3>2. CASE session'.last > watched.last \/ Now = watched.last
      BY <2>1, <2>4, <3>1, <3>2 DEF Vouched
    <3>3. CASE ~(session'.last > watched.last) /\ Now # watched.last
      <4>1. session'.last = watched.last /\ session'.last # Now /\ ~(session.last > watched.last)
        BY <1>0, <2>1, <3>1, <3>3
      <4>2. ~Terminal /\ NoEndAt(watched.last) /\ \A i \in ids \ watched.ids : TimeOf[i] <= watched.last
        BY <3>1, <3>3, <4>1 DEF Vouched
      <4>3. ~Terminal'
        BY <2>2, <4>1, <4>2 DEF Terminal
      <4>4. NoEndAt(watched.last)'
        BY <2>1, <2>4, <4>2 DEF NoEndAt
      <4> QED BY <2>1, <2>4, <3>1, <4>2, <4>3, <4>4 DEF Vouched
    <3> QED BY <3>2, <3>3
  <2> QED BY <1>0, <2>1, <2>3, <2>4
<1> QED BY <1>7, <1>8, <1>9, <1>10, <1>11, <1>12, FeedWays

LEMMA WatchInvariant == FeedSpec => []WatchInv
<1>1. FeedInit => WatchInv
  <2>1. FeedInit => session = Absent /\ watched = NotWatched
    BY DEF FeedInit, ProjectionInit
  <2>2. ~Absent.exists /\ Absent.state \notin Active /\ ~NotWatched.on
    BY DEF Absent, Active, NotWatched
  <2> QED BY <2>1, <2>2 DEF WatchInv
<1>2. WatchInv /\ Base /\ Base' /\ RemindersInv /\ [FeedNext]_vars => WatchInv'
  BY WatchKeeps
<1> QED BY <1>1, <1>2, BaseInvariant, RemindersInvariant, PTL DEF FeedSpec

\* The verdict on a process that is gone never overrides an event newer than the
\* snapshot it rests on, unless they share a reading of the clock.
THEOREM FeedNewerWins == FeedSpec => NewerEvidenceWins
<1> DEFINE Wins == watched.on /\ ~watched'.on /\ session'.state # session.state /\ Alone(watched.last) =>
                     \A i \in ids \ watched.ids : TimeOf[i] <= watched.last
<1>1. ASSUME Base, WatchInv, [FeedNext]_vars PROVE Wins
  <2> SUFFICES ASSUME watched.on, ~watched'.on, session'.state # session.state, Alone(watched.last),
                      NEW i \in ids \ watched.ids
               PROVE  TimeOf[i] <= watched.last
    OBVIOUS
  <2>1. ~Dwells /\ ~Carries /\ (\A x \in Event : ~Emits(x)) /\ (\A e \in Event : ~Takes(e))
    BY DEF Dwells, Carries, Emits, Takes, projectionVars
  <2>2. MarkUnconfirmed(watched.last)
    <3>1. Reports
      BY <1>1, <2>1, FeedMoves DEF Base
    <3> QED BY <3>1 DEF Reports, projectionVars
  <2>3. session.exists /\ session.last = watched.last
    BY <2>2 DEF MarkUnconfirmed, StillAtWork
  <2>4. ~ignored /\ session.last \in Nat
    BY <1>1, <2>3 DEF Base, Rows, Absent, FeedTypeOK, ProjectionTypeOK
  <2>5. Vouched /\ ~(session.last > watched.last)
    BY <1>1, <2>3, <2>4 DEF WatchInv
  <2>6. TimeOf[i] <= Now
    BY Clock, <1>1 DEF Base, Traces
  <2> QED BY <2>5, <2>6 DEF Vouched
<1>2. Base /\ WatchInv /\ [FeedNext]_vars => [Wins]_vars
  BY <1>1
<1> QED BY <1>2, BaseInvariant, WatchInvariant, PTL DEF FeedSpec, NewerEvidenceWins
=============================================================================
