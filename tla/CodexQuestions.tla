---------------------------- MODULE CodexQuestions ----------------------------
(***************************************************************************)
(* The questions that Codex asks without waiting for the answer            *)
(* (QuestionRegistry in crates/server/src/codex_questions.rs and its       *)
(* callers in crates/server/src/server.rs), for one Codex thread.          *)
(*                                                                         *)
(* A question comes to ActRealm twice: live, as a request or as an item of *)
(* the app-server, and as an echo in the transcript, which a poll reads    *)
(* later and may read again.  Requests and notifications leave the         *)
(* app-server in one order, and two threads handle them.  Each answer is   *)
(* claimed under a lock, sent without it and finished under it again.      *)
(***************************************************************************)
EXTENDS Naturals, Sequences, FiniteSets, SequencesExt

CONSTANTS
    Questions,    \* the questions of Codex, numbered
    Requested,    \* those that are requests; the others are items of a message
    TextOf,       \* what they ask: two may ask the same
    OwnItem,      \* those whose echo has an item of its own
    Clients,      \* user interfaces
    MaxEntries,   \* entries the registry holds at most (128)
    Ttl,          \* QUESTION_TTL
    MaxTime, MaxTurns   \* bounds

ASSUME QuestionAssumption ==
    /\ Questions \subseteq Nat \ {0} /\ Requested \subseteq Questions /\ OwnItem \subseteq Questions
    /\ IsFiniteSet(Questions) /\ IsFiniteSet(Clients)
    /\ {MaxEntries, Ttl} \subseteq Nat /\ {MaxTime, MaxTurns} \subseteq Nat \ {0}
    /\ DOMAIN TextOf = Questions

VARIABLES
    codex,       \* its turn, and what became of the questions
    wire,        \* messages of the app-server that are not handled yet, in order
    taken,       \* when each handler took the message it is at, 0 for none
    transcript,  \* the records of the session file
    poll,        \* the position read, when it was read, the records that are not
                 \* applied yet, and whether it holds the lock
    registry,    \* the entries, and cleared_at
    client,      \* the answer each client is at
    toCodex,     \* answers on their way
    now,
    history      \* for the properties

vars == <<codex, wire, taken, transcript, poll, registry, client, toCodex, now, history>>

\* How a reply goes: not at all, to a request, or as a message for a turn.  The
\* question that gave the route is only for the properties.
Observe == [kind |-> "observe", of |-> 0, asks |-> 0]
Rpc(q) == [kind |-> "rpc", of |-> q, asks |-> q]
Steer(turn, q) == [kind |-> "steer", of |-> turn, asks |-> q]

Routes ==
    {Observe} \cup {Rpc(q) : q \in Requested}
              \cup {Steer(turn, q) : turn \in 0 .. MaxTurns, q \in Questions \ Requested}

Times == 0 .. MaxTime

Entry ==
    [id : Nat, item : Questions \X {"live", "echo"}, text : {TextOf[q] : q \in Questions},
     at : Times, route : Routes, answerable : BOOLEAN, submitting : BOOLEAN]

Message ==
    [kind : {"request", "resolved"}, of : Requested, turn : 0 .. MaxTurns]
      \cup [kind : {"asked"}, of : Questions \ Requested, turn : 0 .. MaxTurns]
      \cup [kind : {"said", "started", "completed"}, of : {0}, turn : 0 .. MaxTurns]

Record ==
    [kind : {"question"}, of : Questions, at : Times] \cup [kind : {"user", "ended"}, of : {0}, at : Times]

Answer == [client : SUBSET (Clients \X Nat), route : Routes]

Idle == [pc |-> "idle", ok |-> FALSE, id |-> 0, route |-> Observe]

QuestionTypeOK ==
    /\ codex \in [turn : 0 .. MaxTurns, running : BOOLEAN, since : Times,
                  asked : [Questions -> {"new", "open", "closed"}]]
    /\ wire \in Seq(Message)
    /\ taken \in [{"request", "notice"} -> Times]
    /\ transcript \in Seq(Record)
    /\ poll \in [read : 0 .. Len(transcript), at : Times, observed : Seq(Record), locked : BOOLEAN]
    /\ registry \in [entries : SUBSET Entry, cleared : Times]
    /\ client \in [Clients -> [pc : {"idle", "send", "wait", "finish"}, ok : BOOLEAN,
                              id : Nat, route : Routes]]
    /\ toCodex \subseteq Answer
    /\ now \in Times \ {0}
    /\ history \in [answers : [Questions -> Nat], untold : SUBSET Questions, mishap : BOOLEAN,
                    late : SUBSET Questions, displaced : SUBSET Questions]

\* ActRealm may connect in the middle of a turn.
QuestionInit ==
    /\ codex \in {[turn |-> t, running |-> t = 1, since |-> 0, asked |-> [q \in Questions |-> "new"]] :
                    t \in {0, 1}}
    /\ wire = <<>>
    /\ taken = [t \in {"request", "notice"} |-> 0]
    /\ transcript = <<>>
    /\ poll = [read |-> 0, at |-> 0, observed |-> <<>>, locked |-> FALSE]
    /\ registry = [entries |-> {}, cleared |-> 0]
    /\ client = [c \in Clients |-> Idle]
    /\ toCodex = {}
    /\ now = 1
    /\ history = [answers |-> [q \in Questions |-> 0], untold |-> {}, mishap |-> FALSE,
                  late |-> {}, displaced |-> {}]

-----------------------------------------------------------------------------
(* The registry; each operation runs under the lock of the Codex state *)

\* Mutant: any entry with the same text is taken for the question itself.
MatchesText(old, new) == old.text = new.text

\* The entry a batch belongs to: the same request or item, or, when one of the
\* two is an echo, the same text.
Matches(old, new) ==
    \/ IF old.route.kind = "rpc" /\ new.route.kind = "rpc"
       THEN old.route = new.route
       ELSE old.item = new.item
    \/ /\ old.text = new.text
       /\ new.route = Observe \/ (old.route = Observe /\ ~old.submitting)

\* An entry that was only observed gets a route; a verified route stays.
Upgraded(old, new) ==
    IF ~old.submitting /\ old.route = Observe /\ new.answerable
    THEN [old EXCEPT !.route = new.route, !.answerable = TRUE]
    ELSE old

\* Identities are new; the least that no entry, client or answer has will do.
Used(r, i) ==
    \/ \E e \in r.entries : e.id = i
    \/ \E c \in Clients : client[c].id = i \/ (\E m \in toCodex : <<c, i>> \in m.client)

FreshIds(r) ==
    {i \in 1 .. MaxEntries + Cardinality(Clients) + Cardinality(Questions) :
        ~Used(r, i) /\ \A j \in 1 .. i - 1 : Used(r, j)}

Observed(r, batch) ==
    LET matching == {old \in r.entries : Matches(old, batch)}
    IN  IF r.cleared >= batch.at THEN {r}
        ELSE IF matching # {}
        THEN {[r EXCEPT !.entries = (@ \ {old}) \cup {Upgraded(old, batch)}] : old \in matching}
        ELSE IF Cardinality(r.entries) >= MaxEntries THEN {r}
        ELSE {[r EXCEPT !.entries = @ \cup {[batch EXCEPT !.id = i]}] : i \in FreshIds(r)}

\* A batch that finds no place: the thread was cleared since, or the registry is full.
Refused(r, batch) ==
    \/ r.cleared >= batch.at
    \/ Cardinality(r.entries) >= MaxEntries /\ \A old \in r.entries : ~Matches(old, batch)

\* The entry that its own echo made has been taken by another question.  (Requests
\* are told apart by their ids, and then this does no harm.)
Usurped(r, batch) ==
    \E old \in r.entries :
        /\ old.item = batch.item /\ old.route \notin {Observe, batch.route}
        /\ {old.route.kind, batch.route.kind} # {"rpc"}

ClearThread(r, at) ==
    [entries |-> {e \in r.entries : e.at > at},
     cleared |-> IF r.cleared > at THEN r.cleared ELSE at]

ResolveRpc(r, q) == [r EXCEPT !.entries = {e \in @ : e.route # Rpc(q)}]

\* Mutant: the end of a turn takes only what was observed.
EndTurnOfObserved(r) == [r EXCEPT !.entries = {e \in @ : e.route # Observe}]

EndTurn(r) ==
    [r EXCEPT !.entries = {[e EXCEPT !.answerable = FALSE, !.route = Observe] : e \in @}]

\* snapshot: what is older than an hour goes.
Purged(r) ==
    [entries |-> {e \in r.entries : now - e.at <= Ttl},
     cleared |-> IF now - r.cleared <= Ttl THEN r.cleared ELSE 0]

Claimable(e) == e.answerable /\ ~e.submitting

Claimed(r, e) == [r EXCEPT !.entries = (@ \ {e}) \cup {[e EXCEPT !.submitting = TRUE]}]

\* Mutant: an answer that could not be sent may be tried again.
FinishedForRetry(r, id, ok) ==
    LET own == {e \in r.entries : e.id = id}
    IN  IF own = {} THEN r
        ELSE LET e == CHOOSE e \in own : TRUE
             IN  IF ok THEN ClearThread([r EXCEPT !.entries = @ \ {e}], e.at)
                 ELSE [r EXCEPT !.entries = (@ \ {e}) \cup {[e EXCEPT !.submitting = FALSE]}]

Finished(r, id, ok) ==
    LET own == {e \in r.entries : e.id = id}
    IN  IF own = {} THEN r
        ELSE LET e == CHOOSE e \in own : TRUE
             IN  IF ok THEN ClearThread([r EXCEPT !.entries = @ \ {e}], e.at)
                 ELSE [r EXCEPT !.entries = (@ \ {e}) \cup
                          {[e EXCEPT !.answerable = FALSE, !.route = Observe, !.submitting = TRUE]}]

-----------------------------------------------------------------------------
(* Codex *)

Open == {q \in Questions : codex.asked[q] = "open"}

Msg(kind, of) == [kind |-> kind, of |-> of, turn |-> codex.turn]

Rec(kind, of) == [kind |-> kind, of |-> of, at |-> now]

\* Codex tells that requests are over.
Resolutions(qs) == SetToSeq({Msg("resolved", q) : q \in qs \cap Requested})

CloseAll == [q \in Questions |-> IF q \in Open THEN "closed" ELSE codex.asked[q]]

StartTurn ==
    /\ ~codex.running
    /\ codex.turn < MaxTurns
    /\ codex' = [codex EXCEPT !.turn = @ + 1, !.running = TRUE, !.since = now]
    /\ wire' = Append(wire, Msg("started", 0))
    /\ transcript' = Append(transcript, Rec("user", 0))
    /\ UNCHANGED <<taken, poll, registry, client, toCodex, now, history>>

\* A question takes the model at least a millisecond.
Ask(q) ==
    /\ codex.running
    /\ codex.asked[q] = "new"
    /\ codex.since < now
    /\ codex' = [codex EXCEPT !.asked[q] = "open"]
    /\ wire' = Append(wire, Msg(IF q \in Requested THEN "request" ELSE "asked", q))
    /\ transcript' = Append(transcript, Rec("question", q))
    /\ UNCHANGED <<taken, poll, registry, client, toCodex, now, history>>

\* The user answers a request in Codex.
AnswerInCodex(q) ==
    /\ q \in Requested \cap Open
    /\ codex' = [codex EXCEPT !.asked[q] = "closed"]
    /\ wire' = wire \o Resolutions({q})
    /\ UNCHANGED <<taken, transcript, poll, registry, client, toCodex, now, history>>

\* A message of the user: whatever was asked before is no longer waited for.
Said ==
    /\ codex.running
    /\ codex' = [codex EXCEPT !.asked = CloseAll, !.since = now]
    /\ wire' = Append(wire, Msg("said", 0)) \o Resolutions(Open)
    /\ transcript' = Append(transcript, Rec("user", 0))

SayInCodex == Open # {} /\ Said /\ UNCHANGED <<taken, poll, registry, client, toCodex, now, history>>

FinishTurn ==
    /\ codex.running
    /\ codex' = [codex EXCEPT !.asked = CloseAll, !.running = FALSE]
    /\ wire' = Append(wire, Msg("completed", 0))
    /\ transcript' = Append(transcript, Rec("ended", 0))
    /\ UNCHANGED <<taken, poll, registry, client, toCodex, now, history>>

Answered(q) == history' = [history EXCEPT !.answers[q] = @ + 1]

\* Codex takes an answer to a request that is open.
TakeReply(m) ==
    /\ m.route.kind = "rpc"
    /\ IF m.route.of \in Open
       THEN /\ codex' = [codex EXCEPT !.asked[m.route.of] = "closed"]
            /\ wire' = wire \o Resolutions({m.route.of})
            /\ Answered(m.route.of)
       ELSE UNCHANGED <<codex, wire, history>>
    /\ UNCHANGED <<transcript, client>>

\* Codex takes a message for the turn it is in; to any other it answers an error.
\* Its caller may have given up meanwhile.
TakeSteer(m) ==
    /\ m.route.kind = "steer"
    /\ LET fits == codex.running /\ codex.turn = m.route.of
       IN  /\ IF fits THEN Said /\ Answered(m.route.asks) ELSE UNCHANGED <<codex, wire, transcript, history>>
           /\ client' = [c \in Clients |->
                IF client[c].pc = "wait" /\ <<c, client[c].id>> \in m.client
                THEN [client[c] EXCEPT !.pc = "finish", !.ok = fits]
                ELSE client[c]]

TakeAnswer(m) ==
    /\ m \in toCodex
    /\ TakeReply(m) \/ TakeSteer(m)
    /\ toCodex' = toCodex \ {m}
    /\ UNCHANGED <<taken, poll, registry, now>>

-----------------------------------------------------------------------------
(* The handlers of requests and notifications *)

HandledBy == [request |-> {"request"}, notice |-> {"asked", "said", "resolved", "started", "completed"}]

\* The first message on the wire that a handler is for.
FirstFor(t) ==
    {i \in DOMAIN wire :
        /\ wire[i].kind \in HandledBy[t]
        /\ \A j \in 1 .. i - 1 : wire[j].kind \notin HandledBy[t]}

\* A handler takes its next message and reads the clock.
Take(t) ==
    /\ taken[t] = 0
    /\ FirstFor(t) # {}
    /\ taken' = [taken EXCEPT ![t] = now]
    /\ history' = [history EXCEPT !.mishap = @ \/ 1 \notin FirstFor(t)]
    /\ UNCHANGED <<codex, wire, transcript, poll, registry, client, toCodex, now>>

Live(q, at, route) ==
    [id |-> 0, item |-> <<q, "live">>, text |-> TextOf[q], at |-> at, route |-> route,
     answerable |-> route # Observe, submitting |-> FALSE]

Handled(t, i) ==
    /\ ~poll.locked
    /\ taken[t] # 0
    /\ wire' = RemoveAt(wire, i)
    /\ taken' = [taken EXCEPT ![t] = 0]
    /\ UNCHANGED <<codex, transcript, poll, client, toCodex, now>>

\* The wire still tells the registry that a request is over.
EndOnWire(q) ==
    \E i \in DOMAIN wire :
        wire[i].kind = "completed" \/ (wire[i].kind = "resolved" /\ wire[i].of = q)

\* What the properties except of a question that the registry does not take in.
Excepted(q, batch) ==
    [history EXCEPT !.mishap = @ \/ Refused(registry, batch),
                    !.displaced = IF Usurped(registry, batch) THEN @ \cup {q} ELSE @]

HandleRequest(i) ==
    LET q == wire[i].of
        batch == Live(q, taken["request"], Rpc(q))
    IN  /\ Handled("request", i)
        /\ registry' \in Observed(registry, batch)
        /\ history' = [Excepted(q, batch) EXCEPT
               !.late = IF q \notin Open /\ ~EndOnWire(q) THEN @ \cup {q} ELSE @]

HandleNotice(i) ==
    LET m == wire[i]
        at == taken["notice"]
        batch == Live(m.of, at, Steer(m.turn, m.of))
    IN  /\ Handled("notice", i)
        /\ \/ /\ m.kind = "asked"
              /\ registry' \in Observed(registry, batch)
              /\ history' = Excepted(m.of, batch)
           \/ /\ m.kind \in {"said", "started"}
              /\ registry' = ClearThread(registry, at)
              /\ UNCHANGED history
           \/ m.kind = "resolved" /\ registry' = ResolveRpc(registry, m.of) /\ UNCHANGED history
           \/ m.kind = "completed" /\ registry' = EndTurn(registry) /\ UNCHANGED history

-----------------------------------------------------------------------------
(* The poll of the transcript, once a second *)

\* What was written since the last time is read; or the file from its start,
\* when it was replaced or its task had left the list of those that are watched.
PollRead(start) ==
    /\ poll.observed = <<>>
    /\ start < Len(transcript)
    /\ poll' = [read |-> Len(transcript), at |-> now, locked |-> FALSE,
                observed |-> SubSeq(transcript, start + 1, Len(transcript))]
    /\ UNCHANGED <<codex, wire, taken, transcript, registry, client, toCodex, now, history>>

Echo(q, at) ==
    [id |-> 0, item |-> <<q, IF q \in OwnItem THEN "echo" ELSE "live">>, text |-> TextOf[q],
     at |-> at, route |-> Observe, answerable |-> FALSE, submitting |-> FALSE]

\* What was older than an hour is passed over.  The end of a turn counts when the
\* store takes it (observe_codex_turn_end).
Applied(r, rec, ends) ==
    IF rec.kind # "ended" /\ poll.at - rec.at > Ttl THEN {r}
    ELSE IF rec.kind = "question" THEN Observed(r, Echo(rec.of, rec.at))
    ELSE {IF rec.kind = "user" \/ ends THEN ClearThread(r, rec.at) ELSE r}

\* All that was read is applied under one lock, record by record.
PollApply ==
    /\ poll.observed # <<>>
    /\ \E ends \in BOOLEAN : registry' \in Applied(registry, Head(poll.observed), ends)
    /\ LET more == Len(poll.observed) > 1
       IN  poll' = [poll EXCEPT !.observed = Tail(@), !.locked = more, !.at = IF more THEN @ ELSE 0]
    /\ UNCHANGED <<codex, wire, taken, transcript, client, toCodex, now, history>>

-----------------------------------------------------------------------------
(* The answers of the user *)

\* process_async_answer: the entry is claimed under the lock ...
Claim(c, e) ==
    /\ ~poll.locked
    /\ client[c].pc = "idle"
    /\ e \in Purged(registry).entries
    /\ Claimable(e)
    /\ registry' = Claimed(Purged(registry), e)
    /\ client' = [client EXCEPT ![c] = [pc |-> "send", ok |-> FALSE, id |-> e.id, route |-> e.route]]
    /\ UNCHANGED <<codex, wire, taken, transcript, poll, toCodex, now, history>>

\* A reply to a request has no response; one to a message is for its client.
Reply(c) ==
    [client |-> IF client[c].route.kind = "rpc" THEN {} ELSE {<<c, client[c].id>>},
     route |-> client[c].route]

\* ... sent without it: a reply is only written, a message waits for its response ...
Send(c) ==
    /\ client[c].pc = "send"
    /\ toCodex' = toCodex \cup {Reply(c)}
    /\ client' = [client EXCEPT
         ![c].pc = IF client[c].route.kind = "rpc" THEN "finish" ELSE "wait",
         ![c].ok = client[c].route.kind = "rpc"]
    /\ UNCHANGED <<codex, wire, taken, transcript, poll, registry, now, history>>

\* The write fails; what was written before may or may not be taken.
SendFails(c) ==
    /\ client[c].pc = "send"
    /\ toCodex' \in {toCodex, toCodex \cup {Reply(c)}}
    /\ client' = [client EXCEPT ![c].pc = "finish"]
    /\ UNCHANGED <<codex, wire, taken, transcript, poll, registry, now, history>>

\* Mutant: without a response the answer counts as sent.
GiveUpContent(c) ==
    /\ client[c].pc = "wait"
    /\ client' = [client EXCEPT ![c].pc = "finish", ![c].ok = TRUE]
    /\ UNCHANGED <<codex, wire, taken, transcript, poll, registry, toCodex, now, history>>

\* No response within five seconds.
GiveUp(c) ==
    /\ client[c].pc = "wait"
    /\ client' = [client EXCEPT ![c].pc = "finish"]
    /\ UNCHANGED <<codex, wire, taken, transcript, poll, registry, toCodex, now, history>>

\* The questions an entry may stand for.
AskedBy(e) ==
    IF e.route = Observe THEN {q \in Questions : TextOf[q] = e.text} ELSE {e.route.asks}

\* ... and finished under it again.
Finish(c) ==
    LET own == client[c]
        after == Finished(registry, own.id, own.ok)
        lost == {e \in registry.entries \ after.entries :
                   e.id # own.id /\ (e.answerable \/ e.submitting)}
    IN  /\ ~poll.locked
        /\ own.pc = "finish"
        /\ registry' = after
        /\ client' = [client EXCEPT ![c] = Idle]
        /\ history' = [history EXCEPT
               !.untold = @ \cup {q \in {own.route.asks} :
                                    own.ok /\ own.route.kind = "steer" /\ history.answers[q] = 0},
               !.displaced = @ \cup (Open \cap UNION {AskedBy(e) : e \in lost})]
        /\ UNCHANGED <<codex, wire, taken, transcript, poll, toCodex, now>>

\* A user interface takes a snapshot.
Snapshot ==
    /\ ~poll.locked
    /\ registry' = Purged(registry)
    /\ UNCHANGED <<codex, wire, taken, transcript, poll, client, toCodex, now, history>>

Tick ==
    /\ now < MaxTime
    /\ now' = now + 1
    /\ UNCHANGED <<codex, wire, taken, transcript, poll, registry, client, toCodex, history>>

CodexStep ==
    \/ StartTurn
    \/ \E q \in Questions : Ask(q) \/ AnswerInCodex(q)
    \/ SayInCodex
    \/ FinishTurn
    \/ \E m \in toCodex : TakeAnswer(m)

QuestionNext ==
    \/ CodexStep
    \/ \E t \in {"request", "notice"} : Take(t)
    \/ \E i \in FirstFor("request") : HandleRequest(i)
    \/ \E i \in FirstFor("notice") : HandleNotice(i)
    \/ \E start \in {0, poll.read} : PollRead(start)
    \/ PollApply
    \/ \E c \in Clients : (\E e \in registry.entries : Claim(c, e)) \/ Send(c) \/ SendFails(c) \/ GiveUp(c) \/ Finish(c)
    \/ Snapshot
    \/ Tick

QuestionSpec == QuestionInit /\ [][QuestionNext]_vars

-----------------------------------------------------------------------------
(* Properties *)

\* Codex gets one answer to a question at most, whatever clients race, however a
\* transmission ended and however often its echo is read
\* (docs/COMPANION_PROTOCOL.md: neither duplicate submissions nor uncertain
\* transmissions can be replayed).
AnsweredOnce == \A q \in Questions : history.answers[q] <= 1

\* A client that is told that its message was sent told it to Codex: the response
\* is waited for, and a timeout counts as a failure.
SentIsTaken == history.untold = {}

\* Whoever can be answered is waited for, or the wire already says that it is over.
\* One exception: a request that its own end has overtaken, because two threads
\* handle requests and notifications.
AnswerableIsOpen ==
    \A e \in registry.entries : e.answerable =>
        IF e.route.kind = "rpc"
        THEN e.route.of \in Open \cup history.late \/ EndOnWire(e.route.of)
        ELSE \/ codex.running /\ codex.turn = e.route.of
             \/ \E i \in DOMAIN wire : wire[i].kind = "completed" /\ wire[i].turn = e.route.of

Quiet == wire = <<>> /\ toCodex = {} /\ poll.observed = <<>> /\ now <= Ttl + 1

\* The question has an entry that the user can answer, or has answered.
Offered(q) ==
    \E e \in registry.entries :
        \/ e.submitting /\ e.text = TextOf[q]
        \/ e.answerable /\ e.route \in {Rpc(q), Steer(codex.turn, q)}

\* Echoes, other questions with the same text and earlier failures never keep a
\* question from the user that Codex waits for, nor do messages that came in
\* order.  Left out: requests that the answer to a newer one displaced,
\* questions whose own echo was taken for another one with the same text, and runs
\* in which the registry refused a question (mishap).
OpenIsOffered ==
    Quiet /\ ~history.mishap =>
        \A q \in Open \ history.displaced : Offered(q)
=============================================================================
