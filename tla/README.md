# ActRealm: formal models of the Runtime

ActRealm keeps a local Runtime process between coding agents ("providers":
Claude Code, Codex, Gemini, Kimi, Grok) and its user interfaces.  Provider Hooks
send lifecycle events and blocking requests to the Runtime over a Unix socket;
Codex also talks to it over an app-server connection, Kimi and Grok through a
relay.  The Runtime stores what it learns in SQLite, shows it over a localhost
HTTP API, and sends the user's decisions and answers back to whoever still
waits.  Two promises matter most: nothing decides for the user, so that whatever
goes wrong a request falls back to the provider's own interface; and what is
shown of a session is true.

The modules here model the decision loop, the ways by which events become the
state of a session, the questions of Codex, and the handshake by which the
Runtime restarts.  TLC checks them on small instances; TLAPS proves the data structures,
the decision loop with its refinement of the contract, what the session projection shows,
and the handshake for every instance.  Paths
are relative to the repository, `storage.rs` is `crates/runtime/src/storage.rs`,
`waiter.rs` is `crates/runtime/src/waiter.rs`, `spool.rs` is
`crates/runtime/src/spool.rs`, `server.rs` is `crates/server/src/server.rs`,
`codex_questions.rs` is `crates/server/src/codex_questions.rs` and `main.rs` is
`crates/app/src/main.rs`.

## Inventory

| Component | State it keeps | Operations | Interacts through |
|---|---|---|---|
| Waiter registry (`waiter.rs`) | two maps under one mutex, a channel per blocked connection | register, decide, pass through, answer, expire, shut down | shared by every thread of the Runtime |
| Store (`storage.rs`) | SQLite: sessions, turns, attention items, commands, metrics | one transaction per call, run by one writer thread | called by every thread; survives the process |
| Connection threads (`main.rs`, `serve`) | one stack frame per Hook connection | register, ingest, wait, give up | registry, then store, in separate calls |
| Command handlers (`server.rs`) | one stack frame per request, a spawned task per delayed decision, all on one thread | approve, deny, pass through, undo, answer, acknowledge, snooze, dismiss | store and registry, in separate calls |
| Expiry thread (`main.rs`) | the expired ids it has still to store | every two seconds: registry, then store | the same |
| Hook process (`main.rs`, `run_hook`) | one event or request | send, wait for a reply, give up, spool | socket and spool; may be killed at any time |
| Agent connections (`agent_connection.rs`, `agent.rs`, `acp.rs`) | relays of Kimi and Grok | wait with a liveness poll, withdraw, mark lost | registry and store |
| Session projection (`storage.rs`, `ingest_transaction`) | session, turns, execution interval, native items, reminders, subagents, plans | one transaction per event, synchronisation with the connector, judgement about the process | events may be late, repeated or out of order |
| Event spool (`spool.rs`) | files | append, drain, prune | Hooks append, the Runtime drains at startup |
| Managed Codex connector (`codex-connector`, `server.rs`, `codex_questions.rs`) | requests of an app-server by RPC id, a registry of questions, connection and credential state | take requests, respond, resolve, reconnect, observe and answer questions | its own threads, the registry and the store |
| Restart handshake (`server.rs`, `main.rs`) | one atomic word and one response channel per request | request, wake, accept, cancel, time out, answer, leave | HTTP handler or quota loop, and accept loop |
| Access to the API (`server.rs`, `native_clients.rs`) | WebSocket tickets, paired devices | issue, redeem, revoke | user interfaces |
| Quota and usage (`quota`, `usage`) | last good values, refresh claims | read, refresh | provider files and services |
| Installer, service, diagnostics, titles, summaries | files | edits and conversions | none of the loop |

A decision passes through four parties: a handler claims it in the store, waits
out the undo window, asks the registry whether the provider still waits, commits
it in the store and only then sends it.  No lock spans these steps.  Handlers do
not overtake each other, because the API runs on one thread; but while a decision
sleeps in its undo window the user may take it back or decide again elsewhere, and
between any two of its steps the provider may move on by itself, the deadline may
pass, a duplicate may take over, a relay or the app-server may go away, the accept
loop may begin a restart, or the process may die.

An event passes through as many: the Agent runs a Hook per event, Hooks and
connection threads run beside each other, a Hook that is not served in 200 ms
spools its event, the Runtime replays the spool when it starts, and the store must
make one truth of what arrives late, twice, after its end, or never, and of what the
connector and the process table say beside it.  A question of Codex arrives twice by
construction, live and in the transcript, and its answer must be given once.
`PROJECT.json` lists each such hazard at its line, with the property that would catch
it going wrong.

What makes each component correct:

- the registry: every blocked connection is answered exactly once, and the two
  maps never disagree;
- the store: first valid decision wins, nothing that ended comes back, and the
  counters count each decision and each timeout once;
- the loop: the provider is told approve or deny only if that decision of the
  user stands; every decision in its undo window is settled; what reads as sent was
  sent; every waiter has a thread; every Hook process gets an end; a session waits
  only for something the user can do; nothing of a dead process can be decided;
- relays and app-server: what reads as sent was written to somebody who listened,
  and a request that its asker ended cannot be decided any more;
- the session projection: one open turn, an interval that fits the state, and once
  every event has arrived a state, a sheet and reminders that fit the Agent;
- hooks and spool: no event is lost but in the two places that may lose it, none is
  projected twice, the Runtime always gets to listen, and a killed Agent is noticed;
- the questions of Codex: each is answered once at most and only while it is waited
  for, what the user is told about an answer is true, and none is kept from the user;
- the restart handshake: the caller and the accept loop agree on what became of a
  request, every caller returns, and an announced restart takes place.

## Modules

| Module | Models | Notes |
|---|---|---|
| `WaiterRegistry` | `waiter.rs` | one action per call, each under the mutex from begin to end |
| `ApprovalStore` | the transactions of `storage.rs` that touch requests | one action per transaction; also the specification of the store on its own, under callers in any order |
| `ApprovalContract` | what ActRealm promises | abstract: propose, withdraw, deliver, hand back |
| `ApprovalLoop` | `serve`, `agent_connection.rs`, `process_command`, `schedule_decision`, `process_undo`, `process_answer_question` | extends `ApprovalStore`, instantiates `WaiterRegistry`, and implements `ApprovalContract` |
| `ManagedApprovals` | `handle_codex_approval_request`, the blocking part of `handle_codex_server_request`, `serverRequest/resolved`, changed credentials | extends `ApprovalLoop`: app-server requests in place of Hooks |
| `SessionProjection` | `ingest_transaction` and what else writes session, turn, interval, native item and reminder | one session of one provider; no behaviour of its own |
| `SessionFeed` | Agent, Hook processes, spool, connection threads, replay, connector, process watcher | extends `SessionProjection` and drives it |
| `CodexQuestions` | `codex_questions.rs`, its callers in `server.rs`, the transcript poll | one thread of Codex |
| `RestartHandshake` | `RuntimeRestartHandle`, `RuntimeRestartRequest`, the accept loop of `serve`, `ApiServer::drop` | on its own; `ApprovalLoop` has what the restart does to waiters and items |
| `MCWaiterRegistry`, `MCApprovalStore`, `MCApprovalLoop`, `MCManagedApprovals`, `MCSessionFeed`, `MCCodexQuestions`, `MCRestartHandshake` | instances for TLC | their `.cfg` files are the runs |
| `WaiterRegistryProofs`, `ApprovalStoreProofs`, `ApprovalContractProofs`, `ApprovalLoopProofs`, `ManagedApprovalsProofs`, `SessionFeedProofs`, `CodexQuestionsProofs`, `RestartHandshakeProofs` | proofs | see below |

`WaiterRegistry`, `ApprovalStore`, `RestartHandshake` and `SessionFeed` have their type
predicate checked and proved.  `LoopTypeOK` and `QuestionTypeOK` are proved and listed by
no run.

### WaiterRegistry

`byRequest` and `byCorrelation` are the two maps, `mailbox[t]` is everything that
was ever sent on the channel of ticket `t`, and `issued` remembers which tickets
exist.  `Register` models all of `register_at`: it expires what is due, passes
an older waiter of the same key and an older one of the same id through, and
inserts the new entry.  `Remove` is `remove_locked` for a set of entries, and
`ReleasedKeys` its rule that a key is released only when it still points at the
removed request.  The correlation key is a hash of provider, session, turn, tool
and input; here it is a member of a set.

### ApprovalStore

`att[r]` is the attention item of request `r` (its `state` and what its
`resolution` tells apart), `cmd[c]` the row of command `c`, `sess[s]` the
execution state and owner of a session.  `counted` and `timeouts` are the daily
counters, kept per command and per request so that a property can say what was
counted twice.  `Claim`, `Undo`, `CommitSent`, `CommitStale`, `ActAttention`,
`ExpireApproval`, `ResolveManaged`, `Reconcile`, `IngestRequest`, `IngestEvent`,
`MarkUnconfirmed` and `WakeSnoozed` are the transactions; `Reopen` is what a start
does before it listens.  The session rows are projected only as far as waiting for
the user goes (`Projected`, `MayUpdate`, `Released`; the full projection is
`SessionProjection`); an interrupted session is the code's `idle` with the
interruption as its activity.  All events of a session belong to one turn.  Times a
caller read before its transaction ran (`at`) are parameters, so that they may be
stale.

### ApprovalLoop

Threads are records with a program counter: `hook[r]` for the connection of a
request, `job[h]` for a handler together with the task it spawns, `delivery[e]`
for a lifecycle event, `sweep` for the expiry thread, `leaving` for the accept
loop on its way to a restart, `closing[r]` for the connection on which a relay
withdraws its request.  Each step calls the registry or the store once,
which is where the code can be overtaken.  By whom differs: connection threads,
the expiry thread and the accept loop interleave freely, but the API server is a
`new_current_thread` runtime whose handlers contain no await between their calls,
so a handler (`Running`) starts only when no other one is under way.  The one
await is the sleep of `schedule_decision` (program counter `sleep`, `MayWake`).

- connection thread: `HookRegister`, `HookExpireReplaced`, `HookIngest` or
  `HookRefused`, then `HookReceive`, or `HookTimeout`, `HookGiveUp`,
  `HookExpire`, `HookClose`;
- requests in `ByAgent` come from the relay of Kimi or Grok: `AgentGivesUp` is the
  poll that looks at the peer and the deadline before the channel, `AgentExpire`
  ends the item of a request whose reply could not be written, `AgentUnconfirm` is
  `mark_lost`, and `AgentCloses`, `AgentCloseExpires`, `AgentCloseUnconfirms` are
  the event by which a relay withdraws its request;
- approve and deny: `Submit`, `JobClaim`, `JobProbe` (at once, or after the sleep),
  `JobCommit`, `JobDecide`, and `JobExpire` when the waiter is gone;
- pass through: `Submit`, `JobClaim`, `JobHandBack`;
- undo: `UndoRequest` reads the clock, `JobUndo` runs the transaction;
- questions: `SubmitAnswer`, `JobAnswer`, `JobAck`, and `Attend`;
- events: `EventIngest`, then `EventPassThrough` for each approval the provider
  handled;
- graceful restart: `BeginRestart` reads the active waiters, `ReleaseForRestart`
  passes each through, `ReconcileForRestart` expires every live item; the process
  goes on until it is replaced, which is a `Crash`;
- the process: `Crash` loses the registry and every thread and keeps the store;
  `Startup` reopens it.

`client[r]` is what the Hook process was told; it may end at any time
(`ClientGone`).

### ManagedApprovals

Commands, undo, expiry thread, restart and crash are the `ServerNext` of
`ApprovalLoop`.  In place of Hooks, `asked` is the channel of requests and `notice[r]`
the `serverRequest/resolved` of a request, which has a channel and a thread of its own;
`ids` is `managed_request_ids`, whose mutex is held from registration to ingest
(`Unlocked`).  `hook[r]` is the thread that waits for the answer: `ManagedReceive` then
`ManagedRespond`, or `ManagedTimeout`, `ManagedForget`, `ManagedPass`, `ManagedExpire`,
`ManagedError`.  A response that is written while the connection is open counts as
heard.  `CredentialsChange` shuts the connector down; the restart it asks for is a
restart of `ApprovalLoop`, or fails (`CredentialRestartFails`), upon which every request
is given back.  What the handlers tell the session (`sync_native_approval` beside a
question, and after a failed reconnect) is in `SessionProjection`, not here.

### SessionProjection

One session of one provider: `session` is its row, `turns` the turns in their order,
`interval` the open `agent_execution_intervals` row, `native` the open permission sheets,
`reminders` the completions and errors shown, `completed` the turns whose completion was
raised, `ids` and `keys` the deduplication of events, `ignored` a suppressed session.  An event is a record of id, kind, turn, time and
a `mark` for what of its payload matters (a helper tool, a subagent, background work,
compaction, an internal prompt).  `Ingest` is `ingest_transaction`: drop, suppress,
recognise or record; the steps of the transaction are operators of their own in the
order of the code, from `SelectedTurns` to `RemindersAfter`.  `SheetSeen`, `SheetGone`
and `SyncExecution` are the connector's two synchronisations, `MarkUnconfirmed` the
judgement about the process, `DismissSheet` and `Acknowledge` the user.

### SessionFeed

`agent` is what the Agent really does, which the properties compare with what is shown.
`Emit` starts a Hook, `Send` hands its event to a connection thread (`threads`), `Spool`
leaves it in the spool and prunes; `Store` ingests.  `StopRuntime` ends the process with
its threads, `StartRuntime` lists the spool, `Replay` and `RemoveReplayed` are the two
halves of a step of `drain`, and `Listen` ends the replay, also one that failed on a file
that is gone.  Codex Agents show sheets and are synchronised (`SyncSheet`, `SyncTurn`);
Claude Agents run subagents, leave work in the background and end their session.
`Watch` and `Unconfirm` are the snapshot's look at the process table and the later
transaction.  Agents run one Hook at a time, which returns before its event is stored;
that is how events overtake each other.

### CodexQuestions

Questions that Codex does not wait for with its turn.  `wire` is the order of the
app-server, `Take` the two threads that take from it, `transcript` and `poll` the session
file and the poll that reads it outside the lock, from the position it kept or, after a
reset, from the start; `PollApply` applies one record at a time, and `poll.locked` keeps
everybody else from the registry until the last one is applied.  `registry` holds the
entries, whose identities are any that nobody has (`FreshIds`); `Observed`,
`ClearThread`, `EndTurn`, `Purged`, `Claimed` and `Finished` are its operations.
A client claims (`Claim`), sends (`Send`, `SendFails`, `GiveUp`) and finishes
(`Finish`).  It is assumed that the thread is managed and active and that
`thread/closed` acts like `turn/completed`.  In the checked instance there is one
client with one answer at a time, and the hour of `QUESTION_TTL` and the limit of
128 entries are not reached.  `Refused` and `Usurped` are the two ways in which
`observe` leaves a question without an entry of its own; `history` remembers them, since
`OpenIsOffered` excepts them.  Wider instances were checked by hand and are too large for
a regular run: one question with expiry, two clients, two turns.

### RestartHandshake

`word[c]` is the atomic of a request, `reply[c]` its response channel (`gone` once
the loop dropped its end), `control` the channel of requests, `backlog` the
connections the accept loop has not taken, in order.  A caller queues its request
and connects to the socket so that the loop wakes up; the two are separate, so that a
Hook may wake the loop first, and a wake-up may find nothing.  `Expire` is
the deadline, which both sides read on their own: `TimeOut`, then `Cancel`, against
`CheckClock`, then `AcceptRequest`.  Handlers of the API block its only thread while
they wait (`Asking`), the quota loop waits on a thread of its own.  `Exec` needs
every caller to have returned, since `ApiServer::drop` joins the thread they
run on.

### ApprovalContract

The refinement mapping is written above `Contract` in `ApprovalLoop`: a decision
stands while its command is under way, and for ever once it was committed, unless
it was undone; the verdict is what the Hook process was told.  `ImplementsContract`
says that every step of the loop, or of a managed connection, is a step of the
contract or none at all.

## Runs

| Run | Instance | Shows |
|---|---|---|
| `registry` | 3 ids, 2 keys, 4 tickets, 3 clock readings | types, maps agree, tickets answered once |
| `store` | 2 approvals with different tools and a question of one session, 2 commands | types, one decision under way, counted once, ended stays ended |
| `loop_decide` | 1 approval, 2 commands, 2 handlers, with and without undo, a tool event, 1 restart or crash | contract, timeouts not decided, sent is delivered, sessions wait for something, approvals end with their Runtime |
| `loop_duplicate` | 2 requests with one key, relayed for Kimi or Grok, 1 command | waiters served, relays hear or the command fails |
| `loop_question` | 1 approval and 1 question of a session, 1 command, 2 handlers | an answered question is closed |
| `loop_live` | 1 approval, 1 command, 2 handlers, a stop event, 1 restart or crash, fairness | Hooks are released, claims settle |
| `codex_approvals` | 1 approval of the app-server, 2 commands, with and without undo, a stop event, 1 restart or crash, lost connection, changed credentials | contract, sent is heard, resolved is closed |
| `session_order` | 5 events, 2 turns, 2 Hooks or threads at a time, both providers, a running Runtime | types, interval, one open turn, state, sheet and reminders are true, newer evidence wins |
| `session_recovery` | 4 events, 1 turn, 1 end of the Runtime, 2 files, fairness | events kept, stored once, startup ends, a killed Agent is noticed |
| `codex_questions` | 2 questions with one text, a request and an item, 1 client, 1 turn | answered once, sent is taken, answerable is open, open is offered |
| `restart_handshake` | 1 handler, the quota loop, 1 Hook, fairness | types, refusals and successes are true, callers return, restarts happen |
| `session_stop` | 6 events, 1 turn | a violation: see below |

The bounds.  `MaxTime` 2 lets the clock stand before, at and after an undo window and a
deadline; with 1 (`loop_duplicate`, `codex_approvals`) the window closes at the deadline.
Two handlers are enough for a decision that sleeps while another handler undoes it,
decides again or answers a question; two commands are enough for a second decision after
an undo; two requests are what replacement, release of a shared session and the
newest-approval rule of provider events need.  A request id registers once, the process
ends at most `MaxRestarts` times, and each event is delivered at most once.
`codex_approvals` has one request, whose thread, notification, deadline, connection,
commands and end of turn interleave freely; several requests, with one key or with two,
and blocking questions are left to the proofs.  Five events are a prompt, a tool, an end and two more,
enough for a late one on either side of a new turn; six are a session start, a prompt, a
stop, the tool of the continued turn with its end, and the second stop.  Four events
and two files make a Hook prune beside a replay.  Two questions with one text are what
an echo can confuse.  Two restart requests are enough for one to be accepted, refused or
expired while the other waits, and each is made once; larger sets of callers are left to
the proofs.  `CHECK_DEADLOCK FALSE` is set because clock, users and Agents may stop.
Symmetry is used on command ids and handlers, in safety runs only.

Fairness.  In `LoopSpec` every connection thread, the delivery of events, the closing
connection of a relay, the expiry thread and the clock are weakly fair: they are operating
system threads that never wait on each other except through a channel with a deadline or
the short registry mutex and the writer queue.  A sleeping task is enabled only while no
other handler runs, so its fairness is strong: tokio polls the tasks that are ready in
turn.  In `FairFeedSpec` a Hook process gives up after 200 ms and the threads of the
Runtime run; the Runtime is started again after it ended, which `KeepAlive` of its
launchd service says (`crates/app/src/service.rs:315`); and `Watch` and `Unconfirm` are
fair because every snapshot a user interface polls makes the judgement.  In
`HandshakeSpec` every caller, its deadline and the accept loop are weakly fair.  Nothing
is assumed of users, providers, crashes, failed connects or writes, or of a restart.

### What the violation run shows

`session_stop`: a turn that Codex continues after its Stop ends with a second Stop of
the same `turn_id`, which `stable_provider_event_key` takes for the first one.  It is
dropped, and the session stays shown at work with no completion.  The finding in
`PROJECT.json` quotes the sentences.

### Deviations stated as exceptions

Met while modelling; each is an exception written into a property that passes, or a
consequence of the model:

1. A Stop event between probe and decide resolves the item, so that the failed delivery
   no longer fails the command, which reads as sent and is counted, although nobody was
   told (`SentIsDelivered`, `AgentHearsOrFails`).
2. Handing an approval back leaves its session waiting for the widget until the next
   event, because `claim_transaction` ends the item without releasing the session
   (`WaitsForSomething`).
3. A question that was snoozed when the Runtime died is not expired at startup and opens
   again without a reply channel (`Reopen` leaves `snoozed`; compare
   `docs/USER_GUIDE_zh-CN.md:641`); `ApprovalsEndWithTheirRuntime` is about approvals.
4. A command whose item was closed by a Stop event in its undo window is left to its
   timer; when the Runtime restarts before, it stays `pending_commit` for good
   (`ClaimSettles` ends with the process).
5. A waiter that another registration expires is released, but its item stays open past
   the deadline and is not counted: `register_at` drops the ids.
6. The answer to the newer of two open Codex requests removes the older one from the
   registry (`OpenIsOffered` excepts `displaced`).
7. A `serverRequest/resolved` that overtakes its request finds nothing, and the request
   stays open until its deadline (`ResolvedIsClosed` excepts `early`).
8. `resolve_managed_request` confirms a decision that was committed and not written, when
   Codex ended the request by itself in between (`SentIsHeard` excepts `withdrawn`), and a
   Stop event that closed the item has the effect of 1 here too (it excepts `resolved`).
9. The handlers of Codex requests ignore `replaced_request_id`: the item of a replaced
   waiter is left to the notification about it, or, for a blocking question, which leaves
   the table at once, to the user.
10. The answer to a blocking question whose response cannot be written is acknowledged all
    the same.
11. Event times are milliseconds, and two events may share one.  A reminder then survives
    an event that resolves only what is older, and a verdict on the process compares
    equal times and stands (`CompletionMeansEnded` and `NewerEvidenceWins` except times that are
    not `Alone`; TLC refutes both without the exception for the clock readings 1, 2, 3,
    3, 3, 4 and 1, 2, 2, 2, 3 and three events at a time).  In `session_order` all times
    differ, so that the exception is never taken there; the proofs cover equal ones.
12. `observe` compares an item by its identity whatever its entry holds.  When the echo
    of a question comes before its message, an older question with the same text takes
    the entry of that echo, with its own route; the message of the younger one then
    matches by item and is dropped (two requests are told apart by their ids instead).
    The younger question can then only be answered in Codex: `OpenIsOffered` excepts what
    was `Usurped`.  TLC refutes it without the exception when `MaxTime` of
    `codex_questions` is 3, in 16 states; the run with 2 does not reach it, the proof
    covers both.  A question that finds 128 entries, or its thread cleared at its own
    time or later, has no entry either (`Refused`).

## Proofs

All for arbitrary constants, from `RegistryAssumption`, `StoreAssumption`,
`LoopAssumption`, `HandshakeAssumption`, `FeedAssumption` and `QuestionAssumption` only
(clock readings are naturals and the clock takes no others, events are numbered in the
order of their times, sentinels differ from real values, the envelope of a request is well
typed, callers are not Hooks, there are finitely many questions and clients, so that
identities do not run out).

- `RegistryTypes`, `RegistryMaps`, `RegistryTickets`: the three invariants of the
  registry.  `RegistryMaps` needs only types.  `RegistryTickets` rests on
  `ChannelsAnswered`: removing a set of entries sends one response on exactly
  their channels, because no two entries share a ticket.
- `StoreTypes`, `StoreCounts`, `StoreEnds`: the inductive invariant is `StoreInv`, types
  together with `CommandsDecide` (a command under way has a request and an approve or deny
  action), without which a commit could write a resolution that is none.  `StoreSteps`
  classifies what any transaction may do to one command and one item; both counters of
  `CountedOnce`, and `EndedStaysEnded`, follow from it.
- `StoreDecidesOnce`: first valid wins.  `OneDecisionUnderWay` is inductive given
  `StoreInv`.  Its two lemmas carry the argument: `MovesKeepOne` for transactions
  that start no decision, `EndKeepsOne` for those that also end some; `Claim` is
  the one case that starts a decision, and its guard says that none is under way.
- `FeedTypes`, `FeedIntervals`, `FeedTurns`: `FeedInv` is the types together with
  `IntervalFitsState` and `OneTurnOpen`, which are inductive with them.  `ProjectionKeeps`
  shows it for each transaction of the projection, `FeedProjects` that every step of the
  feed is one of them or leaves the projection alone, so that no order of events needs to
  be looked at.
- `FeedOnce`: `OnceInv` adds that an event which was stored is among the recorded ids, or
  its session is suppressed and takes no more.
- `FeedKeepsEvents`: `KeptInv` adds that the file which the replay is about to remove
  belongs to an event that was recorded or recognised; a file that goes in any other way
  fell to the limit.
- `FeedSheets`, `FeedShows`, `FeedCompletions` and `FeedNewerWins` say that what is shown is true,
  for any number of events, threads and Hooks at a time, in any order of arrival:
  - `Base` relates Agent, events under way and rows: where an event comes from (`Origins`),
    which turns and marks the Agent's phase allows (`Stages`), what a recorded or lost event
    left in `history` (`Traces`), what the rows can hold (`Rows`), and which
    deduplication keys are free (`KeysFree`).
  - `FeedWays` splits each step into an emission, a look at the process table, a report of
    connector or user, a loss, a transaction that keeps the row, or one that records an
    event (`Records`), so that the argument is about one event and one row.
  - An event under way that would bring the row to the wrong state is followed by a later
    one that puts it right (`Follows`).  `FollowsThins`, `EmitsDue` and `RecordsDue` show
    that this survives what happens to the events under way: they arrive in any order,
    twice, or not at all.  When none is left, the row is right.
  - `SheetInv`, `WorkInv` and `RestInv` are instances of that for permission sheets, for
    a row at rest and for a row at work; the last needs `ClaudeLast`, that only events
    date a session no connector reports on.
  - `RemindersInv` follows each reminder: nothing recorded or due lets it survive
    (`Bounded`, `Earlier`, `Renewed`), or an event that resolves it is still due (`Passing`).
  - `WatchInv`: between snapshot and verdict, either the verdict will be refused or nothing
    newer than the snapshot was recorded (`Vouched`).
- `QuestionTypes`, `QuestionSent`: `IdsFree`, that the identity of an entry which was not
  claimed is known to no client and no message, lets a response be matched with the attempt
  it is for (`AnswersFit`), so that what counts as sent was taken (`SentWasTaken`).
- `QuestionAnsweredOnce`: `OnePlace` follows each question as a token, from the wire to an
  entry that can be claimed, to a client, to a message, to its answer.  It is in one
  place at most and never goes back.  `Shrinks` and `Grows` say what an operation of the
  registry may do to the token, so that its echoes, failures and merges are looked at once.
- `QuestionStands`: `AsksStand` adds that the end of a turn is behind the questions of the
  turn on the wire.  `CodexStands` is the argument for what Codex writes, and
  `HandledStands` for what leaves the wire: a `completed` takes every route with it
  (`EndTurnShrinks`), a `resolved` the route of its request.
- `QuestionOffers`: `OpenIsOffered` speaks of quiet moments only.  `NoneLost` says where an
  open question is at any other time: on the wire, with an entry that `Holds` it, or in an
  answer under way.  What could take it from there is a clearing that is older than it
  looks, so `WireFits` says that messages are handled from the front of the wire and that
  whatever ends questions is ahead of those that are open; `SinceCleared` says that the
  registry was cleared up to the last message of the user, or a message on the wire is
  going to do that (`Clears`); `InFlight`, that an entry whose turn ended while its answer
  was under way goes before the next turn asks.  These four hold while nothing was
  handled out of order and nothing expired (`Regular`); `EntriesFit`, `CodexFits` and
  `ClientsFit` (texts, times and who has claimed what) always do.  TLC found the invariant
  kept on the instance of the run, and in random runs of three questions, two clients
  and two turns.
- `HandshakeTypes`, `RefusalHolds`, `SuccessHolds`: neither of the two properties is
  inductive, because they speak of what was told and not of how it came to be.
  `HandshakeInv` adds where a request is (`OncePending`: in the channel at most
  once, and still undecided while the loop has to judge it), that a channel
  without a sender belongs to a cancelled request (`GoneIsCancelled`), that an
  answer fits the request the loop holds (`RepliesFit`), and that what it holds
  was accepted (`HeldIsAccepted`).
- `NoCircularWait`: the safety half of `CallerReturns` and `RestartHappens`.  The accept
  loop joins the thread its callers run on, and callers wait for the accept loop, without
  a deadline once their request was accepted.  `AcceptedIsServed`, that a request is only
  accepted while the loop holds it and on its way to the answer, is why neither waits for
  the other: whoever waits so has its answer or is being served, and the join begins when
  all have their answers.
- `ContractDecisionStands`: in the contract a delivered decision stands for ever.
- `StoreAgrees`: `DecisionInv` adds to the invariants of the store how items fit their
  kind (`ItemsFitKinds`), which states the item of a pending, sent or counted command can
  be in (`ItemsFitCommands`), and that a request has one decision at most that stands
  (`OneStands`).  The loop needs all of it: that is why it is proved of the store, where
  a case is a transaction and not an interleaving.

The theorems of `ApprovalLoopProofs` hold for any number of requests, commands, handlers,
events and restarts.  The argument goes in layers, each an invariant given the earlier
ones:

- Who moves what.  `Owners` splits a step by the thread that takes it; `HookKeeps`,
  `JobKeeps`, `StartKeeps` and `OthersKeepHooks` say what it leaves alone.  Later proofs
  look at one thread and not at the product of all.
- What does not depend on who waits.  A `Turn` is a `ServerTurn`, a step of command
  handlers, timers, expiry thread, restart or startup, or a `ConnectionMove`, all that a
  thread which waits with a request may do to registry and store.  `ServerInv` and what
  follows from it about handlers and channels (`ServerStep`, `KnowsStep`, `SentFromStep`,
  `DeliveredStep`) is shown of any `Turn`: Hooks and app-server threads are two instances.
- `LoopInv`: `ServerInv` and the threads; that is types; `JobsFit`, what a handler knows of its command and request by
  its program counter; `ChannelsFit`, that a channel holds nothing while its request waits
  and one response at most after; and `DecisionInv`, which the loop inherits because each
  of its steps is a transaction (`LoopStores`).  `LoopTypes` and `LoopStore` are read off
  it: the second makes every theorem about the store one about the process.
- `LoopServes` and `LoopEnds` follow from it with `WaitersMove`, the five things a step can
  do to the registry, and with `LoopAges`, that only its own connection opens an item.
- `LoopTimesOut`: `LateIsNative`, that who was counted as timed out was handed back or is
  beyond its channel.
- `JobsKnow` ties handlers to rows: one runs at a time, a decision has one task, and the
  row of its command is as the program counter says.  From it `SentFromDecision` (a
  decision on a channel was counted and is not undone) and `Delivered`, hence
  `LoopDelivers`.
- `LoopHears`: `HeardOrEnded`, that a decision on the channel of a relay that is done was
  heard or its item ended, given that a connection which has a waiter has not come so
  far (`WaitersAreServed`) and that an item opens with its wait (`OpensWithItsWait`).
- `LoopWaits`: `WaitingIsHeld`, transaction by transaction.
- `LoopCloses` assumes that no process ends: between the answer and its acknowledgement
  a crash leaves a question open in the store, which the next start expires.
- `LoopImplements`, the refinement.  A step that tells nobody anything is a `Propose` if it
  claims, and else a `Withdraw` of the requests whose standing decisions change; it may be
  one, because a decision that was told was on the channel (`ToldFromChannel`), was
  counted (`SentFromDecision`), and what was counted stands for ever (`CountedStays`).  A
  step that tells is a `Deliver`, an `AnswerQuestion` or a `HandBack`.  These parts are
  lemmas about any `Turn` (`StoreMapped`, `HeardMapped`, `HandedBack`, `LossMapped`).
  Requests that share a key and replace each other are covered here; the run has one.
- `NobodyIsForgotten`: the safety half of `HookReleased` and `ClaimSettles`.
  `AskersAreServed` says that a Hook process that asks has a thread, and that a thread
  always has its waiter in the registry or a response to read, for a waiter leaves with a
  response only (`WaitsOrReads`); `PendingHasTask` follows from `JobsKnow` and
  `StaleTasks`: who expires an item has no decision under way.

The theorems of `ManagedApprovalsProofs` are about the other threads that wait, the ones
of a managed Codex connection:

- `ManagedTypes`, `ManagedStore`: `ManagedInv` is `ServerInv` with the types of the
  threads, `ThreadsFit` (where a thread can be while Codex waits, has been told, has lost
  the connection or has withdrawn its request, and that a failed restart works through
  one list) and `WaitersHaveThreads` (who has a waiter has a thread that will look at it).
  `ManagedTurns` shows that every step is a `Turn`, which brings in the store's invariant
  and theorems.
- `ManagedCloses`: `ResolvedIsClosed` is about the time when nobody is left at work, and
  `ItemsKept` is why nothing is left then: a live item always has a keeper, its request in
  the table, a thread on its way to close it, the list of a failed restart, a notification
  that has taken the request out, or one that came too early.
- `ManagedImplements`: the same mapping and the same lemmas as in `LoopImplements`; what
  differs is who hears.  `HeardWasSent` says that a verdict Codex was told is on the
  channel of its request, for only its thread writes one; lost connections, changed
  credentials and notifications at most hand back (`HandsMapped`).
- `ManagedHears`: `Delivered` says that what reads as sent is on the channel of its
  request.  `HeardOrClosed` follows it from there: whose thread is done was written to
  Codex while it waited, was withdrawn, or has an item that is closed: by an event, or by
  the thread that could not write, which fails the command with it.

Model-checked only: liveness (`HookReleased`, `ClaimSettles`, `CallerReturns`,
`RestartHappens`, `StartupEnds`, `GoneIsNoticed`), which TLAPS cannot reach.  The
safety at the core of the first four is proved for any instance (`NobodyIsForgotten`,
`NoCircularWait`): that the thread or task which has to move exists, and that nothing it
waits for is missing.

## What is not modelled, and the plan

Left out for good: rendering, localisation, transcript and title extraction,
risk classification, parsing of provider payloads, encryption and authentication
of the API, installers' file formats, the reading of usage and quota files.  They are
conversions without state of their own, or libraries.

Of the modelled components: subagent rows, plans, tasks and task hiding, replies that
an answer awaits, history and retention, `reconcile_sessions` (it has no caller), events
of Codex's automatic review; the end of a turn that the connector observes is only a
nondeterministic outcome of `SyncTurn`; the spool's limit in bytes and its unreadable
files; the terminal approval modes of `serve`; the attachment and resumption of Codex
threads; the settings, history, pairing and quota handlers of the API.

Next, in this order:

1. `CodexAttach`: attaching, resuming and auto-connecting threads, and which requests a
   thread may send.
2. Subagent rows and plans in `SessionProjection`.
3. `ApiTickets`: WebSocket tickets and pairing; `QuotaRefresh`: claim, abandon, finish.
