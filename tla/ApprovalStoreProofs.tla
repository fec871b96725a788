-------------------------- MODULE ApprovalStoreProofs --------------------------
(***************************************************************************)
(* Proofs of the ApprovalStore properties for every set of requests,       *)
(* commands, sessions and tools, every envelope, clock and undo delay.     *)
(***************************************************************************)
EXTENDS ApprovalStore, TLAPS

USE DEF Kinds, LiveStates, BlockingStates, AttStates, Resolutions, Decisions,
        ActiveCommand, FinalCommand, ExecStates, Actions

-----------------------------------------------------------------------------
(* The shared parts of the transactions *)

\* Moving items to a state of the table keeps the items typed.
LEMMA SettleType ==
    ASSUME StoreTypeOK, NEW R, NEW state \in AttStates, NEW resolution \in Resolutions,
           Settle(R, state, resolution)
    PROVE  att' \in [Requests -> [state : AttStates, resolution : Resolutions]]
BY DEF Settle, StoreTypeOK

\* A command row whose state changes is still a command row.
LEMMA RestatedType ==
    ASSUME NEW m \in CommandType, NEW state \in {"absent"} \cup ActiveCommand \cup FinalCommand
    PROVE  /\ [m EXCEPT !.state = state] \in CommandType
           /\ [m EXCEPT !.state = state].state = state
           /\ [m EXCEPT !.state = state].request = m.request
           /\ [m EXCEPT !.state = state].action = m.action
BY DEF CommandType

\* Failing commands keeps the commands typed.
LEMMA FailType ==
    ASSUME StoreTypeOK, NEW R, FailCommands(R)
    PROVE  cmd' \in [Commands -> CommandType]
<1>1. \A c \in Commands : cmd[c] \in CommandType
  BY DEF StoreTypeOK
<1>2. \A c \in Commands : [cmd[c] EXCEPT !.state = "failed"] \in CommandType
  BY <1>1, RestatedType
<1> QED BY <1>1, <1>2 DEF FailCommands

\* Releasing sessions keeps the sessions typed, whatever the items are.
LEMMA ReleasedType ==
    ASSUME StoreTypeOK, NEW S, NEW attention
    PROVE  Released(S, attention) \in [Sessions -> [exec : ExecStates, owner : {"none", "widget"}]]
BY DEF Released, StoreTypeOK

\* Projecting an event keeps the sessions typed.
LEMMA ProjectType ==
    ASSUME StoreTypeOK, NEW s, NEW kind, NEW fresh,
           NEW exec \in ExecStates, NEW owner \in {"none", "widget"},
           Project(s, kind, fresh, exec, owner)
    PROVE  sess' \in [Sessions -> [exec : ExecStates, owner : {"none", "widget"}]]
BY DEF Project, StoreTypeOK

\* Each lifecycle event projects an execution state.
LEMMA ProjectedType == \A k \in EventKinds : Projected[k] \in ExecStates
BY DEF EventKinds, Projected

\* What an event makes of a command under way is a command state.
LEMMA AfterHandledType ==
    ASSUME StoreTypeOK, NEW c \in Commands, NEW outcome, cmd[c].state \in ActiveCommand
    PROVE  AfterHandled(c, outcome) \in ActiveCommand \cup FinalCommand
BY DEF AfterHandled, StoreTypeOK, CommandType

\* StoreTypeOK is not inductive by itself: a commit copies the action of its
\* command into the item, and finds the item by the command's request.  Commands
\* under way are decisions on a request, because only a claim starts them.
CommandsDecide ==
    \A c \in Commands :
      cmd[c].state \in ActiveCommand => cmd[c].request \in Requests /\ cmd[c].action \in Decisions

\* A step that starts no command.
StartsNone ==
    \A c \in Commands :
      cmd'[c].state \in ActiveCommand =>
        /\ cmd[c].state \in ActiveCommand
        /\ cmd'[c].request = cmd[c].request
        /\ cmd'[c].action = cmd[c].action

LEMMA StartsNoneDecides == CommandsDecide /\ StartsNone => CommandsDecide'
BY DEF CommandsDecide, StartsNone

\* Failing the commands of some items starts none.
LEMMA FailStartsNone ==
    ASSUME StoreTypeOK, NEW R, FailCommands(R)
    PROVE  StartsNone
<1>1. \A c \in Commands : [cmd[c] EXCEPT !.state = "failed"].state = "failed"
  BY DEF StoreTypeOK, CommandType
<1> QED BY <1>1 DEF FailCommands, StartsNone

\* One command whose state changes: the table stays typed, nothing starts.
LEMMA MoveCommand ==
    ASSUME StoreTypeOK, NEW c \in Commands, cmd[c].state \in ActiveCommand,
           NEW state \in ActiveCommand \cup FinalCommand,
           cmd' = [cmd EXCEPT ![c].state = state]
    PROVE  cmd' \in [Commands -> CommandType] /\ StartsNone
<1>1. cmd' = [cmd EXCEPT ![c] = [cmd[c] EXCEPT !.state = state]] /\ cmd[c] \in CommandType
  BY DEF StoreTypeOK
<1>2. /\ [cmd[c] EXCEPT !.state = state] \in CommandType
      /\ [cmd[c] EXCEPT !.state = state].request = cmd[c].request
      /\ [cmd[c] EXCEPT !.state = state].action = cmd[c].action
  BY <1>1, RestatedType
<1>3. cmd' \in [Commands -> CommandType]
  BY <1>1, <1>2 DEF StoreTypeOK
<1>4. StartsNone
  BY <1>1, <1>2 DEF StartsNone, StoreTypeOK
<1> QED BY <1>3, <1>4

\* A command that Codex ended is a command row under no way.
LEMMA ResolvedCommand ==
    ASSUME StoreTypeOK, NEW c \in Commands
    PROVE  /\ [cmd[c] EXCEPT !.state = AfterResolved(c)] \in CommandType
           /\ [cmd[c] EXCEPT !.state = AfterResolved(c)].state \in {"confirmed", "failed"}
           /\ [cmd[c] EXCEPT !.state = AfterResolved(c)].request = cmd[c].request
           /\ [cmd[c] EXCEPT !.state = AfterResolved(c)].action = cmd[c].action
<1>1. AfterResolved(c) \in {"confirmed", "failed"} /\ cmd[c] \in CommandType
  BY DEF AfterResolved, StoreTypeOK
<1> QED BY <1>1, RestatedType

\* One command row that is written whole.
LEMMA WriteCommand ==
    ASSUME StoreTypeOK, NEW c \in Commands, NEW row \in CommandType,
           cmd' = [cmd EXCEPT ![c] = row]
    PROVE  /\ cmd' \in [Commands -> CommandType]
           /\ cmd'[c] = row
           /\ \A d \in Commands \ {c} : cmd'[d] = cmd[d]
BY DEF StoreTypeOK

StoreInv == StoreTypeOK /\ CommandsDecide

\* Every transaction keeps it.
LEMMA StoreInvStep == StoreInv /\ [StoreNext]_storeVars => StoreInv'
<1> SUFFICES ASSUME StoreTypeOK, CommandsDecide, [StoreNext]_storeVars
             PROVE  StoreTypeOK' /\ CommandsDecide'
  BY DEF StoreInv
<1> DEFINE AttType == [Requests -> [state : AttStates, resolution : Resolutions]]
           SessType == [Sessions -> [exec : ExecStates, owner : {"none", "widget"}]]
<1>0. /\ att \in AttType
      /\ cmd \in [Commands -> CommandType]
      /\ sess \in SessType
      /\ counted \in [Commands -> Nat]
      /\ timeouts \in [Requests -> Nat]
  BY DEF StoreTypeOK
<1>a. ASSUME att' \in AttType, cmd' \in [Commands -> CommandType], StartsNone,
             sess' \in SessType, counted' \in [Commands -> Nat],
             timeouts' \in [Requests -> Nat]
      PROVE  StoreTypeOK' /\ CommandsDecide'
  BY <1>a, StartsNoneDecides DEF StoreTypeOK
<1>b. UNCHANGED cmd => cmd' \in [Commands -> CommandType] /\ StartsNone
  BY <1>0 DEF StartsNone
<1>1. ASSUME NEW r \in Requests, NEW fresh \in BOOLEAN, IngestRequest(r, fresh)
      PROVE  StoreTypeOK' /\ CommandsDecide'
  <2>1. att' \in AttType
    BY <1>0, <1>1, SettleType DEF IngestRequest
  <2>2. sess' \in SessType
    BY <1>1, ProjectType DEF IngestRequest
  <2> QED BY <1>0, <1>1, <1>a, <1>b, <2>1, <2>2 DEF IngestRequest
<1>2. ASSUME NEW s \in Sessions, NEW k \in EventKinds, NEW tool \in Tools,
             NEW fresh \in BOOLEAN, NEW handled \in HandledSets(s, k, tool),
             IngestEvent(s, k, tool, fresh, handled)
      PROVE  StoreTypeOK' /\ CommandsDecide'
  <2>1. att' \in AttType
    BY <1>0, <1>2 DEF IngestEvent
  <2>2. \A c \in Commands :
          cmd[c].state \in ActiveCommand =>
            LET row == [cmd[c] EXCEPT !.state = AfterHandled(c, Outcome(k))]
            IN  /\ row \in CommandType
                /\ row.request = cmd[c].request
                /\ row.action = cmd[c].action
    <3> TAKE c \in Commands
    <3> HAVE cmd[c].state \in ActiveCommand
    <3>1. AfterHandled(c, Outcome(k)) \in ActiveCommand \cup FinalCommand
      BY AfterHandledType
    <3>2. cmd[c] \in CommandType
      BY <1>0
    <3> QED BY <3>1, <3>2, RestatedType
  <2>3. cmd' \in [Commands -> CommandType] /\ StartsNone
    BY <1>0, <1>2, <2>2 DEF IngestEvent, StartsNone
  <2>4. sess' \in SessType
    BY <1>2, ProjectType, ProjectedType DEF IngestEvent
  <2> QED BY <1>0, <1>2, <1>a, <2>1, <2>3, <2>4 DEF IngestEvent
<1>3. ASSUME NEW c \in Commands, NEW r \in Requests, NEW a \in Actions,
             NEW at \in Times, NEW d \in Delays, Claim(c, r, a, at, d)
      PROVE  StoreTypeOK' /\ CommandsDecide'
  <2>1. att' \in AttType
    BY <1>3, SettleType DEF Claim
  <2>2. at \in Nat /\ d \in Nat /\ at + d \in Nat
    BY StoreAssumption DEF StoreAssumption
  <2>3. counted' \in [Commands -> Nat]
    BY <1>0, <1>3 DEF Claim
  <2>4. CASE a = "pass_through"
    <3> DEFINE row == [state |-> "passed_through", request |-> r, action |-> a,
                       due |-> at, delay |-> 0]
    <3>1. row \in CommandType /\ row.state = "passed_through"
      BY <2>2, <2>4 DEF CommandType
    <3>2. cmd' = [cmd EXCEPT ![c] = row]
      BY <1>3, <2>4 DEF Claim
    <3> HIDE DEF row
    <3>3. cmd' \in [Commands -> CommandType] /\ StartsNone
      BY <3>1, <3>2, WriteCommand DEF StartsNone
    <3> QED BY <1>0, <1>3, <1>a, <2>1, <2>3, <3>3 DEF Claim
  <2>5. CASE a # "pass_through"
    <3> DEFINE row == [state |-> "pending_commit", request |-> r, action |-> a,
                       due |-> at + d, delay |-> d]
    <3>1. row \in CommandType /\ row.request \in Requests /\ row.action \in Decisions
      BY <2>2, <2>5 DEF CommandType
    <3>2. cmd' = [cmd EXCEPT ![c] = row]
      BY <1>3, <2>5 DEF Claim
    <3> HIDE DEF row
    <3>3. cmd' \in [Commands -> CommandType] /\ CommandsDecide'
      BY <3>1, <3>2, WriteCommand DEF CommandsDecide
    <3> QED BY <1>0, <1>3, <2>1, <2>3, <3>3 DEF Claim, StoreTypeOK
  <2> QED BY <2>4, <2>5
<1>4. ASSUME NEW c \in Commands, NEW at \in Times, Undo(c, at)
      PROVE  StoreTypeOK' /\ CommandsDecide'
  <2>1. att' \in AttType
    BY <1>0, <1>4, SettleType DEF Undo
  <2>2. cmd' \in [Commands -> CommandType] /\ StartsNone
    BY <1>4, MoveCommand DEF Undo, Undoable
  <2> QED BY <1>0, <1>4, <1>a, <2>1, <2>2 DEF Undo
<1>5. ASSUME NEW c \in Commands, NEW at \in Times, CommitSent(c, at)
      PROVE  StoreTypeOK' /\ CommandsDecide'
  <2>1. cmd[c].action \in Resolutions
    BY <1>5 DEF CommandsDecide, CommitSent
  <2>2. att' \in AttType
    BY <1>0, <1>5, <2>1, SettleType DEF CommitSent
  <2>3. cmd' \in [Commands -> CommandType] /\ StartsNone
    BY <1>5, MoveCommand DEF CommitSent
  <2>4. counted' \in [Commands -> Nat]
    BY <1>0, <1>5 DEF CommitSent
  <2> QED BY <1>0, <1>5, <1>a, <2>2, <2>3, <2>4 DEF CommitSent
<1>6. ASSUME NEW c \in Commands, NEW at \in Times, CommitStale(c, at)
      PROVE  StoreTypeOK' /\ CommandsDecide'
  <2>1. att' \in AttType
    BY <1>6, SettleType DEF CommitStale
  <2>2. cmd' \in [Commands -> CommandType] /\ StartsNone
    BY <1>6, MoveCommand DEF CommitStale
  <2>3. sess' \in SessType
    BY <1>6, ReleasedType DEF CommitStale
  <2> QED BY <1>0, <1>6, <1>a, <2>1, <2>2, <2>3 DEF CommitStale
<1>7. ASSUME NEW c \in Commands, NEW q \in Requests,
             NEW a \in {"ack", "snooze", "dismiss"}, ActAttention(c, q, a)
      PROVE  StoreTypeOK' /\ CommandsDecide'
  <2> DEFINE row == [state |-> "confirmed", request |-> None, action |-> a,
                     due |-> 0, delay |-> 0]
  <2>1. att' \in AttType
    BY <1>0, <1>7 DEF ActAttention, Settle
  <2>2. row \in CommandType /\ row.state = "confirmed"
    BY DEF CommandType
  <2>3. cmd' = [cmd EXCEPT ![c] = row]
    BY <1>7 DEF ActAttention
  <2> HIDE DEF row
  <2>4. cmd' \in [Commands -> CommandType] /\ StartsNone
    BY <2>2, <2>3, WriteCommand DEF StartsNone
  <2>5. sess' \in SessType
    BY <1>0, <1>7, ReleasedType DEF ActAttention
  <2> QED BY <1>0, <1>7, <1>a, <2>1, <2>4, <2>5 DEF ActAttention
<1>8. ASSUME NEW q \in Requests, AckAnswered(q) \/ WakeSnoozed(q)
      PROVE  StoreTypeOK' /\ CommandsDecide'
  <2>1. att' \in AttType
    BY <1>8, SettleType DEF AckAnswered, WakeSnoozed
  <2>2. sess' \in SessType
    BY <1>0, <1>8, ReleasedType DEF AckAnswered, WakeSnoozed
  <2> QED BY <1>0, <1>8, <1>a, <1>b, <2>1, <2>2 DEF AckAnswered, WakeSnoozed
<1>9. ASSUME NEW r \in Requests, NEW reason, ExpireApproval(r, reason)
      PROVE  StoreTypeOK' /\ CommandsDecide'
  <2>1. CASE UNCHANGED storeVars
    BY <1>0, <1>a, <1>b, <2>1 DEF storeVars
  <2>2. CASE att[r].state \in LiveStates
    <3>1. /\ Settle({r}, "expired", "other")
          /\ FailCommands({r})
          /\ sess' = Released({Envelope[r].session}, att')
          /\ counted' = counted
      BY <1>9, <2>2 DEF ExpireApproval
    <3>2. timeouts' \in [Requests -> Nat]
      BY <1>0, <1>9, <2>2 DEF ExpireApproval
    <3> QED BY <1>0, <1>a, <3>1, <3>2, SettleType, FailType, FailStartsNone, ReleasedType
  <2> QED BY <1>9, <2>1, <2>2 DEF ExpireApproval
<1>10. ASSUME NEW active \in SUBSET Requests, Reconcile(active)
       PROVE  StoreTypeOK' /\ CommandsDecide'
  BY <1>0, <1>10, <1>a, SettleType, FailType, FailStartsNone, ReleasedType DEF Reconcile
<1>11. ASSUME Reopen
       PROVE  StoreTypeOK' /\ CommandsDecide'
  <2> DEFINE orphans == {r \in Requests : att[r].state \in LiveStates}
  <2>1. Released(SessionsOf(orphans), att') \in SessType
    BY ReleasedType
  <2>2. sess' \in SessType
    BY <1>0, <1>11, <2>1 DEF Reopen
  <2> QED BY <1>0, <1>11, <1>a, <2>2, SettleType, FailType, FailStartsNone DEF Reopen
<1>12. CASE UNCHANGED storeVars
  BY <1>0, <1>12, <1>a, <1>b DEF storeVars
<1>13. ASSUME NEW s \in Sessions, MarkUnconfirmed(s, TRUE)
       PROVE  StoreTypeOK' /\ CommandsDecide'
  <2>1. sess' \in SessType
    BY <1>0, <1>13 DEF MarkUnconfirmed, SessType, ExecStates
  <2> QED BY <1>0, <1>13, <1>a, <1>b, <2>1 DEF MarkUnconfirmed
<1>14. ASSUME NEW r \in Requests, ResolveManaged(r)
       PROVE  StoreTypeOK' /\ CommandsDecide'
  <2>1. CASE UNCHANGED storeVars
    BY <1>0, <1>a, <1>b, <2>1 DEF storeVars
  <2>2. CASE att[r].state \in BlockingStates
    <3>1. att' \in AttType
      BY <1>14, <2>2, SettleType DEF ResolveManaged
    <3>2. cmd' \in [Commands -> CommandType] /\ StartsNone
      <4>1. \A c \in Commands :
              /\ [cmd[c] EXCEPT !.state = AfterResolved(c)] \in CommandType
              /\ [cmd[c] EXCEPT !.state = AfterResolved(c)].state \notin ActiveCommand
              /\ cmd[c] \in CommandType
        BY <1>0, ResolvedCommand
      <4>2. cmd' = [c \in Commands |->
              IF cmd[c].request = r /\ cmd[c].state \in ActiveCommand
              THEN [cmd[c] EXCEPT !.state = AfterResolved(c)]
              ELSE cmd[c]]
        BY <1>14, <2>2 DEF ResolveManaged
      <4> HIDE DEF ActiveCommand
      <4>3. cmd' \in [Commands -> CommandType]
        BY <4>1, <4>2
      <4>4. StartsNone
        BY <4>1, <4>2 DEF StartsNone
      <4> QED BY <4>3, <4>4
    <3>3. sess' \in SessType
      BY <1>14, <2>2, ReleasedType DEF ResolveManaged
    <3> QED BY <1>0, <1>14, <1>a, <2>2, <3>1, <3>2, <3>3 DEF ResolveManaged
  <2> QED BY <1>14, <2>1, <2>2 DEF ResolveManaged
<1> QED
  BY <1>1, <1>2, <1>3, <1>4, <1>5, <1>6, <1>7, <1>8, <1>9, <1>10, <1>11, <1>12, <1>13,
     <1>14
  DEF StoreNext

LEMMA StoreInvariant == StoreSpec => []StoreInv
<1>1. StoreInit => StoreInv
  BY DEF StoreInit, StoreInv, StoreTypeOK, CommandsDecide, NoCommand, CommandType
<1> QED BY <1>1, StoreInvStep, PTL DEF StoreSpec

\* The rows a transaction writes are rows of their table, for every transaction
\* of the store.
THEOREM StoreTypes == StoreSpec => []StoreTypeOK
<1>1. StoreInv => StoreTypeOK
  BY DEF StoreInv
<1> QED BY <1>1, StoreInvariant, PTL

-----------------------------------------------------------------------------
(* The life of a command and of an item *)

\* What one step does to a command and its count.
CommandStep(c) ==
    \/ cmd'[c] = cmd[c] /\ counted'[c] = counted[c]
    \/ /\ cmd[c].state = "absent"
       /\ cmd'[c].state \in {"pending_commit", "confirmed"}
       /\ counted'[c] = counted[c]
    \/ /\ cmd[c].state = "absent"
       /\ cmd'[c].state = "passed_through"
       /\ counted'[c] = counted[c] + 1
    \/ /\ cmd[c].state = "pending_commit"
       /\ cmd'[c].state = "undone"
       /\ counted'[c] = counted[c]
    \/ /\ cmd[c].state = "pending_commit"
       /\ cmd'[c].state = "decision_sent"
       /\ counted'[c] = counted[c] + 1
    \/ /\ cmd[c].state \in ActiveCommand
       /\ cmd'[c].state \in {cmd[c].state, "confirmed", "failed"}
       /\ counted'[c] = counted[c]

\* What one step does to an item and its timeout count.
ItemStep(r) ==
    \/ att'[r] = att[r] /\ timeouts'[r] = timeouts[r]
    \/ att[r].state \in BlockingStates \cup {"absent"} /\ timeouts'[r] = timeouts[r]
    \/ att'[r].state = "expired" /\ timeouts'[r] = timeouts[r]
    \/ /\ att[r].state \in LiveStates
       /\ att'[r].state = "expired"
       /\ IsApproval(r)
       /\ timeouts'[r] = timeouts[r] + 1

StoreStep == (\A c \in Commands : CommandStep(c)) /\ (\A r \in Requests : ItemStep(r))

\* The state of a row after its state was set.
LEMMA StateSet ==
    ASSUME StoreTypeOK, NEW c \in Commands, NEW state
    PROVE  [cmd[c] EXCEPT !.state = state].state = state
BY DEF StoreTypeOK, CommandType

\* Failing commands is a step of each.
LEMMA FailStep ==
    ASSUME StoreTypeOK, NEW R, FailCommands(R), counted' = counted
    PROVE  \A c \in Commands : CommandStep(c)
BY StateSet DEF FailCommands, CommandStep

\* Moving items that block, or to expired, is a step of each.
LEMMA SettleStep ==
    ASSUME NEW R, NEW state, NEW resolution, Settle(R, state, resolution),
           \/ state = "expired"
           \/ \A r \in R \cap Requests : att[r].state \in BlockingStates \cup {"absent"},
           timeouts' = timeouts
    PROVE  \A r \in Requests : ItemStep(r)
BY DEF Settle, ItemStep

\* Setting one command's state is a step of each command if it is one of that.
LEMMA MoveStep ==
    ASSUME StoreTypeOK, NEW c \in Commands, NEW state,
           cmd' = [cmd EXCEPT ![c].state = state],
           cmd'[c].state = state => CommandStep(c),
           \A d \in Commands \ {c} : counted'[d] = counted[d]
    PROVE  \A d \in Commands : CommandStep(d)
<1>1. cmd'[c].state = state
  BY DEF StoreTypeOK, CommandType
<1>2. \A d \in Commands \ {c} : cmd'[d] = cmd[d]
  BY DEF StoreTypeOK
<1> QED BY <1>1, <1>2 DEF CommandStep

\* Every transaction moves commands and items along their life.
LEMMA StoreSteps == StoreInv /\ [StoreNext]_storeVars => StoreStep
<1> SUFFICES ASSUME StoreTypeOK, CommandsDecide, [StoreNext]_storeVars
             PROVE  (\A c \in Commands : CommandStep(c)) /\ (\A r \in Requests : ItemStep(r))
  BY DEF StoreInv, StoreStep
<1>a. UNCHANGED <<cmd, counted>> => \A c \in Commands : CommandStep(c)
  BY DEF CommandStep
<1>b. UNCHANGED <<att, timeouts>> => \A r \in Requests : ItemStep(r)
  BY DEF ItemStep
<1>1. ASSUME NEW r \in Requests, NEW fresh \in BOOLEAN, IngestRequest(r, fresh)
      PROVE  (\A d \in Commands : CommandStep(d)) /\ (\A q \in Requests : ItemStep(q))
  BY <1>1, <1>a, <1>b, SettleStep DEF IngestRequest
<1>2. ASSUME NEW s \in Sessions, NEW k \in EventKinds, NEW tool \in Tools,
             NEW fresh \in BOOLEAN, NEW handled \in HandledSets(s, k, tool),
             IngestEvent(s, k, tool, fresh, handled)
      PROVE  (\A d \in Commands : CommandStep(d)) /\ (\A q \in Requests : ItemStep(q))
  <2>1. handled \subseteq {r \in Requests : att[r].state \in LiveStates}
    BY DEF HandledSets, RequestsOf
  <2>2. \A r \in Requests : ItemStep(r)
    BY <1>2, <2>1 DEF IngestEvent, ItemStep
  <2>3. \A c \in Commands : AfterHandled(c, Outcome(k)) \in {cmd[c].state, "confirmed", "failed"}
    BY DEF AfterHandled
  <2>4. \A c \in Commands : CommandStep(c)
    BY <1>2, <2>3, StateSet DEF IngestEvent, CommandStep
  <2> QED BY <2>2, <2>4
<1>3. ASSUME NEW c \in Commands, NEW r \in Requests, NEW a \in Actions,
             NEW at \in Times, NEW d \in Delays, Claim(c, r, a, at, d)
      PROVE  (\A e \in Commands : CommandStep(e)) /\ (\A q \in Requests : ItemStep(q))
  <2>1. \A q \in Requests : ItemStep(q)
    BY <1>3, SettleStep DEF Claim, Claimable
  <2>2. \A e \in Commands : CommandStep(e)
    BY <1>3 DEF Claim, CommandStep, StoreTypeOK
  <2> QED BY <2>1, <2>2
<1>4. ASSUME NEW c \in Commands, NEW at \in Times, Undo(c, at)
      PROVE  (\A d \in Commands : CommandStep(d)) /\ (\A q \in Requests : ItemStep(q))
  <2>1. \A q \in Requests : ItemStep(q)
    BY <1>4, <1>b, SettleStep DEF Undo
  <2>2. \A d \in Commands : CommandStep(d)
    BY <1>4, MoveStep DEF Undo, Undoable, CommandStep
  <2> QED BY <2>1, <2>2
<1>5. ASSUME NEW c \in Commands, NEW at \in Times, CommitSent(c, at)
      PROVE  (\A d \in Commands : CommandStep(d)) /\ (\A q \in Requests : ItemStep(q))
  <2>1. \A q \in Requests : ItemStep(q)
    BY <1>5, <1>b, SettleStep DEF CommitSent
  <2>2. /\ counted'[c] = counted[c] + 1
        /\ \A d \in Commands \ {c} : counted'[d] = counted[d]
    BY <1>5 DEF CommitSent, StoreTypeOK
  <2>3. \A d \in Commands : CommandStep(d)
    BY <1>5, <2>2, MoveStep DEF CommitSent, CommandStep
  <2> QED BY <2>1, <2>3
<1>6. ASSUME NEW c \in Commands, NEW at \in Times, CommitStale(c, at)
      PROVE  (\A d \in Commands : CommandStep(d)) /\ (\A q \in Requests : ItemStep(q))
  <2>1. \A q \in Requests : ItemStep(q)
    BY <1>6, SettleStep DEF CommitStale
  <2>2. \A d \in Commands : CommandStep(d)
    BY <1>6, MoveStep DEF CommitStale, CommandStep
  <2> QED BY <2>1, <2>2
<1>7. ASSUME NEW c \in Commands, NEW q \in Requests,
             NEW a \in {"ack", "snooze", "dismiss"}, ActAttention(c, q, a)
      PROVE  (\A d \in Commands : CommandStep(d)) /\ (\A r \in Requests : ItemStep(r))
  <2>1. \A r \in Requests : ItemStep(r)
    BY <1>7, SettleStep DEF ActAttention
  <2>2. \A d \in Commands : CommandStep(d)
    BY <1>7 DEF ActAttention, CommandStep, StoreTypeOK
  <2> QED BY <2>1, <2>2
<1>8. ASSUME NEW q \in Requests, AckAnswered(q) \/ WakeSnoozed(q)
      PROVE  (\A d \in Commands : CommandStep(d)) /\ (\A r \in Requests : ItemStep(r))
  BY <1>8, <1>a, SettleStep DEF AckAnswered, WakeSnoozed
<1>9. ASSUME NEW r \in Requests, NEW reason, ExpireApproval(r, reason)
      PROVE  (\A d \in Commands : CommandStep(d)) /\ (\A q \in Requests : ItemStep(q))
  <2>1. CASE UNCHANGED storeVars
    BY <1>a, <1>b, <2>1 DEF storeVars
  <2>2. CASE att[r].state \in LiveStates
    <3>1. \A d \in Commands : CommandStep(d)
      BY <1>9, <2>2, FailStep DEF ExpireApproval
    <3>2. att'[r].state = "expired" /\ \A q \in Requests \ {r} : att'[q] = att[q]
      BY <1>9, <2>2 DEF ExpireApproval, Settle
    <3>3. /\ timeouts'[r] = timeouts[r] \/ (IsApproval(r) /\ timeouts'[r] = timeouts[r] + 1)
          /\ \A q \in Requests \ {r} : timeouts'[q] = timeouts[q]
      BY <1>9, <2>2 DEF ExpireApproval, StoreTypeOK
    <3> QED BY <2>2, <3>1, <3>2, <3>3 DEF ItemStep
  <2> QED BY <1>9, <2>1, <2>2 DEF ExpireApproval
<1>10. ASSUME NEW active \in SUBSET Requests, Reconcile(active)
       PROVE  (\A d \in Commands : CommandStep(d)) /\ (\A q \in Requests : ItemStep(q))
  BY <1>10, SettleStep, FailStep DEF Reconcile
<1>11. ASSUME Reopen
       PROVE  (\A d \in Commands : CommandStep(d)) /\ (\A q \in Requests : ItemStep(q))
  BY <1>11, SettleStep, FailStep DEF Reopen
<1>12. CASE UNCHANGED storeVars
  BY <1>12, <1>a, <1>b DEF storeVars
<1>13. ASSUME NEW s \in Sessions, MarkUnconfirmed(s, TRUE)
       PROVE  (\A d \in Commands : CommandStep(d)) /\ (\A q \in Requests : ItemStep(q))
  BY <1>13, <1>a, <1>b DEF MarkUnconfirmed
<1>14. ASSUME NEW r \in Requests, ResolveManaged(r)
       PROVE  (\A d \in Commands : CommandStep(d)) /\ (\A q \in Requests : ItemStep(q))
  <2>1. CASE UNCHANGED storeVars
    BY <1>a, <1>b, <2>1 DEF storeVars
  <2>2. CASE att[r].state \in BlockingStates
    <3>1. \A d \in Commands : CommandStep(d)
      BY <1>14, <2>2, ResolvedCommand DEF ResolveManaged, CommandStep
    <3>2. \A q \in Requests : ItemStep(q)
      BY <1>14, <2>2, SettleStep DEF ResolveManaged
    <3> QED BY <3>1, <3>2
  <2> QED BY <1>14, <2>1, <2>2 DEF ResolveManaged
<1> QED
  BY <1>1, <1>2, <1>3, <1>4, <1>5, <1>6, <1>7, <1>8, <1>9, <1>10, <1>11, <1>12, <1>13,
     <1>14
  DEF StoreNext

\* Every transaction keeps the counters right.
LEMMA CountedStep == StoreInv /\ CountedOnce /\ [StoreNext]_storeVars => CountedOnce'
<1> SUFFICES ASSUME StoreInv, CountedOnce, [StoreNext]_storeVars
             PROVE  CountedOnce'
  OBVIOUS
<1>1. DecisionsCounted'
  BY StoreSteps DEF StoreStep, CommandStep, CountedOnce, DecisionsCounted, StoreInv, StoreTypeOK
<1>2. TimeoutsCounted'
  BY StoreSteps DEF StoreStep, ItemStep, CountedOnce, TimeoutsCounted, StoreInv, StoreTypeOK, IsApproval
<1> QED BY <1>1, <1>2 DEF CountedOnce

\* The counters never count a command twice, an undone one, one that is still in
\* its undo window, or a timeout of a request that did not expire.
THEOREM StoreCounts == StoreSpec => []CountedOnce
<1>1. StoreInit => CountedOnce
  BY DEF StoreInit, CountedOnce, DecisionsCounted, TimeoutsCounted, NoCommand
<1> QED BY <1>1, CountedStep, StoreInvariant, PTL DEF StoreSpec

\* Items and commands that ended keep their end, whatever arrives late.
THEOREM StoreEnds == StoreSpec => EndedStaysEnded
<1>1. StoreInv /\ [StoreNext]_storeVars => [KeepsEnded]_storeVars
  BY StoreSteps DEF StoreStep, ItemStep, CommandStep, KeepsEnded
<1> QED BY <1>1, StoreInvariant, PTL DEF StoreSpec, EndedStaysEnded

-----------------------------------------------------------------------------
(* One decision at a time *)

\* What one step that starts no command may do to an item and the commands
\* under way for it: nothing, end it, open it when no command is under way, or
\* record the decision that was sent.
ItemMoves(r) ==
    \/ att'[r] = att[r] /\ \A c \in ActiveOn(r) : cmd'[c] = cmd[c]
    \/ att'[r].state \notin BlockingStates \cup {"absent"}
    \/ att'[r].state \in {"absent", "open", "snoozed"} /\ ActiveOn(r)' = {}
    \/ /\ att'[r].state = "decision_sent"
       /\ \E c \in ActiveOn(r)' :
            cmd'[c].state = "decision_sent" /\ cmd'[c].action = att'[r].resolution

\* Such a step keeps OneDecisionUnderWay.
LEMMA MovesKeepOne ==
    ASSUME OneDecisionUnderWay, StartsNone, \A r \in Requests : ItemMoves(r)
    PROVE  OneDecisionUnderWay'
<1>1. ASSUME NEW c \in Commands, NEW d \in Commands,
             cmd'[c].state \in ActiveCommand, cmd'[d].state \in ActiveCommand,
             cmd'[c].request = cmd'[d].request
      PROVE  c = d
  BY <1>1 DEF StartsNone, OneDecisionUnderWay
<1>2. ASSUME NEW r \in Requests
      PROVE  /\ att'[r].state \in {"absent", "open", "snoozed"} => ActiveOn(r)' = {}
             /\ att'[r].state = "committing" =>
                  \E c \in ActiveOn(r)' : cmd'[c].state = "pending_commit"
             /\ att'[r].state = "decision_sent" =>
                  \E c \in ActiveOn(r)' :
                    cmd'[c].state = "decision_sent" /\ cmd'[c].action = att'[r].resolution
  <2>1. CASE att'[r] = att[r] /\ \A c \in ActiveOn(r) : cmd'[c] = cmd[c]
    <3>1. ActiveOn(r)' = ActiveOn(r)
      BY <2>1 DEF ActiveOn, StartsNone
    <3> QED BY <2>1, <3>1 DEF OneDecisionUnderWay, ActiveOn
  <2>2. CASE att'[r].state \notin BlockingStates \cup {"absent"}
    BY <2>2
  <2>3. CASE att'[r].state \in {"absent", "open", "snoozed"} /\ ActiveOn(r)' = {}
    BY <2>3
  <2>4. CASE /\ att'[r].state = "decision_sent"
             /\ \E c \in ActiveOn(r)' :
                  cmd'[c].state = "decision_sent" /\ cmd'[c].action = att'[r].resolution
    BY <2>4
  <2> QED BY <2>1, <2>2, <2>3, <2>4 DEF ItemMoves
<1> QED BY <1>1, <1>2 DEF OneDecisionUnderWay, ActiveOn

\* Items that end, with or without the commands under way for them, and nothing
\* done to the commands of any other item.
LEMMA EndKeepsOne ==
    ASSUME OneDecisionUnderWay, StartsNone, NEW R, NEW state, NEW resolution,
           Settle(R, state, resolution), state \notin BlockingStates \cup {"absent"},
           \A c \in Commands :
             cmd[c].state \in ActiveCommand /\ cmd[c].request \notin R => cmd'[c] = cmd[c]
    PROVE  OneDecisionUnderWay'
BY MovesKeepOne DEF Settle, ItemMoves, ActiveOn

\* Every transaction keeps it.
LEMMA OneDecisionStep ==
    StoreInv /\ OneDecisionUnderWay /\ [StoreNext]_storeVars => OneDecisionUnderWay'
<1> SUFFICES ASSUME StoreTypeOK, CommandsDecide, OneDecisionUnderWay,
                    [StoreNext]_storeVars
             PROVE  OneDecisionUnderWay'
  BY DEF StoreInv
<1>0. /\ \A r \in Requests : att[r] \in [state : AttStates, resolution : Resolutions]
      /\ \A c \in Commands : cmd[c] \in CommandType
  BY DEF StoreTypeOK
<1>a. UNCHANGED cmd => StartsNone
  BY DEF StartsNone
<1>1. ASSUME NEW r \in Requests, NEW fresh \in BOOLEAN, IngestRequest(r, fresh)
      PROVE  OneDecisionUnderWay'
  <2>1. \A q \in Requests : ItemMoves(q)
    BY <1>1 DEF IngestRequest, Settle, ItemMoves, ActiveOn, OneDecisionUnderWay
  <2> QED BY <1>1, <1>a, <2>1, MovesKeepOne DEF IngestRequest
<1>2. ASSUME NEW s \in Sessions, NEW k \in EventKinds, NEW tool \in Tools,
             NEW fresh \in BOOLEAN, NEW handled \in HandledSets(s, k, tool),
             IngestEvent(s, k, tool, fresh, handled)
      PROVE  OneDecisionUnderWay'
  <2>1. handled \subseteq Requests
    BY DEF HandledSets, RequestsOf
  <2>2. \A q \in Requests : ItemMoves(q)
    BY <1>2, <2>1 DEF IngestEvent, ItemMoves, ActiveOn
  <2>3. StartsNone
    <3>1. \A c \in Commands : cmd[c].state \in ActiveCommand =>
            LET row == [cmd[c] EXCEPT !.state = AfterHandled(c, Outcome(k))]
            IN  row.request = cmd[c].request /\ row.action = cmd[c].action
      BY <1>0 DEF CommandType
    <3> QED BY <1>2, <3>1 DEF IngestEvent, StartsNone
  <2> QED BY <2>2, <2>3, MovesKeepOne
<1>3. ASSUME NEW c \in Commands, NEW r \in Requests, NEW a \in Actions,
             NEW at \in Times, NEW d \in Delays, Claim(c, r, a, at, d)
      PROVE  OneDecisionUnderWay'
  <2>1. cmd[c].state = "absent" /\ att[r].state = "open" /\ ActiveOn(r) = {}
    BY <1>3 DEF Claim, Claimable, OneDecisionUnderWay
  <2>2. \A e \in Commands \ {c} : cmd'[e] = cmd[e]
    BY <1>3 DEF Claim, StoreTypeOK
  <2>3. CASE a = "pass_through"
    <3>1. cmd'[c].state = "passed_through"
      BY <1>3, <2>3 DEF Claim, StoreTypeOK
    <3>2. StartsNone
      BY <2>2, <3>1 DEF StartsNone
    <3>3. \A e \in Commands : cmd[e].state \in ActiveCommand => cmd'[e] = cmd[e]
      BY <2>1, <2>2
    <3> QED BY <1>3, <2>3, <3>2, <3>3, EndKeepsOne DEF Claim
  <2>4. CASE a # "pass_through"
    <3>1. cmd'[c].state = "pending_commit" /\ cmd'[c].request = r
      BY <1>3, <2>4 DEF Claim, StoreTypeOK
    <3>2. /\ att'[r].state = "committing"
          /\ \A q \in Requests \ {r} : att'[q] = att[q]
      BY <1>3, <2>4 DEF Claim, Settle
    <3>3. ActiveOn(r)' = {c}
      BY <2>1, <2>2, <3>1 DEF ActiveOn
    <3>4. \A q \in Requests \ {r} : ActiveOn(q)' = ActiveOn(q)
      BY <2>1, <2>2, <3>1 DEF ActiveOn
    <3>5. ASSUME NEW e \in Commands, NEW f \in Commands,
                 cmd'[e].state \in ActiveCommand, cmd'[f].state \in ActiveCommand,
                 cmd'[e].request = cmd'[f].request
          PROVE  e = f
      <4>1. CASE cmd'[e].request = r
        <5>1. e \in ActiveOn(r)' /\ f \in ActiveOn(r)'
          BY <3>5, <4>1 DEF ActiveOn
        <5> QED BY <3>3, <5>1
      <4>2. CASE cmd'[e].request # r
        <5>1. e # c /\ f # c
          BY <3>1, <3>5, <4>2
        <5>2. cmd'[e] = cmd[e] /\ cmd'[f] = cmd[f]
          BY <2>2, <5>1
        <5> QED BY <3>5, <5>2 DEF OneDecisionUnderWay
      <4> QED BY <4>1, <4>2
    <3>6. ASSUME NEW q \in Requests
          PROVE  /\ att'[q].state \in {"absent", "open", "snoozed"} => ActiveOn(q)' = {}
                 /\ att'[q].state = "committing" =>
                      \E e \in ActiveOn(q)' : cmd'[e].state = "pending_commit"
                 /\ att'[q].state = "decision_sent" =>
                      \E e \in ActiveOn(q)' :
                        cmd'[e].state = "decision_sent" /\ cmd'[e].action = att'[q].resolution
      <4>1. CASE q = r
        BY <3>1, <3>2, <3>3, <4>1
      <4>2. CASE q # r
        <5>1. \A e \in ActiveOn(q) : cmd'[e] = cmd[e]
          BY <2>1, <2>2 DEF ActiveOn
        <5> QED BY <3>2, <3>4, <4>2, <5>1 DEF OneDecisionUnderWay
      <4> QED BY <4>1, <4>2
    <3> QED BY <3>5, <3>6 DEF OneDecisionUnderWay, ActiveOn
  <2> QED BY <2>3, <2>4
<1>4. ASSUME NEW c \in Commands, NEW at \in Times, Undo(c, at)
      PROVE  OneDecisionUnderWay'
  <2>1. cmd[c].state = "pending_commit"
    BY <1>4 DEF Undo, Undoable
  <2>2. PICK r \in Requests : r = cmd[c].request
    BY <2>1 DEF CommandsDecide
  <2>3. cmd'[c].state = "undone" /\ \A e \in Commands \ {c} : cmd'[e] = cmd[e]
    BY <1>4, <1>0 DEF Undo, StoreTypeOK, CommandType
  <2>4. StartsNone
    BY <2>3 DEF StartsNone
  <2>5. ActiveOn(r) = {c}
    BY <2>1, <2>2 DEF ActiveOn, OneDecisionUnderWay
  <2>6. ActiveOn(r)' = {}
    BY <2>3, <2>4, <2>5 DEF ActiveOn, StartsNone
  <2>7. ItemMoves(r)
    <3>1. CASE att[r].state = "committing"
      BY <1>4, <2>2, <2>6, <3>1 DEF Undo, Settle, ItemMoves
    <3>2. CASE att[r].state # "committing"
      <4>1. att[r].state \notin BlockingStates \cup {"absent"}
        BY <2>1, <2>5, <3>2 DEF OneDecisionUnderWay
      <4> QED BY <1>4, <2>2, <3>2, <4>1 DEF Undo, ItemMoves
    <3> QED BY <3>1, <3>2
  <2>8. \A q \in Requests \ {r} : ItemMoves(q)
    BY <1>4, <2>2, <2>3 DEF Undo, Settle, ItemMoves, ActiveOn
  <2> QED BY <2>4, <2>7, <2>8, MovesKeepOne
<1>5. ASSUME NEW c \in Commands, NEW at \in Times, CommitSent(c, at)
      PROVE  OneDecisionUnderWay'
  <2>1. cmd[c].state = "pending_commit"
    BY <1>5 DEF CommitSent
  <2>2. PICK r \in Requests : r = cmd[c].request
    BY <2>1 DEF CommandsDecide
  <2>3. /\ cmd'[c].state = "decision_sent"
        /\ cmd'[c].request = r
        /\ cmd'[c].action = cmd[c].action
        /\ \A e \in Commands \ {c} : cmd'[e] = cmd[e]
    BY <1>5, <1>0, <2>2 DEF CommitSent, StoreTypeOK, CommandType
  <2>4. StartsNone
    BY <2>1, <2>2, <2>3 DEF StartsNone
  <2>5. ActiveOn(r) = {c} /\ c \in ActiveOn(r)'
    BY <2>1, <2>2, <2>3 DEF ActiveOn, OneDecisionUnderWay
  <2>6. ItemMoves(r)
    <3>1. CASE att[r].state = "committing"
      BY <1>5, <2>2, <2>3, <2>5, <3>1 DEF CommitSent, Settle, ItemMoves
    <3>2. CASE att[r].state # "committing"
      <4>1. att[r].state \notin BlockingStates \cup {"absent"}
        BY <2>1, <2>5, <3>2 DEF OneDecisionUnderWay
      <4> QED BY <1>5, <2>2, <3>2, <4>1 DEF CommitSent, ItemMoves
    <3> QED BY <3>1, <3>2
  <2>7. \A q \in Requests \ {r} : ItemMoves(q)
    BY <1>5, <2>2, <2>3 DEF CommitSent, Settle, ItemMoves, ActiveOn
  <2> QED BY <2>4, <2>6, <2>7, MovesKeepOne
<1>6. ASSUME NEW c \in Commands, NEW at \in Times, CommitStale(c, at)
      PROVE  OneDecisionUnderWay'
  <2>1. cmd'[c].state = "failed" /\ \A e \in Commands \ {c} : cmd'[e] = cmd[e]
    BY <1>6, <1>0 DEF CommitStale, StoreTypeOK, CommandType
  <2>2. StartsNone
    BY <2>1 DEF StartsNone
  <2>3. \A e \in Commands : cmd[e].request \notin {cmd[c].request} => cmd'[e] = cmd[e]
    BY <2>1
  <2> QED BY <1>6, <2>2, <2>3, EndKeepsOne DEF CommitStale
<1>7. ASSUME NEW c \in Commands, NEW q \in Requests,
             NEW a \in {"ack", "snooze", "dismiss"}, ActAttention(c, q, a)
      PROVE  OneDecisionUnderWay'
  <2>1. /\ cmd[c].state = "absent"
        /\ cmd'[c].state = "confirmed"
        /\ \A e \in Commands \ {c} : cmd'[e] = cmd[e]
    BY <1>7 DEF ActAttention, StoreTypeOK
  <2>2. StartsNone
    BY <2>1 DEF StartsNone
  <2>3. ActiveOn(q)' = {}
    BY <1>7, <2>1 DEF ActAttention, ActiveOn, OneDecisionUnderWay
  <2>4. /\ att'[q].state \in {"resolved", "snoozed", "dismissed"}
        /\ \A r \in Requests \ {q} : att'[r] = att[r]
    BY <1>7 DEF ActAttention, Settle
  <2>5. \A r \in Requests : ItemMoves(r)
    BY <2>1, <2>3, <2>4 DEF ItemMoves, ActiveOn
  <2> QED BY <2>2, <2>5, MovesKeepOne
<1>8. ASSUME NEW q \in Requests, AckAnswered(q) \/ WakeSnoozed(q)
      PROVE  OneDecisionUnderWay'
  <2>1. UNCHANGED cmd /\ ActiveOn(q) = {}
    BY <1>8 DEF AckAnswered, WakeSnoozed, OneDecisionUnderWay
  <2>2. \A r \in Requests : ItemMoves(r)
    BY <1>8, <2>1 DEF AckAnswered, WakeSnoozed, Settle, ItemMoves, ActiveOn
  <2> QED BY <1>a, <2>1, <2>2, MovesKeepOne
<1>b. ASSUME NEW R, Settle(R, "expired", "other"), FailCommands(R)
      PROVE  OneDecisionUnderWay'
  <2>1. StartsNone
    BY <1>b, FailStartsNone
  <2>2. \A c \in Commands : cmd[c].request \notin R => cmd'[c] = cmd[c]
    BY <1>b DEF FailCommands
  <2> QED BY <1>b, <2>1, <2>2, EndKeepsOne
<1>9. ASSUME NEW r \in Requests, NEW reason, ExpireApproval(r, reason)
      PROVE  OneDecisionUnderWay'
  <2>1. CASE UNCHANGED storeVars
    BY <2>1 DEF storeVars, OneDecisionUnderWay, ActiveOn
  <2>2. CASE att[r].state \in LiveStates
    BY <1>9, <1>b, <2>2 DEF ExpireApproval
  <2> QED BY <1>9, <2>1, <2>2 DEF ExpireApproval
<1>10. ASSUME NEW active \in SUBSET Requests, Reconcile(active)
       PROVE  OneDecisionUnderWay'
  BY <1>10, <1>b DEF Reconcile
<1>11. ASSUME Reopen
       PROVE  OneDecisionUnderWay'
  BY <1>11, <1>b DEF Reopen
<1>12. CASE UNCHANGED storeVars
  BY <1>12 DEF storeVars, OneDecisionUnderWay, ActiveOn
<1>13. ASSUME NEW s \in Sessions, MarkUnconfirmed(s, TRUE)
       PROVE  OneDecisionUnderWay'
  BY <1>13 DEF MarkUnconfirmed, OneDecisionUnderWay, ActiveOn
<1>14. ASSUME NEW r \in Requests, ResolveManaged(r)
       PROVE  OneDecisionUnderWay'
  <2>1. CASE UNCHANGED storeVars
    BY <2>1 DEF storeVars, OneDecisionUnderWay, ActiveOn
  <2>2. CASE att[r].state \in BlockingStates
    <3>1. StartsNone
      BY <1>14, <2>2, ResolvedCommand DEF ResolveManaged, StartsNone
    <3>2. \A c \in Commands : cmd[c].request \notin {r} => cmd'[c] = cmd[c]
      BY <1>14, <2>2 DEF ResolveManaged
    <3>3. Settle({r}, "resolved", "other")
      BY <1>14, <2>2 DEF ResolveManaged
    <3> QED BY <3>1, <3>2, <3>3, EndKeepsOne
  <2> QED BY <1>14, <2>1, <2>2 DEF ResolveManaged
<1> QED
  BY <1>1, <1>2, <1>3, <1>4, <1>5, <1>6, <1>7, <1>8, <1>9, <1>10, <1>11, <1>12, <1>13,
     <1>14
  DEF StoreNext

\* First valid wins: whatever the interleaving of claims, undos, commits, late
\* provider events, expiry and restarts, a request has one decision under way at
\* most, and its item says which.
THEOREM StoreDecidesOnce == StoreSpec => []OneDecisionUnderWay
<1>1. StoreInit => OneDecisionUnderWay
  BY DEF StoreInit, OneDecisionUnderWay, ActiveOn, NoCommand
<1> QED BY <1>1, OneDecisionStep, StoreInvariant, PTL DEF StoreSpec

-----------------------------------------------------------------------------
(* The items of commands *)

\* Approvals are decided, questions are attended to.
ItemsFitKinds ==
    \A r \in Requests :
      IF IsApproval(r) THEN att[r].state \notin {"snoozed", "dismissed"}
      ELSE att[r].state \notin {"committing", "decision_sent", "passed_through"}

\* What the item of a command is while the command is under way, and once a
\* decision was counted.  An event may close the item of a pending command, and
\* the command is still committed.
ItemsFitCommands ==
    \A c \in Commands :
      /\ cmd[c].state = "pending_commit" =>
           att[cmd[c].request].state \in {"committing", "resolved"}
      /\ cmd[c].state = "decision_sent" =>
           att[cmd[c].request].state \in {"decision_sent", "resolved"}
      /\ counted[c] = 1 /\ cmd[c].action \in Decisions =>
           /\ cmd[c].request \in Requests
           /\ att[cmd[c].request].state \in {"decision_sent", "resolved", "expired"}

\* A request has one decision that stands at most.
OneStands ==
    \A c, d \in Commands :
      /\ Stands(c) /\ cmd[c].action \in Decisions
      /\ Stands(d) /\ cmd[d].action \in Decisions
      /\ cmd[c].request = cmd[d].request
      => c = d

DecisionInv ==
    /\ StoreInv
    /\ OneDecisionUnderWay
    /\ CountedOnce
    /\ ItemsFitKinds
    /\ ItemsFitCommands
    /\ OneStands

\* The other columns of a row whose state was set.
LEMMA RowKept ==
    ASSUME StoreTypeOK, NEW c \in Commands, NEW state
    PROVE  /\ [cmd[c] EXCEPT !.state = state].state = state
           /\ [cmd[c] EXCEPT !.state = state].request = cmd[c].request
           /\ [cmd[c] EXCEPT !.state = state].action = cmd[c].action
BY DEF StoreTypeOK, CommandType

\* A row that was written keeps its request and its action.
KeepsRows ==
    \A c \in Commands :
      cmd[c].state # "absent" =>
        /\ cmd'[c].state # "absent"
        /\ cmd'[c].request = cmd[c].request
        /\ cmd'[c].action = cmd[c].action

\* One row whose state is set keeps the rows.
LEMMA SetKeepsRows ==
    ASSUME StoreTypeOK, NEW c \in Commands, NEW state, state # "absent",
           cmd' = [cmd EXCEPT ![c].state = state]
    PROVE  KeepsRows
<1>1. cmd' = [cmd EXCEPT ![c] = [cmd[c] EXCEPT !.state = state]]
  BY DEF StoreTypeOK
<1> QED BY <1>1, RowKept DEF KeepsRows, StoreTypeOK

\* Every transaction keeps the rows that were written.
LEMMA RowsKept == StoreInv /\ [StoreNext]_storeVars => KeepsRows
<1> SUFFICES ASSUME StoreTypeOK, CommandsDecide, [StoreNext]_storeVars
             PROVE  KeepsRows
  BY DEF StoreInv
<1>a. UNCHANGED cmd => KeepsRows
  BY DEF KeepsRows
<1>b. ASSUME NEW R, FailCommands(R)
      PROVE  KeepsRows
  BY <1>b, RowKept DEF FailCommands, KeepsRows
<1>1. ASSUME NEW r \in Requests, NEW fresh \in BOOLEAN, IngestRequest(r, fresh)
      PROVE  KeepsRows
  BY <1>1, <1>a DEF IngestRequest
<1>2. ASSUME NEW s \in Sessions, NEW k \in EventKinds, NEW tool \in Tools,
             NEW fresh \in BOOLEAN, NEW handled \in HandledSets(s, k, tool),
             IngestEvent(s, k, tool, fresh, handled)
      PROVE  KeepsRows
  <2>1. \A c \in Commands : cmd[c].state \in ActiveCommand =>
          AfterHandled(c, Outcome(k)) # "absent"
    BY AfterHandledType
  <2> QED BY <1>2, <2>1, RowKept DEF IngestEvent, KeepsRows
<1>3. ASSUME NEW c \in Commands, NEW r \in Requests, NEW a \in Actions,
             NEW at \in Times, NEW d \in Delays, Claim(c, r, a, at, d)
      PROVE  KeepsRows
  BY <1>3 DEF Claim, KeepsRows, StoreTypeOK
<1>4. ASSUME NEW c \in Commands, NEW at \in Times, Undo(c, at)
      PROVE  KeepsRows
  BY <1>4, SetKeepsRows DEF Undo
<1>5. ASSUME NEW c \in Commands, NEW at \in Times, CommitSent(c, at) \/ CommitStale(c, at)
      PROVE  KeepsRows
  BY <1>5, SetKeepsRows DEF CommitSent, CommitStale
<1>6. ASSUME NEW c \in Commands, NEW q \in Requests,
             NEW a \in {"ack", "snooze", "dismiss"}, ActAttention(c, q, a)
      PROVE  KeepsRows
  BY <1>6 DEF ActAttention, KeepsRows, StoreTypeOK
<1>7. ASSUME NEW q \in Requests, AckAnswered(q) \/ WakeSnoozed(q)
      PROVE  KeepsRows
  BY <1>7, <1>a DEF AckAnswered, WakeSnoozed
<1>8. ASSUME NEW r \in Requests, NEW reason, ExpireApproval(r, reason)
      PROVE  KeepsRows
  BY <1>8, <1>a, <1>b DEF ExpireApproval, storeVars
<1>9. ASSUME NEW active \in SUBSET Requests, Reconcile(active)
      PROVE  KeepsRows
  BY <1>9, <1>b DEF Reconcile
<1>10. ASSUME Reopen
       PROVE  KeepsRows
  BY <1>10, <1>b DEF Reopen
<1>11. ASSUME NEW r \in Requests, ResolveManaged(r)
       PROVE  KeepsRows
  <2>2. CASE UNCHANGED storeVars
    BY <1>a, <2>2 DEF storeVars
  <2>3. CASE att[r].state \in BlockingStates
    BY <1>11, <2>3, ResolvedCommand DEF ResolveManaged, KeepsRows
  <2> QED BY <1>11, <2>2, <2>3 DEF ResolveManaged
<1>12. ASSUME NEW s \in Sessions, MarkUnconfirmed(s, TRUE)
       PROVE  KeepsRows
  BY <1>12, <1>a DEF MarkUnconfirmed
<1>13. CASE UNCHANGED storeVars
  BY <1>13, <1>a DEF storeVars
<1> QED
  BY <1>1, <1>2, <1>3, <1>4, <1>5, <1>6, <1>7, <1>8, <1>9, <1>10, <1>11, <1>12, <1>13
  DEF StoreNext

\* The items of commands stay in step with them, transaction by transaction.
LEMMA ItemsStep ==
    /\ StoreInv /\ OneDecisionUnderWay /\ CountedOnce
    /\ ItemsFitKinds /\ ItemsFitCommands
    /\ [StoreNext]_storeVars
    => ItemsFitKinds' /\ ItemsFitCommands'
<1> SUFFICES ASSUME StoreTypeOK, CommandsDecide, OneDecisionUnderWay, CountedOnce,
                    ItemsFitKinds, ItemsFitCommands, [StoreNext]_storeVars
             PROVE  ItemsFitKinds' /\ ItemsFitCommands'
  BY DEF StoreInv
<1>0. KeepsRows
  BY RowsKept DEF StoreInv
<1>a. /\ \A r \in Requests : att[r] \in [state : AttStates, resolution : Resolutions]
      /\ \A c \in Commands : cmd[c] \in CommandType /\ counted[c] \in Nat
  BY DEF StoreTypeOK
\* A step that starts or counts no command, and moves an item of a command only
\* to where the command allows.
<1>b. ASSUME \A c \in Commands :
               \/ cmd'[c] = cmd[c]
               \/ cmd'[c].state \notin ActiveCommand /\ cmd'[c].action = cmd[c].action
                    /\ cmd'[c].request = cmd[c].request
               \/ cmd[c].state = "absent" /\ cmd'[c].action \notin Decisions
                    /\ cmd'[c].state \notin ActiveCommand,
             counted' = counted,
             \A r \in Requests : \/ att'[r] = att[r]
                                 \/ /\ att[r].state \in {"absent", "open", "snoozed"}
                                    /\ att'[r].state \in {"open", "snoozed", "resolved", "dismissed",
                                                          "expired"}
                                    /\ IsApproval(r) => att'[r].state \notin {"snoozed", "dismissed"}
                                 \/ /\ att'[r].state \in {"resolved", "expired"}
                                    /\ att'[r].state = "expired" =>
                                         \A c \in Commands : cmd[c].request = r => cmd'[c].state \notin ActiveCommand
      PROVE  ItemsFitKinds' /\ ItemsFitCommands'
  <2>1. ItemsFitKinds'
    BY <1>a, <1>b DEF ItemsFitKinds, IsApproval
  <2>2. ASSUME NEW c \in Commands
        PROVE  /\ cmd'[c].state = "pending_commit" =>
                    att'[cmd'[c].request].state \in {"committing", "resolved"}
               /\ cmd'[c].state = "decision_sent" =>
                    att'[cmd'[c].request].state \in {"decision_sent", "resolved"}
               /\ counted'[c] = 1 /\ cmd'[c].action \in Decisions =>
                    /\ cmd'[c].request \in Requests
                    /\ att'[cmd'[c].request].state \in {"decision_sent", "resolved", "expired"}
    <3>1. cmd'[c].state \in ActiveCommand => cmd'[c] = cmd[c] /\ cmd[c].request \in Requests
      BY <1>b DEF CommandsDecide
    <3>2. cmd'[c].state \in ActiveCommand =>
            \/ att'[cmd[c].request] = att[cmd[c].request]
            \/ att'[cmd[c].request].state = "resolved"
      BY <1>b, <3>1 DEF ItemsFitCommands
    <3>3. counted'[c] = 1 /\ cmd'[c].action \in Decisions =>
            counted[c] = 1 /\ cmd[c].action \in Decisions /\ cmd'[c].request = cmd[c].request
      BY <1>b DEF CountedOnce, DecisionsCounted
    <3> QED BY <1>b, <3>1, <3>2, <3>3 DEF ItemsFitCommands
  <2> QED BY <2>1, <2>2 DEF ItemsFitCommands
<1>c. UNCHANGED cmd => \A c \in Commands : cmd'[c] = cmd[c]
  OBVIOUS
<1>d. ASSUME NEW R, FailCommands(R)
      PROVE  \A c \in Commands :
               \/ cmd'[c] = cmd[c] /\ (c \in Commands /\ cmd[c].request \in R => cmd[c].state \notin ActiveCommand)
               \/ cmd'[c].state \notin ActiveCommand /\ cmd'[c].action = cmd[c].action
                    /\ cmd'[c].request = cmd[c].request
  BY <1>d, RowKept DEF FailCommands
<1>1. ASSUME NEW r \in Requests, NEW fresh \in BOOLEAN, IngestRequest(r, fresh)
      PROVE  ItemsFitKinds' /\ ItemsFitCommands'
  <2>1. \A q \in Requests : att'[q] = att[q] \/ (att[q].state = "absent" /\ att'[q].state = "open")
    BY <1>1 DEF IngestRequest, Settle
  <2> QED BY <1>1, <1>b, <2>1 DEF IngestRequest
<1>2. ASSUME NEW s \in Sessions, NEW k \in EventKinds, NEW tool \in Tools,
             NEW fresh \in BOOLEAN, NEW handled \in HandledSets(s, k, tool),
             IngestEvent(s, k, tool, fresh, handled)
      PROVE  ItemsFitKinds' /\ ItemsFitCommands'
  <2>1. \A r \in Requests : att'[r] = att[r] \/ att'[r].state = "resolved"
    BY <1>2 DEF IngestEvent
  <2>2. \A c \in Commands :
          \/ cmd'[c] = cmd[c]
          \/ cmd'[c].state \in {"confirmed", "failed"}
               /\ cmd'[c].action = cmd[c].action /\ cmd'[c].request = cmd[c].request
          \/ cmd'[c].state = cmd[c].state
               /\ cmd'[c].action = cmd[c].action /\ cmd'[c].request = cmd[c].request
    BY <1>2, RowKept DEF IngestEvent, AfterHandled
  <2>3. \A c \in Commands : cmd'[c].state = cmd[c].state =>
          cmd'[c].action = cmd[c].action /\ cmd'[c].request = cmd[c].request
    BY <2>2
  <2>4. counted' = counted
    BY <1>2 DEF IngestEvent
  <2>5. ItemsFitKinds'
    BY <2>1 DEF ItemsFitKinds, IsApproval
  <2>6. ASSUME NEW c \in Commands
        PROVE  /\ cmd'[c].state = "pending_commit" =>
                    att'[cmd'[c].request].state \in {"committing", "resolved"}
               /\ cmd'[c].state = "decision_sent" =>
                    att'[cmd'[c].request].state \in {"decision_sent", "resolved"}
               /\ counted'[c] = 1 /\ cmd'[c].action \in Decisions =>
                    /\ cmd'[c].request \in Requests
                    /\ att'[cmd'[c].request].state \in {"decision_sent", "resolved", "expired"}
    <3>1. cmd'[c].request = cmd[c].request /\ cmd'[c].action = cmd[c].action
      BY <2>2
    <3>2. cmd'[c].state \in ActiveCommand => cmd'[c].state = cmd[c].state /\ cmd[c].request \in Requests
      BY <2>2 DEF CommandsDecide
    <3> QED BY <2>1, <2>4, <3>1, <3>2 DEF ItemsFitCommands
  <2> QED BY <2>5, <2>6 DEF ItemsFitCommands
<1>3. ASSUME NEW c \in Commands, NEW r \in Requests, NEW a \in Actions,
             NEW at \in Times, NEW d \in Delays, IsApproval(r), Claim(c, r, a, at, d)
      PROVE  ItemsFitKinds' /\ ItemsFitCommands'
  <2>1. cmd[c].state = "absent" /\ att[r].state = "open" /\ ActiveOn(r) = {}
    BY <1>3 DEF Claim, Claimable, OneDecisionUnderWay
  <2>2. /\ \A e \in Commands \ {c} : cmd'[e] = cmd[e] /\ counted'[e] = counted[e]
        /\ \A q \in Requests \ {r} : att'[q] = att[q]
        /\ cmd'[c].request = r
        /\ IF a = "pass_through"
           THEN att'[r].state = "passed_through" /\ cmd'[c].state = "passed_through"
                  /\ cmd'[c].action \notin Decisions
           ELSE att'[r].state = "committing" /\ cmd'[c].state = "pending_commit"
                  /\ counted'[c] = counted[c]
    BY <1>3 DEF Claim, Settle, StoreTypeOK
  <2>3. ItemsFitKinds'
    BY <1>3, <2>2 DEF ItemsFitKinds, IsApproval
  <2>4. \A e \in Commands \ {c} : cmd[e].state \in ActiveCommand => cmd[e].request # r
    BY <2>1 DEF ActiveOn
  <2>5. \A e \in Commands : counted[e] = 1 /\ cmd[e].action \in Decisions => cmd[e].request # r
    BY <2>1 DEF ItemsFitCommands
  <2>6. counted[c] = 0
    BY <2>1 DEF CountedOnce, DecisionsCounted
  <2>7. \A e \in Commands \ {c} : cmd[e].state \in ActiveCommand => cmd[e].request \in Requests
    BY DEF CommandsDecide
  <2> QED BY <2>2, <2>3, <2>4, <2>5, <2>6, <2>7 DEF ItemsFitCommands
<1>4. ASSUME NEW c \in Commands, NEW at \in Times, Undo(c, at)
      PROVE  ItemsFitKinds' /\ ItemsFitCommands'
  <2>1. cmd[c].state = "pending_commit" /\ cmd[c].request \in Requests
    BY <1>4 DEF Undo, Undoable, CommandsDecide
  <2>2. /\ \A e \in Commands \ {c} : cmd'[e] = cmd[e]
        /\ cmd'[c].state = "undone" /\ cmd'[c].action = cmd[c].action
             /\ cmd'[c].request = cmd[c].request
        /\ counted' = counted
    BY <1>4, RowKept, <1>0, <2>1 DEF Undo, StoreTypeOK, KeepsRows
  <2>3. /\ \A q \in Requests \ {cmd[c].request} : att'[q] = att[q]
        /\ \/ att'[cmd[c].request] = att[cmd[c].request]
           \/ /\ att[cmd[c].request].state = "committing"
              /\ att'[cmd[c].request].state = "open"
    BY <1>4 DEF Undo, Settle, StoreTypeOK
  <2>4. ItemsFitKinds'
    BY <2>3 DEF ItemsFitKinds, IsApproval
  <2>5. \A e \in Commands \ {c} : cmd[e].state \in ActiveCommand =>
          cmd[e].request \in Requests /\ cmd[e].request # cmd[c].request
    BY <2>1 DEF OneDecisionUnderWay, CommandsDecide
  <2>6. counted[c] = 0
    BY <2>1 DEF CountedOnce, DecisionsCounted
  <2> QED BY <2>2, <2>3, <2>4, <2>5, <2>6 DEF ItemsFitCommands
<1>5. ASSUME NEW c \in Commands, NEW at \in Times, CommitSent(c, at)
      PROVE  ItemsFitKinds' /\ ItemsFitCommands'
  <2>1. cmd[c].state = "pending_commit" /\ cmd[c].request \in Requests
    BY <1>5 DEF CommitSent, CommandsDecide
  <2>2. /\ \A e \in Commands \ {c} : cmd'[e] = cmd[e] /\ counted'[e] = counted[e]
        /\ cmd'[c].state = "decision_sent" /\ cmd'[c].request = cmd[c].request
    BY <1>5, <1>0, <2>1, RowKept DEF CommitSent, StoreTypeOK, KeepsRows
  <2>3. /\ \A q \in Requests \ {cmd[c].request} : att'[q] = att[q]
        /\ \/ att'[cmd[c].request] = att[cmd[c].request] /\ att[cmd[c].request].state # "committing"
           \/ /\ att[cmd[c].request].state = "committing"
              /\ att'[cmd[c].request].state = "decision_sent"
    <3>1. CASE att[cmd[c].request].state = "committing"
      BY <1>5, <2>1, <3>1 DEF CommitSent, Settle
    <3>2. CASE att[cmd[c].request].state # "committing"
      BY <1>5, <3>2 DEF CommitSent
    <3> QED BY <3>1, <3>2
  <2>4. ItemsFitKinds'
    BY <2>3 DEF ItemsFitKinds, IsApproval
  <2>5. \A e \in Commands \ {c} : cmd[e].state \in ActiveCommand =>
          cmd[e].request \in Requests /\ cmd[e].request # cmd[c].request
    BY <2>1 DEF OneDecisionUnderWay, CommandsDecide
  <2>6. att'[cmd[c].request].state \in {"decision_sent", "resolved"}
    BY <2>1, <2>3 DEF ItemsFitCommands
  <2> QED BY <2>1, <2>2, <2>3, <2>4, <2>5, <2>6 DEF ItemsFitCommands
<1>6. ASSUME NEW c \in Commands, NEW at \in Times, CommitStale(c, at)
      PROVE  ItemsFitKinds' /\ ItemsFitCommands'
  <2>1. cmd[c].state = "pending_commit" /\ cmd[c].request \in Requests
    BY <1>6 DEF CommitStale, CommandsDecide
  <2>2. /\ \A e \in Commands \ {c} : cmd'[e] = cmd[e]
        /\ cmd'[c].state = "failed" /\ cmd'[c].request = cmd[c].request
             /\ cmd'[c].action = cmd[c].action
        /\ counted' = counted
    BY <1>6, <1>0, <2>1, RowKept DEF CommitStale, StoreTypeOK, KeepsRows
  <2>3. /\ \A q \in Requests \ {cmd[c].request} : att'[q] = att[q]
        /\ att'[cmd[c].request].state = "expired"
    BY <1>6, <2>1 DEF CommitStale, Settle
  <2>4. \A e \in Commands : cmd[e].request = cmd[c].request => cmd'[e].state \notin ActiveCommand
    BY <2>1, <2>2 DEF OneDecisionUnderWay
  <2> QED BY <1>b, <2>2, <2>3, <2>4
<1>7. ASSUME NEW c \in Commands, NEW q \in Requests,
             NEW a \in {"ack", "snooze", "dismiss"}, ActAttention(c, q, a)
      PROVE  ItemsFitKinds' /\ ItemsFitCommands'
  <2>1. /\ cmd[c].state = "absent" /\ cmd'[c].state = "confirmed" /\ cmd'[c].action = a
        /\ \A e \in Commands \ {c} : cmd'[e] = cmd[e]
        /\ counted' = counted
    BY <1>7 DEF ActAttention, StoreTypeOK
  <2>2. /\ att[q].state \in {"open", "snoozed"} /\ ~IsApproval(q)
        /\ att'[q].state \in {"resolved", "snoozed", "dismissed"}
        /\ \A r \in Requests \ {q} : att'[r] = att[r]
    BY <1>7 DEF ActAttention, Settle
  <2> QED BY <1>b, <2>1, <2>2
<1>8. ASSUME NEW q \in Requests, ~IsApproval(q), AckAnswered(q) \/ WakeSnoozed(q)
      PROVE  ItemsFitKinds' /\ ItemsFitCommands'
  <2>1. /\ att[q].state \in {"open", "snoozed"}
        /\ att'[q].state \in {"resolved", "open"}
        /\ \A r \in Requests \ {q} : att'[r] = att[r]
    BY <1>8 DEF AckAnswered, WakeSnoozed, Settle
  <2>2. cmd' = cmd /\ counted' = counted
    BY <1>8 DEF AckAnswered, WakeSnoozed
  <2> QED BY <1>b, <2>1, <2>2
<1>9. ASSUME NEW R \in SUBSET Requests, Settle(R, "expired", "other"), FailCommands(R),
             counted' = counted
      PROVE  ItemsFitKinds' /\ ItemsFitCommands'
  <2>1. \A r \in Requests : att'[r] = att[r] \/ (r \in R /\ att'[r].state = "expired")
    BY <1>9 DEF Settle
  <2>2. \A r \in R, c \in Commands : cmd[c].request = r => cmd'[c].state \notin ActiveCommand
    BY <1>9, <1>d
  <2> QED BY <1>9, <1>b, <1>d, <2>1, <2>2
<1>10. ASSUME NEW r \in Requests, NEW reason, ExpireApproval(r, reason)
       PROVE  ItemsFitKinds' /\ ItemsFitCommands'
  <2>1. CASE UNCHANGED storeVars
    BY <2>1, <1>b DEF storeVars
  <2>2. CASE att[r].state \in LiveStates
    BY <1>9, <1>10, <2>2 DEF ExpireApproval
  <2> QED BY <1>10, <2>1, <2>2 DEF ExpireApproval
<1>11. ASSUME NEW active \in SUBSET Requests, Reconcile(active)
       PROVE  ItemsFitKinds' /\ ItemsFitCommands'
  BY <1>9, <1>11 DEF Reconcile
<1>12. ASSUME Reopen
       PROVE  ItemsFitKinds' /\ ItemsFitCommands'
  BY <1>9, <1>12 DEF Reopen
<1>13. ASSUME NEW r \in Requests, ResolveManaged(r)
       PROVE  ItemsFitKinds' /\ ItemsFitCommands'
  <2>1. CASE UNCHANGED storeVars
    BY <2>1, <1>b DEF storeVars
  <2>2. CASE att[r].state \in BlockingStates
    <3>1. \A c \in Commands :
            \/ cmd'[c] = cmd[c]
            \/ cmd'[c].state \notin ActiveCommand /\ cmd'[c].action = cmd[c].action
                 /\ cmd'[c].request = cmd[c].request
      BY <1>13, <2>2, ResolvedCommand DEF ResolveManaged
    <3>2. \A q \in Requests : att'[q] = att[q] \/ att'[q].state = "resolved"
      BY <1>13, <2>2 DEF ResolveManaged, Settle
    <3>3. counted' = counted
      BY <1>13, <2>2 DEF ResolveManaged
    <3> QED BY <1>b, <3>1, <3>2, <3>3
  <2> QED BY <1>13, <2>1, <2>2 DEF ResolveManaged
<1>14. ASSUME NEW s \in Sessions, MarkUnconfirmed(s, TRUE)
       PROVE  ItemsFitKinds' /\ ItemsFitCommands'
  BY <1>14, <1>b DEF MarkUnconfirmed
<1>15. CASE UNCHANGED storeVars
  BY <1>15, <1>b DEF storeVars
<1> QED
  BY <1>1, <1>2, <1>3, <1>4, <1>5, <1>6, <1>7, <1>8, <1>10, <1>11, <1>12, <1>13, <1>14, <1>15
  DEF StoreNext

\* A decision of the user that is taken up: the first one, on an open item.
Proposes(c, r, a) ==
    /\ cmd[c].state = "absent"
    /\ att[r].state = "open"
    /\ cmd'[c].state = "pending_commit" /\ cmd'[c].request = r /\ cmd'[c].action = a
    /\ \A d \in Commands \ {c} : cmd'[d] = cmd[d]
    /\ counted' = counted

\* No decision stands that did not stand before.
NoneProposed ==
    \A c \in Commands :
      Stands(c)' /\ cmd'[c].action \in Decisions =>
        /\ Stands(c)
        /\ cmd[c].request = cmd'[c].request
        /\ cmd[c].action = cmd'[c].action

\* Only a claim makes a decision stand.
LEMMA OnlyClaimProposes ==
    StoreInv /\ CountedOnce /\ [StoreNext]_storeVars =>
      \/ NoneProposed
      \/ \E c \in Commands, r \in Requests, a \in Decisions : Proposes(c, r, a)
<1> SUFFICES ASSUME StoreInv, CountedOnce, [StoreNext]_storeVars
             PROVE  \/ NoneProposed
                    \/ \E c \in Commands, r \in Requests, a \in Decisions : Proposes(c, r, a)
  OBVIOUS
<1>0. StoreTypeOK /\ KeepsRows /\ \A c \in Commands : CommandStep(c)
  BY RowsKept, StoreSteps DEF StoreInv, StoreStep
<1>a. ASSUME NEW c \in Commands, cmd[c].state # "absent", Stands(c)'
      PROVE  /\ Stands(c)
             /\ cmd[c].request = cmd'[c].request
             /\ cmd[c].action = cmd'[c].action
  BY <1>0, <1>a DEF CommandStep, Stands, KeepsRows
<1>b. ASSUME \A c \in Commands : cmd[c].state = "absent" =>
               \/ cmd'[c] = cmd[c] /\ counted'[c] = counted[c]
               \/ cmd'[c].action \notin Decisions
      PROVE  NoneProposed
  <2>1. \A c \in Commands : cmd[c].state = "absent" => counted[c] = 0
    BY DEF CountedOnce, DecisionsCounted
  <2>2. ASSUME NEW c \in Commands, cmd[c].state = "absent", Stands(c)', cmd'[c].action \in Decisions
        PROVE  FALSE
    BY <1>b, <2>1, <2>2 DEF Stands
  <2> QED BY <1>a, <2>2 DEF NoneProposed
<1>c. ASSUME NEW R, FailCommands(R)
      PROVE  \A c \in Commands : cmd[c].state = "absent" => cmd'[c] = cmd[c]
  BY <1>c DEF FailCommands
<1>1. ASSUME NEW r \in Requests, NEW fresh \in BOOLEAN, IngestRequest(r, fresh)
      PROVE  NoneProposed
  BY <1>1, <1>b DEF IngestRequest
<1>2. ASSUME NEW s \in Sessions, NEW k \in EventKinds, NEW tool \in Tools,
             NEW fresh \in BOOLEAN, NEW handled \in HandledSets(s, k, tool),
             IngestEvent(s, k, tool, fresh, handled)
      PROVE  NoneProposed
  <2>1. \A c \in Commands : cmd[c].state = "absent" =>
          cmd'[c] = cmd[c] /\ counted'[c] = counted[c]
    BY <1>2 DEF IngestEvent
  <2> QED BY <1>b, <2>1
<1>3. ASSUME NEW c \in Commands, NEW r \in Requests, NEW a \in Actions,
             NEW at \in Times, NEW d \in Delays, Claim(c, r, a, at, d)
      PROVE  NoneProposed \/ \E e \in Commands, q \in Requests, b \in Decisions : Proposes(e, q, b)
  <2>1. CASE a = "pass_through"
    <3>1. /\ cmd'[c].action \notin Decisions
          /\ \A e \in Commands \ {c} : cmd'[e] = cmd[e] /\ counted'[e] = counted[e]
      BY <1>0, <1>3, <2>1 DEF Claim, StoreTypeOK
    <3> QED BY <1>b, <3>1
  <2>2. CASE a # "pass_through"
    <3>1. a \in Decisions /\ Proposes(c, r, a)
      BY <1>0, <1>3, <2>2 DEF Claim, Claimable, Proposes, StoreTypeOK
    <3> QED BY <3>1
  <2> QED BY <2>1, <2>2
<1>4. ASSUME NEW c \in Commands, NEW at \in Times, Undo(c, at)
      PROVE  NoneProposed
  <2>1. cmd[c].state # "absent" /\ \A e \in Commands \ {c} : cmd'[e] = cmd[e]
    BY <1>0, <1>4 DEF Undo, Undoable, StoreTypeOK
  <2> QED BY <1>4, <1>b, <2>1 DEF Undo
<1>5. ASSUME NEW c \in Commands, NEW at \in Times, CommitSent(c, at) \/ CommitStale(c, at)
      PROVE  NoneProposed
  <2>1. /\ cmd[c].state # "absent"
        /\ \A e \in Commands \ {c} : cmd'[e] = cmd[e] /\ counted'[e] = counted[e]
    BY <1>0, <1>5 DEF CommitSent, CommitStale, StoreTypeOK
  <2> QED BY <1>b, <2>1
<1>6. ASSUME NEW c \in Commands, NEW q \in Requests,
             NEW a \in {"ack", "snooze", "dismiss"}, ActAttention(c, q, a)
      PROVE  NoneProposed
  <2>1. /\ cmd'[c].action \notin Decisions
        /\ \A e \in Commands \ {c} : cmd'[e] = cmd[e]
        /\ counted' = counted
    BY <1>0, <1>6 DEF ActAttention, StoreTypeOK
  <2> QED BY <1>b, <2>1
<1>7. ASSUME NEW q \in Requests, AckAnswered(q) \/ WakeSnoozed(q)
      PROVE  NoneProposed
  BY <1>7, <1>b DEF AckAnswered, WakeSnoozed
<1>8. ASSUME NEW r \in Requests, NEW reason, ExpireApproval(r, reason)
      PROVE  NoneProposed
  BY <1>8, <1>b, <1>c DEF ExpireApproval, storeVars
<1>9. ASSUME NEW active \in SUBSET Requests, Reconcile(active)
      PROVE  NoneProposed
  BY <1>9, <1>b, <1>c DEF Reconcile
<1>10. ASSUME Reopen
       PROVE  NoneProposed
  BY <1>10, <1>b, <1>c DEF Reopen
<1>11. ASSUME NEW r \in Requests, ResolveManaged(r)
       PROVE  NoneProposed
  <2>1. \A c \in Commands : cmd[c].state = "absent" =>
          cmd'[c] = cmd[c] /\ counted'[c] = counted[c]
    BY <1>11 DEF ResolveManaged, storeVars
  <2> QED BY <1>b, <2>1
<1>12. ASSUME NEW s \in Sessions, MarkUnconfirmed(s, TRUE)
       PROVE  NoneProposed
  BY <1>12, <1>b DEF MarkUnconfirmed
<1>13. CASE UNCHANGED storeVars
  BY <1>13, <1>b DEF storeVars
<1> QED
  BY <1>1, <1>2, <1>3, <1>4, <1>5, <1>6, <1>7, <1>8, <1>9, <1>10, <1>11, <1>12, <1>13
  DEF StoreNext

\* An item on which no decision stands is the only one that takes one.
LEMMA ProposedAlone ==
    ASSUME StoreInv, OneDecisionUnderWay, ItemsFitCommands,
           NEW c \in Commands, NEW r \in Requests, NEW a \in Decisions, Proposes(c, r, a)
    PROVE  \A d \in Commands :
             Stands(d) /\ cmd[d].action \in Decisions => cmd[d].request # r
<1>1. \A d \in Commands : cmd[d].state \in ActiveCommand => cmd[d].request # r
  BY DEF Proposes, OneDecisionUnderWay, ActiveOn
<1>2. \A d \in Commands : counted[d] = 1 /\ cmd[d].action \in Decisions => cmd[d].request # r
  BY DEF Proposes, ItemsFitCommands
<1> QED BY <1>1, <1>2 DEF Stands

\* Commands, their items and their counts agree, transaction by transaction.
LEMMA DecisionStep == DecisionInv /\ [StoreNext]_storeVars => DecisionInv'
<1> SUFFICES ASSUME DecisionInv, [StoreNext]_storeVars
             PROVE  DecisionInv'
  OBVIOUS
<1>0. /\ StoreInv /\ OneDecisionUnderWay /\ CountedOnce
      /\ ItemsFitKinds /\ ItemsFitCommands /\ OneStands
  BY DEF DecisionInv
<1>1. StoreInv' /\ OneDecisionUnderWay' /\ ItemsFitKinds' /\ ItemsFitCommands'
  BY <1>0, StoreInvStep, OneDecisionStep, ItemsStep
<1>2. CountedOnce'
  BY <1>0, CountedStep
<1>3. OneStands'
  <2>1. CASE NoneProposed
    BY <1>0, <2>1 DEF NoneProposed, OneStands
  <2>2. ASSUME NEW c \in Commands, NEW r \in Requests, NEW a \in Decisions, Proposes(c, r, a)
        PROVE  OneStands'
    <3>1. \A d \in Commands \ {c} :
            /\ cmd'[d] = cmd[d] /\ (Stands(d)' <=> Stands(d))
            /\ Stands(d) /\ cmd[d].action \in Decisions => cmd[d].request # r
      BY <1>0, <2>2, ProposedAlone DEF Proposes, Stands
    <3>2. cmd'[c].request = r
      BY <2>2 DEF Proposes
    <3> QED BY <1>0, <3>1, <3>2 DEF OneStands
  <2> QED BY <1>0, <2>1, <2>2, OnlyClaimProposes
<1> QED BY <1>1, <1>2, <1>3 DEF DecisionInv

\* Commands, their items and their counts agree from the start.
LEMMA DecisionInit == StoreInit => DecisionInv
<1> SUFFICES ASSUME StoreInit PROVE DecisionInv
  OBVIOUS
<1>1. StoreInv /\ OneDecisionUnderWay /\ CountedOnce
  BY DEF StoreInit, StoreInv, StoreTypeOK, CommandsDecide, NoCommand, CommandType,
         OneDecisionUnderWay, ActiveOn, CountedOnce, DecisionsCounted, TimeoutsCounted
<1>2. ItemsFitKinds /\ ItemsFitCommands /\ OneStands
  BY DEF StoreInit, NoCommand, ItemsFitKinds, ItemsFitCommands, OneStands, Stands
<1> QED BY <1>1, <1>2 DEF DecisionInv

\* No transaction that a caller of the store may run, in whatever order, puts a
\* command, its item and its count at odds: a request has one standing decision
\* at most, and an item that takes a decision has none.
THEOREM StoreAgrees == StoreSpec => []DecisionInv
BY DecisionInit, DecisionStep, PTL DEF StoreSpec
=============================================================================
