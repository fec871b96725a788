------------------------- MODULE WaiterRegistryProofs -------------------------
(***************************************************************************)
(* Proofs of the WaiterRegistry properties for every set of requests,      *)
(* keys, tickets, responses and times.                                     *)
(***************************************************************************)
EXTENDS WaiterRegistry, SequenceTheorems, TLAPS

\* An entry of the table can be told from a missing one.
LEMMA EntryNotNone == None \notin Entry
BY RegistryAssumption DEF RegistryAssumption, Entry

\* Sending on channels keeps the mailboxes typed and adds one response to the
\* channels of the removed entries only (Sender::send in remove_locked's callers).
LEMMA AnsweredType ==
    ASSUME RegistryTypeOK, NEW gone \in SUBSET Requests, NEW response \in Responses
    PROVE  /\ Answered(gone, response) \in [Tickets -> Seq(Responses)]
           /\ \A t \in Tickets :
                Len(Answered(gone, response)[t]) =
                  IF \E r \in gone : byRequest[r].ticket = t
                  THEN Len(mailbox[t]) + 1
                  ELSE Len(mailbox[t])
<1>1. \A t \in Tickets :
        /\ mailbox[t] \in Seq(Responses)
        /\ Append(mailbox[t], response) \in Seq(Responses)
        /\ Len(Append(mailbox[t], response)) = Len(mailbox[t]) + 1
  BY AppendProperties DEF RegistryTypeOK
<1> QED BY <1>1 DEF Answered

\* Every operation keeps the tables well typed: entries, owners, tickets and
\* responses are what the code puts there.
THEOREM RegistryTypes == RegistrySpec => []RegistryTypeOK
<1>1. RegistryInit => RegistryTypeOK
  BY EmptySeq DEF RegistryInit, RegistryTypeOK
<1>2. RegistryTypeOK /\ [RegistryNext]_registryVars => RegistryTypeOK'
  <2> SUFFICES ASSUME RegistryTypeOK, [RegistryNext]_registryVars PROVE RegistryTypeOK'
    OBVIOUS
  <2> USE RegistryAssumption DEF RegistryAssumption
  <2>0. ASSUME NEW gone \in SUBSET Requests, NEW response \in Responses,
               Remove(gone, response)
        PROVE  RegistryTypeOK'
    <3>1. mailbox' \in [Tickets -> Seq(Responses)]
      BY <2>0, AnsweredType DEF Remove
    <3> QED BY <2>0, <3>1 DEF Remove, ReleasedKeys, RegistryTypeOK
  <2>1. ASSUME NEW r \in Requests, NEW k \in Correlations, NEW d \in Times,
               NEW t \in Tickets, NEW now \in Times, Register(r, k, d, t, now)
        PROVE  RegistryTypeOK'
    <3> DEFINE gone == Due(now) \cup ((Replaced(r, k, now) \cup {r}) \cap ActiveRequests)
    <3>1. gone \in SUBSET Requests
      BY DEF Due, Replaced, ActiveRequests
    <3>2. mailbox' \in [Tickets -> Seq(Responses)]
      BY <2>1, <3>1, AnsweredType DEF Register
    <3>3. ReleasedKeys(gone) \in [Correlations -> Requests \cup {None}]
      BY DEF ReleasedKeys, RegistryTypeOK
    <3>4. byCorrelation' = [ReleasedKeys(gone) EXCEPT ![k] = r]
      BY <2>1 DEF Register
    <3>5. byCorrelation' \in [Correlations -> Requests \cup {None}]
      <4> HIDE DEF gone
      <4> QED BY <3>3, <3>4
    <3>6. /\ byRequest' \in [Requests -> Entry \cup {None}]
          /\ issued' \subseteq Tickets
      BY <2>1 DEF Register, Entry, RegistryTypeOK
    <3> QED BY <3>2, <3>5, <3>6 DEF RegistryTypeOK
  <2>2. ASSUME NEW r \in Requests, NEW response \in Responses, Resolve(r, response)
        PROVE  RegistryTypeOK'
    BY <2>0, <2>2 DEF Resolve
  <2>3. ASSUME NEW now \in Times, Expire(now)
        PROVE  RegistryTypeOK'
    BY <2>0, <2>3 DEF Expire, Due, ActiveRequests
  <2>4. ASSUME Shutdown
        PROVE  RegistryTypeOK'
    <3>1. mailbox' \in [Tickets -> Seq(Responses)]
      BY <2>4, AnsweredType DEF Shutdown, ActiveRequests
    <3> QED BY <2>4, <3>1 DEF Shutdown, RegistryTypeOK
  <2>5. CASE UNCHANGED registryVars
    BY <2>5 DEF registryVars, RegistryTypeOK
  <2> QED BY <2>1, <2>2, <2>3, <2>4, <2>5 DEF RegistryNext
<1> QED BY <1>1, <1>2, PTL DEF RegistrySpec

-----------------------------------------------------------------------------
(* The two maps *)

\* A removal releases exactly the keys of the removed entries.
LEMMA ReleasedAgrees ==
    ASSUME RegistryTypeOK, MapsAgree, NEW gone \in SUBSET ActiveRequests
    PROVE  \A k \in Correlations :
             ReleasedKeys(gone)[k] =
               IF byCorrelation[k] \in gone THEN None ELSE byCorrelation[k]
<1> SUFFICES ASSUME NEW k \in Correlations
             PROVE  (\E r \in gone : byCorrelation[k] = r /\ byRequest[r].correlation = k)
                      <=> byCorrelation[k] \in gone
  BY DEF ReleasedKeys
<1>1. ASSUME byCorrelation[k] \in gone
      PROVE  byRequest[byCorrelation[k]].correlation = k
  BY <1>1, RegistryAssumption DEF RegistryAssumption, MapsAgree, ActiveRequests
<1> QED BY <1>1

\* A removal keeps the maps inverse (resolve, expiry).
LEMMA RemoveAgrees ==
    ASSUME RegistryTypeOK, MapsAgree, NEW gone \in SUBSET ActiveRequests,
           NEW response, Remove(gone, response)
    PROVE  MapsAgree'
<1>1. \A k \in Correlations :
        byCorrelation'[k] = IF byCorrelation[k] \in gone THEN None ELSE byCorrelation[k]
  BY ReleasedAgrees DEF Remove
<1>2. \A r \in Requests : byRequest'[r] = IF r \in gone THEN None ELSE byRequest[r]
  BY DEF Remove
<1>3. ASSUME NEW r \in Requests, Active(r)'
      PROVE  byCorrelation'[byRequest'[r].correlation] = r
  <2>1. r \notin gone /\ byRequest'[r] = byRequest[r] /\ Active(r)
    BY <1>2, <1>3 DEF Active
  <2>2. byRequest[r].correlation \in Correlations
    BY <2>1 DEF Active, RegistryTypeOK, Entry
  <2> QED BY <1>1, <2>1, <2>2 DEF MapsAgree
<1>4. ASSUME NEW k \in Correlations, byCorrelation'[k] # None
      PROVE  /\ Active(byCorrelation[k])'
             /\ byRequest'[byCorrelation'[k]].correlation = k
  <2>1. byCorrelation'[k] = byCorrelation[k] /\ byCorrelation[k] \notin gone
    BY <1>1, <1>4
  <2>2. byCorrelation[k] \in Requests
    BY <1>4, <2>1 DEF RegistryTypeOK
  <2>3. byRequest'[byCorrelation[k]] = byRequest[byCorrelation[k]]
    BY <1>2, <2>1, <2>2
  <2> QED BY <1>4, <2>1, <2>3 DEF MapsAgree, Active
<1> QED BY <1>3, <1>4 DEF MapsAgree, Active

\* The correlation table always answers the question register_at asks of it:
\* which request, if any, now waits under this key.
THEOREM RegistryMaps == RegistrySpec => []MapsAgree
<1>1. RegistryInit => MapsAgree
  BY DEF RegistryInit, MapsAgree, Active
<1>2. RegistryTypeOK /\ MapsAgree /\ [RegistryNext]_registryVars => MapsAgree'
  <2> SUFFICES ASSUME RegistryTypeOK, MapsAgree, [RegistryNext]_registryVars
               PROVE  MapsAgree'
    OBVIOUS
  <2>1. ASSUME NEW r \in Requests, NEW k \in Correlations, NEW d \in Times,
               NEW t \in Tickets, NEW now \in Times, Register(r, k, d, t, now)
        PROVE  MapsAgree'
    <3> DEFINE gone == Due(now) \cup ((Replaced(r, k, now) \cup {r}) \cap ActiveRequests)
               new == [correlation |-> k, deadline |-> d, ticket |-> t]
    <3>1. gone \in SUBSET ActiveRequests
      BY DEF Due
    <3>2. \A j \in Correlations \ {k} :
            byCorrelation'[j] = IF byCorrelation[j] \in gone THEN None ELSE byCorrelation[j]
      <4>1. byCorrelation' = [ReleasedKeys(gone) EXCEPT ![k] = r]
        BY <2>1 DEF Register
      <4>2. \A j \in Correlations :
              ReleasedKeys(gone)[j] =
                IF byCorrelation[j] \in gone THEN None ELSE byCorrelation[j]
        BY <3>1, ReleasedAgrees
      <4>3. DOMAIN ReleasedKeys(gone) = Correlations
        BY DEF ReleasedKeys
      <4> HIDE DEF gone
      <4> QED BY <4>1, <4>2, <4>3
    <3>3. byCorrelation'[k] = r
      BY <2>1 DEF Register, ReleasedKeys
    <3>4. \A q \in Requests \ {r} :
            byRequest'[q] = IF q \in gone THEN None ELSE byRequest[q]
      BY <2>1 DEF Register
    <3>5. byRequest'[r] = new /\ new.correlation = k /\ new # None
      BY <2>1, EntryNotNone DEF Register, Entry
    <3>6. r \in ActiveRequests => r \in gone
      OBVIOUS
    <3>7. byCorrelation[k] \in Requests \ {r} => byCorrelation[k] \in gone
      <4> SUFFICES ASSUME byCorrelation[k] \in Requests \ {r}
                   PROVE  byCorrelation[k] \in gone
        OBVIOUS
      <4>1. byCorrelation[k] \in ActiveRequests
        BY RegistryAssumption DEF RegistryAssumption, MapsAgree, ActiveRequests
      <4> QED BY <4>1 DEF Replaced
    <3> HIDE DEF gone, new
    <3>8. ASSUME NEW q \in Requests, Active(q)'
          PROVE  byCorrelation'[byRequest'[q].correlation] = q
      <4>1. CASE q = r
        BY <3>3, <3>5, <4>1
      <4>2. CASE q # r
        <5>1. q \notin gone /\ byRequest'[q] = byRequest[q] /\ Active(q)
          BY <3>4, <3>8, <4>2 DEF Active
        <5>2. /\ byRequest[q].correlation \in Correlations
              /\ byCorrelation[byRequest[q].correlation] = q
          BY <5>1 DEF Active, RegistryTypeOK, Entry, MapsAgree
        <5>3. byRequest[q].correlation # k
          BY <3>7, <4>2, <5>1, <5>2
        <5> QED BY <3>2, <5>1, <5>2, <5>3
      <4> QED BY <4>1, <4>2
    <3>9. ASSUME NEW j \in Correlations, byCorrelation'[j] # None
          PROVE  /\ byRequest'[byCorrelation'[j]] # None
                 /\ byRequest'[byCorrelation'[j]].correlation = j
      <4>1. CASE j = k
        BY <3>3, <3>5, <4>1
      <4>2. CASE j # k
        <5>1. byCorrelation'[j] = byCorrelation[j] /\ byCorrelation[j] \notin gone
          BY <3>2, <3>9, <4>2
        <5>2. /\ byCorrelation[j] \in ActiveRequests
              /\ byRequest[byCorrelation[j]].correlation = j
          BY <3>9, <5>1 DEF RegistryTypeOK, MapsAgree, ActiveRequests
        <5>3. byCorrelation[j] # r /\ byCorrelation[j] \in Requests
          BY <3>6, <5>1, <5>2 DEF ActiveRequests
        <5>4. byRequest'[byCorrelation[j]] = byRequest[byCorrelation[j]]
          BY <3>4, <5>1, <5>3
        <5> QED BY <5>1, <5>2, <5>4 DEF ActiveRequests, Active
      <4> QED BY <4>1, <4>2
    <3> QED BY <3>8, <3>9 DEF MapsAgree, Active
  <2>2. ASSUME NEW r \in Requests, NEW response \in Responses, Resolve(r, response)
        PROVE  MapsAgree'
    BY <2>2, RemoveAgrees DEF Resolve, ActiveRequests
  <2>3. ASSUME NEW now \in Times, Expire(now)
        PROVE  MapsAgree'
    BY <2>3, RemoveAgrees DEF Expire, Due
  <2>4. ASSUME Shutdown
        PROVE  MapsAgree'
    BY <2>4 DEF Shutdown, MapsAgree, Active
  <2>5. CASE UNCHANGED registryVars
    BY <2>5 DEF registryVars, MapsAgree, Active
  <2> QED BY <2>1, <2>2, <2>3, <2>4, <2>5 DEF RegistryNext
<1> QED BY <1>1, <1>2, RegistryTypes, PTL DEF RegistrySpec

-----------------------------------------------------------------------------
(* The channels *)

\* What a set of waiters that leave the table does to the channels, whether a
\* new waiter r enters at the same time on a fresh ticket (New) or not.
LEMMA ChannelsAnswered ==
    ASSUME RegistryTypeOK, TicketsAnsweredOnce,
           NEW gone \in SUBSET ActiveRequests, NEW response \in Responses,
           mailbox' = Answered(gone, response)
    PROVE  /\ \A t \in Tickets \ issued : mailbox'[t] = <<>>
           /\ \A t \in issued :
                Len(mailbox'[t]) =
                  IF \E r \in Requests \ gone : Active(r) /\ byRequest[r].ticket = t
                  THEN 0 ELSE 1
<1>1. \A t \in Tickets :
        Len(mailbox'[t]) = IF \E r \in gone : byRequest[r].ticket = t
                           THEN Len(mailbox[t]) + 1 ELSE Len(mailbox[t])
  <2>1. gone \in SUBSET Requests
    BY DEF ActiveRequests
  <2>2. \A t \in Tickets :
          Len(Answered(gone, response)[t]) =
            IF \E r \in gone : byRequest[r].ticket = t
            THEN Len(mailbox[t]) + 1
            ELSE Len(mailbox[t])
    BY <2>1, AnsweredType
  <2> QED BY <2>2
<1>2. ASSUME NEW t \in Tickets \ issued
      PROVE  mailbox'[t] = <<>>
  <2>1. mailbox[t] = <<>> /\ ~Waiting(t)
    BY DEF TicketsAnsweredOnce
  <2>2. ~ \E r \in gone : byRequest[r].ticket = t
    BY <2>1 DEF Waiting, ActiveRequests
  <2> QED BY <2>1, <2>2 DEF Answered
<1>3. ASSUME NEW t \in issued
      PROVE  Len(mailbox'[t]) =
               IF \E r \in Requests \ gone : Active(r) /\ byRequest[r].ticket = t
               THEN 0 ELSE 1
  <2>1. t \in Tickets /\ Len(mailbox[t]) = IF Waiting(t) THEN 0 ELSE 1
    BY DEF RegistryTypeOK, TicketsAnsweredOnce
  <2>2. CASE \E r \in gone : byRequest[r].ticket = t
    <3>1. PICK r \in gone : byRequest[r].ticket = t
      BY <2>2
    <3>2. Waiting(t)
      BY <3>1 DEF Waiting, ActiveRequests
    <3>3. ~ \E q \in Requests \ gone : Active(q) /\ byRequest[q].ticket = t
      BY <3>1 DEF TicketsAnsweredOnce, ActiveRequests
    <3>4. Len(mailbox'[t]) = 1
      <4>1. Len(mailbox[t]) = 0
        BY <2>1, <3>2
      <4>2. Len(mailbox'[t]) = Len(mailbox[t]) + 1
        BY <1>1, <2>1, <2>2
      <4> QED BY <4>1, <4>2
    <3> QED BY <3>3, <3>4
  <2>3. CASE ~ \E r \in gone : byRequest[r].ticket = t
    <3>1. Waiting(t) <=> \E q \in Requests \ gone : Active(q) /\ byRequest[q].ticket = t
      BY <2>3 DEF Waiting
    <3> QED BY <1>1, <2>1, <2>3, <3>1
  <2> QED BY <2>2, <2>3
<1> QED BY <1>2, <1>3

\* A removal answers exactly the channels it takes from the table.
LEMMA RemoveAnswers ==
    ASSUME RegistryTypeOK, TicketsAnsweredOnce,
           NEW gone \in SUBSET ActiveRequests, NEW response \in Responses,
           \A r \in Requests : byRequest'[r] = IF r \in gone THEN None ELSE byRequest[r],
           mailbox' = Answered(gone, response),
           issued' = issued
    PROVE  TicketsAnsweredOnce'
<1>1. \A r \in Requests : Active(r)' <=> r \notin gone /\ Active(r)
  BY DEF Active, ActiveRequests
<1>2. \A t : Waiting(t)' <=>
        \E r \in Requests \ gone : Active(r) /\ byRequest[r].ticket = t
  BY <1>1 DEF Waiting
<1>3. ASSUME NEW t \in Tickets \ issued
      PROVE  mailbox'[t] = <<>> /\ ~Waiting(t)'
  <2>1. ~Waiting(t)
    BY DEF TicketsAnsweredOnce
  <2> QED BY <1>2, <2>1, ChannelsAnswered DEF Waiting
<1>4. ASSUME NEW t \in issued
      PROVE  Len(mailbox'[t]) = IF Waiting(t)' THEN 0 ELSE 1
  BY <1>2, ChannelsAnswered
<1>5. ASSUME NEW q \in Requests, NEW r \in Requests, Active(q)', Active(r)',
             byRequest'[q].ticket = byRequest'[r].ticket
      PROVE  q = r
  BY <1>1, <1>5 DEF TicketsAnsweredOnce
<1> QED BY <1>3, <1>4, <1>5 DEF TicketsAnsweredOnce, Waiting, Active

\* A Hook thread is neither stranded nor answered twice, in whatever order
\* registrations, replacements, decisions, expiry and shutdown come.
THEOREM RegistryTickets == RegistrySpec => []TicketsAnsweredOnce
<1>1. RegistryInit => TicketsAnsweredOnce
  BY DEF RegistryInit, TicketsAnsweredOnce, Waiting, Active
<1>2. /\ RegistryTypeOK /\ RegistryTypeOK'
      /\ TicketsAnsweredOnce /\ [RegistryNext]_registryVars
      => TicketsAnsweredOnce'
  <2> SUFFICES ASSUME RegistryTypeOK, RegistryTypeOK', TicketsAnsweredOnce,
                      [RegistryNext]_registryVars
               PROVE  TicketsAnsweredOnce'
    OBVIOUS
  <2>0. PassThrough \in Responses
    BY RegistryAssumption DEF RegistryAssumption
  <2>1. ASSUME NEW r \in Requests, NEW k \in Correlations, NEW d \in Times,
               NEW t \in Tickets, NEW now \in Times, Register(r, k, d, t, now)
        PROVE  TicketsAnsweredOnce'
    <3> DEFINE gone == Due(now) \cup ((Replaced(r, k, now) \cup {r}) \cap ActiveRequests)
               new == [correlation |-> k, deadline |-> d, ticket |-> t]
    <3>1. gone \in SUBSET ActiveRequests
      BY DEF Due
    <3>2. r \in ActiveRequests => r \in gone
      OBVIOUS
    <3>3. \A q \in Requests \ {r} :
            byRequest'[q] = IF q \in gone THEN None ELSE byRequest[q]
      BY <2>1 DEF Register
    <3>4. byRequest'[r] = new /\ new.ticket = t /\ new # None
      BY <2>1, EntryNotNone DEF Register, Entry
    <3>5. mailbox' = Answered(gone, PassThrough) /\ issued' = issued \cup {t} /\ t \notin issued
      BY <2>1 DEF Register
    <3> HIDE DEF gone, new
    <3>6. /\ \A u \in Tickets \ issued : mailbox'[u] = <<>>
          /\ \A u \in issued :
               Len(mailbox'[u]) =
                 IF \E q \in Requests \ gone : Active(q) /\ byRequest[q].ticket = u
                 THEN 0 ELSE 1
      BY <2>0, <3>1, <3>5, ChannelsAnswered
    <3>7. \A q \in Requests \ {r} : Active(q)' <=> q \notin gone /\ Active(q)
      BY <3>3, <3>1 DEF Active, ActiveRequests
    <3>8. \A q \in Requests \ gone : Active(q) =>
            q # r /\ byRequest'[q] = byRequest[q] /\ byRequest[q].ticket \in issued
      <4> SUFFICES ASSUME NEW q \in Requests \ gone, Active(q)
                   PROVE  q # r /\ byRequest'[q] = byRequest[q] /\ byRequest[q].ticket \in issued
        OBVIOUS
      <4>1. q # r
        BY <3>2 DEF ActiveRequests
      <4>2. byRequest[q].ticket \in Tickets
        BY DEF Active, RegistryTypeOK, Entry
      <4>3. byRequest[q].ticket \in issued
        BY <4>2 DEF TicketsAnsweredOnce, Waiting
      <4> QED BY <3>3, <4>1, <4>3
    <3>9. \A u : Waiting(u)' <=>
            \/ u = t
            \/ \E q \in Requests \ gone : Active(q) /\ byRequest[q].ticket = u
      <4>1. Active(r)' /\ byRequest'[r].ticket = t
        BY <3>4 DEF Active
      <4>2. \A q \in Requests \ {r} : Active(q)' => byRequest'[q] = byRequest[q]
        BY <3>3, <3>7
      <4> QED BY <3>7, <3>8, <4>1, <4>2 DEF Waiting
    <3>10. ASSUME NEW u \in Tickets, u \notin issued'
           PROVE  mailbox'[u] = <<>> /\ ~Waiting(u)'
      <4>1. u # t /\ u \notin issued
        BY <3>5, <3>10
      <4> QED BY <3>6, <3>8, <3>9, <4>1
    <3>11. ASSUME NEW u \in Tickets, u \in issued'
           PROVE  Len(mailbox'[u]) = IF Waiting(u)' THEN 0 ELSE 1
      <4>1. CASE u = t
        BY <3>5, <3>6, <3>9, <4>1, EmptySeq
      <4>2. CASE u # t
        BY <3>5, <3>6, <3>9, <3>11, <4>2
      <4> QED BY <4>1, <4>2
    <3>12. ASSUME NEW p \in Requests, NEW q \in Requests, Active(p)', Active(q)',
                  byRequest'[p].ticket = byRequest'[q].ticket
           PROVE  p = q
      <4>1. CASE p = r /\ q = r
        BY <4>1
      <4>2. CASE p # r /\ q # r
        BY <3>7, <3>8, <3>12, <4>2 DEF TicketsAnsweredOnce
      <4>3. CASE p = r /\ q # r
        BY <3>4, <3>5, <3>7, <3>8, <3>12, <4>3
      <4>4. CASE p # r /\ q = r
        BY <3>4, <3>5, <3>7, <3>8, <3>12, <4>4
      <4> QED BY <4>1, <4>2, <4>3, <4>4
    <3> QED BY <3>10, <3>11, <3>12 DEF TicketsAnsweredOnce, Waiting, Active
  <2>2. ASSUME NEW r \in Requests, NEW response \in Responses, Resolve(r, response)
        PROVE  TicketsAnsweredOnce'
    BY <2>2, RemoveAnswers DEF Resolve, Remove, ActiveRequests
  <2>3. ASSUME NEW now \in Times, Expire(now)
        PROVE  TicketsAnsweredOnce'
    BY <2>0, <2>3, RemoveAnswers DEF Expire, Remove, Due
  <2>4. ASSUME Shutdown
        PROVE  TicketsAnsweredOnce'
    <3>1. \A r \in Requests :
            byRequest'[r] = IF r \in ActiveRequests THEN None ELSE byRequest[r]
      BY <2>4 DEF Shutdown, ActiveRequests, Active
    <3> QED BY <2>0, <2>4, <3>1, RemoveAnswers DEF Shutdown
  <2>5. CASE UNCHANGED registryVars
    BY <2>5 DEF registryVars, TicketsAnsweredOnce, Waiting, Active
  <2> QED BY <2>1, <2>2, <2>3, <2>4, <2>5 DEF RegistryNext
<1> QED BY <1>1, <1>2, RegistryTypes, PTL DEF RegistrySpec
=============================================================================
