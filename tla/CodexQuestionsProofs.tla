------------------------- MODULE CodexQuestionsProofs -------------------------
(***************************************************************************)
(* Proofs about CodexQuestions, for any number of questions and clients    *)
(* and for any bounds.                                                     *)
(***************************************************************************)
EXTENDS CodexQuestions, SequenceTheorems, FiniteSetTheorems, TLAPS

-----------------------------------------------------------------------------
(* The wire *)

AskKinds == {"request", "asked"}

\* Where a sequence of messages asks q.
AsksIn(w, q) == {i \in DOMAIN w : w[i].kind \in AskKinds /\ w[i].of = q}

AtMostOne(S) == \A x, y \in S : x = y

\* A set in an order has the elements of the set.
LEMMA OrderOfSet ==
    ASSUME NEW S, IsFiniteSet(S)
    PROVE  /\ SetToSeq(S) \in Seq(S)
           /\ \A x \in S : \E i \in DOMAIN SetToSeq(S) : SetToSeq(S)[i] = x
<1> DEFINE n == Cardinality(S)
           Orders == {f \in [1 .. n -> S] : IsInjective(f)}
<1>1. n \in Nat /\ ExistsBijection(1 .. n, S)
  BY FS_CardinalityType
<1>2. \E f \in [1 .. n -> S] : IsInjective(f)
  BY <1>1 DEF ExistsBijection, Bijection, Injection
<1>3. SetToSeq(S) \in [1 .. n -> S] /\ IsInjective(SetToSeq(S))
  BY <1>2 DEF SetToSeq
<1>4. SetToSeq(S) \in Injection(1 .. n, S)
  BY <1>3 DEF Injection
<1>5. IsFiniteSet(1 .. n) /\ Cardinality(1 .. n) = n
  BY <1>1, FS_Interval
<1>6. SetToSeq(S) \in Surjection(1 .. n, S)
  BY <1>4, <1>5, FS_Injection
<1> HIDE DEF n
<1>7. SetToSeq(S) \in Seq(S)
  BY <1>1, <1>3, SeqDef
<1>8. \A x \in S : \E i \in 1 .. n : SetToSeq(S)[i] = x
  BY <1>6 DEF Surjection
<1> QED BY <1>3, <1>7, <1>8

\* A message that asks nothing leaves alone what the wire asks.
LEMMA AppendPlain ==
    ASSUME NEW w \in Seq(Message), NEW m \in Message, m.kind \notin AskKinds, NEW q
    PROVE  Append(w, m) \in Seq(Message) /\ AsksIn(Append(w, m), q) = AsksIn(w, q)
<1>1. /\ DOMAIN w = 1 .. Len(w) /\ Len(w) \in Nat
      /\ DOMAIN Append(w, m) = 1 .. Len(w) + 1
      /\ \A i \in 1 .. Len(w) : Append(w, m)[i] = w[i]
      /\ Append(w, m)[Len(w) + 1] = m
  BY AppendProperties
<1> QED BY <1>1 DEF AsksIn

\* A question that is asked is asked at the end of the wire.
LEMMA AppendAsk ==
    ASSUME NEW w \in Seq(Message), NEW m \in Message, NEW q
    PROVE  /\ Append(w, m) \in Seq(Message)
           /\ AsksIn(Append(w, m), q) \subseteq AsksIn(w, q) \cup (IF m.of = q THEN {Len(w) + 1} ELSE {})
<1>1. /\ DOMAIN w = 1 .. Len(w) /\ Len(w) \in Nat
      /\ DOMAIN Append(w, m) = 1 .. Len(w) + 1
      /\ \A i \in 1 .. Len(w) : Append(w, m)[i] = w[i]
      /\ Append(w, m)[Len(w) + 1] = m
  BY AppendProperties
<1> QED BY <1>1 DEF AsksIn

LEMMA ConcatPlain ==
    ASSUME NEW w \in Seq(Message), NEW s \in Seq(Message), NEW q,
           \A i \in DOMAIN s : s[i].kind \notin AskKinds
    PROVE  w \o s \in Seq(Message) /\ AsksIn(w \o s, q) = AsksIn(w, q)
<1>1. /\ DOMAIN w = 1 .. Len(w) /\ Len(w) \in Nat
      /\ DOMAIN s = 1 .. Len(s) /\ Len(s) \in Nat
      /\ w \o s \in Seq(Message)
      /\ DOMAIN (w \o s) = 1 .. Len(w) + Len(s)
      /\ \A i \in 1 .. Len(w) + Len(s) :
            (w \o s)[i] = IF i <= Len(w) THEN w[i] ELSE s[i - Len(w)]
  BY ConcatProperties
<1>2. ASSUME NEW i \in 1 .. Len(w) + Len(s), (w \o s)[i].kind \in AskKinds
      PROVE  i \in 1 .. Len(w) /\ (w \o s)[i] = w[i]
  <2>1. CASE i <= Len(w)
    BY <1>1, <2>1
  <2>2. CASE i > Len(w)
    <3>1. i - Len(w) \in DOMAIN s /\ (w \o s)[i] = s[i - Len(w)]
      BY <1>1, <2>2
    <3> QED BY <1>2, <3>1
  <2> QED BY <2>1, <2>2, <1>1
<1>3. \A i \in 1 .. Len(w) : i \in 1 .. Len(w) + Len(s) /\ (w \o s)[i] = w[i]
  BY <1>1
<1> QED BY <1>1, <1>2, <1>3 DEF AsksIn

\* What a sequence has after one of its messages was taken out.
LEMMA RemovedAt ==
    ASSUME NEW w \in Seq(Message), NEW k \in DOMAIN w
    PROVE  /\ RemoveAt(w, k) \in Seq(Message)
           /\ DOMAIN RemoveAt(w, k) = 1 .. Len(w) - 1
           /\ \A i \in 1 .. Len(w) - 1 : RemoveAt(w, k)[i] = IF i < k THEN w[i] ELSE w[i + 1]
<1> DEFINE a == SubSeq(w, 1, k - 1)
           b == SubSeq(w, k + 1, Len(w))
<1>1. Len(w) \in Nat /\ k \in 1 .. Len(w) /\ \A i \in 1 .. Len(w) : w[i] \in Message
  OBVIOUS
<1>2. /\ a \in Seq(Message) /\ Len(a) = k - 1
      /\ \A i \in 1 .. k - 1 : a[i] = w[i]
  <2>1. \A i \in 1 .. k - 1 : w[i] \in Message
    BY <1>1
  <2>2. 1 \in Int /\ k - 1 \in Int
    BY <1>1
  <2> HIDE DEF a
  <2>3. /\ SubSeq(w, 1, k - 1) \in Seq(Message)
        /\ Len(SubSeq(w, 1, k - 1)) = IF 1 <= k - 1 THEN (k - 1) - 1 + 1 ELSE 0
        /\ \A i \in 1 .. (k - 1) - 1 + 1 : SubSeq(w, 1, k - 1)[i] = w[1 + i - 1]
    BY <2>1, <2>2, SubSeqProperties
  <2> QED BY <2>3, <1>1 DEF a
<1>3. /\ b \in Seq(Message) /\ Len(b) = Len(w) - k
      /\ \A i \in 1 .. Len(w) - k : b[i] = w[k + i]
  <2>1. \A i \in k + 1 .. Len(w) : w[i] \in Message
    BY <1>1
  <2>2. k + 1 \in Int /\ Len(w) \in Int
    BY <1>1
  <2> HIDE DEF b
  <2>3. /\ SubSeq(w, k + 1, Len(w)) \in Seq(Message)
        /\ Len(SubSeq(w, k + 1, Len(w))) = IF k + 1 <= Len(w) THEN Len(w) - (k + 1) + 1 ELSE 0
        /\ \A i \in 1 .. Len(w) - (k + 1) + 1 : SubSeq(w, k + 1, Len(w))[i] = w[k + 1 + i - 1]
    BY <2>1, <2>2, SubSeqProperties
  <2> QED BY <2>3, <1>1 DEF b
<1> HIDE DEF a, b
<1>4. /\ a \o b \in Seq(Message)
      /\ Len(a \o b) = Len(a) + Len(b)
      /\ \A i \in 1 .. Len(a) + Len(b) : (a \o b)[i] = IF i <= Len(a) THEN a[i] ELSE b[i - Len(a)]
  BY <1>2, <1>3, ConcatProperties
<1>5. RemoveAt(w, k) = a \o b
  BY DEF RemoveAt, a, b
<1>6. ASSUME NEW i \in 1 .. Len(w) - 1
      PROVE  (a \o b)[i] = IF i < k THEN w[i] ELSE w[i + 1]
  <2>0. /\ k \in Nat /\ i \in Nat /\ Len(w) \in Nat /\ i <= Len(w) - 1 /\ 1 <= i /\ k <= Len(w)
        /\ i \in 1 .. Len(a) + Len(b)
    BY <1>1, <1>2, <1>3
  <2>1. CASE i < k
    <3>1. (a \o b)[i] = a[i] /\ i \in 1 .. k - 1
      BY <2>0, <2>1, <1>2, <1>4
    <3> QED BY <3>1, <2>1, <1>2
  <2>2. CASE ~(i < k)
    <3>1. (a \o b)[i] = b[i - (k - 1)]
      BY <2>0, <2>2, <1>2, <1>4
    <3>2. i - (k - 1) \in 1 .. Len(w) - k /\ k + (i - (k - 1)) = i + 1
      BY <2>0, <2>2
    <3>3. b[i - (k - 1)] = w[k + (i - (k - 1))]
      BY <3>2, <1>3
    <3> QED BY <3>1, <3>2, <3>3, <2>2
  <2> QED BY <2>1, <2>2
<1>7. Len(a) + Len(b) = Len(w) - 1
  BY <1>1, <1>2, <1>3
<1>8. DOMAIN (a \o b) = 1 .. Len(w) - 1
  BY <1>4, <1>7
<1> QED BY <1>4, <1>5, <1>6, <1>8

\* A message that is handled leaves the wire: what it asked once is no longer asked.
LEMMA RemoveAsk ==
    ASSUME NEW w \in Seq(Message), NEW k \in DOMAIN w, NEW q
    PROVE  /\ AsksIn(w, q) = {} => AsksIn(RemoveAt(w, k), q) = {}
           /\ AtMostOne(AsksIn(w, q)) => AtMostOne(AsksIn(RemoveAt(w, k), q))
           /\ AtMostOne(AsksIn(w, q)) /\ k \in AsksIn(w, q) => AsksIn(RemoveAt(w, k), q) = {}
<1> DEFINE before(i) == IF i < k THEN i ELSE i + 1
<1>1. Len(w) \in Nat /\ k \in 1 .. Len(w) /\ DOMAIN w = 1 .. Len(w)
  OBVIOUS
<1>2. ASSUME NEW i \in AsksIn(RemoveAt(w, k), q)
      PROVE  i \in 1 .. Len(w) - 1 /\ before(i) \in AsksIn(w, q) /\ before(i) # k
  <2>1. i \in 1 .. Len(w) - 1 /\ RemoveAt(w, k)[i] = w[before(i)]
    BY RemovedAt DEF AsksIn
  <2>2. before(i) \in DOMAIN w /\ before(i) # k
    BY <2>1, <1>1
  <2> QED BY <2>1, <2>2 DEF AsksIn
<1>3. \A i, j \in 1 .. Len(w) - 1 : before(i) = before(j) => i = j
  BY <1>1
<1> HIDE DEF before
<1> QED BY <1>2, <1>3 DEF AtMostOne

-----------------------------------------------------------------------------
(* The registry *)

USE QuestionAssumption

Registries == [entries : SUBSET Entry, cleared : Times]

UniqueIds(r) == \A e, f \in r.entries : e.id = f.id => e = f

\* Entries that offer q and can be claimed.
Offers(r, q) == {e \in r.entries : Claimable(e) /\ e.route.asks = q}

\* How entries that can be answered are answered.
Routed(r) == {e.route : e \in {d \in r.entries : d.answerable}}

\* f is what became of e.
Descends(f, e) == f.id = e.id /\ (~f.submitting => ~e.submitting)

\* s has entries of r only, and offers nothing that r does not.
Shrinks(r, s) ==
    /\ s \in Registries
    /\ UniqueIds(r) => UniqueIds(s)
    /\ \A f \in s.entries : \E e \in r.entries : Descends(f, e)
    /\ \A q \in Questions : Offers(s, q) \subseteq Offers(r, q)
    /\ Routed(s) \subseteq Routed(r)

LEMMA SubsetShrinks ==
    ASSUME NEW r \in Registries, NEW s \in Registries, s.entries \subseteq r.entries
    PROVE  Shrinks(r, s)
BY DEF Shrinks, UniqueIds, Offers, Descends, Routed

LEMMA ClearShrinks ==
    ASSUME NEW r \in Registries, NEW at \in Times
    PROVE  Shrinks(r, ClearThread(r, at))
<1>1. ClearThread(r, at) \in Registries /\ ClearThread(r, at).entries \subseteq r.entries
  BY DEF ClearThread, Registries
<1> QED BY <1>1, SubsetShrinks

LEMMA ResolveShrinks ==
    ASSUME NEW r \in Registries, NEW q
    PROVE  Shrinks(r, ResolveRpc(r, q))
<1>1. ResolveRpc(r, q) \in Registries /\ ResolveRpc(r, q).entries \subseteq r.entries
  BY DEF ResolveRpc, Registries
<1> QED BY <1>1, SubsetShrinks

LEMMA PurgeShrinks ==
    ASSUME NEW r \in Registries
    PROVE  Shrinks(r, Purged(r)) /\ Purged(r).entries \subseteq r.entries
<1>1. Purged(r) \in Registries /\ Purged(r).entries \subseteq r.entries
  BY DEF Purged, Registries, Times
<1> QED BY <1>1, SubsetShrinks

LEMMA ObserveRoute == Observe \in Routes
BY DEF Routes

LEMMA RpcRoute == \A q \in Requested : Rpc(q) \in Routes /\ Rpc(q).asks = q
<1>1. \A q \in Requested : Rpc(q) \in Routes
  BY DEF Routes
<1> QED BY <1>1 DEF Rpc

LEMMA SteerRoute ==
    \A turn \in 0 .. MaxTurns, q \in Questions \ Requested :
        Steer(turn, q) \in Routes /\ Steer(turn, q).asks = q
<1>1. \A turn \in 0 .. MaxTurns, q \in Questions \ Requested : Steer(turn, q) \in Routes
  BY DEF Routes
<1> QED BY <1>1 DEF Steer

\* What the routes ask.
LEMMA SteerAsks ==
    \A route \in Routes :
        /\ route.kind = "steer" => route.asks \in Questions \ Requested
        /\ route.kind = "rpc" => route.asks \in Requested /\ route.of = route.asks
<1>1. \A q \in Requested : Rpc(q).kind = "rpc" /\ Rpc(q).asks = q /\ Rpc(q).of = q
  BY DEF Rpc
<1>2. \A turn \in 0 .. MaxTurns, q \in Questions \ Requested :
        Steer(turn, q).kind = "steer" /\ Steer(turn, q).asks = q
  BY DEF Steer
<1>3. Observe.kind = "observe"
  BY DEF Observe
<1> QED BY <1>1, <1>2, <1>3 DEF Routes

LEMMA EndTurnShrinks ==
    ASSUME NEW r \in Registries
    PROVE  Shrinks(r, EndTurn(r)) /\ \A e \in EndTurn(r).entries : ~e.answerable
<1> DEFINE ended(e) == [e EXCEPT !.answerable = FALSE, !.route = Observe]
<1>1. \A e \in Entry : /\ ended(e) \in Entry /\ ended(e).id = e.id
                       /\ ended(e).submitting = e.submitting /\ ~ended(e).answerable
  BY ObserveRoute DEF Entry
<1>2. /\ EndTurn(r).entries = {ended(e) : e \in r.entries}
      /\ EndTurn(r) = [r EXCEPT !.entries = {ended(e) : e \in r.entries}]
  BY DEF EndTurn, Registries
<1> HIDE DEF ended
<1>3. EndTurn(r) \in Registries
  BY <1>1, <1>2 DEF Registries
<1>4. \A e \in EndTurn(r).entries : ~e.answerable
  BY <1>1, <1>2 DEF Registries
<1>5. UniqueIds(r) => UniqueIds(EndTurn(r))
  BY <1>1, <1>2 DEF Registries, UniqueIds
<1>6. \A f \in EndTurn(r).entries : \E e \in r.entries : Descends(f, e)
  BY <1>1, <1>2 DEF Registries, Descends
<1> QED BY <1>3, <1>4, <1>5, <1>6 DEF Shrinks, Offers, Claimable, Routed

\* An entry is replaced by one of the same identity.
LEMMA ReplaceShrinks ==
    ASSUME NEW r \in Registries, NEW e \in r.entries, NEW f \in Entry, Descends(f, e),
           Claimable(f) => f = e, f.answerable => e.answerable /\ f.route = e.route
    PROVE  Shrinks(r, [r EXCEPT !.entries = (@ \ {e}) \cup {f}])
<1> DEFINE s == [r EXCEPT !.entries = (@ \ {e}) \cup {f}]
<1>1. s \in Registries /\ s.entries = (r.entries \ {e}) \cup {f}
  BY DEF Registries
<1> HIDE DEF s
<1>2. UniqueIds(r) => UniqueIds(s)
  BY <1>1 DEF UniqueIds, Descends
<1>3. \A g \in s.entries : \E d \in r.entries : Descends(g, d)
  BY <1>1 DEF Descends
<1>4. \A q \in Questions : Offers(s, q) \subseteq Offers(r, q)
  BY <1>1 DEF Offers
<1>5. Routed(s) \subseteq Routed(r)
  BY <1>1 DEF Routed
<1>6. Shrinks(r, s)
  BY <1>1, <1>2, <1>3, <1>4, <1>5 DEF Shrinks
<1> QED BY <1>6 DEF s

LEMMA ClaimShrinks ==
    ASSUME NEW r \in Registries, NEW e \in r.entries
    PROVE  /\ Shrinks(r, Claimed(r, e))
           /\ \A q \in Questions : Offers(Claimed(r, e), q) \subseteq Offers(r, q) \ {e}
           /\ UniqueIds(r) => \A f \in Claimed(r, e).entries : ~f.submitting => f.id # e.id
<1> DEFINE f == [e EXCEPT !.submitting = TRUE]
<1>1. /\ e \in Entry /\ f \in Entry /\ f.submitting /\ f.id = e.id
      /\ f.route = e.route /\ f.answerable = e.answerable
  BY DEF Registries, Entry
<1>2. Claimed(r, e) = [r EXCEPT !.entries = (@ \ {e}) \cup {f}]
  BY DEF Claimed
<1>3. Claimed(r, e).entries = (r.entries \ {e}) \cup {f}
  BY <1>2 DEF Registries
<1> HIDE DEF f
<1>4. Descends(f, e) /\ ~Claimable(f)
  BY <1>1 DEF Descends, Claimable
<1>5. Shrinks(r, Claimed(r, e))
  BY <1>1, <1>2, <1>4, ReplaceShrinks DEF Claimable
<1>6. \A q \in Questions : Offers(Claimed(r, e), q) \subseteq Offers(r, q) \ {e}
  BY <1>3, <1>4 DEF Offers
<1>7. UniqueIds(r) => \A g \in Claimed(r, e).entries : ~g.submitting => g.id # e.id
  BY <1>1, <1>3 DEF UniqueIds
<1> QED BY <1>5, <1>6, <1>7

LEMMA FinishShrinks ==
    ASSUME NEW r \in Registries, NEW id, NEW ok
    PROVE  Shrinks(r, Finished(r, id, ok))
<1> DEFINE own == {e \in r.entries : e.id = id}
           e == CHOOSE e \in own : TRUE
           f == [e EXCEPT !.answerable = FALSE, !.route = Observe, !.submitting = TRUE]
           less == [r EXCEPT !.entries = @ \ {e}]
<1>1. CASE own = {}
  BY <1>1, SubsetShrinks DEF Finished
<1>2. CASE own # {} /\ ok
  <2>1. e \in own
    BY <1>2
  <2> HIDE DEF e
  <2>2. e \in Entry /\ less \in Registries /\ less.entries \subseteq r.entries
    BY <2>1 DEF Registries
  <2> HIDE DEF less
  <2>3. e.at \in Times
    BY <2>2 DEF Entry
  <2>4. ClearThread(less, e.at) \in Registries /\ ClearThread(less, e.at).entries \subseteq less.entries
    BY <2>2, <2>3 DEF ClearThread, Registries
  <2>5. Finished(r, id, ok) = ClearThread(less, e.at)
    BY <1>2 DEF Finished, e, less
  <2> QED BY <2>2, <2>4, <2>5, SubsetShrinks
<1>3. CASE own # {} /\ ~ok
  <2>1. e \in own
    BY <1>3
  <2>2. Finished(r, id, ok) = [r EXCEPT !.entries = (@ \ {e}) \cup {f}]
    BY <1>3 DEF Finished
  <2> HIDE DEF e
  <2>3. e \in Entry /\ e \in r.entries
    BY <2>1 DEF Registries
  <2>4. f \in Entry /\ Descends(f, e) /\ ~Claimable(f) /\ ~f.answerable
    BY <2>3, ObserveRoute DEF Entry, Descends, Claimable
  <2> HIDE DEF f
  <2> QED BY <2>2, <2>3, <2>4, ReplaceShrinks
<1> QED BY <1>1, <1>2, <1>3

\* What an observation may do: an entry with a new identity, or a route for one that
\* had none.  Only the routes in new may be given by it.
Grows(r, s, new) ==
    /\ s \in Registries
    /\ UniqueIds(r) => UniqueIds(s)
    /\ \A f \in s.entries : \/ \E e \in r.entries : Descends(f, e)
                            \/ f.id # 0 /\ ~Used(r, f.id)
    /\ \A q \in Questions :
         /\ (\A route \in new : route.asks # q) => Offers(s, q) \subseteq Offers(r, q)
         /\ Offers(r, q) = {} => AtMostOne(Offers(s, q))
    /\ Routed(s) \subseteq Routed(r) \cup new

LEMMA ShrinkGrows ==
    ASSUME NEW r, NEW s, NEW new, Shrinks(r, s)
    PROVE  Grows(r, s, new)
BY DEF Shrinks, Grows, AtMostOne

\* An entry without a route offers no question.
LEMMA ObserveAsksNone == \A q \in Questions : Observe.asks # q
BY DEF Observe

\* What a batch offers.
Brings(batch) == IF batch.answerable THEN {batch.route} ELSE {}

LEMMA UpgradeGrows ==
    ASSUME NEW r \in Registries, NEW batch \in Entry, NEW old \in r.entries
    PROVE  Grows(r, [r EXCEPT !.entries = (@ \ {old}) \cup {Upgraded(old, batch)}], Brings(batch))
<1> DEFINE f == [old EXCEPT !.route = batch.route, !.answerable = TRUE]
<1>0. old \in Entry
  BY DEF Registries
<1>1. CASE Upgraded(old, batch) = old
  <2>1. Descends(old, old)
    BY DEF Descends
  <2> QED BY <1>0, <1>1, <2>1, ReplaceShrinks, ShrinkGrows
<1>2. CASE Upgraded(old, batch) # old
  <2>1. ~old.submitting /\ old.route = Observe /\ batch.answerable /\ Upgraded(old, batch) = f
    BY <1>2 DEF Upgraded
  <2>2. f \in Entry /\ f.id = old.id /\ f.route = batch.route
    BY <1>0 DEF Entry
  <2> HIDE DEF f
  <2> DEFINE s == [r EXCEPT !.entries = (@ \ {old}) \cup {f}]
  <2>3. s \in Registries /\ s.entries = (r.entries \ {old}) \cup {f}
    BY <2>2 DEF Registries
  <2> HIDE DEF s
  <2>4. UniqueIds(r) => UniqueIds(s)
    BY <2>2, <2>3 DEF UniqueIds
  <2>5. \A g \in s.entries : \E d \in r.entries : Descends(g, d)
    BY <2>1, <2>2, <2>3 DEF Descends
  <2>6. \A q \in Questions : Offers(s, q) \subseteq Offers(r, q) \cup (IF batch.route.asks = q THEN {f} ELSE {})
    BY <2>2, <2>3 DEF Offers
  <2>7. Routed(s) \subseteq Routed(r) \cup {batch.route}
    BY <2>2, <2>3 DEF Routed
  <2>8. Grows(r, s, Brings(batch))
    BY <2>1, <2>3, <2>4, <2>5, <2>6, <2>7 DEF Grows, AtMostOne, Brings
  <2> QED BY <2>1, <2>8 DEF s
<1> QED BY <1>1, <1>2

LEMMA AddGrows ==
    ASSUME NEW r \in Registries, NEW batch \in Entry, NEW i \in FreshIds(r)
    PROVE  Grows(r, [r EXCEPT !.entries = @ \cup {[batch EXCEPT !.id = i]}], Brings(batch))
<1> DEFINE f == [batch EXCEPT !.id = i]
           s == [r EXCEPT !.entries = @ \cup {f}]
<1>1. i \in Nat \ {0} /\ ~Used(r, i)
  BY FS_CardinalityType DEF FreshIds
<1>2. f \in Entry /\ f.id = i /\ f.route = batch.route /\ f.answerable = batch.answerable
  BY <1>1 DEF Entry
<1> HIDE DEF f
<1>3. s \in Registries /\ s.entries = r.entries \cup {f}
  BY <1>2 DEF Registries
<1> HIDE DEF s
<1>4. UniqueIds(r) => UniqueIds(s)
  BY <1>1, <1>2, <1>3 DEF UniqueIds, Used
<1>5. \A q \in Questions : Offers(s, q) \subseteq
        Offers(r, q) \cup (IF batch.answerable /\ batch.route.asks = q THEN {f} ELSE {})
  BY <1>2, <1>3 DEF Offers, Claimable
<1>6. \A g \in s.entries : (\E e \in r.entries : Descends(g, e)) \/ (g.id # 0 /\ ~Used(r, g.id))
  BY <1>1, <1>2, <1>3 DEF Descends
<1>7. Routed(s) \subseteq Routed(r) \cup Brings(batch)
  BY <1>2, <1>3 DEF Routed, Brings
<1>8. Grows(r, s, Brings(batch))
  BY <1>3, <1>4, <1>5, <1>6, <1>7 DEF Grows, AtMostOne, Brings
<1> QED BY <1>8 DEF s, f

LEMMA ObservedGrows ==
    ASSUME NEW r \in Registries, NEW batch \in Entry, NEW s \in Observed(r, batch)
    PROVE  Grows(r, s, Brings(batch))
<1>1. CASE s = r
  BY <1>1, SubsetShrinks, ShrinkGrows
<1>2. CASE \E old \in r.entries : s = [r EXCEPT !.entries = (@ \ {old}) \cup {Upgraded(old, batch)}]
  BY <1>2, UpgradeGrows
<1>3. CASE \E i \in FreshIds(r) : s = [r EXCEPT !.entries = @ \cup {[batch EXCEPT !.id = i]}]
  BY <1>3, AddGrows
<1> QED BY <1>1, <1>2, <1>3 DEF Observed

-----------------------------------------------------------------------------
(* Types *)

Turns ==
    [turn : 0 .. MaxTurns, running : BOOLEAN, since : Times,
     asked : [Questions -> {"new", "open", "closed"}]]

Polls == [read : Nat, at : Times, observed : Seq(Record), locked : BOOLEAN]

Attempts == [pc : {"idle", "send", "wait", "finish"}, ok : BOOLEAN, id : Nat, route : Routes]

Histories ==
    [answers : [Questions -> Nat], untold : SUBSET Questions, mishap : BOOLEAN,
     late : SUBSET Questions, displaced : SUBSET Questions]

Stamps == [{"request", "notice"} -> Times]

Typed ==
    /\ codex \in Turns /\ wire \in Seq(Message) /\ taken \in Stamps
    /\ transcript \in Seq(Record) /\ poll \in Polls /\ poll.read <= Len(transcript)
    /\ registry \in Registries /\ client \in [Clients -> Attempts] /\ toCodex \subseteq Answer
    /\ now \in Times \ {0} /\ history \in Histories

LEMMA TypesMean == QuestionTypeOK <=> Typed
<1>1. ASSUME transcript \in Seq(Record)
      PROVE  poll \in [read : 0 .. Len(transcript), at : Times, observed : Seq(Record), locked : BOOLEAN]
               <=> poll \in Polls /\ poll.read <= Len(transcript)
  <2>1. Len(transcript) \in Nat
    BY <1>1
  <2>2. \A n : n \in 0 .. Len(transcript) <=> n \in Nat /\ n <= Len(transcript)
    BY <2>1
  <2> QED BY <2>2 DEF Polls
<1> QED BY <1>1 DEF QuestionTypeOK, Typed, Turns, Attempts, Histories, Stamps, Registries

\* Codex tells of each request that is over.
LEMMA ResolutionsTell ==
    ASSUME codex.turn \in 0 .. MaxTurns, NEW qs \in SUBSET Questions
    PROVE  /\ Resolutions(qs) \in Seq(Message)
           /\ \A i \in DOMAIN Resolutions(qs) :
                Resolutions(qs)[i].kind = "resolved" /\ Resolutions(qs)[i].of \in qs
           /\ \A q \in qs \cap Requested : \E i \in DOMAIN Resolutions(qs) :
                Resolutions(qs)[i].kind = "resolved" /\ Resolutions(qs)[i].of = q
<1> DEFINE X == qs \cap Requested
           M == {Msg("resolved", q) : q \in X}
           f == [q \in X |-> Msg("resolved", q)]
<1>1. IsFiniteSet(X)
  BY FS_Subset
<1>2. f \in Surjection(X, M)
  BY DEF Surjection
<1>3. IsFiniteSet(M)
  BY <1>1, <1>2, FS_Surjection
<1>4. \A m \in M : m \in Message /\ m.kind = "resolved" /\ m.of \in qs
  BY DEF Msg, Message
<1>5. \A q \in X : Msg("resolved", q) \in M /\ Msg("resolved", q).of = q /\ Msg("resolved", q).kind = "resolved"
  BY DEF Msg
<1>6. Resolutions(qs) = SetToSeq(M)
  BY DEF Resolutions
<1> HIDE DEF M, X, f
<1>7. /\ SetToSeq(M) \in Seq(M)
      /\ \A x \in M : \E i \in DOMAIN SetToSeq(M) : SetToSeq(M)[i] = x
  BY <1>3, OrderOfSet
<1>8. \A i \in DOMAIN SetToSeq(M) : SetToSeq(M)[i] \in M
  BY <1>7
<1>9. SetToSeq(M) \in Seq(Message)
  BY <1>4, <1>7, <1>8, SeqDef
<1>10. \A q \in X : \E i \in DOMAIN SetToSeq(M) : SetToSeq(M)[i].kind = "resolved" /\ SetToSeq(M)[i].of = q
  BY <1>5, <1>7
<1> QED BY <1>4, <1>6, <1>8, <1>9, <1>10 DEF X

LEMMA OpenType == Open \in SUBSET Questions
BY DEF Open

LEMMA MessageType ==
    ASSUME codex.turn \in 0 .. MaxTurns
    PROVE  /\ \A q \in Requested : Msg("request", q) \in Message
           /\ \A q \in Questions \ Requested : Msg("asked", q) \in Message
           /\ \A kind \in {"said", "started", "completed"} : Msg(kind, 0) \in Message
BY DEF Msg, Message

LEMMA RecordType ==
    ASSUME now \in Times
    PROVE  /\ \A q \in Questions : Rec("question", q) \in Record
           /\ \A kind \in {"user", "ended"} : Rec(kind, 0) \in Record
BY DEF Rec, Record

LEMMA LiveType ==
    ASSUME NEW q \in Questions, NEW at \in Times, NEW route \in Routes
    PROVE  Live(q, at, route) \in Entry
BY DEF Live, Entry

LEMMA EchoType ==
    ASSUME NEW q \in Questions, NEW at \in Times
    PROVE  Echo(q, at) \in Entry /\ ~Echo(q, at).answerable
BY ObserveRoute DEF Echo, Entry

LEMMA ExceptedType ==
    ASSUME history \in Histories, NEW q \in Questions, NEW batch
    PROVE  LET h == Excepted(q, batch)
           IN  /\ h \in Histories
               /\ h.answers = history.answers /\ h.untold = history.untold /\ h.late = history.late
               /\ h.mishap = (history.mishap \/ Refused(registry, batch))
               /\ h.displaced = IF Usurped(registry, batch) THEN history.displaced \cup {q} ELSE history.displaced
<1> DEFINE more == history.mishap \/ Refused(registry, batch)
           apart == IF Usurped(registry, batch) THEN history.displaced \cup {q} ELSE history.displaced
<1>1. more \in BOOLEAN /\ apart \in SUBSET Questions
  BY DEF Histories
<1>2. Excepted(q, batch) = [history EXCEPT !.mishap = more, !.displaced = apart]
  BY DEF Excepted
<1> HIDE DEF more, apart
<1>3. LET h == [history EXCEPT !.mishap = more, !.displaced = apart]
      IN  /\ h \in Histories
          /\ h.answers = history.answers /\ h.untold = history.untold /\ h.late = history.late
          /\ h.mishap = more /\ h.displaced = apart
  BY <1>1 DEF Histories
<1> QED BY <1>2, <1>3 DEF more, apart

\* What the handlers find on the wire.
LEMMA FirstRequest ==
    ASSUME Typed, NEW i \in FirstFor("request")
    PROVE  /\ i \in DOMAIN wire
           /\ wire[i].kind = "request" /\ wire[i].of \in Requested
           /\ Rpc(wire[i].of) \in Routes /\ Rpc(wire[i].of).asks = wire[i].of
<1>1. i \in DOMAIN wire /\ wire[i].kind = "request" /\ wire[i] \in Message
  BY DEF FirstFor, HandledBy, Typed
<1>2. wire[i].of \in Requested
  BY <1>1 DEF Message
<1> QED BY <1>1, <1>2, RpcRoute

LEMMA FirstNotice ==
    ASSUME Typed, NEW i \in FirstFor("notice")
    PROVE  /\ i \in DOMAIN wire /\ wire[i] \in Message
           /\ wire[i].kind \in {"asked", "said", "resolved", "started", "completed"}
           /\ \A j \in 1 .. i - 1 : wire[j].kind = "request"
           /\ wire[i].kind = "asked" =>
                /\ wire[i].of \in Questions \ Requested
                /\ Steer(wire[i].turn, wire[i].of) \in Routes
                /\ Steer(wire[i].turn, wire[i].of).asks = wire[i].of
<1>1. /\ i \in DOMAIN wire /\ wire[i].kind \in {"asked", "said", "resolved", "started", "completed"}
      /\ wire[i] \in Message
  BY DEF FirstFor, HandledBy, Typed
<1>2. \A j \in 1 .. i - 1 : wire[j].kind = "request"
  <2>1. i \in 1 .. Len(wire) /\ Len(wire) \in Nat
    BY <1>1 DEF Typed
  <2>2. \A j \in 1 .. i - 1 : wire[j].kind \notin {"asked", "said", "resolved", "started", "completed"}
    BY DEF FirstFor, HandledBy
  <2>3. \A j \in 1 .. i - 1 : j \in DOMAIN wire /\ wire[j] \in Message
    BY <2>1 DEF Typed
  <2> QED BY <2>2, <2>3 DEF Message
<1>3. wire[i].kind = "asked" => wire[i].of \in Questions \ Requested /\ wire[i].turn \in 0 .. MaxTurns
  BY <1>1 DEF Message
<1> QED BY <1>1, <1>2, <1>3, SteerRoute

\* What is remembered of a message that was handled.
LEMMA RequestRemembers ==
    ASSUME Typed, NEW i \in FirstFor("request"), HandleRequest(i)
    PROVE  LET q == wire[i].of
               batch == Live(q, taken["request"], Rpc(q))
           IN  /\ history'.answers = history.answers /\ history'.untold = history.untold
               /\ history'.late = IF q \notin Open /\ ~EndOnWire(q) THEN history.late \cup {q} ELSE history.late
               /\ history'.mishap = (history.mishap \/ Refused(registry, batch))
               /\ history'.displaced = IF Usurped(registry, batch) THEN history.displaced \cup {q}
                                                                   ELSE history.displaced
<1> DEFINE q == wire[i].of
           batch == Live(q, taken["request"], Rpc(q))
           late == IF q \notin Open /\ ~EndOnWire(q) THEN history.late \cup {q} ELSE history.late
           h == Excepted(q, batch)
<1>1. /\ h \in Histories
      /\ h.answers = history.answers /\ h.untold = history.untold /\ h.late = history.late
      /\ h.mishap = (history.mishap \/ Refused(registry, batch))
      /\ h.displaced = IF Usurped(registry, batch) THEN history.displaced \cup {q} ELSE history.displaced
  <2>1. q \in Questions
    BY FirstRequest
  <2> QED BY <2>1, ExceptedType DEF Typed
<1>2. history' = [h EXCEPT !.late = IF q \notin Open /\ ~EndOnWire(q) THEN @ \cup {q} ELSE @]
  BY DEF HandleRequest
<1> HIDE DEF h
<1>3. /\ history'.answers = h.answers /\ history'.untold = h.untold /\ history'.mishap = h.mishap
      /\ history'.displaced = h.displaced
      /\ history'.late = IF q \notin Open /\ ~EndOnWire(q) THEN h.late \cup {q} ELSE h.late
  BY <1>1, <1>2 DEF Histories
<1> QED BY <1>1, <1>3

LEMMA NoticeRemembers ==
    ASSUME Typed, NEW i \in FirstFor("notice"), HandleNotice(i)
    PROVE  LET m == wire[i]
               batch == Live(m.of, taken["notice"], Steer(m.turn, m.of))
           IN  /\ history'.answers = history.answers /\ history'.untold = history.untold
               /\ history'.late = history.late
               /\ history'.mishap = (history.mishap \/ (m.kind = "asked" /\ Refused(registry, batch)))
               /\ history'.displaced = IF m.kind = "asked" /\ Usurped(registry, batch)
                                       THEN history.displaced \cup {m.of} ELSE history.displaced
<1> DEFINE m == wire[i]
           batch == Live(m.of, taken["notice"], Steer(m.turn, m.of))
<1>0. history \in Histories /\ history.mishap \in BOOLEAN
  BY DEF Typed, Histories
<1>1. CASE m.kind = "asked"
  <2>1. m.of \in Questions /\ history' = Excepted(m.of, batch)
    BY <1>1, FirstNotice DEF HandleNotice
  <2> QED BY <1>0, <1>1, <2>1, ExceptedType
<1>2. CASE m.kind # "asked"
  <2>1. UNCHANGED history
    BY <1>2 DEF HandleNotice
  <2> QED BY <1>0, <1>2, <2>1
<1> QED BY <1>1, <1>2

LEMMA AppliedGrows ==
    ASSUME Typed, poll.observed # <<>>, NEW ends \in BOOLEAN,
           NEW s \in Applied(registry, Head(poll.observed), ends)
    PROVE  Grows(registry, s, {})
<1> DEFINE rec == Head(poll.observed)
<1>1. registry \in Registries
  BY DEF Typed
<1>2. rec \in Record
  BY DEF Typed, Polls
<1>3. rec.at \in Times /\ (rec.kind = "question" => rec.of \in Questions)
  BY <1>2 DEF Record
<1> HIDE DEF rec
<1>4. CASE s = registry
  BY <1>1, <1>4, SubsetShrinks, ShrinkGrows
<1>5. CASE rec.kind = "question" /\ s \in Observed(registry, Echo(rec.of, rec.at))
  <2>1. Echo(rec.of, rec.at) \in Entry /\ Brings(Echo(rec.of, rec.at)) = {}
    BY <1>3, <1>5, EchoType DEF Brings
  <2> QED BY <1>1, <1>5, <2>1, ObservedGrows
<1>6. CASE s = ClearThread(registry, rec.at)
  BY <1>1, <1>3, <1>6, ClearShrinks, ShrinkGrows
<1> QED BY <1>4, <1>5, <1>6 DEF Applied, rec

LEMMA IdleAttempt == Idle \in Attempts
BY ObserveRoute DEF Idle, Attempts

LEMMA InitTypes == QuestionInit => QuestionTypeOK
<1> SUFFICES ASSUME QuestionInit PROVE Typed
  BY TypesMean
<1>1. codex \in Turns
  <2>1. PICK t \in {0, 1} : codex = [turn |-> t, running |-> t = 1, since |-> 0, asked |-> [q \in Questions |-> "new"]]
    BY DEF QuestionInit
  <2>2. t \in 0 .. MaxTurns /\ 0 \in Times /\ (t = 1) \in BOOLEAN
    BY DEF Times
  <2>3. [q \in Questions |-> "new"] \in [Questions -> {"new", "open", "closed"}]
    OBVIOUS
  <2> QED BY <2>1, <2>2, <2>3 DEF Turns
<1>2. 0 \in Times /\ 1 \in Times \ {0}
  BY DEF Times
<1>3. taken \in Stamps /\ poll \in Polls /\ poll.read <= Len(transcript)
  BY <1>2 DEF QuestionInit, Stamps, Polls
<1>4. registry \in Registries
  BY <1>2 DEF QuestionInit, Registries
<1>5. client \in [Clients -> Attempts]
  BY IdleAttempt DEF QuestionInit
<1>6. history \in Histories
  BY DEF QuestionInit, Histories
<1> QED BY <1>1, <1>2, <1>3, <1>4, <1>5, <1>6 DEF QuestionInit, Typed

\* What Codex writes.
LEMMA SaidTypes ==
    ASSUME Typed, Said
    PROVE  /\ codex' \in Turns /\ wire' \in Seq(Message) /\ transcript' \in Seq(Record)
           /\ poll.read <= Len(transcript')
<1>1. CloseAll \in [Questions -> {"new", "open", "closed"}] /\ codex.turn \in 0 .. MaxTurns
  BY DEF CloseAll, Typed, Turns
<1>2. codex' \in Turns
  BY <1>1 DEF Said, Typed, Turns
<1>3. Append(wire, Msg("said", 0)) \in Seq(Message)
  BY <1>1, MessageType DEF Typed
<1>4. Resolutions(Open) \in Seq(Message)
  BY <1>1, ResolutionsTell, OpenType
<1>5. wire' \in Seq(Message)
  BY <1>3, <1>4, ConcatProperties DEF Said
<1>6. transcript' = Append(transcript, Rec("user", 0)) /\ Rec("user", 0) \in Record
  BY RecordType DEF Said, Typed
<1>7. transcript' \in Seq(Record) /\ poll.read <= Len(transcript')
  BY <1>6 DEF Typed, Polls
<1> QED BY <1>2, <1>5, <1>7

\* Steps of Codex keep the types.
LEMMA CodexTypes ==
    ASSUME Typed, CodexStep
    PROVE  Typed'
<1>0. /\ CloseAll \in [Questions -> {"new", "open", "closed"}]
      /\ codex.turn \in 0 .. MaxTurns /\ now \in Times /\ poll.read \in Nat
      /\ transcript \in Seq(Record) /\ poll.read <= Len(transcript) /\ wire \in Seq(Message)
  BY DEF CloseAll, Typed, Turns, Polls
<1>1. ASSUME NEW rec \in Record, transcript' = Append(transcript, rec)
      PROVE  transcript' \in Seq(Record) /\ poll.read <= Len(transcript')
  BY <1>0, <1>1
<1>2. CASE StartTurn
  <2>1. codex' \in Turns
    <3>1. MaxTurns \in Nat /\ codex.turn < MaxTurns /\ codex.turn + 1 \in 0 .. MaxTurns
      BY <1>0, <1>2 DEF StartTurn
    <3> QED BY <1>0, <1>2, <3>1 DEF StartTurn, Typed, Turns
  <2>2. wire' \in Seq(Message)
    BY <1>0, <1>2, MessageType DEF StartTurn
  <2>3. transcript' \in Seq(Record) /\ poll.read <= Len(transcript')
    BY <1>0, <1>1, <1>2, RecordType DEF StartTurn
  <2> QED BY <1>2, <2>1, <2>2, <2>3 DEF StartTurn, Typed
<1>3. ASSUME NEW q \in Questions, Ask(q)
      PROVE  Typed'
  <2>1. Msg(IF q \in Requested THEN "request" ELSE "asked", q) \in Message
    BY <1>0, MessageType
  <2>2. codex' \in Turns
    BY <1>3 DEF Ask, Typed, Turns
  <2>3. wire' \in Seq(Message)
    BY <1>0, <1>3, <2>1 DEF Ask
  <2>4. transcript' \in Seq(Record) /\ poll.read <= Len(transcript')
    BY <1>0, <1>1, <1>3, RecordType DEF Ask
  <2> QED BY <1>3, <2>2, <2>3, <2>4 DEF Ask, Typed
<1>4. ASSUME NEW q \in Questions, AnswerInCodex(q)
      PROVE  Typed'
  <2>1. Resolutions({q}) \in Seq(Message)
    BY <1>0, ResolutionsTell
  <2>2. wire' \in Seq(Message)
    BY <1>0, <1>4, <2>1, ConcatProperties DEF AnswerInCodex
  <2>3. codex' \in Turns
    BY <1>4 DEF AnswerInCodex, Typed, Turns
  <2> QED BY <1>4, <2>2, <2>3 DEF AnswerInCodex, Typed
<1>5. CASE SayInCodex
  <2>1. Said /\ UNCHANGED <<taken, poll, registry, client, toCodex, now, history>>
    BY <1>5 DEF SayInCodex
  <2> QED BY <2>1, SaidTypes DEF Typed
<1>6. CASE FinishTurn
  <2>1. codex' \in Turns
    BY <1>0, <1>6 DEF FinishTurn, Typed, Turns
  <2>2. wire' \in Seq(Message)
    BY <1>0, <1>6, MessageType DEF FinishTurn
  <2>3. transcript' \in Seq(Record) /\ poll.read <= Len(transcript')
    BY <1>0, <1>1, <1>6, RecordType DEF FinishTurn
  <2> QED BY <1>6, <2>1, <2>2, <2>3 DEF FinishTurn, Typed
<1>7. ASSUME NEW q, Answered(q)
      PROVE  history' \in Histories
  <2>1. [history.answers EXCEPT ![q] = @ + 1] \in [Questions -> Nat]
    <3>1. history.answers \in [Questions -> Nat]
      BY DEF Typed, Histories
    <3>2. CASE q \in Questions
      BY <3>1, <3>2
    <3>3. CASE q \notin Questions
      BY <3>1, <3>3
    <3> QED BY <3>2, <3>3
  <2>2. history' = [history EXCEPT !.answers = [history.answers EXCEPT ![q] = @ + 1]]
    BY <1>7 DEF Answered
  <2> QED BY <2>1, <2>2 DEF Typed, Histories
<1>8. ASSUME NEW m \in toCodex, TakeAnswer(m)
      PROVE  Typed'
  <2>0. UNCHANGED <<taken, poll, registry, now>> /\ toCodex' \subseteq toCodex
    BY <1>8 DEF TakeAnswer
  <2>1. CASE TakeReply(m)
    <3>0. UNCHANGED <<transcript, client>>
      BY <2>1 DEF TakeReply
    <3>1. CASE m.route.of \in Open
      <4>1. /\ codex' = [codex EXCEPT !.asked[m.route.of] = "closed"]
            /\ wire' = wire \o Resolutions({m.route.of})
            /\ Answered(m.route.of)
        BY <2>1, <3>1 DEF TakeReply
      <4>2. {m.route.of} \in SUBSET Questions
        BY <3>1, OpenType
      <4>3. Resolutions({m.route.of}) \in Seq(Message)
        BY <1>0, <4>2, ResolutionsTell
      <4>4. wire' \in Seq(Message)
        BY <1>0, <4>1, <4>3, ConcatProperties
      <4>5. codex' \in Turns
        BY <4>1 DEF Typed, Turns
      <4> QED BY <1>7, <2>0, <3>0, <4>1, <4>4, <4>5 DEF Typed
    <3>2. CASE m.route.of \notin Open
      BY <2>0, <2>1, <3>0, <3>2 DEF TakeReply, Typed
    <3> QED BY <3>1, <3>2
  <2>2. CASE TakeSteer(m)
    <3> DEFINE fits == codex.running /\ codex.turn = m.route.of
    <3>1. client' \in [Clients -> Attempts]
      <4>1. client' = [c \in Clients |->
               IF client[c].pc = "wait" /\ <<c, client[c].id>> \in m.client
               THEN [client[c] EXCEPT !.pc = "finish", !.ok = fits]
               ELSE client[c]]
        BY <2>2 DEF TakeSteer
      <4>2. fits \in BOOLEAN
        BY DEF Typed, Turns
      <4> HIDE DEF fits
      <4>3. \A a \in Attempts : [a EXCEPT !.pc = "finish", !.ok = fits] \in Attempts
        BY <4>2 DEF Attempts
      <4> QED BY <4>1, <4>3 DEF Typed
    <3>2. CASE fits
      <4>1. Said /\ Answered(m.route.asks)
        BY <2>2, <3>2 DEF TakeSteer
      <4> QED BY <1>7, <2>0, <3>1, <4>1, SaidTypes DEF Typed
    <3>3. CASE ~fits
      <4>1. UNCHANGED <<codex, wire, transcript, history>>
        BY <2>2, <3>3 DEF TakeSteer
      <4> QED BY <2>0, <3>1, <4>1 DEF Typed
    <3> QED BY <3>2, <3>3
  <2> QED BY <1>8, <2>1, <2>2 DEF TakeAnswer
<1> QED BY <1>2, <1>3, <1>4, <1>5, <1>6, <1>8 DEF CodexStep

\* Attempts of the clients.
LEMMA AttemptTypes ==
    ASSUME Typed, NEW c \in Clients
    PROVE  /\ \A e \in Entry : [pc |-> "send", ok |-> FALSE, id |-> e.id, route |-> e.route] \in Attempts
           /\ \A pc \in {"send", "wait", "finish"}, ok \in BOOLEAN :
                [client[c] EXCEPT !.pc = pc, !.ok = ok] \in Attempts
           /\ \A pc \in {"send", "wait", "finish"} : [client[c] EXCEPT !.pc = pc] \in Attempts
           /\ Reply(c) \in Answer
<1>1. client[c] \in Attempts
  BY DEF Typed
<1>2. Reply(c) \in Answer
  BY <1>1 DEF Reply, Answer, Attempts
<1> QED BY <1>1, <1>2 DEF Attempts, Entry

\* Steps of the handlers and of the poll.
LEMMA HandlerTypes ==
    ASSUME Typed,
           \/ \E t \in {"request", "notice"} : Take(t)
           \/ \E i \in FirstFor("request") : HandleRequest(i)
           \/ \E i \in FirstFor("notice") : HandleNotice(i)
           \/ \E start \in {0, poll.read} : PollRead(start)
           \/ PollApply
    PROVE  Typed'
<1>1. ASSUME NEW t \in {"request", "notice"}, Take(t)
      PROVE  Typed'
  <2>1. taken' \in Stamps
    BY <1>1 DEF Take, Typed, Stamps
  <2>2. history' \in Histories
    BY <1>1 DEF Take, Typed, Histories
  <2> QED BY <1>1, <2>1, <2>2 DEF Take, Typed
<1>2. ASSUME NEW t \in {"request", "notice"}, NEW i \in DOMAIN wire, Handled(t, i),
             registry' \in Registries, history' \in Histories
      PROVE  Typed'
  <2>1. taken' \in Stamps
    BY <1>2 DEF Handled, Typed, Stamps, Times
  <2>2. wire' \in Seq(Message)
    BY <1>2, RemovedAt DEF Handled, Typed
  <2> QED BY <1>2, <2>1, <2>2 DEF Handled, Typed
<1>3. \A t \in {"request", "notice"} : taken[t] \in Times
  BY DEF Typed, Stamps
<1>4. ASSUME NEW i \in FirstFor("request"), HandleRequest(i)
      PROVE  Typed'
  <2> DEFINE q == wire[i].of
             batch == Live(q, taken["request"], Rpc(q))
  <2>1. /\ Handled("request", i) /\ registry' \in Observed(registry, batch)
        /\ history' = [Excepted(q, batch) EXCEPT
               !.late = IF q \notin Open /\ ~EndOnWire(q) THEN @ \cup {q} ELSE @]
    BY <1>4 DEF HandleRequest
  <2>2. batch \in Entry /\ i \in DOMAIN wire /\ q \in Questions
    BY <1>3, FirstRequest, LiveType
  <2>3. registry' \in Registries
    BY <2>1, <2>2, ObservedGrows DEF Grows, Typed
  <2>4. Excepted(q, batch) \in Histories
    BY <2>2, ExceptedType DEF Typed
  <2>5. history' \in Histories
    BY <2>1, <2>2, <2>4 DEF Histories
  <2> QED BY <1>2, <2>1, <2>2, <2>3, <2>5
<1>5. ASSUME NEW i \in FirstFor("notice"), HandleNotice(i)
      PROVE  Typed'
  <2> DEFINE m == wire[i]
             at == taken["notice"]
             batch == Live(m.of, at, Steer(m.turn, m.of))
  <2>1. Handled("notice", i) /\ i \in DOMAIN wire
    BY <1>5, FirstNotice DEF HandleNotice
  <2>2. registry \in Registries /\ history \in Histories
    BY DEF Typed
  <2>3. registry' \in Registries /\ history' \in Histories
    <3>1. CASE /\ m.kind = "asked" /\ registry' \in Observed(registry, batch)
               /\ history' = Excepted(m.of, batch)
      <4>1. batch \in Entry /\ m.of \in Questions
        BY <1>3, <3>1, FirstNotice, LiveType
      <4>2. registry' \in Registries
        BY <2>2, <3>1, <4>1, ObservedGrows DEF Grows
      <4>3. history' \in Histories
        BY <3>1, <4>1, ExceptedType DEF Typed
      <4> QED BY <4>2, <4>3
    <3>2. CASE registry' = ClearThread(registry, at) /\ UNCHANGED history
      BY <1>3, <2>2, <3>2, ClearShrinks DEF Shrinks
    <3>3. CASE registry' = ResolveRpc(registry, m.of) /\ UNCHANGED history
      BY <2>2, <3>3, ResolveShrinks DEF Shrinks
    <3>4. CASE registry' = EndTurn(registry) /\ UNCHANGED history
      BY <2>2, <3>4, EndTurnShrinks DEF Shrinks
    <3> QED BY <1>5, <3>1, <3>2, <3>3, <3>4 DEF HandleNotice
  <2> QED BY <1>2, <2>1, <2>3
<1>6. ASSUME NEW start \in {0, poll.read}, PollRead(start)
      PROVE  Typed'
  <2>1. start \in Nat /\ Len(transcript) \in Nat /\ transcript \in Seq(Record)
    BY DEF Typed, Polls
  <2>2. \A i \in start + 1 .. Len(transcript) : transcript[i] \in Record
    BY <2>1
  <2>3. SubSeq(transcript, start + 1, Len(transcript)) \in Seq(Record)
    BY <2>1, <2>2, SubSeqProperties
  <2>4. now \in Times
    BY DEF Typed
  <2>5. poll' = [read |-> Len(transcript), at |-> now, locked |-> FALSE,
                 observed |-> SubSeq(transcript, start + 1, Len(transcript))]
    BY <1>6 DEF PollRead
  <2>6. poll' \in Polls /\ poll'.read <= Len(transcript)
    BY <2>1, <2>3, <2>4, <2>5 DEF Polls
  <2> QED BY <1>6, <2>6 DEF PollRead, Typed
<1>7. CASE PollApply
  <2>1. poll.observed # <<>> /\ poll.observed \in Seq(Record)
    BY <1>7 DEF PollApply, Typed, Polls
  <2>2. registry' \in Registries
    BY <1>7, AppliedGrows DEF PollApply, Grows
  <2>3. Tail(poll.observed) \in Seq(Record) /\ (Len(poll.observed) > 1) \in BOOLEAN
    BY <2>1
  <2>4. poll' \in Polls /\ poll'.read = poll.read
    <3> DEFINE more == Len(poll.observed) > 1
               at == IF more THEN poll.at ELSE 0
    <3>1. poll' = [poll EXCEPT !.observed = Tail(poll.observed), !.locked = more, !.at = at]
      BY <1>7 DEF PollApply
    <3>2. at \in Times /\ more \in BOOLEAN /\ poll \in Polls
      BY DEF Typed, Polls, Times
    <3> HIDE DEF more, at
    <3> QED BY <2>3, <3>1, <3>2 DEF Polls
  <2> QED BY <1>7, <2>2, <2>4 DEF PollApply, Typed
<1> QED BY <1>1, <1>4, <1>5, <1>6, <1>7

\* Steps of the clients, a snapshot and the clock.
LEMMA ClientTypes ==
    ASSUME Typed,
           \/ \E c \in Clients : (\E e \in registry.entries : Claim(c, e)) \/ Send(c) \/ SendFails(c)
                                   \/ GiveUp(c) \/ Finish(c)
           \/ Snapshot \/ Tick
    PROVE  Typed'
<1>0. registry \in Registries /\ client \in [Clients -> Attempts] /\ toCodex \subseteq Answer
  BY DEF Typed
<1>1. ASSUME NEW c \in Clients, NEW e \in registry.entries, Claim(c, e)
      PROVE  Typed'
  <2>1. Purged(registry) \in Registries /\ e \in Purged(registry).entries
    BY <1>0, <1>1, PurgeShrinks DEF Claim, Shrinks
  <2>2. registry' \in Registries
    BY <1>1, <2>1, ClaimShrinks DEF Claim, Shrinks
  <2>3. e \in Entry
    BY <1>0 DEF Registries
  <2>4. client' \in [Clients -> Attempts]
    BY <1>0, <1>1, <2>3, AttemptTypes DEF Claim
  <2> QED BY <1>1, <2>2, <2>4 DEF Claim, Typed
<1>2. ASSUME NEW c \in Clients, Send(c)
      PROVE  Typed'
  <2> DEFINE rpc == client[c].route.kind = "rpc"
  <2>1. client' = [client EXCEPT ![c] = [client[c] EXCEPT !.pc = IF rpc THEN "finish" ELSE "wait", !.ok = rpc]]
    BY <1>0, <1>2 DEF Send
  <2>2. rpc \in BOOLEAN
    OBVIOUS
  <2> HIDE DEF rpc
  <2>3. client' \in [Clients -> Attempts]
    BY <1>0, <2>1, <2>2, AttemptTypes
  <2>4. toCodex' \subseteq Answer
    BY <1>0, <1>2, AttemptTypes DEF Send
  <2> QED BY <1>2, <2>3, <2>4 DEF Send, Typed
<1>3. ASSUME NEW c \in Clients, SendFails(c)
      PROVE  Typed'
  <2>1. client' \in [Clients -> Attempts]
    <3>1. client' = [client EXCEPT ![c] = [client[c] EXCEPT !.pc = "finish"]]
      BY <1>0, <1>3 DEF SendFails
    <3> QED BY <1>0, <3>1, AttemptTypes
  <2>2. toCodex' \subseteq Answer
    <3>1. toCodex' = toCodex \/ toCodex' = toCodex \cup {Reply(c)}
      BY <1>3 DEF SendFails
    <3>2. Reply(c) \in Answer
      BY AttemptTypes
    <3> QED BY <1>0, <3>1, <3>2
  <2> QED BY <1>3, <2>1, <2>2 DEF SendFails, Typed
<1>4. ASSUME NEW c \in Clients, GiveUp(c)
      PROVE  Typed'
  <2>1. client' \in [Clients -> Attempts]
    BY <1>0, <1>4, AttemptTypes DEF GiveUp
  <2> QED BY <1>4, <2>1 DEF GiveUp, Typed
<1>5. ASSUME NEW c \in Clients, Finish(c)
      PROVE  Typed'
  <2>1. registry' \in Registries
    BY <1>0, <1>5, FinishShrinks DEF Finish, Shrinks
  <2>2. client' \in [Clients -> Attempts]
    BY <1>0, <1>5, IdleAttempt DEF Finish
  <2>3. history' \in Histories
    <3>1. client[c].route \in Routes
      BY <1>0 DEF Attempts
    <3>2. client[c].route.kind = "steer" => client[c].route.asks \in Questions
      BY <3>1, SteerAsks
    <3>3. PICK told \in SUBSET Questions : \E gone :
            history' = [history EXCEPT !.untold = @ \cup told, !.displaced = @ \cup (Open \cap gone)]
      BY <1>5, <3>2 DEF Finish
    <3>4. PICK gone :
            history' = [history EXCEPT !.untold = @ \cup told, !.displaced = @ \cup (Open \cap gone)]
      BY <3>3
    <3> QED BY <3>4, OpenType DEF Typed, Histories
  <2> QED BY <1>5, <2>1, <2>2, <2>3 DEF Finish, Typed
<1>6. CASE Snapshot
  BY <1>0, <1>6, PurgeShrinks DEF Snapshot, Shrinks, Typed
<1>7. CASE Tick
  BY <1>7 DEF Tick, Typed, Times
<1> QED BY <1>1, <1>2, <1>3, <1>4, <1>5, <1>6, <1>7

LEMMA TypesKept == Typed /\ [QuestionNext]_vars => Typed'
<1> SUFFICES ASSUME Typed, [QuestionNext]_vars PROVE Typed'
  OBVIOUS
<1>1. CASE UNCHANGED vars
  BY <1>1 DEF vars, Typed
<1>2. CASE QuestionNext
  BY <1>2, CodexTypes, HandlerTypes, ClientTypes DEF QuestionNext
<1> QED BY <1>1, <1>2

\* The variables have their types, whatever the handlers, the poll and the clients do.
THEOREM QuestionTypes == QuestionSpec => []QuestionTypeOK
<1>1. QuestionInit => Typed
  BY InitTypes, TypesMean
<1>2. Typed => QuestionTypeOK
  BY TypesMean
<1> QED BY <1>1, <1>2, TypesKept, PTL DEF QuestionSpec

-----------------------------------------------------------------------------
(* SentIsTaken: what a client is told *)

\* An identity belongs to one entry, and before that is claimed nobody else has it.
IdsFree ==
    /\ UniqueIds(registry)
    /\ \A e \in registry.entries : e.id # 0
    /\ \A e \in registry.entries : ~e.submitting =>
         \A c \in Clients : client[c].id # e.id /\ \A m \in toCodex : <<c, e.id>> \notin m.client

\* What Codex answers to an attempt is about the question of that attempt.
AnswersFit ==
    \A c \in Clients, m \in toCodex :
        client[c].pc # "idle" /\ <<c, client[c].id>> \in m.client => m.route = client[c].route

\* A message that counts as sent was taken.
SentWasTaken ==
    \A c \in Clients :
        /\ client[c].pc \in {"send", "wait"} => ~client[c].ok
        /\ client[c].pc = "finish" /\ client[c].ok /\ client[c].route.kind = "steer" =>
             history.answers[client[c].route.asks] > 0

\* Entries keep their identities, or get new ones, while nobody else gets one.
LEMMA GrowthKeepsIds ==
    ASSUME IdsFree, NEW s, NEW new, Grows(registry, s, new), registry' = s, UNCHANGED <<client, toCodex>>
    PROVE  IdsFree'
<1>1. UniqueIds(registry')
  BY DEF Grows, IdsFree
<1>2. ASSUME NEW f \in registry'.entries
      PROVE  /\ f.id # 0
             /\ ~f.submitting =>
                  \A c \in Clients : client[c].id # f.id /\ \A m \in toCodex : <<c, f.id>> \notin m.client
  <2>1. CASE \E e \in registry.entries : Descends(f, e)
    BY <2>1 DEF IdsFree, Descends
  <2>2. CASE f.id # 0 /\ ~Used(registry, f.id)
    BY <2>2 DEF Used
  <2> QED BY <2>1, <2>2 DEF Grows
<1> QED BY <1>1, <1>2 DEF IdsFree

\* Who has an identity already may use it.
LEMMA OthersKeepIds ==
    ASSUME IdsFree, UNCHANGED registry,
           \A c \in Clients : client'[c].id = client[c].id \/ client'[c].id = 0,
           \A m \in toCodex' : m \in toCodex \/ \A p \in m.client : \E c \in Clients : p = <<c, client[c].id>>
    PROVE  IdsFree'
<1>1. ASSUME NEW e \in registry.entries, ~e.submitting, NEW c \in Clients
      PROVE  client'[c].id # e.id /\ \A m \in toCodex' : <<c, e.id>> \notin m.client
  <2>1. client'[c].id # e.id
    BY <1>1 DEF IdsFree
  <2>2. ASSUME NEW m \in toCodex', <<c, e.id>> \in m.client
        PROVE  FALSE
    <3>1. CASE m \in toCodex
      BY <1>1, <2>2, <3>1 DEF IdsFree
    <3>2. CASE \E d \in Clients : <<c, e.id>> = <<d, client[d].id>>
      BY <1>1, <3>2 DEF IdsFree
    <3> QED BY <2>2, <3>1, <3>2
  <2> QED BY <2>1, <2>2
<1> QED BY <1>1 DEF IdsFree

\* What each handler may add to the registry.
LEMMA RequestGrows ==
    ASSUME Typed, NEW i \in FirstFor("request"), HandleRequest(i)
    PROVE  Grows(registry, registry', {Rpc(wire[i].of)})
<1> DEFINE batch == Live(wire[i].of, taken["request"], Rpc(wire[i].of))
<1>1. registry' \in Observed(registry, batch) /\ registry \in Registries /\ taken["request"] \in Times
  BY DEF HandleRequest, Typed, Stamps
<1>2. batch \in Entry /\ Brings(batch) \subseteq {Rpc(wire[i].of)}
  <2>1. Rpc(wire[i].of) \in Routes /\ wire[i].of \in Questions /\ Rpc(wire[i].of).asks = wire[i].of
    BY FirstRequest
  <2>2. batch.route = Rpc(wire[i].of)
    BY DEF Live
  <2> QED BY <1>1, <2>1, <2>2, LiveType DEF Brings
<1> HIDE DEF batch
<1>3. Grows(registry, registry', Brings(batch))
  BY <1>1, <1>2, ObservedGrows
<1> QED BY <1>2, <1>3 DEF Grows

LEMMA NoticeGrows ==
    ASSUME Typed, NEW i \in FirstFor("notice"), HandleNotice(i)
    PROVE  Grows(registry, registry',
                 IF wire[i].kind = "asked" THEN {Steer(wire[i].turn, wire[i].of)} ELSE {})
<1> DEFINE m == wire[i]
           at == taken["notice"]
           batch == Live(m.of, at, Steer(m.turn, m.of))
<1>0. registry \in Registries /\ at \in Times
  BY DEF Typed, Stamps
<1>1. CASE m.kind = "asked" /\ registry' \in Observed(registry, batch)
  <2>1. /\ Steer(m.turn, m.of) \in Routes /\ m.of \in Questions
        /\ Steer(m.turn, m.of).asks = m.of
    BY <1>1, FirstNotice
  <2>2. batch \in Entry /\ batch.route = Steer(m.turn, m.of)
    BY <1>0, <2>1, LiveType DEF Live
  <2>3. Grows(registry, registry', Brings(batch)) /\ Brings(batch) \subseteq {Steer(m.turn, m.of)}
    BY <1>0, <1>1, <2>1, <2>2, ObservedGrows DEF Brings
  <2> HIDE DEF batch
  <2> QED BY <1>1, <2>3 DEF Grows
<1>2. CASE registry' = ClearThread(registry, at)
  BY <1>0, <1>2, ClearShrinks, ShrinkGrows
<1>3. CASE registry' = ResolveRpc(registry, m.of)
  BY <1>0, <1>3, ResolveShrinks, ShrinkGrows
<1>4. CASE registry' = EndTurn(registry)
  BY <1>0, <1>4, EndTurnShrinks, ShrinkGrows
<1> QED BY <1>1, <1>2, <1>3, <1>4 DEF HandleNotice

LEMMA UnaskedGrows ==
    ASSUME Typed, PollApply \/ Snapshot
    PROVE  Grows(registry, registry', {})
<1>1. CASE PollApply
  BY <1>1, AppliedGrows DEF PollApply
<1>2. CASE Snapshot
  BY <1>2, PurgeShrinks, ShrinkGrows DEF Snapshot, Typed
<1> QED BY <1>1, <1>2

\* What a step does to the registry, the clients and their answers.
LEMMA Moves ==
    ASSUME Typed, [QuestionNext]_vars
    PROVE  \/ /\ UNCHANGED <<client, toCodex>> /\ \E new : Grows(registry, registry', new)
              /\ history'.untold = history.untold /\ history'.answers = history.answers
           \/ \E q \in Questions : AnswerInCodex(q)
           \/ StartTurn \/ (\E q \in Questions : Ask(q)) \/ SayInCodex \/ FinishTurn
           \/ \E m \in toCodex : TakeAnswer(m)
           \/ \E c \in Clients : \/ \E e \in registry.entries : Claim(c, e)
                                 \/ Send(c) \/ SendFails(c) \/ GiveUp(c) \/ Finish(c)
<1>0. registry \in Registries /\ history \in Histories
  BY DEF Typed
<1>1. \E new : Grows(registry, registry, new)
  BY <1>0, SubsetShrinks, ShrinkGrows
<1>2. CASE UNCHANGED vars \/ Tick \/ \E start \in {0, poll.read} : PollRead(start)
  BY <1>1, <1>2 DEF vars, Tick, PollRead
<1>3. CASE \E t \in {"request", "notice"} : Take(t)
  <2>1. UNCHANGED <<registry, client, toCodex>>
    BY <1>3 DEF Take
  <2>2. history'.untold = history.untold /\ history'.answers = history.answers
    BY <1>0, <1>3 DEF Take, Histories
  <2> QED BY <1>1, <2>1, <2>2
<1>4. ASSUME NEW i \in FirstFor("request"), HandleRequest(i)
      PROVE  /\ UNCHANGED <<client, toCodex>> /\ \E new : Grows(registry, registry', new)
             /\ history'.untold = history.untold /\ history'.answers = history.answers
  <2>1. history'.untold = history.untold /\ history'.answers = history.answers
    BY <1>4, RequestRemembers
  <2> QED BY <1>4, <2>1, RequestGrows DEF HandleRequest, Handled
<1>5. ASSUME NEW i \in FirstFor("notice"), HandleNotice(i)
      PROVE  /\ UNCHANGED <<client, toCodex>> /\ \E new : Grows(registry, registry', new)
             /\ history'.untold = history.untold /\ history'.answers = history.answers
  <2>1. history'.untold = history.untold /\ history'.answers = history.answers
    BY <1>5, NoticeRemembers
  <2> QED BY <1>5, <2>1, NoticeGrows DEF HandleNotice, Handled
<1>6. CASE PollApply \/ Snapshot
  <2>1. UNCHANGED <<client, toCodex, history>>
    BY <1>6 DEF PollApply, Snapshot
  <2> QED BY <1>6, <2>1, UnaskedGrows
<1> QED BY <1>2, <1>3, <1>4, <1>5, <1>6 DEF QuestionNext, CodexStep

\* Codex takes an answer: its client, if it still waits, learns of it.
LEMMA TakenAnswer ==
    ASSUME Typed, NEW m \in toCodex, TakeAnswer(m)
    PROVE  /\ UNCHANGED registry /\ toCodex' = toCodex \ {m}
           /\ client' \in [Clients -> Attempts]
           /\ history' \in Histories /\ history'.untold = history.untold
           /\ \A q \in Questions :
                \/ history'.answers[q] = history.answers[q]
                \/ q = m.route.asks /\ history'.answers[q] = history.answers[q] + 1
           /\ \A c \in Clients :
                /\ client'[c].id = client[c].id /\ client'[c].route = client[c].route
                /\ \/ client'[c] = client[c]
                   \/ /\ client[c].pc = "wait" /\ <<c, client[c].id>> \in m.client
                      /\ client'[c].pc = "finish"
                      /\ client'[c].ok => history'.answers[m.route.asks] = history.answers[m.route.asks] + 1
<1>0. /\ UNCHANGED registry /\ toCodex' = toCodex \ {m}
      /\ history \in Histories /\ client \in [Clients -> Attempts] /\ m.route \in Routes
  BY DEF TakeAnswer, Typed, Answer
<1>1. client' \in [Clients -> Attempts] /\ history' \in Histories
  BY CodexTypes DEF CodexStep, Typed
<1>2. ASSUME NEW p \in Questions, Answered(p)
      PROVE  /\ history'.untold = history.untold
             /\ history'.answers[p] = history.answers[p] + 1
             /\ \A q \in Questions \ {p} : history'.answers[q] = history.answers[q]
  BY <1>0, <1>2 DEF Answered, Histories
<1>3. CASE TakeReply(m)
  <2>1. UNCHANGED client /\ m.route.kind = "rpc" /\ m.route.of = m.route.asks /\ m.route.asks \in Questions
    BY <1>0, <1>3, SteerAsks DEF TakeReply
  <2>2. UNCHANGED history \/ Answered(m.route.asks)
    BY <1>3, <2>1 DEF TakeReply
  <2>3. CASE UNCHANGED history
    BY <1>0, <1>1, <2>1, <2>3
  <2>4. CASE Answered(m.route.asks)
    BY <1>0, <1>1, <1>2, <2>1, <2>4
  <2> QED BY <2>2, <2>3, <2>4
<1>4. CASE TakeSteer(m)
  <2> DEFINE fits == codex.running /\ codex.turn = m.route.of
  <2>1. m.route.asks \in Questions
    BY <1>0, <1>4, SteerAsks DEF TakeSteer
  <2>2. IF fits THEN Answered(m.route.asks) ELSE UNCHANGED history
    BY <1>4 DEF TakeSteer
  <2>3. client' = [c \in Clients |->
               IF client[c].pc = "wait" /\ <<c, client[c].id>> \in m.client
               THEN [client[c] EXCEPT !.pc = "finish", !.ok = fits]
               ELSE client[c]]
    BY <1>4 DEF TakeSteer
  <2> HIDE DEF fits
  <2>4. \A c \in Clients :
           /\ client'[c].id = client[c].id /\ client'[c].route = client[c].route
           /\ \/ client'[c] = client[c]
              \/ /\ client[c].pc = "wait" /\ <<c, client[c].id>> \in m.client
                 /\ client'[c].pc = "finish" /\ client'[c].ok = fits
    BY <1>0, <2>3 DEF Attempts
  <2>5. CASE fits
    BY <1>0, <1>1, <1>2, <2>1, <2>2, <2>4, <2>5
  <2>6. CASE ~fits
    BY <1>0, <1>1, <2>1, <2>2, <2>4, <2>6
  <2> QED BY <2>5, <2>6
<1> QED BY <1>3, <1>4 DEF TakeAnswer

\* What a step of a client does.
LEMMA ClaimMoves ==
    ASSUME Typed, NEW c \in Clients, NEW e \in registry.entries, Claim(c, e)
    PROVE  /\ client[c].pc = "idle" /\ Claimable(e) /\ e \in Entry
           /\ Shrinks(registry, registry')
           /\ \A q \in Questions : Offers(registry', q) \subseteq Offers(registry, q) \ {e}
           /\ UniqueIds(registry) => \A f \in registry'.entries : ~f.submitting => f.id # e.id
           /\ client' = [client EXCEPT ![c] = [pc |-> "send", ok |-> FALSE, id |-> e.id, route |-> e.route]]
           /\ UNCHANGED <<codex, wire, toCodex, history>>
<1> DEFINE r == Purged(registry)
<1>1. /\ registry \in Registries /\ Shrinks(registry, r) /\ r.entries \subseteq registry.entries
      /\ r \in Registries
  BY PurgeShrinks DEF Typed, Shrinks
<1>2. e \in r.entries /\ registry' = Claimed(r, e) /\ e \in Entry
  BY <1>1 DEF Claim, Registries
<1> HIDE DEF r
<1>3. /\ Shrinks(r, registry')
      /\ \A q \in Questions : Offers(registry', q) \subseteq Offers(r, q) \ {e}
      /\ UniqueIds(r) => \A f \in registry'.entries : ~f.submitting => f.id # e.id
  BY <1>1, <1>2, ClaimShrinks
<1>4. \A q \in Questions : Offers(r, q) \subseteq Offers(registry, q)
  BY <1>1 DEF Shrinks
<1>5. Shrinks(registry, registry')
  <2>1. \A f \in registry'.entries : \E d \in registry.entries : Descends(f, d)
    BY <1>1, <1>3 DEF Shrinks, Descends
  <2> QED BY <1>1, <1>3, <1>4, <2>1 DEF Shrinks
<1>6. \A q \in Questions : Offers(registry', q) \subseteq Offers(registry, q) \ {e}
  BY <1>3, <1>4
<1>7. UniqueIds(registry) => UniqueIds(r)
  BY <1>1 DEF Shrinks
<1> QED BY <1>2, <1>3, <1>5, <1>6, <1>7 DEF Claim

LEMMA SendMoves ==
    ASSUME Typed, NEW c \in Clients, Send(c) \/ SendFails(c) \/ GiveUp(c)
    PROVE  /\ UNCHANGED <<codex, wire, registry, history>>
           /\ client[c].pc \in {"send", "wait"}
           /\ \A d \in Clients \ {c} : client'[d] = client[d]
           /\ client'[c].id = client[c].id /\ client'[c].route = client[c].route
           /\ client'[c].pc \in {"wait", "finish"}
           /\ client'[c].ok => client[c].ok \/ client[c].route.kind = "rpc"
           /\ client'[c].pc = "wait" => ~client'[c].ok
           /\ \/ toCodex' = toCodex
              \/ client[c].pc = "send" /\ toCodex' = toCodex \cup {Reply(c)}
           /\ Reply(c).route = client[c].route /\ Reply(c).client \subseteq {<<c, client[c].id>>}
<1>1. client \in [Clients -> Attempts] /\ client[c] \in Attempts
  BY DEF Typed
<1>2. Reply(c).route = client[c].route /\ Reply(c).client \subseteq {<<c, client[c].id>>}
  BY DEF Reply
<1>3. CASE Send(c)
  <2> DEFINE rpc == client[c].route.kind = "rpc"
  <2>1. client' = [client EXCEPT ![c] = [client[c] EXCEPT !.pc = IF rpc THEN "finish" ELSE "wait", !.ok = rpc]]
    BY <1>1, <1>3 DEF Send
  <2>2. /\ client'[c].id = client[c].id /\ client'[c].route = client[c].route
        /\ client'[c].pc = (IF rpc THEN "finish" ELSE "wait") /\ client'[c].ok = rpc
        /\ \A d \in Clients \ {c} : client'[d] = client[d]
    BY <1>1, <2>1 DEF Attempts
  <2>3. /\ client[c].pc = "send" /\ toCodex' = toCodex \cup {Reply(c)}
        /\ UNCHANGED <<codex, wire, registry, history>>
    BY <1>3 DEF Send
  <2> HIDE DEF rpc
  <2>4. client'[c].pc \in {"wait", "finish"} /\ (client'[c].pc = "wait" => ~client'[c].ok)
    BY <2>2
  <2>5. client'[c].ok => client[c].route.kind = "rpc"
    BY <2>2 DEF rpc
  <2> QED BY <1>2, <2>2, <2>3, <2>4, <2>5
<1>4. CASE SendFails(c) \/ GiveUp(c)
  <2>1. client' = [client EXCEPT ![c] = [client[c] EXCEPT !.pc = "finish"]]
    BY <1>1, <1>4 DEF SendFails, GiveUp
  <2>2. /\ client'[c].id = client[c].id /\ client'[c].route = client[c].route
        /\ client'[c].pc = "finish" /\ client'[c].ok = client[c].ok
        /\ \A d \in Clients \ {c} : client'[d] = client[d]
    BY <1>1, <2>1 DEF Attempts
  <2>3. \/ toCodex' = toCodex
        \/ client[c].pc = "send" /\ toCodex' = toCodex \cup {Reply(c)}
    BY <1>4 DEF SendFails, GiveUp
  <2> QED BY <1>2, <1>4, <2>2, <2>3 DEF SendFails, GiveUp
<1> QED BY <1>3, <1>4

LEMMA FinishMoves ==
    ASSUME Typed, NEW c \in Clients, Finish(c)
    PROVE  /\ UNCHANGED <<codex, wire, toCodex>> /\ client[c].pc = "finish"
           /\ Shrinks(registry, registry')
           /\ client' = [client EXCEPT ![c] = Idle]
           /\ history'.answers = history.answers
           /\ history'.untold = history.untold \cup
                {q \in {client[c].route.asks} :
                    client[c].ok /\ client[c].route.kind = "steer" /\ history.answers[q] = 0}
<1>1. Shrinks(registry, registry')
  BY FinishShrinks DEF Finish, Typed
<1>2. history \in Histories
  BY DEF Typed
<1> QED BY <1>1, <1>2 DEF Finish, Histories

LEMMA CodexMoves ==
    ASSUME Typed,
           \/ \E q \in Questions : AnswerInCodex(q)
           \/ StartTurn \/ (\E q \in Questions : Ask(q)) \/ SayInCodex \/ FinishTurn
    PROVE  UNCHANGED <<registry, client, toCodex, history>>
BY DEF AnswerInCodex, StartTurn, Ask, SayInCodex, FinishTurn

LEMMA IdsKept ==
    ASSUME Typed, IdsFree, [QuestionNext]_vars
    PROVE  IdsFree'
<1>1. ASSUME UNCHANGED <<client, toCodex>>, NEW new, Grows(registry, registry', new)
      PROVE  IdsFree'
  BY <1>1, GrowthKeepsIds
<1>2. ASSUME UNCHANGED <<registry, client, toCodex>>
      PROVE  IdsFree'
  BY <1>2 DEF IdsFree
<1>3. ASSUME NEW m \in toCodex, TakeAnswer(m)
      PROVE  IdsFree'
  BY <1>3, TakenAnswer, OthersKeepIds
<1>4. ASSUME NEW c \in Clients, NEW e \in registry.entries, Claim(c, e)
      PROVE  IdsFree'
  <2>1. \A d \in Clients : client'[d].id = IF d = c THEN e.id ELSE client[d].id
    BY <1>4, ClaimMoves DEF Typed
  <2>2. \A f \in registry'.entries : f.id # 0
    BY <1>4, ClaimMoves DEF Shrinks, Descends, IdsFree
  <2>3. UniqueIds(registry') /\ toCodex' = toCodex
    BY <1>4, ClaimMoves DEF Shrinks, IdsFree
  <2>4. ASSUME NEW f \in registry'.entries, ~f.submitting, NEW d \in Clients
        PROVE  client'[d].id # f.id /\ \A m \in toCodex : <<d, f.id>> \notin m.client
    <3>1. PICK g \in registry.entries : Descends(f, g)
      BY <1>4, ClaimMoves DEF Shrinks
    <3>2. client[d].id # f.id /\ \A m \in toCodex : <<d, f.id>> \notin m.client
      BY <2>4, <3>1 DEF IdsFree, Descends
    <3>3. f.id # e.id
      BY <1>4, <2>4, ClaimMoves DEF IdsFree
    <3> QED BY <2>1, <3>2, <3>3
  <2> QED BY <2>2, <2>3, <2>4 DEF IdsFree
<1>5. ASSUME NEW c \in Clients, Send(c) \/ SendFails(c) \/ GiveUp(c)
      PROVE  IdsFree'
  <2>1. UNCHANGED registry /\ \A d \in Clients : client'[d].id = client[d].id
    BY <1>5, SendMoves
  <2>2. \A m \in toCodex' : m \in toCodex \/ \A p \in m.client : p = <<c, client[c].id>>
    BY <1>5, SendMoves
  <2> QED BY <2>1, <2>2, OthersKeepIds
<1>6. ASSUME NEW c \in Clients, Finish(c)
      PROVE  IdsFree'
  <2>1. \A d \in Clients : client'[d].id = IF d = c THEN 0 ELSE client[d].id
    BY <1>6, FinishMoves DEF Typed, Idle
  <2>2. UniqueIds(registry') /\ UNCHANGED toCodex
    BY <1>6, FinishMoves DEF Shrinks, IdsFree
  <2>3. ASSUME NEW f \in registry'.entries
        PROVE  /\ f.id # 0
               /\ ~f.submitting => \A d \in Clients : client'[d].id # f.id /\ \A m \in toCodex : <<d, f.id>> \notin m.client
    <3>1. PICK g \in registry.entries : Descends(f, g)
      BY <1>6, FinishMoves DEF Shrinks
    <3> QED BY <2>1, <3>1 DEF IdsFree, Descends
  <2> QED BY <2>2, <2>3 DEF IdsFree
<1> QED BY <1>1, <1>2, <1>3, <1>4, <1>5, <1>6, Moves, CodexMoves

LEMMA FitKept ==
    ASSUME Typed, IdsFree, AnswersFit, [QuestionNext]_vars
    PROVE  AnswersFit'
<1>1. CASE UNCHANGED <<client, toCodex>>
  BY <1>1 DEF AnswersFit
<1>2. ASSUME NEW m \in toCodex, TakeAnswer(m)
      PROVE  AnswersFit'
  <2>1. toCodex' \subseteq toCodex
    BY <1>2, TakenAnswer
  <2>2. \A c \in Clients : /\ client'[c].id = client[c].id /\ client'[c].route = client[c].route
                           /\ client'[c].pc # "idle" => client[c].pc # "idle"
    BY <1>2, TakenAnswer
  <2>3. ASSUME NEW c \in Clients, NEW n \in toCodex', client'[c].pc # "idle", <<c, client'[c].id>> \in n.client
        PROVE  n.route = client'[c].route
    <3>1. n \in toCodex /\ client[c].pc # "idle" /\ <<c, client[c].id>> \in n.client
      BY <2>1, <2>2, <2>3
    <3> QED BY <2>2, <3>1 DEF AnswersFit
  <2> QED BY <2>3 DEF AnswersFit
<1>3. ASSUME NEW c \in Clients, NEW e \in registry.entries, Claim(c, e)
      PROVE  AnswersFit'
  <2>1. /\ ~e.submitting /\ toCodex' = toCodex
        /\ \A d \in Clients : d # c => client'[d] = client[d]
        /\ client'[c].id = e.id
    BY <1>3, ClaimMoves DEF Typed, Claimable
  <2>2. \A m \in toCodex : <<c, e.id>> \notin m.client
    BY <2>1 DEF IdsFree
  <2> QED BY <2>1, <2>2 DEF AnswersFit
<1>4. ASSUME NEW c \in Clients, Send(c) \/ SendFails(c) \/ GiveUp(c)
      PROVE  AnswersFit'
  <2>1. \A d \in Clients : client'[d].id = client[d].id /\ client'[d].route = client[d].route
    BY <1>4, SendMoves
  <2>2. \A d \in Clients : client'[d].pc # "idle" => client[d].pc # "idle"
    BY <1>4, SendMoves
  <2>3. \A m \in toCodex' : m \in toCodex \/ m = Reply(c)
    BY <1>4, SendMoves
  <2>4. \A d \in Clients : <<d, client[d].id>> \in Reply(c).client => client[d].route = Reply(c).route
    BY <1>4, SendMoves
  <2> QED BY <2>1, <2>2, <2>3, <2>4 DEF AnswersFit
<1>5. ASSUME NEW c \in Clients, Finish(c)
      PROVE  AnswersFit'
  <2>1. toCodex' = toCodex /\ client'[c].pc = "idle" /\ \A d \in Clients : d # c => client'[d] = client[d]
    BY <1>5, FinishMoves DEF Typed, Idle
  <2> QED BY <2>1 DEF AnswersFit
<1> QED BY <1>1, <1>2, <1>3, <1>4, <1>5, Moves, CodexMoves

LEMMA SentKept ==
    ASSUME Typed, AnswersFit, SentWasTaken, [QuestionNext]_vars
    PROVE  SentWasTaken'
<1>0. \A q \in Questions : history.answers[q] \in Nat
  BY DEF Typed, Histories
<1>1. ASSUME UNCHANGED client, history'.answers = history.answers
      PROVE  SentWasTaken'
  BY <1>1 DEF SentWasTaken
<1>2. ASSUME NEW m \in toCodex, TakeAnswer(m)
      PROVE  SentWasTaken'
  <2>1. ASSUME NEW c \in Clients, client'[c] = client[c],
               client[c].pc = "finish", client[c].ok, client[c].route.kind = "steer"
        PROVE  history'.answers[client[c].route.asks] > 0
    <3>1. client[c].route.asks \in Questions
      BY <2>1, SteerAsks DEF Typed, Attempts
    <3>2. history.answers[client[c].route.asks] > 0
      BY <2>1 DEF SentWasTaken
    <3>3. \A q \in Questions :
             history'.answers[q] = history.answers[q] \/ history'.answers[q] = history.answers[q] + 1
      BY <1>2, TakenAnswer
    <3>4. \A n \in Nat : n > 0 => n + 1 > 0
      OBVIOUS
    <3> QED BY <1>0, <3>1, <3>2, <3>3, <3>4
  <2>2. ASSUME NEW c \in Clients, client'[c] # client[c], client[c].route.kind = "steer", client'[c].ok
        PROVE  client'[c].pc = "finish" /\ history'.answers[client[c].route.asks] > 0
    <3>1. /\ client[c].pc = "wait" /\ <<c, client[c].id>> \in m.client
          /\ client'[c].pc = "finish"
          /\ history'.answers[m.route.asks] = history.answers[m.route.asks] + 1
      BY <1>2, <2>2, TakenAnswer
    <3>2. m.route = client[c].route
      BY <3>1 DEF AnswersFit
    <3>3. client[c].route.asks \in Questions
      BY <2>2, SteerAsks DEF Typed, Attempts
    <3>4. \A n \in Nat : n + 1 > 0
      OBVIOUS
    <3> QED BY <1>0, <3>1, <3>2, <3>3, <3>4
  <2>3. \A c \in Clients : client'[c].pc \in {"send", "wait"} => client'[c] = client[c]
    BY <1>2, TakenAnswer
  <2>4. \A c \in Clients : client'[c].route = client[c].route
    BY <1>2, TakenAnswer
  <2> QED BY <2>1, <2>2, <2>3, <2>4 DEF SentWasTaken
<1>3. ASSUME NEW c \in Clients, NEW e \in registry.entries, Claim(c, e)
      PROVE  SentWasTaken'
  <2>1. /\ client'[c].pc = "send" /\ ~client'[c].ok /\ UNCHANGED history
        /\ \A d \in Clients : d # c => client'[d] = client[d]
    BY <1>3, ClaimMoves DEF Typed
  <2> QED BY <2>1 DEF SentWasTaken
<1>4. ASSUME NEW c \in Clients, Send(c) \/ SendFails(c) \/ GiveUp(c)
      PROVE  SentWasTaken'
  <2>1. ~client[c].ok /\ UNCHANGED history /\ \A d \in Clients \ {c} : client'[d] = client[d]
    BY <1>4, SendMoves DEF SentWasTaken
  <2>2. /\ client'[c].route = client[c].route
        /\ client'[c].ok => client[c].route.kind = "rpc"
        /\ client'[c].pc \in {"wait", "finish"}
        /\ client'[c].pc = "wait" => ~client'[c].ok
    BY <1>4, <2>1, SendMoves
  <2>3. ASSUME NEW d \in Clients
        PROVE  /\ client'[d].pc \in {"send", "wait"} => ~client'[d].ok
               /\ client'[d].pc = "finish" /\ client'[d].ok /\ client'[d].route.kind = "steer" =>
                    history'.answers[client'[d].route.asks] > 0
    <3>1. CASE d = c
      <4>1. client'[c].pc # "send"
        BY <2>2
      <4>2. client'[c].ok /\ client'[c].route.kind = "steer" => FALSE
        BY <2>2
      <4> QED BY <2>2, <3>1, <4>1, <4>2
    <3>2. CASE d # c
      <4>1. client'[d] = client[d] /\ history' = history
        BY <2>1, <3>2
      <4> QED BY <4>1 DEF SentWasTaken
    <3> QED BY <3>1, <3>2
  <2> QED BY <2>3 DEF SentWasTaken
<1>5. ASSUME NEW c \in Clients, Finish(c)
      PROVE  SentWasTaken'
  <2>1. /\ history'.answers = history.answers /\ client'[c].pc = "idle"
        /\ \A d \in Clients : d # c => client'[d] = client[d]
    BY <1>5, FinishMoves DEF Typed, Idle
  <2> QED BY <2>1 DEF SentWasTaken
<1> QED BY <1>1, <1>2, <1>3, <1>4, <1>5, Moves, CodexMoves

LEMMA ToldKept ==
    ASSUME Typed, SentWasTaken, SentIsTaken, [QuestionNext]_vars
    PROVE  SentIsTaken'
<1>1. CASE history'.untold = history.untold
  BY <1>1 DEF SentIsTaken
<1>2. ASSUME NEW c \in Clients, Finish(c)
      PROVE  SentIsTaken'
  BY <1>2, FinishMoves DEF SentIsTaken, SentWasTaken
<1> QED BY <1>1, <1>2, Moves, CodexMoves, TakenAnswer, ClaimMoves, SendMoves

\* A client that is told that its message was sent told it to Codex.  The response is
\* matched with the attempt by an identity that nobody else has.
THEOREM QuestionSent == QuestionSpec => []SentIsTaken
<1> DEFINE Inv == Typed /\ IdsFree /\ AnswersFit /\ SentWasTaken /\ SentIsTaken
<1>1. QuestionInit => Inv
  <2> SUFFICES ASSUME QuestionInit PROVE Inv
    OBVIOUS
  <2>1. Typed
    BY InitTypes, TypesMean
  <2>2. /\ registry.entries = {} /\ toCodex = {} /\ history.untold = {}
        /\ \A c \in Clients : client[c].pc = "idle"
    BY DEF QuestionInit, Idle
  <2> QED BY <2>1, <2>2 DEF IdsFree, UniqueIds, AnswersFit, SentWasTaken, SentIsTaken
<1>2. Inv /\ [QuestionNext]_vars => Inv'
  BY TypesKept, IdsKept, FitKept, SentKept, ToldKept
<1> QED BY <1>1, <1>2, PTL DEF QuestionSpec

-----------------------------------------------------------------------------
(* AnsweredOnce: where a question can be *)

\* Clients that have yet to send an answer to q, and answers to it on their way.
Senders(cl, q) == {c \in Clients : cl[c].pc = "send" /\ cl[c].route.asks = q}
Sent(ms, q) == {m \in ms : m.route.asks = q}

New(q) == codex.asked[q] = "new"

\* What a question has not come to yet.
Unanswered(q) == history.answers[q] = 0
Unsent(q) == Sent(toCodex, q) = {} /\ Unanswered(q)
Unclaimed(q) == Senders(client, q) = {} /\ Unsent(q)
Unoffered(q) == Offers(registry, q) = {} /\ Unclaimed(q)
Unasked(q) == AsksIn(wire, q) = {} /\ Unoffered(q)

\* A question is in one place at most on its way from the wire to Codex, and in none
\* before it is asked and after it was answered.
OnePlace(q) ==
    /\ AtMostOne(AsksIn(wire, q)) /\ AtMostOne(Offers(registry, q))
    /\ AtMostOne(Senders(client, q)) /\ AtMostOne(Sent(toCodex, q))
    /\ New(q) => Unasked(q)
    /\ AsksIn(wire, q) # {} => Unoffered(q)
    /\ Offers(registry, q) # {} => Unclaimed(q)
    /\ Senders(client, q) # {} => Unsent(q)
    /\ Sent(toCodex, q) # {} => Unanswered(q)
    /\ history.answers[q] <= 1

\* T is not more than S.
Less(S, T) == (S = {} => T = {}) /\ (AtMostOne(S) => AtMostOne(T))

LEMMA SubsetLess ==
    ASSUME NEW S, NEW T \in SUBSET S
    PROVE  Less(S, T)
BY DEF Less, AtMostOne

\* Nothing is added anywhere.
LEMMA PlaceLess ==
    ASSUME NEW q, OnePlace(q), New(q)' => New(q),
           Less(AsksIn(wire, q), AsksIn(wire', q)), Less(Offers(registry, q), Offers(registry', q)),
           Less(Senders(client, q), Senders(client', q)), Less(Sent(toCodex, q), Sent(toCodex', q)),
           history'.answers[q] = history.answers[q]
    PROVE  OnePlace(q)'
BY DEF OnePlace, Unasked, Unoffered, Unclaimed, Unsent, Unanswered, Less

\* The wire still asks what it asked, and Codex asks nothing again.
LEMMA CodexAsksOnce ==
    ASSUME Typed, NEW q \in Questions, OnePlace(q),
           \/ \E p \in Questions : AnswerInCodex(p)
           \/ StartTurn \/ (\E p \in Questions : Ask(p)) \/ SayInCodex \/ FinishTurn
    PROVE  OnePlace(q)'
<1>0. /\ wire \in Seq(Message) /\ codex.turn \in 0 .. MaxTurns /\ codex \in Turns
      /\ UNCHANGED <<registry, client, toCodex, history>>
  BY CodexMoves DEF Typed, Turns
<1>1. ASSUME New(q)' => New(q), AsksIn(wire', q) = AsksIn(wire, q)
      PROVE  OnePlace(q)'
  BY <1>0, <1>1, PlaceLess DEF Less
<1>2. \A m \in Message : m.kind \notin AskKinds => AsksIn(Append(wire, m), q) = AsksIn(wire, q)
  BY <1>0, AppendPlain
<1>3. \A kind \in {"said", "started", "completed"} :
        Msg(kind, 0) \in Message /\ Msg(kind, 0).kind \notin AskKinds
  BY <1>0, MessageType DEF Msg, AskKinds
<1>4. ASSUME NEW w \in Seq(Message), NEW qs \in SUBSET Questions
      PROVE  AsksIn(w \o Resolutions(qs), q) = AsksIn(w, q)
  <2>1. /\ Resolutions(qs) \in Seq(Message)
        /\ \A i \in DOMAIN Resolutions(qs) : Resolutions(qs)[i].kind \notin AskKinds
    BY <1>0, ResolutionsTell DEF AskKinds
  <2> QED BY <2>1, ConcatPlain
<1>5. ASSUME NEW p \in Questions, AnswerInCodex(p)
      PROVE  OnePlace(q)'
  <2>1. AsksIn(wire', q) = AsksIn(wire, q)
    BY <1>0, <1>4, <1>5 DEF AnswerInCodex
  <2>2. New(q)' => New(q)
    BY <1>0, <1>5 DEF AnswerInCodex, New, Turns
  <2> QED BY <1>1, <2>1, <2>2
<1>6. CASE StartTurn
  <2>1. New(q)' => New(q)
    BY <1>0, <1>6 DEF StartTurn, New, Turns
  <2> QED BY <1>1, <1>2, <1>3, <1>6, <2>1 DEF StartTurn
<1>7. ASSUME NEW p \in Questions, Ask(p)
      PROVE  OnePlace(q)'
  <2> DEFINE m == Msg(IF p \in Requested THEN "request" ELSE "asked", p)
  <2>1. /\ m \in Message /\ m.of = p /\ wire' = Append(wire, m)
    BY <1>0, <1>7, MessageType DEF Ask, Msg
  <2>2. codex'.asked[q] = IF q = p THEN "open" ELSE codex.asked[q]
    BY <1>0, <1>7 DEF Ask, Turns
  <2> HIDE DEF m
  <2>3. AsksIn(wire', q) \subseteq AsksIn(wire, q) \cup (IF p = q THEN {Len(wire) + 1} ELSE {})
    BY <1>0, <2>1, AppendAsk
  <2>4. CASE p = q
    <3>1. New(q) /\ ~New(q)'
      BY <1>7, <2>2, <2>4 DEF Ask, New
    <3>2. Unasked(q) /\ AtMostOne(AsksIn(wire', q))
      BY <2>3, <2>4, <3>1 DEF OnePlace, AtMostOne, Unasked
    <3>3. Unoffered(q)'
      BY <1>0, <3>2 DEF Unasked, Unoffered, Unclaimed, Unsent, Unanswered
    <3> QED BY <1>0, <3>1, <3>2, <3>3 DEF OnePlace, Unoffered, Unclaimed, Unsent, Unanswered
  <2>5. CASE p # q
    <3>1. AsksIn(wire', q) \in SUBSET AsksIn(wire, q) /\ (New(q)' => New(q))
      BY <2>2, <2>3, <2>5 DEF New
    <3> QED BY <1>0, <3>1, SubsetLess, PlaceLess
  <2> QED BY <2>4, <2>5
<1>8. CASE SayInCodex
  <2>1. Append(wire, Msg("said", 0)) \in Seq(Message)
    BY <1>0, <1>3
  <2>2. wire' = Append(wire, Msg("said", 0)) \o Resolutions(Open)
    BY <1>8 DEF SayInCodex, Said
  <2>3. AsksIn(wire', q) = AsksIn(wire, q)
    BY <1>2, <1>3, <1>4, <2>1, <2>2, OpenType
  <2>4. New(q)' => New(q)
    BY <1>0, <1>8 DEF SayInCodex, Said, New, Turns, CloseAll
  <2> QED BY <1>1, <2>3, <2>4
<1>9. CASE FinishTurn
  <2>1. New(q)' => New(q)
    BY <1>0, <1>9 DEF FinishTurn, New, Turns, CloseAll
  <2> QED BY <1>1, <1>2, <1>3, <1>9, <2>1 DEF FinishTurn
<1> QED BY <1>5, <1>6, <1>7, <1>8, <1>9

\* A question that is handled leaves the wire, and is offered at most once.
LEMMA HandlersOfferOnce ==
    ASSUME Typed, NEW q \in Questions, OnePlace(q),
           \/ \E i \in FirstFor("request") : HandleRequest(i)
           \/ \E i \in FirstFor("notice") : HandleNotice(i)
    PROVE  OnePlace(q)'
<1>0. wire \in Seq(Message)
  BY DEF Typed
<1>1. ASSUME NEW i \in DOMAIN wire, NEW t, Handled(t, i), NEW new, Grows(registry, registry', new),
             \A route \in new : route.asks = q => i \in AsksIn(wire, q), history'.answers = history.answers
      PROVE  OnePlace(q)'
  <2>1. wire' = RemoveAt(wire, i) /\ UNCHANGED <<codex, client, toCodex>>
    BY <1>1 DEF Handled
  <2>2. /\ Less(AsksIn(wire, q), AsksIn(wire', q))
        /\ i \in AsksIn(wire, q) => AsksIn(wire', q) = {}
    BY <1>0, <2>1, RemoveAsk DEF Less, OnePlace
  <2>3. CASE \A route \in new : route.asks # q
    <3>1. Offers(registry', q) \in SUBSET Offers(registry, q)
      BY <1>1, <2>3 DEF Grows
    <3>2. New(q)' => New(q)
      BY <2>1 DEF New
    <3>3. Less(Senders(client, q), Senders(client', q)) /\ Less(Sent(toCodex, q), Sent(toCodex', q))
      BY <2>1 DEF Less
    <3> QED BY <1>1, <2>2, <3>1, <3>2, <3>3, SubsetLess, PlaceLess
  <2>4. CASE \E route \in new : route.asks = q
    <3>1. AsksIn(wire', q) = {} /\ Unoffered(q) /\ ~New(q)
      BY <1>1, <2>2, <2>4 DEF OnePlace, Unasked
    <3>2. AtMostOne(Offers(registry', q))
      BY <1>1, <3>1 DEF Grows, Unoffered
    <3>3. Unclaimed(q)' /\ ~New(q)'
      BY <1>1, <2>1, <3>1 DEF Unoffered, Unclaimed, Unsent, Unanswered, New
    <3> QED BY <3>1, <3>2, <3>3 DEF OnePlace, Unclaimed, Unsent, Unanswered, AtMostOne
  <2> QED BY <2>3, <2>4
<1>2. ASSUME NEW i \in FirstFor("request"), HandleRequest(i)
      PROVE  OnePlace(q)'
  <2>1. history'.answers = history.answers /\ Handled("request", i)
    BY <1>2, RequestRemembers DEF HandleRequest
  <2> DEFINE new == {Rpc(wire[i].of)}
  <2>2. i \in DOMAIN wire /\ \A route \in new : route.asks = q => i \in AsksIn(wire, q)
    BY FirstRequest DEF AsksIn, AskKinds
  <2>3. Grows(registry, registry', new)
    BY <1>2, RequestGrows
  <2> HIDE DEF new
  <2> QED BY <1>1, <2>1, <2>2, <2>3
<1>3. ASSUME NEW i \in FirstFor("notice"), HandleNotice(i)
      PROVE  OnePlace(q)'
  <2> DEFINE new == IF wire[i].kind = "asked" THEN {Steer(wire[i].turn, wire[i].of)} ELSE {}
  <2>2. history'.answers = history.answers /\ Handled("notice", i)
    BY <1>3, NoticeRemembers DEF HandleNotice
  <2>3. i \in DOMAIN wire /\ \A route \in new : route.asks = q => i \in AsksIn(wire, q)
    BY FirstNotice DEF AsksIn, AskKinds
  <2>4. Grows(registry, registry', new)
    BY <1>3, NoticeGrows
  <2> HIDE DEF new
  <2> QED BY <1>1, <2>2, <2>3, <2>4
<1> QED BY <1>2, <1>3

\* A client sends at most one answer to what it has claimed.
LEMMA ClientsAnswerOnce ==
    ASSUME Typed, NEW q \in Questions, OnePlace(q),
           \E c \in Clients : \/ \E e \in registry.entries : Claim(c, e)
                              \/ Send(c) \/ SendFails(c) \/ GiveUp(c) \/ Finish(c)
    PROVE  OnePlace(q)'
<1>0. client \in [Clients -> Attempts]
  BY DEF Typed
<1>1. ASSUME NEW c \in Clients, NEW e \in registry.entries, Claim(c, e)
      PROVE  OnePlace(q)'
  <2>1. /\ UNCHANGED <<codex, wire, toCodex, history>> /\ Claimable(e)
        /\ Offers(registry', q) \subseteq Offers(registry, q) \ {e}
        /\ client[c].pc = "idle" /\ client'[c].pc = "send" /\ client'[c].route = e.route
        /\ \A d \in Clients \ {c} : client'[d] = client[d]
    BY <1>0, <1>1, ClaimMoves
  <2>2. CASE e.route.asks = q
    <3>1. e \in Offers(registry, q)
      BY <2>1, <2>2 DEF Offers
    <3>2. Unclaimed(q) /\ Offers(registry', q) = {} /\ AsksIn(wire, q) = {} /\ ~New(q)
      BY <2>1, <3>1 DEF OnePlace, AtMostOne, Unasked, Unoffered
    <3>3. Senders(client', q) = {c} /\ Unsent(q)'
      BY <2>1, <2>2, <3>2 DEF Senders, Unclaimed, Unsent, Unanswered
    <3> QED BY <2>1, <3>2, <3>3 DEF OnePlace, AtMostOne, New, Unsent, Unanswered
  <2>3. CASE e.route.asks # q
    <3>1. Senders(client', q) \in SUBSET Senders(client, q)
      BY <2>1, <2>3 DEF Senders
    <3>2. Offers(registry', q) \in SUBSET Offers(registry, q)
      BY <2>1
    <3> QED BY <2>1, <3>1, <3>2, SubsetLess, PlaceLess DEF Less, New
  <2> QED BY <2>2, <2>3
<1>2. ASSUME NEW c \in Clients, Send(c) \/ SendFails(c) \/ GiveUp(c)
      PROVE  OnePlace(q)'
  <2>1. /\ UNCHANGED <<codex, wire, registry, history>>
        /\ client'[c].pc # "send" /\ \A d \in Clients \ {c} : client'[d] = client[d]
    BY <1>2, SendMoves
  <2>2. Senders(client', q) \in SUBSET (Senders(client, q) \ {c})
    BY <2>1 DEF Senders
  <2>3. CASE toCodex' = toCodex
    BY <2>1, <2>2, <2>3, SubsetLess, PlaceLess DEF Less, New
  <2>4. CASE client[c].pc = "send" /\ toCodex' = toCodex \cup {Reply(c)}
    <3>1. Reply(c).route = client[c].route
      BY DEF Reply
    <3>2. CASE client[c].route.asks = q
      <4>1. c \in Senders(client, q)
        BY <2>4, <3>2 DEF Senders
      <4>2. Unsent(q) /\ Offers(registry, q) = {} /\ AsksIn(wire, q) = {} /\ ~New(q)
        BY <4>1 DEF OnePlace, Unasked, Unoffered, Unclaimed
      <4>3. Senders(client', q) = {} /\ Sent(toCodex', q) = {Reply(c)} /\ Unanswered(q)'
        BY <2>1, <2>2, <2>4, <3>1, <3>2, <4>1, <4>2 DEF OnePlace, AtMostOne, Sent, Unsent, Unanswered
      <4> QED BY <2>1, <4>2, <4>3 DEF OnePlace, AtMostOne, New, Unanswered
    <3>3. CASE client[c].route.asks # q
      <4>1. Sent(toCodex', q) = Sent(toCodex, q)
        BY <2>4, <3>1, <3>3 DEF Sent
      <4> QED BY <2>1, <2>2, <4>1, SubsetLess, PlaceLess DEF Less, New
    <3> QED BY <3>2, <3>3
  <2> QED BY <1>2, <2>3, <2>4, SendMoves
<1>3. ASSUME NEW c \in Clients, Finish(c)
      PROVE  OnePlace(q)'
  <2>1. /\ UNCHANGED <<codex, wire, toCodex>> /\ history'.answers = history.answers
        /\ Offers(registry', q) \in SUBSET Offers(registry, q)
    BY <1>3, FinishMoves DEF Shrinks
  <2>2. client' = [client EXCEPT ![c] = Idle] /\ Idle.pc = "idle"
    BY <1>3, FinishMoves DEF Idle
  <2>3. client'[c].pc = "idle" /\ \A d \in Clients \ {c} : client'[d] = client[d]
    BY <1>0, <2>2
  <2>4. Senders(client', q) \in SUBSET Senders(client, q)
    BY <2>3 DEF Senders
  <2> QED BY <2>1, <2>4, SubsetLess, PlaceLess DEF Less, New
<1> QED BY <1>1, <1>2, <1>3

\* Codex takes an answer once.
LEMMA CodexTakesOnce ==
    ASSUME Typed, NEW q \in Questions, OnePlace(q), NEW m \in toCodex, TakeAnswer(m)
    PROVE  OnePlace(q)'
<1>0. /\ wire \in Seq(Message) /\ codex.turn \in 0 .. MaxTurns /\ codex \in Turns
      /\ m.route \in Routes /\ history.answers[q] \in Nat
  BY DEF Typed, Turns, Answer, Histories
<1>1. /\ UNCHANGED registry /\ toCodex' = toCodex \ {m}
      /\ \/ history'.answers[q] = history.answers[q]
         \/ q = m.route.asks /\ history'.answers[q] = history.answers[q] + 1
  BY TakenAnswer
<1>2. Senders(client', q) = Senders(client, q)
  <2>1. \A c \in Clients : /\ client'[c].route = client[c].route
                           /\ client'[c].pc = "send" <=> client[c].pc = "send"
    BY TakenAnswer
  <2> QED BY <2>1 DEF Senders
<1>3. AsksIn(wire', q) = AsksIn(wire, q)
  <2>1. ASSUME NEW w \in Seq(Message), NEW qs \in SUBSET Questions
        PROVE  AsksIn(w \o Resolutions(qs), q) = AsksIn(w, q)
    <3>1. /\ Resolutions(qs) \in Seq(Message)
          /\ \A i \in DOMAIN Resolutions(qs) : Resolutions(qs)[i].kind \notin AskKinds
      BY <1>0, ResolutionsTell DEF AskKinds
    <3> QED BY <3>1, ConcatPlain
  <2>2. \/ wire' = wire
        \/ m.route.of \in Open /\ wire' = wire \o Resolutions({m.route.of})
        \/ wire' = Append(wire, Msg("said", 0)) \o Resolutions(Open)
    BY DEF TakeAnswer, TakeReply, TakeSteer, Said
  <2>3. CASE m.route.of \in Open /\ wire' = wire \o Resolutions({m.route.of})
    <3>1. {m.route.of} \in SUBSET Questions
      BY <2>3, OpenType
    <3> QED BY <1>0, <2>1, <2>3, <3>1
  <2>4. CASE wire' = Append(wire, Msg("said", 0)) \o Resolutions(Open)
    <3>1. Msg("said", 0) \in Message /\ Msg("said", 0).kind \notin AskKinds
      BY <1>0, MessageType DEF Msg, AskKinds
    <3>2. /\ Append(wire, Msg("said", 0)) \in Seq(Message)
          /\ AsksIn(Append(wire, Msg("said", 0)), q) = AsksIn(wire, q)
      BY <1>0, <3>1, AppendPlain
    <3> QED BY <2>1, <2>4, <3>2, OpenType
  <2> QED BY <2>2, <2>3, <2>4
<1>4. New(q)' => New(q)
  <2>1. \/ UNCHANGED codex
        \/ codex' = [codex EXCEPT !.asked[m.route.of] = "closed"]
        \/ codex' = [codex EXCEPT !.asked = CloseAll, !.since = now]
    BY DEF TakeAnswer, TakeReply, TakeSteer, Said
  <2>2. CASE UNCHANGED codex
    BY <2>2 DEF New
  <2>3. CASE codex' = [codex EXCEPT !.asked[m.route.of] = "closed"]
    <3>1. codex'.asked[q] = "closed" \/ codex'.asked[q] = codex.asked[q]
      BY <1>0, <2>3 DEF Turns
    <3> QED BY <3>1 DEF New
  <2>4. CASE codex' = [codex EXCEPT !.asked = CloseAll, !.since = now]
    BY <1>0, <2>4 DEF New, Turns, CloseAll
  <2> QED BY <2>1, <2>2, <2>3, <2>4
<1>5. CASE history'.answers[q] = history.answers[q]
  <2>1. Sent(toCodex', q) \in SUBSET Sent(toCodex, q)
    BY <1>1 DEF Sent
  <2> QED BY <1>1, <1>2, <1>3, <1>4, <1>5, <2>1, SubsetLess, PlaceLess DEF Less
<1>6. CASE q = m.route.asks /\ history'.answers[q] = history.answers[q] + 1
  <2>1. m \in Sent(toCodex, q)
    BY <1>6 DEF Sent
  <2>2. /\ history.answers[q] = 0 /\ Senders(client, q) = {} /\ Offers(registry, q) = {}
        /\ AsksIn(wire, q) = {} /\ ~New(q)
    BY <2>1 DEF OnePlace, Unasked, Unoffered, Unclaimed, Unsent, Unanswered
  <2>3. Sent(toCodex', q) = {}
    BY <1>1, <2>1 DEF Sent, OnePlace, AtMostOne
  <2>4. history'.answers[q] = 1
    BY <1>6, <2>2
  <2>5. AsksIn(wire', q) = {} /\ Senders(client', q) = {} /\ Offers(registry', q) = {}
    BY <1>1, <1>2, <1>3, <2>2
  <2>6. ~New(q)'
    BY <1>4, <2>2
  <2>7. OnePlace(q)' <=>
          /\ AtMostOne(AsksIn(wire', q)) /\ AtMostOne(Offers(registry', q))
          /\ AtMostOne(Senders(client', q)) /\ AtMostOne(Sent(toCodex', q))
          /\ New(q)' => Unasked(q)'
          /\ AsksIn(wire', q) # {} => Unoffered(q)'
          /\ Offers(registry', q) # {} => Unclaimed(q)'
          /\ Senders(client', q) # {} => Unsent(q)'
          /\ Sent(toCodex', q) # {} => Unanswered(q)'
          /\ history'.answers[q] <= 1
    BY DEF OnePlace
  <2>8. AtMostOne({})
    BY DEF AtMostOne
  <2> QED BY <2>3, <2>4, <2>5, <2>6, <2>7, <2>8
<1> QED BY <1>1, <1>5, <1>6

LEMMA PlaceKept ==
    ASSUME Typed, \A q \in Questions : OnePlace(q), [QuestionNext]_vars
    PROVE  \A q \in Questions : OnePlace(q)'
<1> TAKE q \in Questions
<1>1. ASSUME UNCHANGED <<codex, wire, client, toCodex>>, history'.answers = history.answers,
             Offers(registry', q) \in SUBSET Offers(registry, q)
      PROVE  OnePlace(q)'
  BY <1>1, SubsetLess, PlaceLess DEF Less, New
<1>2. CASE UNCHANGED vars \/ Tick \/ \E start \in {0, poll.read} : PollRead(start)
  BY <1>1, <1>2 DEF vars, Tick, PollRead
<1>3. CASE \E t \in {"request", "notice"} : Take(t)
  BY <1>1, <1>3 DEF Take, Typed, Histories
<1>4. CASE PollApply \/ Snapshot
  <2>1. Offers(registry', q) \in SUBSET Offers(registry, q)
    BY <1>4, UnaskedGrows DEF Grows
  <2> QED BY <1>1, <1>4, <2>1 DEF PollApply, Snapshot
<1> QED BY <1>2, <1>3, <1>4, CodexAsksOnce, HandlersOfferOnce, ClientsAnswerOnce, CodexTakesOnce
        DEF QuestionNext, CodexStep

\* Codex gets one answer to a question at most.  A question is a token that Codex hands
\* to the wire once, and that only ever moves on; an entry that was claimed never offers
\* it again, whatever became of the answer.
THEOREM QuestionAnsweredOnce == QuestionSpec => []AnsweredOnce
<1> DEFINE Inv == Typed /\ \A q \in Questions : OnePlace(q)
<1>1. QuestionInit => Inv
  <2> SUFFICES ASSUME QuestionInit PROVE Inv
    OBVIOUS
  <2>1. Typed
    BY InitTypes, TypesMean
  <2> SUFFICES ASSUME NEW q \in Questions PROVE OnePlace(q)
    BY <2>1
  <2>2. /\ wire = <<>> /\ registry.entries = {} /\ toCodex = {} /\ history.answers[q] = 0
        /\ \A c \in Clients : client[c].pc = "idle"
    BY DEF QuestionInit, Idle
  <2>3. AsksIn(wire, q) = {} /\ Offers(registry, q) = {} /\ Senders(client, q) = {} /\ Sent(toCodex, q) = {}
    BY <2>2 DEF AsksIn, Offers, Senders, Sent
  <2> QED BY <2>1, <2>2, <2>3 DEF OnePlace, AtMostOne, Unasked, Unoffered, Unclaimed, Unsent, Unanswered
<1>2. Inv /\ [QuestionNext]_vars => Inv'
  BY TypesKept, PlaceKept
<1>3. Inv => AnsweredOnce
  BY DEF OnePlace, AnsweredOnce
<1> QED BY <1>1, <1>2, <1>3, PTL DEF QuestionSpec

-----------------------------------------------------------------------------
(* AnswerableIsOpen: whoever can be answered is waited for *)

\* The wire w tells that turn t is over, or that request q is.
TurnEnds(w, t) == \E i \in DOMAIN w : w[i].kind = "completed" /\ w[i].turn = t
RequestEnds(w, q) == \E i \in DOMAIN w : w[i].kind = "completed" \/ (w[i].kind = "resolved" /\ w[i].of = q)

Runs(c, t) == c.running /\ c.turn = t

\* What is answered by this route is waited for, or is about to be told to be over.
Stands(route) ==
    IF route.kind = "rpc"
    THEN route.of \in Open \cup history.late \/ RequestEnds(wire, route.of)
    ELSE Runs(codex, route.of) \/ TurnEnds(wire, route.of)

RoutesStand == \A route \in Routed(registry) : Stands(route)

\* The end of a turn comes after the questions of the turn.
AsksStand ==
    \A i \in DOMAIN wire : wire[i].kind = "asked" =>
        \/ Runs(codex, wire[i].turn)
        \/ \E j \in DOMAIN wire : i < j /\ wire[j].kind = "completed" /\ wire[j].turn = wire[i].turn

LEMMA StandsMeans == RoutesStand <=> AnswerableIsOpen
BY DEF RoutesStand, AnswerableIsOpen, Routed, Stands, RequestEnds, TurnEnds, EndOnWire, Runs

\* The wire v is w with more messages behind.
Longer(w, v) == /\ DOMAIN w \subseteq DOMAIN v
                /\ \A i \in DOMAIN w : v[i] = w[i]

LEMMA LongerTells ==
    ASSUME NEW w, NEW v, Longer(w, v)
    PROVE  /\ \A q : RequestEnds(w, q) => RequestEnds(v, q)
           /\ \A t : TurnEnds(w, t) => TurnEnds(v, t)
BY DEF Longer, RequestEnds, TurnEnds

LEMMA AppendLonger ==
    ASSUME NEW w \in Seq(Message), NEW m \in Message
    PROVE  /\ Longer(w, Append(w, m)) /\ Append(w, m) \in Seq(Message)
           /\ DOMAIN Append(w, m) = DOMAIN w \cup {Len(w) + 1}
           /\ Append(w, m)[Len(w) + 1] = m
           /\ Len(w) + 1 \notin DOMAIN w /\ \A i \in DOMAIN w : i < Len(w) + 1
<1>1. /\ DOMAIN w = 1 .. Len(w) /\ Len(w) \in Nat
      /\ DOMAIN Append(w, m) = 1 .. Len(w) + 1
      /\ \A i \in 1 .. Len(w) : Append(w, m)[i] = w[i]
      /\ Append(w, m)[Len(w) + 1] = m
  BY AppendProperties
<1> QED BY <1>1 DEF Longer

\* Requests that are over follow on the wire, and ask nothing.
LEMMA ResolutionsFollow ==
    ASSUME Typed, NEW w \in Seq(Message), NEW qs \in SUBSET Questions
    PROVE  /\ Longer(w, w \o Resolutions(qs))
           /\ \A i \in DOMAIN (w \o Resolutions(qs)) : i \in DOMAIN w \/
                /\ (w \o Resolutions(qs))[i].kind = "resolved" /\ (w \o Resolutions(qs))[i].of \in qs
           /\ \A q \in qs \cap Requested : RequestEnds(w \o Resolutions(qs), q)
<1> DEFINE s == Resolutions(qs)
<1>1. /\ s \in Seq(Message) /\ \A i \in DOMAIN s : s[i].kind = "resolved" /\ s[i].of \in qs
      /\ \A q \in qs \cap Requested : \E i \in DOMAIN s : s[i].kind = "resolved" /\ s[i].of = q
  BY ResolutionsTell DEF Typed, Turns
<1> HIDE DEF s
<1>2. /\ DOMAIN w = 1 .. Len(w) /\ Len(w) \in Nat
      /\ DOMAIN s = 1 .. Len(s) /\ Len(s) \in Nat
      /\ DOMAIN (w \o s) = 1 .. Len(w) + Len(s)
      /\ \A i \in 1 .. Len(w) + Len(s) :
            (w \o s)[i] = IF i <= Len(w) THEN w[i] ELSE s[i - Len(w)]
  BY <1>1, ConcatProperties
<1>3. Longer(w, w \o s)
  BY <1>2 DEF Longer
<1>4. ASSUME NEW i \in DOMAIN (w \o s), i \notin DOMAIN w
      PROVE  (w \o s)[i].kind = "resolved" /\ (w \o s)[i].of \in qs
  <2>1. i - Len(w) \in DOMAIN s /\ (w \o s)[i] = s[i - Len(w)]
    BY <1>2, <1>4
  <2> QED BY <1>1, <2>1
<1>5. ASSUME NEW q \in qs \cap Requested
      PROVE  RequestEnds(w \o s, q)
  <2>1. PICK i \in DOMAIN s : s[i].kind = "resolved" /\ s[i].of = q
    BY <1>1
  <2>2. /\ i + Len(w) \in DOMAIN (w \o s) /\ ~(i + Len(w) <= Len(w)) /\ (i + Len(w)) - Len(w) = i
    BY <1>2
  <2>3. (w \o s)[i + Len(w)] = s[i]
    BY <1>2, <2>2
  <2> QED BY <2>1, <2>2, <2>3 DEF RequestEnds
<1> QED BY <1>3, <1>4, <1>5 DEF s

\* Codex goes on: turns that ended and requests that were closed are told.
LEMMA CodexStands ==
    ASSUME Typed, RoutesStand, AsksStand, Longer(wire, wire'), wire' \in Seq(Message),
           UNCHANGED registry, history.late \subseteq history'.late,
           \A t : Runs(codex, t) => Runs(codex', t) \/ \E i \in DOMAIN wire' : i \notin DOMAIN wire /\ wire'[i].kind = "completed"
                                                                /\ wire'[i].turn = t,
           \A q \in Open \cap Requested : q \in Open' \/ RequestEnds(wire', q),
           \A i \in DOMAIN wire' : i \in DOMAIN wire \/ wire'[i].kind # "asked" \/ Runs(codex', wire'[i].turn)
    PROVE  RoutesStand' /\ AsksStand'
<1>0. /\ DOMAIN wire = 1 .. Len(wire) /\ Len(wire) \in Nat
      /\ DOMAIN wire' = 1 .. Len(wire') /\ Len(wire') \in Nat
  BY DEF Typed
<1>1. ASSUME NEW route \in Routed(registry)
      PROVE  Stands(route)'
  <2>1. route \in Routes /\ Stands(route)
    BY DEF Typed, Registries, Routed, Entry, RoutesStand
  <2>2. CASE route.kind = "rpc"
    <3>1. route.of \in Requested
      BY <2>1, <2>2, SteerAsks
    <3>2. CASE RequestEnds(wire, route.of)
      BY <2>2, <3>2, LongerTells DEF Stands
    <3>3. CASE route.of \in history.late
      BY <2>2, <3>3 DEF Stands
    <3>4. CASE route.of \in Open
      BY <2>2, <3>1, <3>4 DEF Stands
    <3> QED BY <2>1, <2>2, <3>2, <3>3, <3>4 DEF Stands
  <2>3. CASE route.kind # "rpc"
    <3>1. CASE TurnEnds(wire, route.of)
      BY <2>3, <3>1, LongerTells DEF Stands
    <3>2. CASE Runs(codex, route.of)
      BY <2>3, <3>2 DEF Stands, TurnEnds
    <3> QED BY <2>1, <2>3, <3>1, <3>2 DEF Stands
  <2> QED BY <2>2, <2>3
<1>2. ASSUME NEW i \in DOMAIN wire', wire'[i].kind = "asked"
      PROVE  \/ Runs(codex', wire'[i].turn)
             \/ \E j \in DOMAIN wire' : i < j /\ wire'[j].kind = "completed" /\ wire'[j].turn = wire'[i].turn
  <2>1. CASE i \in DOMAIN wire
    <3>1. wire'[i] = wire[i]
      BY <2>1 DEF Longer
    <3>2. CASE Runs(codex, wire[i].turn)
      <4>1. \A j \in DOMAIN wire' : j \notin DOMAIN wire => i < j
        BY <1>0, <2>1
      <4> QED BY <3>1, <3>2, <4>1
    <3>3. CASE \E j \in DOMAIN wire : i < j /\ wire[j].kind = "completed" /\ wire[j].turn = wire[i].turn
      BY <3>1, <3>3 DEF Longer
    <3> QED BY <1>2, <2>1, <3>1, <3>2, <3>3 DEF AsksStand
  <2>2. CASE i \notin DOMAIN wire
    BY <1>2, <2>2
  <2> QED BY <2>1, <2>2
<1> QED BY <1>1, <1>2 DEF RoutesStand, AsksStand

\* What is left of the wire when a message was handled, in the same order.
LEMMA RemoveTells ==
    ASSUME NEW w \in Seq(Message), NEW k \in DOMAIN w
    PROVE  /\ \A i \in DOMAIN w \ {k} : \E j \in DOMAIN RemoveAt(w, k) : RemoveAt(w, k)[j] = w[i]
           /\ \A j \in DOMAIN RemoveAt(w, k) : \E i \in DOMAIN w \ {k} :
                /\ RemoveAt(w, k)[j] = w[i]
                /\ \A d \in DOMAIN w \ {k} : i < d =>
                     \E h \in DOMAIN RemoveAt(w, k) : j < h /\ RemoveAt(w, k)[h] = w[d]
<1> DEFINE v == RemoveAt(w, k)
           after(i) == IF i < k THEN i ELSE i - 1
           before(j) == IF j < k THEN j ELSE j + 1
<1>1. /\ Len(w) \in Nat /\ k \in 1 .. Len(w) /\ DOMAIN w = 1 .. Len(w)
      /\ DOMAIN v = 1 .. Len(w) - 1
      /\ \A j \in 1 .. Len(w) - 1 : v[j] = w[before(j)]
  BY RemovedAt
<1> HIDE DEF v
<1>2. \A i \in DOMAIN w \ {k} : after(i) \in 1 .. Len(w) - 1 /\ before(after(i)) = i
  BY <1>1
<1>3. \A j \in 1 .. Len(w) - 1 : before(j) \in DOMAIN w \ {k}
  BY <1>1
<1>4. \A j \in 1 .. Len(w) - 1, d \in DOMAIN w \ {k} : before(j) < d => j < after(d)
  BY <1>1
<1> HIDE DEF after, before
<1>5. \A i \in DOMAIN w \ {k} : after(i) \in DOMAIN v /\ v[after(i)] = w[i]
  BY <1>1, <1>2
<1>6. ASSUME NEW j \in DOMAIN v
      PROVE  \E i \in DOMAIN w \ {k} :
               /\ v[j] = w[i]
               /\ \A d \in DOMAIN w \ {k} : i < d => \E h \in DOMAIN v : j < h /\ v[h] = w[d]
  <2>1. before(j) \in DOMAIN w \ {k} /\ v[j] = w[before(j)]
    BY <1>1, <1>3
  <2>2. \A d \in DOMAIN w \ {k} : before(j) < d => \E h \in DOMAIN v : j < h /\ v[h] = w[d]
    BY <1>1, <1>4, <1>5
  <2> QED BY <2>1, <2>2
<1> QED BY <1>5, <1>6 DEF v

LEMMA SaidStands ==
    ASSUME Typed, RoutesStand, AsksStand, Said, UNCHANGED registry, history.late \subseteq history'.late
    PROVE  RoutesStand' /\ AsksStand'
<1> DEFINE w == Append(wire, Msg("said", 0))
<1>1. /\ codex \in Turns /\ codex.turn \in 0 .. MaxTurns /\ wire \in Seq(Message)
      /\ Msg("said", 0) \in Message /\ Msg("said", 0).kind = "said"
  <2>1. codex \in Turns /\ codex.turn \in 0 .. MaxTurns /\ wire \in Seq(Message)
    BY DEF Typed, Turns
  <2> QED BY <2>1, MessageType DEF Msg
<1>2. /\ Longer(wire, w) /\ w \in Seq(Message) /\ DOMAIN w = DOMAIN wire \cup {Len(wire) + 1}
      /\ w[Len(wire) + 1].kind = "said"
  BY <1>1, AppendLonger
<1>3. wire' = w \o Resolutions(Open) /\ codex'.running = codex.running /\ codex'.turn = codex.turn
  BY <1>1 DEF Said, Turns
<1> HIDE DEF w
<1>4. /\ Longer(w, wire')
      /\ \A i \in DOMAIN wire' : i \in DOMAIN w \/ wire'[i].kind = "resolved"
      /\ \A q \in Open \cap Requested : RequestEnds(wire', q)
  BY <1>2, <1>3, OpenType, ResolutionsFollow
<1>5. Longer(wire, wire')
  BY <1>2, <1>4 DEF Longer
<1>6. wire' \in Seq(Message)
  BY SaidTypes
<1>7. \A i \in DOMAIN wire' : i \in DOMAIN wire \/ wire'[i].kind # "asked"
  BY <1>2, <1>4 DEF Longer
<1>8. \A t : Runs(codex, t) => Runs(codex', t)
  BY <1>3 DEF Runs
<1> QED BY <1>4, <1>5, <1>6, <1>7, <1>8, CodexStands

\* A request that is closed is told to be over.
LEMMA ClosedStands ==
    ASSUME Typed, RoutesStand, AsksStand, NEW q \in Open,
           codex' = [codex EXCEPT !.asked[q] = "closed"], wire' = wire \o Resolutions({q}),
           UNCHANGED registry, history.late \subseteq history'.late
    PROVE  RoutesStand' /\ AsksStand'
<1>1. wire \in Seq(Message) /\ {q} \in SUBSET Questions /\ codex \in Turns
  BY OpenType DEF Typed
<1>2. /\ Longer(wire, wire')
      /\ \A i \in DOMAIN wire' : i \in DOMAIN wire \/ wire'[i].kind = "resolved"
      /\ \A p \in {q} \cap Requested : RequestEnds(wire', p)
  <2> DEFINE v == wire \o Resolutions({q})
  <2>1. /\ Longer(wire, v)
        /\ \A i \in DOMAIN v : i \in DOMAIN wire \/ (v[i].kind = "resolved" /\ v[i].of \in {q})
        /\ \A p \in {q} \cap Requested : RequestEnds(v, p)
    BY <1>1, ResolutionsFollow
  <2> HIDE DEF v
  <2>2. wire' = v
    BY DEF v
  <2> QED BY <2>1, <2>2
<1>3. wire' \in Seq(Message)
  <2>1. Resolutions({q}) \in Seq(Message)
    BY <1>1, ResolutionsTell DEF Turns
  <2> QED BY <1>1, <2>1, ConcatProperties
<1>4. codex'.running = codex.running /\ codex'.turn = codex.turn /\ Open \ {q} \subseteq Open'
  BY <1>1 DEF Turns, Open
<1>5. \A p \in Open \cap Requested : p \in Open' \/ RequestEnds(wire', p)
  BY <1>2, <1>4
<1>6. \A t : Runs(codex, t) => Runs(codex', t)
  BY <1>4 DEF Runs
<1>7. \A i \in DOMAIN wire' : i \in DOMAIN wire \/ wire'[i].kind # "asked"
  BY <1>2
<1> QED BY <1>2, <1>3, <1>5, <1>6, <1>7, CodexStands

LEMMA CodexKeepsStanding ==
    ASSUME Typed, RoutesStand, AsksStand, CodexStep
    PROVE  RoutesStand' /\ AsksStand'
<1>0. /\ codex \in Turns /\ codex.turn \in 0 .. MaxTurns /\ wire \in Seq(Message) /\ history \in Histories
      /\ wire' \in Seq(Message)
  BY CodexTypes DEF Typed, Turns
<1>1. ASSUME NEW m \in Message, wire' = Append(wire, m)
      PROVE  /\ Longer(wire, wire') /\ Len(wire) + 1 \in DOMAIN wire' /\ Len(wire) + 1 \notin DOMAIN wire
             /\ wire'[Len(wire) + 1] = m
             /\ \A i \in DOMAIN wire' : i \in DOMAIN wire \/ wire'[i] = m
  BY <1>0, <1>1, AppendLonger
<1>2. CASE StartTurn
  <2> DEFINE m == Msg("started", 0)
  <2>1. m \in Message /\ m.kind = "started" /\ wire' = Append(wire, m)
    BY <1>0, <1>2, MessageType DEF StartTurn, Msg
  <2>2. ~codex.running /\ Open' = Open /\ UNCHANGED <<registry, history>>
    BY <1>0, <1>2 DEF StartTurn, Turns, Open
  <2> HIDE DEF m
  <2>3. \A t : ~Runs(codex, t)
    BY <2>2 DEF Runs
  <2>4. Longer(wire, wire') /\ \A i \in DOMAIN wire' : i \in DOMAIN wire \/ wire'[i].kind # "asked"
    BY <1>1, <2>1
  <2> QED BY <1>0, <2>2, <2>3, <2>4, CodexStands
<1>3. ASSUME NEW q \in Questions, Ask(q)
      PROVE  RoutesStand' /\ AsksStand'
  <2> DEFINE m == Msg(IF q \in Requested THEN "request" ELSE "asked", q)
  <2>1. m \in Message /\ m.turn = codex.turn /\ wire' = Append(wire, m)
    BY <1>0, <1>3, MessageType DEF Ask, Msg
  <2>2. /\ codex.running /\ codex'.running = codex.running /\ codex'.turn = codex.turn
        /\ Open \subseteq Open' /\ UNCHANGED <<registry, history>>
    BY <1>0, <1>3 DEF Ask, Turns, Open
  <2> HIDE DEF m
  <2>3. \A t : Runs(codex, t) => Runs(codex', t)
    BY <2>2 DEF Runs
  <2>4. Longer(wire, wire') /\ \A i \in DOMAIN wire' : i \in DOMAIN wire \/ Runs(codex', wire'[i].turn)
    BY <1>1, <2>1, <2>2 DEF Runs
  <2> QED BY <1>0, <2>2, <2>3, <2>4, CodexStands
<1>4. ASSUME NEW q \in Questions, AnswerInCodex(q)
      PROVE  RoutesStand' /\ AsksStand'
  BY <1>4, ClosedStands DEF AnswerInCodex
<1>5. CASE SayInCodex
  BY <1>5, SaidStands DEF SayInCodex
<1>6. CASE FinishTurn
  <2> DEFINE m == Msg("completed", 0)
  <2>1. m \in Message /\ m.kind = "completed" /\ m.turn = codex.turn /\ wire' = Append(wire, m)
    BY <1>0, <1>6, MessageType DEF FinishTurn, Msg
  <2>2. UNCHANGED <<registry, history>>
    BY <1>6 DEF FinishTurn
  <2> HIDE DEF m
  <2>3. /\ Longer(wire, wire') /\ Len(wire) + 1 \in DOMAIN wire' /\ Len(wire) + 1 \notin DOMAIN wire
        /\ wire'[Len(wire) + 1] = m
        /\ \A i \in DOMAIN wire' : i \in DOMAIN wire \/ wire'[i] = m
    BY <1>1, <2>1
  <2>4. \A t : Runs(codex, t) => \E i \in DOMAIN wire' : i \notin DOMAIN wire /\ wire'[i].kind = "completed"
                                                        /\ wire'[i].turn = t
    BY <2>1, <2>3 DEF Runs
  <2>5. \A q \in Open \cap Requested : RequestEnds(wire', q)
    BY <2>1, <2>3 DEF RequestEnds
  <2>6. \A i \in DOMAIN wire' : i \in DOMAIN wire \/ wire'[i].kind # "asked"
    BY <2>1, <2>3
  <2> QED BY <1>0, <2>2, <2>3, <2>4, <2>5, <2>6, CodexStands
<1>7. ASSUME NEW m \in toCodex, TakeAnswer(m)
      PROVE  RoutesStand' /\ AsksStand'
  <2>1. UNCHANGED registry
    BY <1>7 DEF TakeAnswer
  <2>2. \A q : Answered(q) => history'.late = history.late
    BY <1>0 DEF Answered, Histories
  <2>3. CASE UNCHANGED <<codex, wire, history>>
    BY <2>1, <2>3 DEF RoutesStand, AsksStand, Stands, Open
  <2>4. CASE TakeReply(m) /\ m.route.of \in Open
    BY <2>1, <2>2, <2>4, ClosedStands DEF TakeReply
  <2>5. CASE TakeSteer(m) /\ codex.running /\ codex.turn = m.route.of
    BY <2>1, <2>2, <2>5, SaidStands DEF TakeSteer
  <2>6. \/ UNCHANGED <<codex, wire, history>>
        \/ TakeReply(m) /\ m.route.of \in Open
        \/ TakeSteer(m) /\ codex.running /\ codex.turn = m.route.of
    BY <1>7 DEF TakeAnswer, TakeReply, TakeSteer
  <2> QED BY <2>3, <2>4, <2>5, <2>6
<1> QED BY <1>2, <1>3, <1>4, <1>5, <1>6, <1>7 DEF CodexStep

\* A message is handled: what it told is known to the registry.
LEMMA HandledStands ==
    ASSUME Typed, RoutesStand, AsksStand, NEW k \in DOMAIN wire, wire' = RemoveAt(wire, k),
           UNCHANGED codex, history.late \subseteq history'.late,
           wire[k].kind = "completed" => Routed(registry') = {} /\ \A j \in 1 .. k - 1 : wire[j].kind = "request",
           NEW new, Routed(registry') \subseteq Routed(registry) \cup new,
           wire[k].kind = "resolved" =>
             \A route \in Routed(registry') : ~(route.kind = "rpc" /\ route.of = wire[k].of),
           \A route \in new : Stands(route)'
    PROVE  RoutesStand' /\ AsksStand'
<1>0. wire \in Seq(Message) /\ Len(wire) \in Nat /\ DOMAIN wire = 1 .. Len(wire)
  BY DEF Typed
<1>1. /\ \A i \in DOMAIN wire \ {k} : \E j \in DOMAIN wire' : wire'[j] = wire[i]
      /\ \A j \in DOMAIN wire' : \E i \in DOMAIN wire \ {k} :
           /\ wire'[j] = wire[i]
           /\ \A d \in DOMAIN wire \ {k} : i < d => \E h \in DOMAIN wire' : j < h /\ wire'[h] = wire[d]
  <2> DEFINE v == RemoveAt(wire, k)
  <2>1. /\ \A i \in DOMAIN wire \ {k} : \E j \in DOMAIN v : v[j] = wire[i]
        /\ \A j \in DOMAIN v : \E i \in DOMAIN wire \ {k} :
             /\ v[j] = wire[i]
             /\ \A d \in DOMAIN wire \ {k} : i < d => \E h \in DOMAIN v : j < h /\ v[h] = wire[d]
    BY <1>0, RemoveTells, Zenon
  <2>2. v = wire'
    OBVIOUS
  <2> HIDE DEF v
  <2> QED BY <2>1, <2>2
<1>2. ASSUME NEW route \in Routed(registry'), route \in Routed(registry)
      PROVE  Stands(route)'
  <2>1. Stands(route) /\ Open' = Open /\ wire[k].kind # "completed"
    BY <1>2 DEF RoutesStand, Open
  <2>2. CASE route.kind = "rpc"
    <3>1. CASE RequestEnds(wire, route.of)
      <4>1. PICK i \in DOMAIN wire : wire[i].kind = "completed" \/ (wire[i].kind = "resolved" /\ wire[i].of = route.of)
        BY <3>1 DEF RequestEnds
      <4>2. i # k
        BY <1>2, <2>1, <2>2, <4>1
      <4>3. RequestEnds(wire', route.of)
        BY <1>1, <4>1, <4>2 DEF RequestEnds
      <4> QED BY <2>2, <4>3 DEF Stands
    <3> QED BY <2>1, <2>2, <3>1 DEF Stands
  <2>3. CASE route.kind # "rpc"
    <3>1. CASE TurnEnds(wire, route.of)
      <4>1. TurnEnds(wire', route.of)
        BY <1>1, <2>1, <3>1 DEF TurnEnds
      <4> QED BY <2>3, <4>1 DEF Stands
    <3> QED BY <2>1, <2>3, <3>1 DEF Stands
  <2> QED BY <2>2, <2>3
<1>3. ASSUME NEW j \in DOMAIN wire', wire'[j].kind = "asked"
      PROVE  \/ Runs(codex', wire'[j].turn)
             \/ \E h \in DOMAIN wire' : j < h /\ wire'[h].kind = "completed" /\ wire'[h].turn = wire'[j].turn
  <2>1. PICK i \in DOMAIN wire \ {k} :
           /\ wire'[j] = wire[i]
           /\ \A d \in DOMAIN wire \ {k} : i < d => \E h \in DOMAIN wire' : j < h /\ wire'[h] = wire[d]
    BY <1>1, <1>3
  <2>2. CASE Runs(codex, wire[i].turn)
    BY <2>1, <2>2
  <2>3. ASSUME NEW d \in DOMAIN wire, i < d, wire[d].kind = "completed", wire[d].turn = wire[i].turn
        PROVE  d # k
    <3>1. d = k => i \in 1 .. k - 1
      BY <1>0, <2>1, <2>3
    <3> QED BY <1>3, <2>1, <2>3, <3>1
  <2>4. CASE \E d \in DOMAIN wire : i < d /\ wire[d].kind = "completed" /\ wire[d].turn = wire[i].turn
    BY <2>1, <2>3, <2>4
  <2> QED BY <1>3, <2>1, <2>2, <2>4 DEF AsksStand
<1> QED BY <1>2, <1>3 DEF RoutesStand, AsksStand

LEMMA RequestStands ==
    ASSUME Typed, RoutesStand, AsksStand, NEW i \in FirstFor("request"), HandleRequest(i)
    PROVE  RoutesStand' /\ AsksStand'
<1>0. PICK q : q = wire[i].of
  OBVIOUS
<1> DEFINE new == {Rpc(q)}
<1>1. /\ i \in DOMAIN wire /\ wire[i].kind = "request" /\ wire' = RemoveAt(wire, i) /\ UNCHANGED codex
      /\ Routed(registry') \subseteq Routed(registry) \cup new
  BY <1>0, FirstRequest, RequestGrows DEF HandleRequest, Handled, Grows
<1>2. history'.late = IF q \notin Open /\ ~EndOnWire(q) THEN history.late \cup {q} ELSE history.late
  BY <1>0, RequestRemembers
<1>3. Stands(Rpc(q))'
  <2>1. Rpc(q).kind = "rpc" /\ Rpc(q).of = q /\ Open' = Open
    BY <1>1 DEF Rpc, Open
  <2>2. CASE EndOnWire(q)
    <3>1. PICK d \in DOMAIN wire : wire[d].kind = "completed" \/ (wire[d].kind = "resolved" /\ wire[d].of = q)
      BY <2>2 DEF EndOnWire
    <3>2. d \in DOMAIN wire \ {i}
      BY <1>1, <3>1
    <3>3. \E j \in DOMAIN wire' : wire'[j] = wire[d]
      BY <1>1, <3>2, RemoveTells DEF Typed
    <3>4. RequestEnds(wire', q)
      BY <3>1, <3>3 DEF RequestEnds
    <3> QED BY <2>1, <3>4 DEF Stands
  <2>3. CASE ~EndOnWire(q)
    <3>1. q \in Open' \/ q \in history'.late
      BY <1>2, <2>1, <2>3
    <3> QED BY <2>1, <3>1 DEF Stands
  <2> QED BY <2>2, <2>3
<1>4. history.late \subseteq history'.late /\ \A route \in new : Stands(route)'
  BY <1>2, <1>3
<1> HIDE DEF new
<1> QED BY <1>0, <1>1, <1>4, HandledStands

LEMMA RpcOf == \A route \in Routes : route.kind = "rpc" => route = Rpc(route.of)
<1>1. \A q \in Requested : Rpc(q).of = q
  BY DEF Rpc
<1>2. \A turn \in 0 .. MaxTurns, q \in Questions \ Requested : Steer(turn, q).kind = "steer"
  BY DEF Steer
<1>3. Observe.kind = "observe"
  BY DEF Observe
<1> QED BY <1>1, <1>2, <1>3 DEF Routes

LEMMA NoticeStands ==
    ASSUME Typed, RoutesStand, AsksStand, NEW i \in FirstFor("notice"), HandleNotice(i)
    PROVE  RoutesStand' /\ AsksStand'
<1>0. PICK m : m = wire[i]
  OBVIOUS
<1> DEFINE new == IF m.kind = "asked" THEN {Steer(m.turn, m.of)} ELSE {}
<1>1. /\ i \in DOMAIN wire /\ wire' = RemoveAt(wire, i) /\ UNCHANGED codex
      /\ registry \in Registries /\ registry' \in Registries
      /\ Routed(registry') \subseteq Routed(registry) \cup new
      /\ \A j \in 1 .. i - 1 : wire[j].kind = "request"
  BY <1>0, FirstNotice, NoticeGrows DEF HandleNotice, Handled, Grows, Typed
<1>2. history'.late = history.late
  BY NoticeRemembers
<1>3. ASSUME m.kind = "completed"
      PROVE  Routed(registry') = {}
  <2>1. registry' = EndTurn(registry)
    BY <1>0, <1>3 DEF HandleNotice
  <2> QED BY <1>1, <2>1, EndTurnShrinks DEF Routed
<1>4. ASSUME m.kind = "resolved", NEW route \in Routed(registry')
      PROVE  ~(route.kind = "rpc" /\ route.of = m.of)
  <2>1. registry' = ResolveRpc(registry, m.of)
    BY <1>0, <1>4 DEF HandleNotice
  <2>2. \A e \in registry'.entries : e.route # Rpc(m.of)
    BY <1>1, <2>1 DEF ResolveRpc, Registries
  <2>3. route \in Routes /\ route # Rpc(m.of)
    BY <1>1, <1>4, <2>2 DEF Routed, Registries, Entry
  <2> QED BY <2>3, RpcOf
<1>5. ASSUME m.kind = "asked"
      PROVE  Stands(Steer(m.turn, m.of))'
  <2> DEFINE t == m.turn
  <2>1. Steer(t, m.of).kind # "rpc" /\ Steer(t, m.of).of = t
    BY DEF Steer
  <2>2. Runs(codex, t) \/ \E j \in DOMAIN wire : i < j /\ wire[j].kind = "completed" /\ wire[j].turn = t
    BY <1>0, <1>1, <1>5 DEF AsksStand
  <2>3. ASSUME NEW j \in DOMAIN wire, i < j, wire[j].kind = "completed", wire[j].turn = t
        PROVE  TurnEnds(wire', t)
    <3>1. j \in DOMAIN wire \ {i}
      BY <1>0, <1>5, <2>3
    <3>2. \E h \in DOMAIN wire' : wire'[h] = wire[j]
      BY <1>1, <3>1, RemoveTells DEF Typed
    <3> HIDE DEF t
    <3> QED BY <2>3, <3>2 DEF TurnEnds
  <2>4. Runs(codex', t) \/ TurnEnds(wire', t)
    BY <1>1, <2>2, <2>3
  <2> HIDE DEF t
  <2>5. Stands(Steer(t, m.of))'
    BY <2>1, <2>4 DEF Stands
  <2> QED BY <2>5 DEF t
<1>6. \A route \in new : Stands(route)'
  BY <1>5
<1> HIDE DEF new
<1> QED BY <1>0, <1>1, <1>2, <1>3, <1>4, <1>6, HandledStands

LEMMA StandsKept ==
    ASSUME Typed, RoutesStand, AsksStand, [QuestionNext]_vars
    PROVE  RoutesStand' /\ AsksStand'
<1>0. history \in Histories
  BY DEF Typed
<1>1. ASSUME UNCHANGED <<codex, wire>>, history.late \subseteq history'.late,
             Routed(registry') \subseteq Routed(registry)
      PROVE  RoutesStand' /\ AsksStand'
  BY <1>1 DEF RoutesStand, AsksStand, Stands, Open
<1>2. CASE UNCHANGED vars \/ Tick \/ \E start \in {0, poll.read} : PollRead(start)
  BY <1>1, <1>2 DEF vars, Tick, PollRead
<1>3. CASE \E t \in {"request", "notice"} : Take(t)
  BY <1>0, <1>1, <1>3 DEF Take, Histories
<1>4. CASE PollApply \/ Snapshot
  <2>1. Routed(registry') \subseteq Routed(registry)
    BY <1>4, UnaskedGrows DEF Grows
  <2> QED BY <1>1, <1>4, <2>1 DEF PollApply, Snapshot
<1>5. ASSUME NEW c \in Clients, NEW e \in registry.entries, Claim(c, e)
      PROVE  RoutesStand' /\ AsksStand'
  BY <1>1, <1>5, ClaimMoves DEF Shrinks
<1>6. ASSUME NEW c \in Clients, Send(c) \/ SendFails(c) \/ GiveUp(c)
      PROVE  RoutesStand' /\ AsksStand'
  BY <1>1, <1>6, SendMoves
<1>7. ASSUME NEW c \in Clients, Finish(c)
      PROVE  RoutesStand' /\ AsksStand'
  <2>1. history'.late = history.late
    BY <1>0, <1>7 DEF Finish, Histories
  <2> QED BY <1>1, <1>7, <2>1, FinishMoves DEF Shrinks
<1> QED BY <1>2, <1>3, <1>4, <1>5, <1>6, <1>7, CodexKeepsStanding, RequestStands, NoticeStands DEF QuestionNext

\* Whoever can be answered is waited for, or the wire already tells that it is over.
\* The wire keeps its order, so that the end of a turn is behind the questions of the
\* turn, and what told an end leaves the wire only with the entries that it ends.
THEOREM QuestionStands == QuestionSpec => []AnswerableIsOpen
<1> DEFINE Inv == Typed /\ RoutesStand /\ AsksStand
<1>1. QuestionInit => Inv
  <2> SUFFICES ASSUME QuestionInit PROVE Inv
    OBVIOUS
  <2>1. Typed
    BY InitTypes, TypesMean
  <2>2. wire = <<>> /\ registry.entries = {}
    BY DEF QuestionInit
  <2> QED BY <2>1, <2>2 DEF RoutesStand, Routed, AsksStand
<1>2. Inv /\ [QuestionNext]_vars => Inv'
  BY TypesKept, StandsKept
<1>3. Inv => AnswerableIsOpen
  BY StandsMeans
<1> QED BY <1>1, <1>2, <1>3, PTL DEF QuestionSpec

-----------------------------------------------------------------------------
(* OpenIsOffered: no question is lost *)

\* Nothing has gone wrong so far, and nothing has expired.
Regular == ~history.mishap /\ now <= Ttl + 1

\* What ends questions.
Closers == {"said", "started", "completed"}

Handlers == {"request", "notice"}

\* An entry is as old as what it was made from, and asks what its route asks.
Sane(e) ==
    /\ e.at \in 1 .. now
    /\ e.text = TextOf[e.item[1]]
    /\ e.answerable <=> e.route # Observe
    /\ e.route # Observe => e.text = TextOf[e.route.asks]

Fit(r) == \A e \in r.entries : Sane(e) /\ e.at > r.cleared

EntriesFit == Fit(registry)

\* Codex tells nothing of the future, and waits for nothing between its turns.
CodexFits ==
    /\ codex.since <= now /\ \A t \in Handlers : taken[t] <= now
    /\ ~codex.running => Open = {}
    /\ \A rec \in ToSet(transcript) \cup ToSet(poll.observed) :
         /\ rec.at \in 1 .. now
         /\ codex.running /\ rec.kind # "question" => rec.at <= codex.since

\* Codex is done with the question of this route, or will be when it gets a reply.
Done(asked, ms, route) ==
    \/ asked[route.asks] = "closed"
    \/ route.kind = "rpc" /\ \E m \in ms : m.route = route

\* A client has the entry it claimed, unless its turn has ended, and no other has it.
ClientsFit ==
    \A c \in Clients : client[c].pc # "idle" =>
        /\ client[c].route # Observe
        /\ \A d \in Clients : client[d].pc # "idle" /\ client[d].id = client[c].id => d = c
        /\ \A e \in registry.entries : e.id = client[c].id => e.submitting /\ e.route \in {client[c].route, Observe}
        /\ client[c].pc = "finish" /\ client[c].ok => Done(codex.asked, toCodex, client[c].route)

\* What is handled is the first on the wire, and whatever ends questions comes before
\* those that are open.
WireFits ==
    /\ \A t \in Handlers : taken[t] # 0 => wire # <<>> /\ wire[1].kind \in HandledBy[t]
    /\ \A i \in DOMAIN wire :
         /\ wire[i].kind = "resolved" => codex.asked[wire[i].of] = "closed"
         /\ wire[i].kind \in AskKinds /\ wire[i].of \in Open => wire[i].turn = codex.turn
         /\ wire[i].kind \in Closers => \A q \in Open : \E j \in AsksIn(wire, q) : i < j
         /\ wire[i].kind = "completed" /\ codex.running =>
              \E j \in DOMAIN wire : i < j /\ wire[j].kind = "started"

\* A message on the wire is going to clear the thread, up to that time at least.
Clears(kinds, at) ==
    \E i \in DOMAIN wire : wire[i].kind \in kinds /\ (i = 1 /\ taken["notice"] # 0 => taken["notice"] >= at)

SinceCleared == registry.cleared >= codex.since \/ Clears({"said", "started"}, codex.since)

\* An entry whose turn ended while its answer was under way goes with the next turn.
InFlight ==
    \A c \in Clients, e \in registry.entries :
        client[c].pc # "idle" /\ e.id = client[c].id /\ e.route = Observe /\ codex.running =>
          Clears({"started"}, e.at)

\* The entry is what the user has of q.
Holds(e, q) ==
    \/ e.route \in {Rpc(q), Steer(codex.turn, q)}
    \/ e.submitting /\ e.route = Observe /\ e.text = TextOf[q]

Held(q) == \E e \in registry.entries : Holds(e, q)

\* An open question is on the wire, with the user, or on its way to be answered.
NoneLost ==
    \A q \in Open \ history.displaced :
        AsksIn(wire, q) # {} \/ Held(q) \/ \E m \in toCodex : m.route = Rpc(q)

Before == Typed /\ IdsFree /\ AnswersFit /\ SentWasTaken /\ \A q \in Questions : OnePlace(q)

OffersInv ==
    /\ EntriesFit /\ CodexFits /\ ClientsFit
    /\ Regular => WireFits /\ SinceCleared /\ InFlight /\ NoneLost

-----------------------------------------------------------------------------

\* Routes of different kinds differ.
LEMMA RoutesDiffer ==
    /\ \A q : Rpc(q) # Observe /\ Rpc(q).kind = "rpc" /\ Rpc(q).of = q /\ Rpc(q).asks = q
    /\ \A t, q : Steer(t, q) # Observe /\ Steer(t, q).kind = "steer" /\ Steer(t, q).of = t /\ Steer(t, q).asks = q
    /\ Observe.kind = "observe"
<1>1. \A q : Rpc(q).kind = "rpc" /\ Rpc(q).of = q /\ Rpc(q).asks = q
  BY DEF Rpc
<1>2. \A t, q : Steer(t, q).kind = "steer" /\ Steer(t, q).of = t /\ Steer(t, q).asks = q
  BY DEF Steer
<1>3. Observe.kind = "observe"
  BY DEF Observe
<1> QED BY <1>1, <1>2, <1>3

\* What an observation does to an entry.
LEMMA UpgradeFits ==
    ASSUME NEW old \in Entry, NEW batch \in Entry
    PROVE  LET f == Upgraded(old, batch)
           IN  /\ f \in Entry /\ f.id = old.id /\ f.at = old.at /\ f.text = old.text /\ f.item = old.item
               /\ f.submitting = old.submitting
               /\ \/ f = old /\ (old.submitting \/ old.route # Observe \/ ~batch.answerable)
                  \/ ~old.submitting /\ old.route = Observe /\ batch.answerable /\ f.answerable /\ f.route = batch.route
<1> DEFINE f == [old EXCEPT !.route = batch.route, !.answerable = TRUE]
<1>1. /\ f \in Entry /\ f.id = old.id /\ f.at = old.at /\ f.text = old.text /\ f.item = old.item
      /\ f.submitting = old.submitting /\ f.answerable /\ f.route = batch.route
  BY DEF Entry
<1>2. Upgraded(old, batch) = IF ~old.submitting /\ old.route = Observe /\ batch.answerable THEN f ELSE old
  BY DEF Upgraded
<1> HIDE DEF f
<1> QED BY <1>1, <1>2

\* The cases of an observation.
LEMMA ObservedCases ==
    ASSUME NEW r \in Registries, NEW batch \in Entry, NEW s \in Observed(r, batch)
    PROVE  \/ s = r /\ (r.cleared >= batch.at \/ \A old \in r.entries : ~Matches(old, batch))
              /\ Refused(r, batch)
           \/ \E old \in r.entries :
                /\ Matches(old, batch) /\ r.cleared < batch.at
                /\ s.entries = (r.entries \ {old}) \cup {Upgraded(old, batch)} /\ s.cleared = r.cleared
           \/ \E f \in Entry :
                /\ f = [batch EXCEPT !.id = f.id] /\ ~Used(r, f.id) /\ r.cleared < batch.at
                /\ s.entries = r.entries \cup {f} /\ s.cleared = r.cleared
<1>0. r.cleared \in Nat /\ batch.at \in Nat
  BY DEF Registries, Entry, Times
<1>1. CASE r.cleared >= batch.at
  BY <1>1 DEF Observed, Refused
<1>2. CASE ~(r.cleared >= batch.at) /\ {old \in r.entries : Matches(old, batch)} # {}
  <2>1. PICK old \in r.entries : Matches(old, batch)
                                 /\ s = [r EXCEPT !.entries = (@ \ {old}) \cup {Upgraded(old, batch)}]
    BY <1>2 DEF Observed
  <2>2. s.entries = (r.entries \ {old}) \cup {Upgraded(old, batch)} /\ s.cleared = r.cleared
    BY <2>1 DEF Registries
  <2> QED BY <1>0, <1>2, <2>1, <2>2
<1>3. CASE ~(r.cleared >= batch.at) /\ {old \in r.entries : Matches(old, batch)} = {}
  <2>1. CASE Cardinality(r.entries) >= MaxEntries
    BY <1>3, <2>1 DEF Observed, Refused
  <2>2. CASE ~(Cardinality(r.entries) >= MaxEntries)
    <3>1. PICK i \in FreshIds(r) : s = [r EXCEPT !.entries = @ \cup {[batch EXCEPT !.id = i]}]
      BY <1>3, <2>2 DEF Observed
    <3>2. i \in Nat /\ ~Used(r, i)
      BY <3>1, FS_CardinalityType DEF FreshIds
    <3> DEFINE f == [batch EXCEPT !.id = i]
    <3>3. f \in Entry /\ f.id = i
      BY <3>2 DEF Entry
    <3>4. s.entries = r.entries \cup {f} /\ s.cleared = r.cleared
      BY <3>1 DEF Registries
    <3>5. f = [batch EXCEPT !.id = f.id] /\ ~Used(r, f.id) /\ r.cleared < batch.at
      BY <1>0, <1>3, <3>2, <3>3
    <3> HIDE DEF f
    <3> QED BY <3>3, <3>4, <3>5
  <2> QED BY <2>1, <2>2
<1> QED BY <1>1, <1>2, <1>3

\* A batch is made of what it asks.
Made(batch) ==
    /\ Sane(batch) /\ ~batch.submitting

\* What the user is asked in makes a sane entry.
LEMMA LiveMade ==
    ASSUME NEW q \in Questions, NEW at \in 1 .. now, now \in Times, NEW route \in Routes, route.asks = q, route # Observe
    PROVE  /\ Live(q, at, route) \in Entry /\ Made(Live(q, at, route))
           /\ LET b == Live(q, at, route)
              IN  b.item = <<q, "live">> /\ b.text = TextOf[q] /\ b.at = at /\ b.route = route /\ b.answerable
<1>1. at \in Times
  BY DEF Times
<1> QED BY <1>1, LiveType DEF Live, Made, Sane

\* So does the echo of a question in the transcript.
LEMMA EchoMade ==
    ASSUME NEW q \in Questions, NEW at \in 1 .. now, now \in Times
    PROVE  Echo(q, at) \in Entry /\ Made(Echo(q, at)) /\ Echo(q, at).at = at
<1>1. at \in Times
  BY DEF Times
<1> QED BY <1>1, EchoType DEF Echo, Made, Sane

\* What matters of an observation: entries that hold a question stay, and others are
\* as they should be.
Adds(r, s) ==
    /\ s.cleared = r.cleared
    /\ \A e \in r.entries : e \in s.entries \/ (~e.submitting /\ e.route = Observe)
    /\ \A f \in s.entries : f \in r.entries \/ /\ Sane(f) /\ f.at > r.cleared
                                               /\ \/ ~Used(r, f.id)
                                                  \/ \E e \in r.entries : e.id = f.id /\ ~e.submitting

\* An observation adds entries that fit, and nothing else.
LEMMA ObservedAdds ==
    ASSUME NEW r \in Registries, Fit(r),
           NEW batch \in Entry, Made(batch), NEW s \in Observed(r, batch)
    PROVE  Adds(r, s)
<1>1. CASE s = r
  BY <1>1 DEF Adds
<1>2. ASSUME NEW old \in r.entries, Matches(old, batch),
             s.entries = (r.entries \ {old}) \cup {Upgraded(old, batch)}, s.cleared = r.cleared
      PROVE  Adds(r, s)
  <2> DEFINE f == Upgraded(old, batch)
  <2>0. old \in Entry
    BY DEF Registries
  <2>1. /\ f \in Entry /\ f.id = old.id /\ f.at = old.at /\ f.text = old.text /\ f.item = old.item
        /\ f.submitting = old.submitting
        /\ \/ f = old /\ (old.submitting \/ old.route # Observe \/ ~batch.answerable)
           \/ ~old.submitting /\ old.route = Observe /\ batch.answerable /\ f.answerable /\ f.route = batch.route
    BY <2>0, UpgradeFits
  <2>2. s.entries = (r.entries \ {old}) \cup {f}
    BY <1>2
  <2> HIDE DEF f
  <2>3. CASE f = old
    <3>1. s.entries = r.entries
      BY <2>2, <2>3
    <3> QED BY <1>2, <3>1 DEF Adds
  <2>4. CASE f # old
    <3>1. ~old.submitting /\ old.route = Observe /\ batch.answerable /\ f.answerable /\ f.route = batch.route
      BY <2>1, <2>4
    <3>2. batch.route # Observe /\ batch.text = TextOf[batch.route.asks] /\ batch.text = TextOf[batch.item[1]]
      BY <3>1 DEF Made, Sane
    <3>3. old.text = batch.text
      <4>1. CASE old.text = batch.text
        BY <4>1
      <4>2. CASE old.item = batch.item
        BY <3>2, <4>2 DEF Sane, Fit
      <4>3. old.route.kind = "observe"
        BY <3>1, RoutesDiffer
      <4> QED BY <1>2, <4>1, <4>2, <4>3 DEF Matches
    <3>4. Sane(f) /\ f.at > r.cleared
      BY <2>1, <3>1, <3>2, <3>3 DEF Sane, Fit
    <3> QED BY <1>2, <2>1, <2>2, <3>1, <3>4 DEF Adds
  <2> QED BY <2>3, <2>4
<1>3. ASSUME NEW f \in Entry, f = [batch EXCEPT !.id = f.id], ~Used(r, f.id), r.cleared < batch.at,
             s.entries = r.entries \cup {f}, s.cleared = r.cleared
      PROVE  Adds(r, s)
  <2>1. /\ f.at = batch.at /\ f.text = batch.text /\ f.item = batch.item
        /\ f.route = batch.route /\ f.answerable = batch.answerable
    BY <1>3 DEF Entry
  <2>2. Sane(f) /\ f.at > r.cleared
    <3>1. r.cleared \in Nat /\ batch.at \in Nat
      BY DEF Registries, Entry, Times
    <3> QED BY <1>3, <2>1, <3>1 DEF Made, Sane
  <2> QED BY <1>3, <2>2 DEF Adds
<1> QED BY <1>1, <1>2, <1>3, ObservedCases

\* A question that is taken in is what the user has of it, if no other question
\* has taken its entry.
LEMMA ObservedHolds ==
    ASSUME NEW r \in Registries, \A e \in r.entries : Sane(e),
           NEW q \in Questions, NEW at \in 1 .. now, now \in Times, NEW route \in Routes, route.asks = q, route # Observe,
           NEW s \in Observed(r, Live(q, at, route)), ~Refused(r, Live(q, at, route)), ~Usurped(r, Live(q, at, route))
    PROVE  \E f \in s.entries : f.route = route \/ (f.submitting /\ f.route = Observe /\ f.text = TextOf[q])
<1> DEFINE batch == Live(q, at, route)
<1>1. /\ batch \in Entry /\ batch.item = <<q, "live">> /\ batch.text = TextOf[q] /\ batch.route = route
      /\ batch.answerable /\ s \in Observed(r, batch) /\ ~Refused(r, batch) /\ ~Usurped(r, batch)
  BY LiveMade
<1> HIDE DEF batch
<1>2. ASSUME NEW old \in r.entries, Matches(old, batch),
             s.entries = (r.entries \ {old}) \cup {Upgraded(old, batch)}
      PROVE  \E f \in s.entries : f.route = route \/ (f.submitting /\ f.route = Observe /\ f.text = TextOf[q])
  <2> DEFINE f == Upgraded(old, batch)
  <2>0. old \in Entry
    BY DEF Registries
  <2>1. /\ f \in s.entries
        /\ \/ f = old /\ (old.submitting \/ old.route # Observe)
           \/ f.route = batch.route
    BY <1>1, <1>2, <2>0, UpgradeFits
  <2> HIDE DEF f
  <2>2. CASE f = old /\ old.route # Observe
    <3>1. old.route = route
      <4>1. CASE old.route.kind = "rpc" /\ batch.route.kind = "rpc"
        BY <1>1, <1>2, <2>2, <4>1 DEF Matches
      <4>2. CASE ~(old.route.kind = "rpc" /\ batch.route.kind = "rpc")
        <5>1. {old.route.kind, batch.route.kind} # {"rpc"}
          BY <4>2
        <5>2. old.item = batch.item
          BY <1>1, <1>2, <2>2, <4>2 DEF Matches
        <5> QED BY <1>1, <2>2, <5>1, <5>2 DEF Usurped
      <4> QED BY <4>1, <4>2
    <3> QED BY <2>1, <2>2, <3>1
  <2>3. CASE f = old /\ old.route = Observe /\ old.submitting
    <3>1. old.route.kind = "observe"
      BY <2>3, RoutesDiffer
    <3>2. old.text = TextOf[q]
      <4>1. CASE old.item = batch.item
        BY <1>1, <4>1 DEF Sane
      <4>2. CASE old.text = batch.text
        BY <1>1, <4>2
      <4> QED BY <1>2, <3>1, <4>1, <4>2 DEF Matches
    <3> QED BY <2>1, <2>3, <3>2
  <2> QED BY <1>1, <2>1, <2>2, <2>3
<1>3. ASSUME NEW f \in Entry, f = [batch EXCEPT !.id = f.id], s.entries = r.entries \cup {f}
      PROVE  \E g \in s.entries : g.route = route \/ (g.submitting /\ g.route = Observe /\ g.text = TextOf[q])
  <2>1. f.route = route
    BY <1>1, <1>3 DEF Entry
  <2> QED BY <1>3, <2>1
<1> QED BY <1>1, <1>2, <1>3, ObservedCases

-----------------------------------------------------------------------------
(* What Codex writes *)

\* The records of a session file.
LEMMA RecordsIn ==
    ASSUME NEW s \in Seq(Record)
    PROVE  /\ \A rec \in Record : Append(s, rec) \in Seq(Record) /\ ToSet(Append(s, rec)) = ToSet(s) \cup {rec}
           /\ s # <<>> => Head(s) \in ToSet(s) /\ Head(s) \in Record /\ ToSet(Tail(s)) \subseteq ToSet(s)
           /\ \A n \in Nat : ToSet(SubSeq(s, n + 1, Len(s))) \subseteq ToSet(s)
<1>1. ASSUME NEW rec \in Record
      PROVE  Append(s, rec) \in Seq(Record) /\ ToSet(Append(s, rec)) = ToSet(s) \cup {rec}
  <2>1. /\ DOMAIN s = 1 .. Len(s) /\ Len(s) \in Nat
        /\ DOMAIN Append(s, rec) = 1 .. Len(s) + 1
        /\ \A i \in 1 .. Len(s) : Append(s, rec)[i] = s[i]
        /\ Append(s, rec)[Len(s) + 1] = rec
    BY AppendProperties
  <2>2. ASSUME NEW x PROVE x \in ToSet(Append(s, rec)) <=> x \in ToSet(s) \cup {rec}
    BY <2>1 DEF ToSet
  <2> QED BY <2>2
<1>2. ASSUME s # <<>>
      PROVE  Head(s) \in ToSet(s) /\ Head(s) \in Record /\ ToSet(Tail(s)) \subseteq ToSet(s)
  <2>1. /\ Len(s) \in Nat \ {0} /\ DOMAIN s = 1 .. Len(s) /\ Head(s) = s[1]
        /\ DOMAIN Tail(s) = 1 .. Len(s) - 1 /\ \A i \in 1 .. Len(s) - 1 : Tail(s)[i] = s[i + 1]
    BY <1>2
  <2>2. 1 \in DOMAIN s /\ \A i \in DOMAIN Tail(s) : i + 1 \in DOMAIN s
    BY <2>1
  <2> QED BY <2>1, <2>2 DEF ToSet
<1>3. ASSUME NEW n \in Nat
      PROVE  ToSet(SubSeq(s, n + 1, Len(s))) \subseteq ToSet(s)
  <2>1. \A i \in n + 1 .. Len(s) : s[i] \in Record
    OBVIOUS
  <2>2. n + 1 \in Int /\ Len(s) \in Int /\ Len(s) \in Nat
    OBVIOUS
  <2> DEFINE v == SubSeq(s, n + 1, Len(s))
  <2>3. /\ v \in Seq(Record)
        /\ Len(v) = IF n + 1 <= Len(s) THEN Len(s) - (n + 1) + 1 ELSE 0
        /\ \A i \in 1 .. Len(s) - (n + 1) + 1 : v[i] = s[n + 1 + i - 1]
    BY <2>1, <2>2, SubSeqProperties
  <2> HIDE DEF v
  <2>4. ASSUME NEW i \in DOMAIN v
        PROVE  v[i] \in ToSet(s)
    <3>1. i \in 1 .. Len(v)
      BY <2>3
    <3>2. i \in 1 .. Len(s) - (n + 1) + 1 /\ n + 1 + i - 1 \in DOMAIN s
      BY <2>2, <2>3, <3>1
    <3> QED BY <2>3, <3>2 DEF ToSet
  <2>5. ToSet(v) \subseteq ToSet(s)
    BY <2>4 DEF ToSet
  <2> QED BY <2>5 DEF v
<1> QED BY <1>1, <1>2, <1>3

\* The new messages, and the record that goes with them.
Wrote(i) == i \in DOMAIN wire' \ DOMAIN wire
Recorded(kind) == \E rec : rec.kind = kind /\ rec.at = now /\ ToSet(transcript') = ToSet(transcript) \cup {rec}

\* Questions that were open are closed, and nothing else becomes of any.
ClosesAll == \A q \in Questions : codex'.asked[q] = IF codex.asked[q] = "open" THEN "closed" ELSE codex.asked[q]

Starts ==
    /\ ~codex.running /\ codex'.running /\ codex'.since = now /\ codex'.asked = codex.asked
    /\ Wrote(Len(wire) + 1) /\ \A i : Wrote(i) => wire'[i].kind = "started"
    /\ Recorded("user")

Asks(q) ==
    /\ codex.running /\ codex'.running /\ codex'.turn = codex.turn /\ codex'.since = codex.since
    /\ New(q) /\ \A p \in Questions : codex'.asked[p] = IF p = q THEN "open" ELSE codex.asked[p]
    /\ Wrote(Len(wire) + 1)
    /\ \A i : Wrote(i) => wire'[i].kind \in AskKinds /\ wire'[i].of = q /\ wire'[i].turn = codex.turn
    /\ Recorded("question")

Closes(q) ==
    /\ codex'.running = codex.running /\ codex'.turn = codex.turn /\ codex'.since = codex.since
    /\ codex.asked[q] = "open"
    /\ \A p \in Questions : codex'.asked[p] = IF p = q THEN "closed" ELSE codex.asked[p]
    /\ \A i : Wrote(i) => wire'[i].kind = "resolved" /\ wire'[i].of = q
    /\ transcript' = transcript

Says ==
    /\ codex.running /\ codex'.running /\ codex'.turn = codex.turn /\ codex'.since = now
    /\ ClosesAll
    /\ Wrote(Len(wire) + 1) /\ wire'[Len(wire) + 1].kind = "said"
    /\ \A i : Wrote(i) => wire'[i].kind = "said" \/ (wire'[i].kind = "resolved" /\ wire'[i].of \in Open)
    /\ Recorded("user")

Ends ==
    /\ ~codex'.running /\ codex'.since = codex.since
    /\ ClosesAll
    /\ \A i : Wrote(i) => wire'[i].kind = "completed"
    /\ Recorded("ended")

\* Saying something is one of the ways to write.
LEMMA SaidSays ==
    ASSUME Typed, Said
    PROVE  Says /\ Longer(wire, wire')
<1> DEFINE w == Append(wire, Msg("said", 0))
<1>1. /\ codex \in Turns /\ codex.turn \in 0 .. MaxTurns /\ wire \in Seq(Message)
      /\ Msg("said", 0) \in Message /\ Msg("said", 0).kind = "said"
  <2>1. codex \in Turns /\ codex.turn \in 0 .. MaxTurns /\ wire \in Seq(Message)
    BY DEF Typed, Turns
  <2> QED BY <2>1, MessageType DEF Msg
<1>2. /\ Longer(wire, w) /\ w \in Seq(Message) /\ DOMAIN w = DOMAIN wire \cup {Len(wire) + 1}
      /\ w[Len(wire) + 1].kind = "said" /\ Len(wire) + 1 \notin DOMAIN wire
  BY <1>1, AppendLonger
<1>3. wire' = w \o Resolutions(Open)
  BY DEF Said
<1>4. /\ codex.running /\ codex'.running = codex.running /\ codex'.turn = codex.turn /\ codex'.since = now
      /\ ClosesAll
  BY <1>1 DEF Said, Turns, CloseAll, ClosesAll, Open
<1> HIDE DEF w
<1>5. /\ Longer(w, wire')
      /\ \A i \in DOMAIN wire' : i \in DOMAIN w \/ (wire'[i].kind = "resolved" /\ wire'[i].of \in Open)
  BY <1>2, <1>3, OpenType, ResolutionsFollow
<1>6. Longer(wire, wire')
  BY <1>2, <1>5 DEF Longer
<1>7. /\ Wrote(Len(wire) + 1) /\ wire'[Len(wire) + 1].kind = "said"
      /\ \A i : Wrote(i) => wire'[i].kind = "said" \/ (wire'[i].kind = "resolved" /\ wire'[i].of \in Open)
  BY <1>2, <1>5 DEF Longer, Wrote
<1>8. Recorded("user")
  <2>1. transcript' = Append(transcript, Rec("user", 0)) /\ Rec("user", 0) \in Record
        /\ Rec("user", 0).kind = "user" /\ Rec("user", 0).at = now
    BY RecordType DEF Said, Typed, Rec
  <2>2. ToSet(transcript') = ToSet(transcript) \cup {Rec("user", 0)}
    BY <2>1, RecordsIn DEF Typed
  <2> QED BY <2>1, <2>2 DEF Recorded
<1> QED BY <1>4, <1>6, <1>7, <1>8 DEF Says

\* Closing a question is another.
LEMMA ClosedCloses ==
    ASSUME Typed, NEW q \in Open, codex' = [codex EXCEPT !.asked[q] = "closed"],
           wire' = wire \o Resolutions({q}), UNCHANGED transcript
    PROVE  Closes(q) /\ Longer(wire, wire')
<1>1. q \in Questions /\ wire \in Seq(Message) /\ codex \in Turns /\ {q} \in SUBSET Questions
  BY OpenType DEF Typed
<1>2. /\ Longer(wire, wire')
      /\ \A i \in DOMAIN wire' : i \in DOMAIN wire \/ (wire'[i].kind = "resolved" /\ wire'[i].of \in {q})
  BY <1>1, ResolutionsFollow
<1>3. /\ codex'.running = codex.running /\ codex'.turn = codex.turn /\ codex'.since = codex.since
      /\ codex.asked[q] = "open"
      /\ \A p \in Questions : codex'.asked[p] = IF p = q THEN "closed" ELSE codex.asked[p]
  BY <1>1 DEF Turns, Open
<1> QED BY <1>2, <1>3 DEF Closes, Wrote

\* Every step of Codex says, closes, asks or writes a question, or starts or ends a turn.
LEMMA CodexWrites ==
    ASSUME Typed, CodexStep
    PROVE  /\ UNCHANGED <<taken, poll, registry, now>> /\ Longer(wire, wire')
           /\ history'.mishap = history.mishap /\ history'.displaced = history.displaced
           /\ \/ Starts \/ (\E q \in Questions : Asks(q)) \/ (\E q \in Open : Closes(q)) \/ Says \/ Ends
              \/ UNCHANGED <<codex, wire, transcript>>
<1>0. /\ codex \in Turns /\ codex.turn \in 0 .. MaxTurns /\ wire \in Seq(Message) /\ history \in Histories
      /\ now \in Times
  BY DEF Typed, Turns
<1>1. ASSUME NEW m \in Message, wire' = Append(wire, m)
      PROVE  /\ Longer(wire, wire') /\ Wrote(Len(wire) + 1) /\ \A i : Wrote(i) => wire'[i] = m
  BY <1>0, <1>1, AppendLonger DEF Wrote
<1>2. ASSUME NEW kind \in {"question", "user", "ended"}, NEW of, transcript' = Append(transcript, Rec(kind, of)),
             Rec(kind, of) \in Record
      PROVE  Recorded(kind)
  <2>1. ToSet(transcript') = ToSet(transcript) \cup {Rec(kind, of)}
    BY <1>2, RecordsIn DEF Typed
  <2>2. Rec(kind, of).kind = kind /\ Rec(kind, of).at = now
    BY DEF Rec
  <2> QED BY <2>1, <2>2 DEF Recorded
<1>3. CASE StartTurn
  <2> DEFINE m == Msg("started", 0)
  <2>1. m \in Message /\ m.kind = "started" /\ wire' = Append(wire, m)
    BY <1>0, <1>3, MessageType DEF StartTurn, Msg
  <2> HIDE DEF m
  <2>2. Recorded("user")
    <3>1. Rec("user", 0) \in Record
      BY <1>0, RecordType
    <3> QED BY <1>2, <1>3, <3>1 DEF StartTurn
  <2>3. /\ ~codex.running /\ codex'.running /\ codex'.since = now /\ codex'.asked = codex.asked
        /\ UNCHANGED <<taken, poll, registry, now, history>>
    BY <1>0, <1>3 DEF StartTurn, Turns
  <2> QED BY <1>1, <2>1, <2>2, <2>3 DEF Starts
<1>4. ASSUME NEW q \in Questions, Ask(q)
      PROVE  Asks(q) /\ Longer(wire, wire') /\ UNCHANGED <<taken, poll, registry, now, history>>
  <2> DEFINE m == Msg(IF q \in Requested THEN "request" ELSE "asked", q)
  <2>1. m \in Message /\ m.turn = codex.turn /\ m.of = q /\ m.kind \in AskKinds /\ wire' = Append(wire, m)
    BY <1>0, <1>4, MessageType DEF Ask, Msg, AskKinds
  <2> HIDE DEF m
  <2>2. Recorded("question")
    <3>1. Rec("question", q) \in Record
      BY <1>0, RecordType
    <3> QED BY <1>2, <1>4, <3>1 DEF Ask
  <2>3. /\ codex.running /\ codex'.running /\ codex'.turn = codex.turn /\ codex'.since = codex.since
        /\ New(q) /\ \A p \in Questions : codex'.asked[p] = IF p = q THEN "open" ELSE codex.asked[p]
        /\ UNCHANGED <<taken, poll, registry, now, history>>
    BY <1>0, <1>4 DEF Ask, Turns, New
  <2> QED BY <1>1, <2>1, <2>2, <2>3 DEF Asks
<1>5. ASSUME NEW q \in Questions, AnswerInCodex(q)
      PROVE  q \in Open /\ Closes(q) /\ Longer(wire, wire') /\ UNCHANGED <<taken, poll, registry, now, history>>
  BY <1>5, ClosedCloses DEF AnswerInCodex
<1>6. CASE SayInCodex
  BY <1>6, SaidSays DEF SayInCodex
<1>7. CASE FinishTurn
  <2> DEFINE m == Msg("completed", 0)
  <2>1. m \in Message /\ m.kind = "completed" /\ wire' = Append(wire, m)
    BY <1>0, <1>7, MessageType DEF FinishTurn, Msg
  <2> HIDE DEF m
  <2>2. Recorded("ended")
    <3>1. Rec("ended", 0) \in Record
      BY <1>0, RecordType
    <3> QED BY <1>2, <1>7, <3>1 DEF FinishTurn
  <2>3. /\ ~codex'.running /\ codex'.since = codex.since /\ ClosesAll
        /\ UNCHANGED <<taken, poll, registry, now, history>>
    BY <1>0, <1>7 DEF FinishTurn, Turns, CloseAll, ClosesAll, Open
  <2> QED BY <1>1, <2>1, <2>2, <2>3 DEF Ends
<1>8. ASSUME NEW m \in toCodex, TakeAnswer(m)
      PROVE  /\ UNCHANGED <<taken, poll, registry, now>> /\ Longer(wire, wire')
             /\ history'.mishap = history.mishap /\ history'.displaced = history.displaced
             /\ (\E q \in Open : Closes(q)) \/ Says \/ UNCHANGED <<codex, wire, transcript>>
  <2>1. UNCHANGED <<taken, poll, registry, now>>
    BY <1>8 DEF TakeAnswer
  <2>2. \A q : Answered(q) => history'.mishap = history.mishap /\ history'.displaced = history.displaced
    BY <1>0 DEF Answered, Histories
  <2>3. CASE UNCHANGED <<codex, wire, transcript, history>>
    BY <2>1, <2>3 DEF Longer
  <2>4. CASE TakeReply(m) /\ m.route.of \in Open
    BY <2>1, <2>2, <2>4, ClosedCloses DEF TakeReply
  <2>5. CASE TakeSteer(m) /\ codex.running /\ codex.turn = m.route.of
    BY <2>1, <2>2, <2>5, SaidSays DEF TakeSteer
  <2>6. \/ UNCHANGED <<codex, wire, transcript, history>>
        \/ TakeReply(m) /\ m.route.of \in Open
        \/ TakeSteer(m) /\ codex.running /\ codex.turn = m.route.of
    BY <1>8 DEF TakeAnswer, TakeReply, TakeSteer
  <2> QED BY <2>3, <2>4, <2>5, <2>6
<1> QED BY <1>3, <1>4, <1>5, <1>6, <1>7, <1>8 DEF CodexStep

\* What never comes back.
LEMMA ClosedStays ==
    ASSUME Typed, [QuestionNext]_vars
    PROVE  \A q \in Questions : codex.asked[q] = "closed" => codex'.asked[q] = "closed"
<1>1. CASE CodexStep
  <2>1. CASE UNCHANGED codex
    BY <2>1
  <2> QED BY <1>1, <2>1, CodexWrites DEF Starts, Asks, Closes, Says, Ends, ClosesAll, New
<1>2. CASE ~CodexStep
  <2>1. UNCHANGED codex
    BY <1>2 DEF QuestionNext, vars, Take, HandleRequest, HandleNotice, Handled, PollRead, PollApply, Claim, Send,
                SendFails, GiveUp, Finish, Snapshot, Tick
  <2> QED BY <2>1
<1> QED BY <1>1, <1>2

\* What is regular after a step was regular before it.
LEMMA RegularBefore ==
    ASSUME Typed, [QuestionNext]_vars, Regular'
    PROVE  Regular
<1>0. history \in Histories /\ history.mishap \in BOOLEAN /\ now \in Nat /\ now' \in Nat
  BY TypesKept DEF Typed, Histories, Times
<1>1. now <= now'
  <2>1. CASE Tick
    BY <1>0, <2>1 DEF Tick
  <2>2. CASE ~Tick
    <3>1. UNCHANGED now
      BY <2>2, CodexWrites DEF QuestionNext, vars, Take, HandleRequest, HandleNotice, Handled, PollRead, PollApply,
                  Claim, Send, SendFails, GiveUp, Finish, Snapshot
    <3> QED BY <1>0, <3>1
  <2> QED BY <2>1, <2>2
<1>2. ASSUME NEW c \in Clients, Finish(c)
      PROVE  history'.mishap = history.mishap
  BY <1>0, <1>2 DEF Finish, Histories
<1>3. ASSUME NEW t, Take(t)
      PROVE  history.mishap => history'.mishap
  BY <1>0, <1>3 DEF Take, Histories
<1>4. history.mishap => history'.mishap
  <2>1. CASE CodexStep
    BY <2>1, CodexWrites
  <2>2. CASE \E i \in FirstFor("request") : HandleRequest(i)
    BY <2>2, RequestRemembers
  <2>3. CASE \E i \in FirstFor("notice") : HandleNotice(i)
    BY <2>3, NoticeRemembers
  <2>4. CASE UNCHANGED history
    BY <2>4
  <2> QED BY <1>2, <1>3, <2>1, <2>2, <2>3, <2>4
          DEF QuestionNext, vars, PollRead, PollApply, Claim, Send, SendFails, GiveUp, Snapshot, Tick
<1> QED BY <1>0, <1>1, <1>4 DEF Regular

-----------------------------------------------------------------------------
(* Times and texts *)

\* Times never run ahead, and a turn that ends leaves no question open.
LEMMA CodexFitsKept ==
    ASSUME Typed, CodexFits, [QuestionNext]_vars
    PROVE  CodexFits'
<1>0. /\ now \in Nat /\ now' \in Nat /\ 1 <= now /\ codex \in Turns /\ codex.since \in Nat
      /\ taken \in Stamps /\ \A t \in Handlers : taken[t] \in Nat
      /\ transcript \in Seq(Record) /\ poll \in Polls /\ poll.observed \in Seq(Record) /\ poll.read \in Nat
  BY TypesKept DEF Typed, Times, Turns, Stamps, Handlers, Polls
<1>1. ASSUME UNCHANGED <<codex, transcript>>, now <= now',
             \A t \in Handlers : taken'[t] \in {taken[t], 0, now},
             ToSet(poll'.observed) \subseteq ToSet(poll.observed) \cup ToSet(transcript)
      PROVE  CodexFits'
  <2>1. codex'.since <= now' /\ \A t \in Handlers : taken'[t] <= now'
    BY <1>0, <1>1 DEF CodexFits
  <2>2. ~codex'.running => Open' = {}
    BY <1>1 DEF CodexFits, Open
  <2>3. ASSUME NEW rec \in ToSet(transcript') \cup ToSet(poll'.observed)
        PROVE  rec.at \in 1 .. now' /\ (codex'.running /\ rec.kind # "question" => rec.at <= codex'.since)
    <3>1. rec \in ToSet(transcript) \cup ToSet(poll.observed)
      BY <1>1, <2>3
    <3> QED BY <1>0, <1>1, <3>1 DEF CodexFits
  <2> QED BY <2>1, <2>2, <2>3 DEF CodexFits
<1>2. CASE CodexStep
  <2>0. UNCHANGED <<taken, poll, now>>
    BY <1>2, CodexWrites
  <2>1. CASE UNCHANGED <<codex, transcript>>
    BY <1>0, <1>1, <2>0, <2>1
  <2>2. ASSUME NEW X, ToSet(transcript') = ToSet(transcript) \cup X,
               \A x \in X : x.at = now /\ (x.kind = "question" \/ codex'.since = now \/ ~codex'.running),
               codex'.since = now \/ (codex'.since = codex.since /\ (codex'.running => codex.running)),
               ~codex'.running => Open' = {}
        PROVE  CodexFits'
    <3>1. codex'.since <= now' /\ \A t \in Handlers : taken'[t] <= now'
      BY <1>0, <2>0, <2>2 DEF CodexFits
    <3>2. ASSUME NEW x \in ToSet(transcript') \cup ToSet(poll'.observed)
          PROVE  x.at \in 1 .. now' /\ (codex'.running /\ x.kind # "question" => x.at <= codex'.since)
      <4>1. x \in X \/ x \in ToSet(transcript) \cup ToSet(poll.observed)
        BY <2>0, <2>2, <3>2
      <4>2. x.at \in 1 .. now
        BY <1>0, <2>2, <4>1 DEF CodexFits
      <4> QED BY <1>0, <2>0, <2>2, <4>1, <4>2 DEF CodexFits
    <3> QED BY <2>2, <3>1, <3>2 DEF CodexFits
  <2>3. \A kind : Recorded(kind) => \E X : /\ ToSet(transcript') = ToSet(transcript) \cup X
                                           /\ \A x \in X : x.kind = kind /\ x.at = now
    BY DEF Recorded
  <2>4. CASE Starts
    BY <2>2, <2>3, <2>4 DEF Starts
  <2>5. ASSUME NEW q \in Questions, Asks(q)
        PROVE  CodexFits'
    <3>1. PICK X : /\ ToSet(transcript') = ToSet(transcript) \cup X
                   /\ \A x \in X : x.kind = "question" /\ x.at = now
      BY <2>3, <2>5 DEF Asks
    <3>2. codex'.since = codex.since /\ codex.running /\ codex'.running
      BY <2>5 DEF Asks
    <3> QED BY <2>2, <3>1, <3>2
  <2>6. ASSUME NEW q \in Open, Closes(q)
        PROVE  CodexFits'
    <3>1. Open' \subseteq Open
      BY <2>6 DEF Closes, Open
    <3>2. ToSet(transcript') = ToSet(transcript) \cup {}
      BY <2>6 DEF Closes
    <3>3. ~codex'.running => Open' = {}
      BY <2>6, <3>1 DEF Closes, CodexFits
    <3> QED BY <2>2, <2>6, <3>2, <3>3 DEF Closes
  <2>7. CASE Says
    BY <2>2, <2>3, <2>7 DEF Says
  <2>8. CASE Ends
    <3>1. Open' = {}
      BY <2>8 DEF Ends, ClosesAll, Open
    <3> QED BY <2>2, <2>3, <2>8, <3>1 DEF Ends
  <2> QED BY <1>2, <2>1, <2>4, <2>5, <2>6, <2>7, <2>8, CodexWrites
<1>3. CASE ~CodexStep
  <2>1. ASSUME NEW start \in {0, poll.read}, PollRead(start)
        PROVE  ToSet(poll'.observed) \subseteq ToSet(transcript)
    <3>1. poll'.observed = SubSeq(transcript, start + 1, Len(transcript)) /\ start \in Nat
      BY <1>0, <2>1 DEF PollRead
    <3> QED BY <1>0, <3>1, RecordsIn
  <2>2. ASSUME PollApply
        PROVE  ToSet(poll'.observed) \subseteq ToSet(poll.observed)
    <3>1. poll'.observed = Tail(poll.observed) /\ poll.observed # <<>>
      BY <1>0, <2>2 DEF PollApply, Polls
    <3> QED BY <1>0, <3>1, RecordsIn
  <2>3. ASSUME NEW t \in Handlers, Take(t) \/ \E i : Handled(t, i)
        PROVE  \A u \in Handlers : taken'[u] \in {taken[u], 0, now}
    BY <1>0, <2>3 DEF Take, Handled, Stamps, Handlers
  <2>4. UNCHANGED <<codex, transcript>> /\ (now' = now \/ now' = now + 1)
    BY <1>3 DEF QuestionNext, vars, Take, HandleRequest, HandleNotice, Handled, PollRead, PollApply, Claim, Send,
                SendFails, GiveUp, Finish, Snapshot, Tick
  <2>5. UNCHANGED taken \/ \E t \in Handlers : Take(t) \/ \E i : Handled(t, i)
    BY <1>3 DEF QuestionNext, vars, HandleRequest, HandleNotice, PollRead, PollApply, Claim, Send,
                SendFails, GiveUp, Finish, Snapshot, Tick, Handlers
  <2>6. UNCHANGED poll \/ PollApply \/ \E start \in {0, poll.read} : PollRead(start)
    BY <1>3 DEF QuestionNext, vars, Take, HandleRequest, HandleNotice, Handled, Claim, Send,
                SendFails, GiveUp, Finish, Snapshot, Tick
  <2>7. \A t \in Handlers : taken'[t] \in {taken[t], 0, now}
    BY <2>3, <2>5
  <2>8. ToSet(poll'.observed) \subseteq ToSet(poll.observed) \cup ToSet(transcript)
    BY <2>1, <2>2, <2>6
  <2> QED BY <1>0, <1>1, <2>4, <2>7, <2>8
<1> QED BY <1>2, <1>3

\* What is taken out or told to be over leaves the rest as it should be.
LEMMA RegistryFits ==
    ASSUME NEW r \in Registries, Fit(r), now \in Times
    PROVE  /\ \A at \in Times : Fit(ClearThread(r, at))
           /\ \A q : Fit(ResolveRpc(r, q))
           /\ Fit(EndTurn(r)) /\ Fit(Purged(r))
           /\ \A e \in r.entries : Fit(Claimed(r, e))
           /\ \A id, ok : Fit(Finished(r, id, ok))
<1>0. r.cleared \in Nat /\ \A e \in r.entries : e \in Entry /\ e.at \in Nat /\ e.at >= 1
  BY DEF Registries, Entry, Times, Fit, Sane
<1>1. ASSUME NEW s \in Registries, Fit(s), NEW at \in Times
      PROVE  Fit(ClearThread(s, at))
  <2>1. s.cleared \in Nat /\ at \in Nat /\ \A e \in s.entries : e.at \in Nat
    BY DEF Registries, Entry, Times
  <2> QED BY <1>1, <2>1 DEF ClearThread, Fit
<1>2. ASSUME NEW q
      PROVE  Fit(ResolveRpc(r, q))
  BY DEF ResolveRpc, Fit, Registries
<1>3. ASSUME NEW e \in r.entries, NEW f \in Entry, f.at = e.at, f.text = e.text, f.item = e.item,
             f.answerable <=> f.route # Observe, f.route \in {e.route, Observe}
      PROVE  Sane(f) /\ f.at > r.cleared
  BY <1>3 DEF Sane, Fit
<1>4. \A e \in r.entries :
        LET f == [e EXCEPT !.answerable = FALSE, !.route = Observe]
            g == [e EXCEPT !.submitting = TRUE]
            h == [e EXCEPT !.answerable = FALSE, !.route = Observe, !.submitting = TRUE]
        IN  (Sane(f) /\ f.at > r.cleared) /\ (Sane(g) /\ g.at > r.cleared) /\ (Sane(h) /\ h.at > r.cleared)
  <2> TAKE e \in r.entries
  <2> DEFINE f == [e EXCEPT !.answerable = FALSE, !.route = Observe]
             g == [e EXCEPT !.submitting = TRUE]
             h == [e EXCEPT !.answerable = FALSE, !.route = Observe, !.submitting = TRUE]
  <2>1. /\ f \in Entry /\ f.at = e.at /\ f.text = e.text /\ f.item = e.item /\ ~f.answerable /\ f.route = Observe
        /\ h \in Entry /\ h.at = e.at /\ h.text = e.text /\ h.item = e.item /\ ~h.answerable /\ h.route = Observe
    BY <1>0, ObserveRoute DEF Entry
  <2>2. /\ g \in Entry /\ g.at = e.at /\ g.text = e.text /\ g.item = e.item
        /\ g.answerable = e.answerable /\ g.route = e.route
    BY <1>0 DEF Entry
  <2>3. e.answerable <=> e.route # Observe
    BY DEF Fit, Sane
  <2> HIDE DEF f, g, h
  <2>4. Sane(f) /\ f.at > r.cleared
    BY <1>3, <2>1
  <2>5. Sane(g) /\ g.at > r.cleared
    BY <1>3, <2>2, <2>3
  <2>6. Sane(h) /\ h.at > r.cleared
    BY <1>3, <2>1
  <2> QED BY <2>4, <2>5, <2>6 DEF f, g, h
<1>5. Fit(EndTurn(r))
  <2>1. /\ EndTurn(r).cleared = r.cleared
        /\ EndTurn(r).entries = {[e EXCEPT !.answerable = FALSE, !.route = Observe] : e \in r.entries}
    BY DEF EndTurn, Registries
  <2> QED BY <1>4, <2>1 DEF Fit
<1>6. Fit(Purged(r))
  BY <1>0 DEF Purged, Fit
<1>7. ASSUME NEW e \in r.entries
      PROVE  Fit(Claimed(r, e))
  <2>1. /\ Claimed(r, e).cleared = r.cleared
        /\ Claimed(r, e).entries = (r.entries \ {e}) \cup {[e EXCEPT !.submitting = TRUE]}
    BY DEF Claimed, Registries
  <2> QED BY <1>4, <2>1 DEF Fit
<1>8. ASSUME NEW id, NEW ok
      PROVE  Fit(Finished(r, id, ok))
  <2> DEFINE own == {e \in r.entries : e.id = id}
             e == CHOOSE e \in own : TRUE
             s == [r EXCEPT !.entries = @ \ {e}]
             h == [e EXCEPT !.answerable = FALSE, !.route = Observe, !.submitting = TRUE]
             u == [r EXCEPT !.entries = (@ \ {e}) \cup {h}]
  <2>1. Finished(r, id, ok) = IF own = {} THEN r ELSE IF ok THEN ClearThread(s, e.at) ELSE u
    BY DEF Finished
  <2>2. own # {} => e \in r.entries
    OBVIOUS
  <2>3. s \in Registries /\ s.cleared = r.cleared /\ s.entries \subseteq r.entries
    BY DEF Registries
  <2>4. Fit(s)
    BY <2>3 DEF Fit
  <2>5. own # {} => Sane(h) /\ h.at > r.cleared
    BY <1>4, <2>2
  <2>6. u.cleared = r.cleared /\ u.entries = (r.entries \ {e}) \cup {h}
    BY DEF Registries
  <2> HIDE DEF e, h
  <2>7. own # {} => Fit(u)
    BY <2>5, <2>6 DEF Fit
  <2>8. own # {} => e.at \in Times
    BY <2>2 DEF Registries, Entry
  <2> HIDE DEF s, u, own
  <2> QED BY <1>1, <2>1, <2>3, <2>4, <2>7, <2>8
<1> QED BY <1>1, <1>2, <1>5, <1>6, <1>7, <1>8

\* Entries that are sane and later than the last clearing keep the registry fit.
LEMMA AddsFit ==
    ASSUME NEW r, NEW s, Fit(r), Adds(r, s)
    PROVE  Fit(s)
BY DEF Fit, Adds

\* What a request or a notice adds.
LEMMA RequestAdds ==
    ASSUME Typed, CodexFits, EntriesFit, NEW i \in FirstFor("request"), HandleRequest(i)
    PROVE  Adds(registry, registry')
<1> DEFINE q == wire[i].of
           batch == Live(q, taken["request"], Rpc(q))
<1>1. /\ registry \in Registries /\ Fit(registry) /\ now \in Times
      /\ registry' \in Observed(registry, batch)
  BY DEF Typed, EntriesFit, HandleRequest
<1>2. taken["request"] \in 1 .. now
  BY DEF Typed, CodexFits, Stamps, Times, HandleRequest, Handled, Handlers
<1>3. q \in Questions /\ Rpc(q) \in Routes /\ Rpc(q).asks = q /\ Rpc(q) # Observe
  BY FirstRequest, RoutesDiffer
<1>4. batch \in Entry /\ Made(batch)
  BY <1>1, <1>2, <1>3, LiveMade
<1> HIDE DEF batch
<1> QED BY <1>1, <1>4, ObservedAdds

\* The same of a notice.
LEMMA AskedAdds ==
    ASSUME Typed, CodexFits, EntriesFit, NEW i \in FirstFor("notice"), HandleNotice(i), wire[i].kind = "asked"
    PROVE  Adds(registry, registry')
<1> DEFINE q == wire[i].of
           route == Steer(wire[i].turn, q)
           batch == Live(q, taken["notice"], route)
<1>1. /\ registry \in Registries /\ Fit(registry) /\ now \in Times
      /\ registry' \in Observed(registry, batch)
  BY DEF Typed, EntriesFit, HandleNotice
<1>2. taken["notice"] \in 1 .. now
  BY DEF Typed, CodexFits, Stamps, Times, HandleNotice, Handled, Handlers
<1>3. q \in Questions /\ route \in Routes /\ route.asks = q /\ route # Observe
  BY FirstNotice, RoutesDiffer
<1> HIDE DEF route
<1>4. batch \in Entry /\ Made(batch)
  BY <1>1, <1>2, <1>3, LiveMade
<1> HIDE DEF batch
<1> QED BY <1>1, <1>4, ObservedAdds

\* What a record of the transcript does.
LEMMA PollDoes ==
    ASSUME Typed, CodexFits, EntriesFit, PollApply
    PROVE  \E rec \in ToSet(poll.observed) :
             /\ rec.at \in 1 .. now /\ rec.at \in Times
             /\ \/ Adds(registry, registry')
                \/ rec.kind # "question" /\ registry' = ClearThread(registry, rec.at)
                \/ registry' = registry
<1> DEFINE rec == Head(poll.observed)
<1>1. registry \in Registries /\ Fit(registry) /\ now \in Times /\ poll.observed \in Seq(Record) /\ poll.observed # <<>>
  BY DEF Typed, EntriesFit, Polls, PollApply
<1>2. rec \in ToSet(poll.observed) /\ rec \in Record
  BY <1>1, RecordsIn
<1>3. rec.at \in 1 .. now /\ rec.at \in Times /\ (rec.kind = "question" => rec.of \in Questions)
  BY <1>2 DEF CodexFits, Record
<1>4. \/ registry' = registry
      \/ rec.kind = "question" /\ registry' \in Observed(registry, Echo(rec.of, rec.at))
      \/ rec.kind # "question" /\ registry' = ClearThread(registry, rec.at)
  BY DEF PollApply, Applied
<1> HIDE DEF rec
<1>5. CASE rec.kind = "question" /\ registry' \in Observed(registry, Echo(rec.of, rec.at))
  <2>1. Echo(rec.of, rec.at) \in Entry /\ Made(Echo(rec.of, rec.at))
    BY <1>1, <1>3, <1>5, EchoMade
  <2>2. Adds(registry, registry')
    BY <1>1, <1>5, <2>1, ObservedAdds
  <2> QED BY <1>2, <1>3, <2>2
<1> QED BY <1>2, <1>3, <1>4, <1>5

\* No step leaves an entry that was asked before the last clearing.
LEMMA EntriesFitKept ==
    ASSUME Typed, CodexFits, EntriesFit, [QuestionNext]_vars
    PROVE  EntriesFit'
<1>0. /\ registry \in Registries /\ Fit(registry) /\ now \in Times /\ now \in Nat /\ now' \in Nat
      /\ taken["notice"] \in Times
  BY TypesKept DEF Typed, EntriesFit, Times, Stamps
<1>1. ASSUME Fit(registry'), now' = now \/ now' = now + 1
      PROVE  EntriesFit'
  <2>1. now <= now'
    BY <1>0, <1>1
  <2>2. ASSUME NEW e \in registry'.entries
        PROVE  e.at \in 1 .. now' /\ e.at > registry'.cleared
    BY <1>0, <1>1, <2>1, <2>2 DEF Fit, Sane
  <2>3. ASSUME NEW e \in registry'.entries
        PROVE  Sane(e)' /\ e.at > registry'.cleared
    BY <1>1, <2>2, <2>3 DEF Fit, Sane
  <2> QED BY <2>3 DEF EntriesFit, Fit
<1>2. now' = now \/ now' = now + 1
  BY CodexWrites DEF QuestionNext, vars, Take, HandleRequest, HandleNotice, Handled, PollRead, PollApply, Claim, Send,
                SendFails, GiveUp, Finish, Snapshot, Tick
<1>3. CASE UNCHANGED registry
  BY <1>0, <1>1, <1>2, <1>3
<1>4. ASSUME NEW i \in FirstFor("request"), HandleRequest(i)
      PROVE  EntriesFit'
  BY <1>0, <1>1, <1>2, <1>4, RequestAdds, AddsFit
<1>5. ASSUME NEW i \in FirstFor("notice"), HandleNotice(i)
      PROVE  EntriesFit'
  <2>1. CASE wire[i].kind = "asked"
    BY <1>0, <1>1, <1>2, <1>5, <2>1, AskedAdds, AddsFit
  <2>2. CASE wire[i].kind # "asked"
    <3>1. \/ registry' = ClearThread(registry, taken["notice"])
          \/ registry' = ResolveRpc(registry, wire[i].of)
          \/ registry' = EndTurn(registry)
      BY <1>5, <2>2 DEF HandleNotice
    <3> QED BY <1>0, <1>1, <1>2, <3>1, RegistryFits
  <2> QED BY <2>1, <2>2
<1>6. CASE PollApply
  BY <1>0, <1>1, <1>2, <1>6, PollDoes, AddsFit, RegistryFits
<1>7. ASSUME NEW c \in Clients, NEW e \in registry.entries, Claim(c, e)
      PROVE  EntriesFit'
  <2> DEFINE r == Purged(registry)
  <2>1. Fit(r) /\ r \in Registries /\ e \in r.entries /\ registry' = Claimed(r, e)
    BY <1>0, <1>7, RegistryFits, PurgeShrinks DEF Claim, Shrinks
  <2> HIDE DEF r
  <2> QED BY <1>0, <1>1, <1>2, <2>1, RegistryFits
<1>8. ASSUME NEW c \in Clients, Finish(c)
      PROVE  EntriesFit'
  BY <1>0, <1>1, <1>2, <1>8, RegistryFits DEF Finish
<1>9. CASE Snapshot
  BY <1>0, <1>1, <1>2, <1>9, RegistryFits DEF Snapshot
<1>10. CASE CodexStep
  BY <1>3, <1>10, CodexWrites
<1> QED BY <1>3, <1>4, <1>5, <1>6, <1>7, <1>8, <1>9, <1>10
        DEF QuestionNext, vars, Take, PollRead, Send, SendFails, GiveUp, Tick

-----------------------------------------------------------------------------
(* What the clients have claimed *)

\* What a client has claimed stays as it was, or loses its route.
Continues(r, s) ==
    \A f \in s.entries :
        \/ f \in r.entries \/ ~Used(r, f.id)
        \/ \E e \in r.entries : e.id = f.id /\ (~e.submitting \/ (f.submitting /\ f.route \in {e.route, Observe}))

\* What a clearing or an observation does to what is claimed.
LEMMA RegistryContinues ==
    ASSUME NEW r \in Registries
    PROVE  /\ \A at : Continues(r, ClearThread(r, at))
           /\ \A q : Continues(r, ResolveRpc(r, q))
           /\ Continues(r, EndTurn(r)) /\ Continues(r, Purged(r))
           /\ \A e \in r.entries : ~e.submitting => Continues(r, Claimed(r, e))
           /\ \A id, ok : Continues(r, Finished(r, id, ok))
           /\ \A s : Adds(r, s) => Continues(r, s)
<1>1. \A s : s.entries \subseteq r.entries => Continues(r, s)
  BY DEF Continues
<1>2. ASSUME NEW at
      PROVE  Continues(r, ClearThread(r, at))
  BY <1>1 DEF ClearThread
<1>3. ASSUME NEW q
      PROVE  Continues(r, ResolveRpc(r, q))
  <2>1. ResolveRpc(r, q).entries = {e \in r.entries : e.route # Rpc(q)}
    BY DEF ResolveRpc, Registries
  <2> QED BY <1>1, <2>1
<1>4. Continues(r, Purged(r))
  BY <1>1 DEF Purged
<1>5. \A e \in r.entries :
        /\ [e EXCEPT !.answerable = FALSE, !.route = Observe].id = e.id
        /\ [e EXCEPT !.answerable = FALSE, !.route = Observe].submitting = e.submitting
        /\ [e EXCEPT !.answerable = FALSE, !.route = Observe].route = Observe
        /\ [e EXCEPT !.submitting = TRUE].id = e.id
        /\ [e EXCEPT !.answerable = FALSE, !.route = Observe, !.submitting = TRUE].id = e.id
        /\ [e EXCEPT !.answerable = FALSE, !.route = Observe, !.submitting = TRUE].submitting
        /\ [e EXCEPT !.answerable = FALSE, !.route = Observe, !.submitting = TRUE].route = Observe
  BY DEF Registries, Entry
<1>6. Continues(r, EndTurn(r))
  <2>1. EndTurn(r).entries = {[e EXCEPT !.answerable = FALSE, !.route = Observe] : e \in r.entries}
    BY DEF EndTurn, Registries
  <2>2. ASSUME NEW f \in EndTurn(r).entries
        PROVE  \E e \in r.entries :
                 e.id = f.id /\ (~e.submitting \/ (f.submitting /\ f.route \in {e.route, Observe}))
    <3>1. PICK e \in r.entries : f = [e EXCEPT !.answerable = FALSE, !.route = Observe]
      BY <2>1, <2>2
    <3>2. f.id = e.id /\ f.submitting = e.submitting /\ f.route = Observe
      BY <1>5, <3>1
    <3> QED BY <3>2
  <2> QED BY <2>2 DEF Continues
<1>7. ASSUME NEW e \in r.entries, ~e.submitting
      PROVE  Continues(r, Claimed(r, e))
  <2>1. Claimed(r, e).entries = (r.entries \ {e}) \cup {[e EXCEPT !.submitting = TRUE]}
    BY DEF Claimed, Registries
  <2> DEFINE claimed == [e EXCEPT !.submitting = TRUE]
  <2>2. claimed.id = e.id
    BY <1>5
  <2> HIDE DEF claimed
  <2>3. ASSUME NEW f \in Claimed(r, e).entries
        PROVE  \/ f \in r.entries
               \/ \E d \in r.entries :
                    d.id = f.id /\ (~d.submitting \/ (f.submitting /\ f.route \in {d.route, Observe}))
    <3>1. f \in r.entries \/ f = claimed
      BY <2>1, <2>3 DEF claimed
    <3> QED BY <1>7, <2>2, <3>1
  <2> QED BY <2>3 DEF Continues
<1>8. ASSUME NEW id, NEW ok
      PROVE  Continues(r, Finished(r, id, ok))
  <2> DEFINE own == {e \in r.entries : e.id = id}
             e == CHOOSE e \in own : TRUE
             s == [r EXCEPT !.entries = @ \ {e}]
             h == [e EXCEPT !.answerable = FALSE, !.route = Observe, !.submitting = TRUE]
             u == [r EXCEPT !.entries = (@ \ {e}) \cup {h}]
  <2>1. Finished(r, id, ok) = IF own = {} THEN r ELSE IF ok THEN ClearThread(s, e.at) ELSE u
    BY DEF Finished
  <2>2. own # {} => e \in r.entries
    OBVIOUS
  <2>3. s.entries \subseteq r.entries
    BY DEF Registries
  <2>4. ClearThread(s, e.at).entries \subseteq r.entries
    BY <2>3 DEF ClearThread
  <2>5. own # {} => h.id = e.id /\ h.submitting /\ h.route = Observe
    BY <1>5, <2>2
  <2>6. u.entries = (r.entries \ {e}) \cup {h}
    BY DEF Registries
  <2> HIDE DEF e, h
  <2>7. own # {} => Continues(r, u)
    <3>1. ASSUME own # {}, NEW f \in u.entries
          PROVE  \/ f \in r.entries
                 \/ \E d \in r.entries :
                      d.id = f.id /\ (~d.submitting \/ (f.submitting /\ f.route \in {d.route, Observe}))
      <4>1. f \in r.entries \/ f = h
        BY <2>6, <3>1
      <4> HIDE DEF own, u
      <4> QED BY <2>2, <2>5, <3>1, <4>1
    <3> QED BY <3>1 DEF Continues
  <2> HIDE DEF s, u, own
  <2> QED BY <1>1, <2>1, <2>4, <2>7
<1>9. \A s : Adds(r, s) => Continues(r, s)
  BY DEF Adds, Continues
<1> QED BY <1>2, <1>3, <1>4, <1>6, <1>7, <1>8, <1>9

\* Nobody but clients moves what they have claimed.
LEMMA OthersContinue ==
    ASSUME Typed, CodexFits, EntriesFit, [QuestionNext]_vars
    PROVE  \/ UNCHANGED <<client, toCodex>> /\ Continues(registry, registry')
           \/ \E m \in toCodex : TakeAnswer(m)
           \/ \E c \in Clients : \/ \E e \in registry.entries : Claim(c, e)
                                 \/ Send(c) \/ SendFails(c) \/ GiveUp(c) \/ Finish(c)
<1>0. registry \in Registries
  BY DEF Typed
<1>1. CASE UNCHANGED <<client, toCodex, registry>>
  BY <1>1 DEF Continues
<1>2. CASE \/ \E q \in Questions : AnswerInCodex(q)
           \/ StartTurn \/ (\E q \in Questions : Ask(q)) \/ SayInCodex \/ FinishTurn
  BY <1>1, <1>2, CodexMoves
<1>3. ASSUME NEW i \in FirstFor("request"), HandleRequest(i)
      PROVE  UNCHANGED <<client, toCodex>> /\ Continues(registry, registry')
  BY <1>0, <1>3, RequestAdds, RegistryContinues DEF HandleRequest, Handled
<1>4. ASSUME NEW i \in FirstFor("notice"), HandleNotice(i)
      PROVE  UNCHANGED <<client, toCodex>> /\ Continues(registry, registry')
  <2>1. UNCHANGED <<client, toCodex>>
    BY <1>4 DEF HandleNotice, Handled
  <2>2. CASE wire[i].kind = "asked"
    BY <1>0, <1>4, <2>1, <2>2, AskedAdds, RegistryContinues
  <2>3. CASE wire[i].kind # "asked"
    <3>1. \/ registry' = ClearThread(registry, taken["notice"])
          \/ registry' = ResolveRpc(registry, wire[i].of)
          \/ registry' = EndTurn(registry)
      BY <1>4, <2>3 DEF HandleNotice
    <3> QED BY <1>0, <2>1, <3>1, RegistryContinues
  <2> QED BY <2>2, <2>3
<1>5. CASE PollApply
  <2>1. UNCHANGED <<client, toCodex>>
    BY <1>5 DEF PollApply
  <2>2. Continues(registry, registry)
    BY DEF Continues
  <2> QED BY <1>0, <1>5, <2>1, <2>2, PollDoes, RegistryContinues
<1>6. CASE Snapshot
  BY <1>0, <1>6, RegistryContinues DEF Snapshot
<1> QED BY <1>1, <1>2, <1>3, <1>4, <1>5, <1>6 DEF QuestionNext, CodexStep, vars, Take, PollRead, Tick

\* A client keeps what it claimed, whatever the others do.
LEMMA ClientsFitKept ==
    ASSUME Before, OffersInv, [QuestionNext]_vars
    PROVE  ClientsFit'
<1>0. /\ Typed /\ IdsFree /\ AnswersFit /\ SentWasTaken /\ \A q \in Questions : OnePlace(q)
      /\ EntriesFit /\ CodexFits /\ ClientsFit /\ registry \in Registries /\ client \in [Clients -> Attempts]
      /\ \A q \in Questions : codex.asked[q] = "closed" => codex'.asked[q] = "closed"
  BY ClosedStays DEF Before, OffersInv, Typed
<1>1. \A route \in Routes : route # Observe => route.asks \in Questions /\ (route.kind = "rpc" \/ route.kind = "steer")
  BY SteerAsks, RoutesDiffer DEF Routes
<1>2. \A c \in Clients : client[c].route \in Routes
  BY <1>0 DEF Attempts
<1>3. ASSUME \A m \in toCodex : m \in toCodex' \/ (m.route.kind = "rpc" => codex'.asked[m.route.asks] = "closed"),
             NEW route \in Routes, route # Observe, Done(codex.asked, toCodex, route)
      PROVE  Done(codex'.asked, toCodex', route)
  BY <1>0, <1>1, <1>3 DEF Done
\* Clients that are left alone, while entries continue.
<1>4. ASSUME Continues(registry, registry'),
             \A m \in toCodex : m \in toCodex' \/ (m.route.kind = "rpc" => codex'.asked[m.route.asks] = "closed"),
             NEW c \in Clients, client'[c].pc # "idle",
             client[c].pc # "idle" /\ client'[c].id = client[c].id /\ client'[c].route = client[c].route,
             \A d \in Clients \ {c} : client'[d].pc # "idle" => client[d].pc # "idle" /\ client'[d].id = client[d].id,
             client'[c].pc = "finish" /\ client'[c].ok =>
               (client[c].pc = "finish" /\ client[c].ok) \/ Done(codex'.asked, toCodex', client[c].route)
      PROVE  /\ client'[c].route # Observe
             /\ \A d \in Clients : client'[d].pc # "idle" /\ client'[d].id = client'[c].id => d = c
             /\ \A e \in registry'.entries :
                  e.id = client'[c].id => e.submitting /\ e.route \in {client'[c].route, Observe}
             /\ client'[c].pc = "finish" /\ client'[c].ok => Done(codex'.asked, toCodex', client'[c].route)
  <2>1. client'[c].route # Observe /\ client[c].route \in Routes
    BY <1>0, <1>2, <1>4 DEF ClientsFit
  <2>2. \A d \in Clients : client'[d].pc # "idle" /\ client'[d].id = client'[c].id => d = c
    BY <1>0, <1>4 DEF ClientsFit
  <2>3. ASSUME NEW f \in registry'.entries, f.id = client'[c].id
        PROVE  f.submitting /\ f.route \in {client'[c].route, Observe}
    <3>1. \A e \in registry.entries : e.id = client[c].id => e.submitting /\ e.route \in {client[c].route, Observe}
      BY <1>0, <1>4 DEF ClientsFit
    <3>2. Used(registry, f.id)
      BY <1>4, <2>3 DEF Used
    <3> QED BY <1>4, <2>3, <3>1, <3>2 DEF Continues
  <2>4. client'[c].pc = "finish" /\ client'[c].ok => Done(codex'.asked, toCodex', client'[c].route)
    <3>1. CASE client[c].pc = "finish" /\ client[c].ok
      <4>1. Done(codex.asked, toCodex, client[c].route)
        BY <1>0, <3>1 DEF ClientsFit
      <4>2. Done(codex'.asked, toCodex', client[c].route)
        BY <1>3, <1>4, <2>1, <4>1
      <4> QED BY <1>4, <4>2 DEF Done
    <3> QED BY <1>4, <3>1 DEF Done
  <2> QED BY <2>1, <2>2, <2>3, <2>4
<1>5. CASE UNCHANGED <<client, toCodex>> /\ Continues(registry, registry')
  BY <1>4, <1>5 DEF ClientsFit
<1>6. ASSUME NEW m \in toCodex, TakeAnswer(m)
      PROVE  ClientsFit'
  <2>1. m.route \in Routes /\ ~New(m.route.asks) /\ UNCHANGED registry /\ toCodex' = toCodex \ {m}
    <3>1. m.route \in Routes /\ (m.route.kind = "rpc" \/ m.route.kind = "steer") /\ m.route.asks \in Questions
      BY <1>0, <1>6, SteerAsks DEF Typed, Answer, TakeAnswer, TakeReply, TakeSteer
    <3>2. m \in Sent(toCodex, m.route.asks)
      BY DEF Sent
    <3> QED BY <1>0, <1>6, <3>1, <3>2 DEF OnePlace, Unasked, Unoffered, Unclaimed, Unsent, TakeAnswer
  <2>2. m.route.kind = "rpc" => codex'.asked[m.route.asks] = "closed"
    <3>1. CASE TakeReply(m)
      <4>1. m.route.asks \in Questions /\ m.route.of = m.route.asks
        BY <2>1, <3>1, SteerAsks DEF TakeReply
      <4>2. CASE m.route.of \in Open
        BY <1>0, <3>1, <4>1, <4>2 DEF TakeReply, Typed, Turns
      <4>3. CASE m.route.of \notin Open
        BY <1>0, <2>1, <3>1, <4>1, <4>3 DEF TakeReply, Typed, Turns, Open, New
      <4> QED BY <4>2, <4>3
    <3> QED BY <1>6, <3>1 DEF TakeAnswer, TakeSteer
  <2>3. ASSUME NEW c \in Clients, client'[c] # client[c], client'[c].ok
        PROVE  Done(codex'.asked, toCodex', client[c].route)
    <3>1. m.route = client[c].route
      <4>1. client[c].pc = "wait" /\ <<c, client[c].id>> \in m.client
        BY <1>0, <1>6, <2>3, TakenAnswer
      <4> QED BY <1>0, <4>1 DEF AnswersFit
    <3>2. m.route.kind = "steer" /\ codex.running /\ codex.turn = m.route.of /\ Said
      <4>1. TakeSteer(m)
        BY <1>6, <2>3 DEF TakeAnswer, TakeReply
      <4> DEFINE fits == codex.running /\ codex.turn = m.route.of
      <4>2. /\ client'[c] = (IF client[c].pc = "wait" /\ <<c, client[c].id>> \in m.client
                             THEN [client[c] EXCEPT !.pc = "finish", !.ok = fits] ELSE client[c])
            /\ fits => Said
        BY <4>1 DEF TakeSteer
      <4> HIDE DEF fits
      <4>3. fits
        BY <1>0, <2>3, <4>2 DEF Attempts
      <4> QED BY <4>1, <4>2, <4>3 DEF fits, TakeSteer
    <3>3. m.route.asks \in Questions
      BY <2>1, <3>2, SteerAsks
    <3>4. codex'.asked[m.route.asks] = "closed"
      BY <1>0, <2>1, <3>2, <3>3 DEF Said, CloseAll, Open, New, Typed, Turns
    <3> QED BY <3>1, <3>4 DEF Done
  <2>4. \A n \in toCodex : n \in toCodex' \/ (n.route.kind = "rpc" => codex'.asked[n.route.asks] = "closed")
    BY <2>1, <2>2
  <2>5. \A c \in Clients : /\ client'[c].id = client[c].id /\ client'[c].route = client[c].route
                           /\ client'[c].pc # "idle" => client[c].pc # "idle"
    BY <1>0, <1>6, TakenAnswer
  <2>6. Continues(registry, registry')
    BY <2>1 DEF Continues
  <2> QED BY <1>4, <2>3, <2>4, <2>5, <2>6 DEF ClientsFit
<1>7. ASSUME NEW c \in Clients, NEW e \in registry.entries, Claim(c, e)
      PROVE  ClientsFit'
  <2> DEFINE r == Purged(registry)
  <2>1. /\ Claimable(e) /\ e \in Entry /\ ~e.submitting /\ e.route # Observe /\ UNCHANGED toCodex
        /\ client' = [client EXCEPT ![c] = [pc |-> "send", ok |-> FALSE, id |-> e.id, route |-> e.route]]
    <3>1. Claimable(e) /\ e \in Entry
      BY <1>0, <1>7, ClaimMoves
    <3>2. e.answerable <=> e.route # Observe
      BY <1>0 DEF EntriesFit, Fit, Sane
    <3> QED BY <1>7, <3>1, <3>2 DEF Claim, Claimable
  <2>2. /\ client'[c].pc = "send" /\ client'[c].id = e.id /\ client'[c].route = e.route
        /\ \A d \in Clients \ {c} : client'[d] = client[d]
    BY <1>0, <2>1
  <2>3. \A d \in Clients : client[d].id # e.id
    BY <1>0, <2>1 DEF IdsFree
  <2>4. r.entries \subseteq registry.entries /\ r \in Registries /\ e \in r.entries
        /\ registry' = Claimed(r, e)
    BY <1>0, <1>7, PurgeShrinks DEF Claim, Shrinks, Purged
  <2> HIDE DEF r
  <2>5. registry'.entries = (r.entries \ {e}) \cup {[e EXCEPT !.submitting = TRUE]}
    BY <2>4 DEF Claimed, Registries
  <2>6. /\ [e EXCEPT !.submitting = TRUE].submitting /\ [e EXCEPT !.submitting = TRUE].route = e.route
        /\ [e EXCEPT !.submitting = TRUE].id = e.id
    BY <2>1 DEF Entry
  <2>7. \A f \in registry'.entries : f.id = e.id => f.submitting /\ f.route = e.route
    BY <1>0, <2>4, <2>5, <2>6 DEF IdsFree, UniqueIds
  <2>8. Continues(registry, registry')
    BY <2>1, <2>4, <2>5, <2>6 DEF Continues
  <2>9. ASSUME NEW d \in Clients, d # c, client'[d].pc # "idle"
        PROVE  /\ client'[d].route # Observe
               /\ \A x \in Clients : client'[x].pc # "idle" /\ client'[x].id = client'[d].id => x = d
               /\ \A f \in registry'.entries :
                    f.id = client'[d].id => f.submitting /\ f.route \in {client'[d].route, Observe}
               /\ client'[d].pc = "finish" /\ client'[d].ok => Done(codex'.asked, toCodex', client'[d].route)
    <3>1. client'[d] = client[d] /\ client[d].id # e.id /\ client[d].pc # "idle"
      BY <2>2, <2>3, <2>9
    <3>2. \A x \in Clients : client'[x].pc # "idle" /\ client'[x].id = client'[d].id => x = d
      BY <1>0, <2>2, <3>1 DEF ClientsFit
    <3>3. ASSUME NEW f \in registry'.entries, f.id = client[d].id
          PROVE  f \in registry.entries
      BY <2>4, <2>5, <2>6, <3>1, <3>3
    <3>4. client[d].pc = "finish" /\ client[d].ok => Done(codex'.asked, toCodex', client[d].route)
      BY <1>0, <1>2, <1>3, <2>1, <3>1 DEF ClientsFit
    <3>5. client[d].pc = "finish" /\ client[d].ok => Done(codex'.asked, toCodex', client'[d].route)
      BY <3>1, <3>4 DEF Done
    <3> QED BY <1>0, <3>1, <3>2, <3>3, <3>5 DEF ClientsFit
  <2> QED BY <2>1, <2>2, <2>3, <2>7, <2>9 DEF ClientsFit
<1>8. ASSUME NEW c \in Clients, Send(c) \/ SendFails(c) \/ GiveUp(c)
      PROVE  ClientsFit'
  <2>1. /\ UNCHANGED registry /\ client[c].pc # "idle" /\ toCodex \subseteq toCodex'
        /\ \A d \in Clients \ {c} : client'[d] = client[d]
        /\ client'[c].id = client[c].id /\ client'[c].route = client[c].route
        /\ ~client[c].ok
    BY <1>0, <1>8, SendMoves DEF SentWasTaken
  <2>2. client'[c].ok => Done(codex'.asked, toCodex', client[c].route)
    <3>1. CASE Send(c)
      <4>1. client'[c].ok => client[c].route.kind = "rpc"
        BY <1>0, <2>1, <3>1, SendMoves
      <4>2. Reply(c) \in toCodex' /\ Reply(c).route = client[c].route
        BY <1>0, <3>1, SendMoves DEF Send
      <4> QED BY <4>1, <4>2 DEF Done
    <3>2. CASE SendFails(c) \/ GiveUp(c)
      <4>1. client'[c] = [client[c] EXCEPT !.pc = "finish"]
        BY <1>0, <3>2 DEF SendFails, GiveUp
      <4> QED BY <1>0, <2>1, <4>1 DEF Attempts
    <3> QED BY <1>8, <3>1, <3>2
  <2>3. Continues(registry, registry')
    BY <2>1 DEF Continues
  <2>4. \A d \in Clients : /\ client'[d].id = client[d].id /\ client'[d].route = client[d].route
                           /\ client'[d].pc # "idle" => client[d].pc # "idle"
                           /\ client'[d].pc = "finish" /\ client'[d].ok =>
                                (client[d].pc = "finish" /\ client[d].ok) \/ Done(codex'.asked, toCodex', client[d].route)
    BY <2>1, <2>2
  <2> QED BY <1>4, <2>1, <2>3, <2>4 DEF ClientsFit
<1>9. ASSUME NEW c \in Clients, Finish(c)
      PROVE  ClientsFit'
  <2>1. /\ Continues(registry, registry') /\ UNCHANGED toCodex /\ client'[c].pc = "idle"
        /\ \A d \in Clients \ {c} : client'[d] = client[d]
    BY <1>0, <1>9, RegistryContinues DEF Finish, Idle
  <2> QED BY <1>4, <2>1 DEF ClientsFit
<1> QED BY <1>0, <1>5, <1>6, <1>7, <1>8, <1>9, OthersContinue

-----------------------------------------------------------------------------
(* Codex loses no question *)

\* What a step of Codex does to what is asked and to the answers on their way.
LEMMA CodexAnswers ==
    ASSUME Typed, CodexStep
    PROVE  /\ UNCHANGED registry
           /\ \A m \in toCodex : m \in toCodex' \/ (m.route.kind = "rpc" => m.route.of \notin Open')
           /\ \A c \in Clients : client'[c].id = client[c].id /\ (client'[c].pc # "idle" => client[c].pc # "idle")
<1>1. CASE \/ \E q \in Questions : AnswerInCodex(q)
           \/ StartTurn \/ (\E q \in Questions : Ask(q)) \/ SayInCodex \/ FinishTurn
  BY <1>1, CodexMoves
<1>2. ASSUME NEW m \in toCodex, TakeAnswer(m)
      PROVE  /\ UNCHANGED registry
             /\ \A n \in toCodex : n \in toCodex' \/ (n.route.kind = "rpc" => n.route.of \notin Open')
             /\ \A c \in Clients : client'[c].id = client[c].id /\ (client'[c].pc # "idle" => client[c].pc # "idle")
  <2>1. /\ UNCHANGED registry /\ toCodex' = toCodex \ {m}
        /\ \A c \in Clients : client'[c].id = client[c].id /\ (client'[c].pc # "idle" => client[c].pc # "idle")
    BY <1>2, TakenAnswer
  <2>2. m.route.kind = "rpc" => m.route.of \notin Open'
    <3>1. CASE TakeReply(m) /\ m.route.of \in Open
      BY <3>1 DEF TakeReply, Typed, Turns, Open
    <3>2. CASE TakeReply(m) /\ m.route.of \notin Open
      BY <3>2 DEF TakeReply, Open
    <3> QED BY <1>2, <3>1, <3>2 DEF TakeAnswer, TakeSteer
  <2> QED BY <2>1, <2>2
<1> QED BY <1>1, <1>2 DEF CodexStep

\* What is asked or closed by a step of Codex.
LEMMA CodexOpens ==
    ASSUME Before, OffersInv, CodexStep
    PROVE  /\ \A q \in Open' : q \in Open \/ (Asks(q) /\ AsksIn(wire, q) = {})
           /\ Open' # {} => codex'.turn = codex.turn
           /\ Starts \/ Says \/ Ends => Open' = {}
           /\ \A i \in DOMAIN wire' : Wrote(i) =>
                /\ wire'[i].kind = "resolved" => codex'.asked[wire'[i].of] = "closed"
                /\ wire'[i].kind \in AskKinds => wire'[i].turn = codex'.turn
                /\ wire'[i].kind \in Closers => Open' = {}
                /\ wire'[i].kind = "completed" => ~codex'.running
           /\ ~codex.running /\ codex'.running => Starts
<1>0. Typed /\ (~codex.running => Open = {}) /\ \A q \in Questions : OnePlace(q)
  BY DEF Before, OffersInv, CodexFits
<1>1. CASE Starts
  <2>1. Open' = {} /\ codex'.running
    BY <1>0, <1>1 DEF Starts, Open
  <2>2. \A i : Wrote(i) => wire'[i].kind = "started"
    BY <1>1 DEF Starts
  <2> QED BY <1>1, <2>1, <2>2 DEF AskKinds
<1>2. ASSUME NEW p \in Questions, Asks(p)
      PROVE  /\ \A q \in Open' : q \in Open \/ (Asks(q) /\ AsksIn(wire, q) = {})
             /\ codex'.turn = codex.turn /\ codex.running /\ codex'.running
             /\ \A i : Wrote(i) => wire'[i].kind \in AskKinds /\ wire'[i].turn = codex'.turn
             /\ ~Starts /\ ~Says /\ ~Ends
  <2>1. AsksIn(wire, p) = {}
    BY <1>0, <1>2 DEF Asks, OnePlace, Unasked
  <2>2. /\ codex.running /\ codex'.running /\ codex'.turn = codex.turn
        /\ codex'.asked[p] = "open" /\ \A q \in Questions \ {p} : codex'.asked[q] = codex.asked[q]
        /\ Wrote(Len(wire) + 1)
        /\ \A i : Wrote(i) => wire'[i].kind \in AskKinds /\ wire'[i].of = p /\ wire'[i].turn = codex.turn
    BY <1>2 DEF Asks
  <2>3. ~Starts /\ ~Says /\ ~Ends
    BY <2>2 DEF Starts, Says, Ends, ClosesAll, AskKinds
  <2> QED BY <1>2, <2>1, <2>2, <2>3 DEF Open
<1>3. ASSUME NEW p \in Open, Closes(p)
      PROVE  /\ Open' \subseteq Open /\ codex'.turn = codex.turn /\ codex'.running = codex.running
             /\ \A i : Wrote(i) => wire'[i].kind = "resolved" /\ codex'.asked[wire'[i].of] = "closed"
             /\ Says \/ Ends => Open' = {}
  <2>1. /\ Open' \subseteq Open /\ codex'.turn = codex.turn /\ codex'.running = codex.running
        /\ \A i : Wrote(i) => wire'[i].kind = "resolved" /\ codex'.asked[wire'[i].of] = "closed"
    BY <1>3 DEF Closes, Open
  <2>2. Says \/ Ends => Open' = {}
    BY DEF Says, Ends, ClosesAll, Open
  <2> QED BY <2>1, <2>2
<1>4. CASE Says
  <2>1. Open' = {} /\ codex.running /\ codex'.running /\ \A q \in Open : codex'.asked[q] = "closed"
    <3>1. ClosesAll /\ codex.running /\ codex'.running
      BY <1>4 DEF Says
    <3>2. \A q \in Questions :
            /\ codex'.asked[q] # "open"
            /\ codex.asked[q] = "open" => codex'.asked[q] = "closed"
      BY <3>1 DEF ClosesAll
    <3> QED BY <3>1, <3>2 DEF Open
  <2>2. \A i : Wrote(i) => wire'[i].kind = "said" \/ (wire'[i].kind = "resolved" /\ wire'[i].of \in Open)
    BY <1>4 DEF Says
  <2> QED BY <2>1, <2>2 DEF AskKinds
<1>5. CASE Ends
  <2>1. Open' = {} /\ ~codex'.running
    BY <1>5 DEF Ends, ClosesAll, Open
  <2>2. \A i : Wrote(i) => wire'[i].kind = "completed"
    BY <1>5 DEF Ends
  <2> QED BY <2>1, <2>2 DEF AskKinds
<1>6. CASE UNCHANGED <<codex, wire, transcript>>
  <2>1. Says \/ Ends => Open' = {}
    BY DEF Says, Ends, ClosesAll, Open
  <2>2. Open' = Open /\ codex'.running = codex.running /\ codex'.turn = codex.turn /\ \A i : ~Wrote(i)
    BY <1>6 DEF Open, Wrote
  <2> QED BY <2>1, <2>2 DEF Starts
<1>7. Starts => Open' = {}
  BY <1>0 DEF Starts, Open
<1> QED BY <1>0, <1>1, <1>2, <1>3, <1>4, <1>5, <1>6, <1>7, CodexWrites DEF Closers, AskKinds

\* What Codex writes goes behind what is on the wire.
LEMMA CodexWireFits ==
    ASSUME Before, OffersInv, WireFits, CodexStep
    PROVE  WireFits'
<1>0. /\ Typed /\ wire \in Seq(Message) /\ Longer(wire, wire') /\ UNCHANGED taken /\ wire' \in Seq(Message)
      /\ \A q \in Questions : codex.asked[q] = "closed" => codex'.asked[q] = "closed"
      /\ \A i \in DOMAIN wire' : i \in DOMAIN wire \/ Wrote(i)
  BY CodexWrites, ClosedStays, TypesKept DEF Before, Typed, Wrote, QuestionNext
<1>1. ASSUME NEW t \in Handlers, taken'[t] # 0
      PROVE  wire' # <<>> /\ wire'[1].kind \in HandledBy[t]
  <2>1. wire # <<>> /\ wire[1].kind \in HandledBy[t]
    BY <1>0, <1>1 DEF WireFits
  <2>2. 1 \in DOMAIN wire
    BY <1>0, <2>1
  <2> QED BY <1>0, <2>1, <2>2 DEF Longer
<1>2. ASSUME NEW i \in DOMAIN wire', wire'[i].kind = "resolved"
      PROVE  codex'.asked[wire'[i].of] = "closed"
  <2>1. CASE i \in DOMAIN wire
    <3>1. wire'[i] = wire[i] /\ wire[i] \in Message
      BY <1>0, <2>1 DEF Longer
    <3>2. wire[i].of \in Questions
      BY <1>2, <3>1 DEF Message
    <3> QED BY <1>0, <1>2, <2>1, <3>1, <3>2 DEF WireFits
  <2> QED BY <1>0, <1>2, <2>1, CodexOpens
<1>3. ASSUME NEW i \in DOMAIN wire', wire'[i].kind \in AskKinds, wire'[i].of \in Open'
      PROVE  wire'[i].turn = codex'.turn
  <2>1. CASE i \in DOMAIN wire
    <3>1. wire'[i] = wire[i] /\ i \in AsksIn(wire, wire[i].of)
      BY <1>0, <1>3, <2>1 DEF Longer, AsksIn
    <3>2. wire[i].of \in Open /\ codex'.turn = codex.turn
      BY <1>3, <3>1, CodexOpens
    <3> QED BY <1>3, <2>1, <3>1, <3>2 DEF WireFits
  <2> QED BY <1>0, <1>3, <2>1, CodexOpens
<1>4. ASSUME NEW i \in DOMAIN wire', wire'[i].kind \in Closers, NEW q \in Open'
      PROVE  \E j \in AsksIn(wire', q) : i < j
  <2>1. CASE i \in DOMAIN wire /\ q \in Open
    <3>1. PICK j \in AsksIn(wire, q) : i < j
      BY <1>0, <1>4, <2>1 DEF WireFits, Longer
    <3> QED BY <1>0, <3>1 DEF Longer, AsksIn
  <2>2. CASE i \in DOMAIN wire /\ Asks(q)
    <3>1. Len(wire) + 1 \in AsksIn(wire', q) /\ i < Len(wire) + 1
      BY <1>0, <2>2 DEF Asks, Wrote, AsksIn
    <3> QED BY <3>1
  <2> QED BY <1>0, <1>4, <2>1, <2>2, CodexOpens
<1>5. ASSUME NEW i \in DOMAIN wire', wire'[i].kind = "completed", codex'.running
      PROVE  \E j \in DOMAIN wire' : i < j /\ wire'[j].kind = "started"
  <2>1. i \in DOMAIN wire /\ wire'[i] = wire[i]
    BY <1>0, <1>5, CodexOpens DEF Longer
  <2>2. CASE codex.running
    <3>1. PICK j \in DOMAIN wire : i < j /\ wire[j].kind = "started"
      BY <1>5, <2>1, <2>2 DEF WireFits
    <3> QED BY <1>0, <3>1 DEF Longer
  <2>3. CASE Starts
    <3>1. Len(wire) + 1 \in DOMAIN wire' /\ i < Len(wire) + 1 /\ wire'[Len(wire) + 1].kind = "started"
      BY <1>0, <2>1, <2>3 DEF Starts, Wrote
    <3> QED BY <3>1
  <2> QED BY <1>5, <2>2, <2>3, CodexOpens
<1> QED BY <1>1, <1>2, <1>3, <1>4, <1>5 DEF WireFits

\* A new turn announces the clearing of what the one before it left.
LEMMA CodexClears ==
    ASSUME Before, OffersInv, WireFits, SinceCleared, InFlight, CodexStep
    PROVE  SinceCleared' /\ InFlight'
<1>0. /\ Typed /\ wire \in Seq(Message) /\ Longer(wire, wire') /\ UNCHANGED <<taken, registry>>
      /\ now \in Nat /\ registry.cleared \in Nat
  BY CodexWrites, CodexAnswers DEF Before, Typed, Times, Registries
<1>1. ASSUME NEW kinds, NEW at, NEW at1, Clears(kinds, at), at1 = at
      PROVE  \E i \in DOMAIN wire' : /\ wire'[i].kind \in kinds
                                     /\ i = 1 /\ taken'["notice"] # 0 => taken'["notice"] >= at1
  BY <1>0, <1>1 DEF Clears, Longer
<1>2. ASSUME NEW kinds, NEW at, Wrote(Len(wire) + 1), wire'[Len(wire) + 1].kind \in kinds
      PROVE  \E i \in DOMAIN wire' : /\ wire'[i].kind \in kinds
                                     /\ i = 1 /\ taken'["notice"] # 0 => taken'["notice"] >= at
  <2>1. Len(wire) + 1 = 1 => wire = <<>>
    BY <1>0
  <2>2. wire = <<>> => taken["notice"] = 0
    BY DEF WireFits, Handlers
  <2> QED BY <1>0, <1>2, <2>1, <2>2 DEF Wrote
<1>3. SinceCleared'
  <2>1. CASE codex'.since = codex.since
    BY <1>0, <1>1, <2>1 DEF SinceCleared, Clears
  <2>2. CASE Starts
    BY <1>2, <2>2 DEF Starts, SinceCleared, Clears
  <2>3. CASE Says
    BY <1>2, <2>3 DEF Says, SinceCleared, Clears
  <2> QED BY <1>0, <2>1, <2>2, <2>3, CodexWrites DEF Asks, Closes, Ends
<1>4. ASSUME NEW c \in Clients, NEW e \in registry'.entries,
             client'[c].pc # "idle", e.id = client'[c].id, e.route = Observe, codex'.running
      PROVE  \E i \in DOMAIN wire' : /\ wire'[i].kind \in {"started"}
                                     /\ i = 1 /\ taken'["notice"] # 0 => taken'["notice"] >= e.at
  <2>1. client[c].pc # "idle" /\ e.id = client[c].id /\ e \in registry.entries
    BY <1>0, <1>4, CodexAnswers
  <2>2. CASE codex.running
    BY <1>1, <1>4, <2>1, <2>2 DEF InFlight
  <2>3. CASE Starts
    BY <1>2, <2>3 DEF Starts
  <2> QED BY <1>4, <2>2, <2>3, CodexOpens
<1> QED BY <1>3, <1>4 DEF InFlight, Clears

\* A question that Codex asks is on the wire.
LEMMA CodexLosesNone ==
    ASSUME Before, OffersInv, NoneLost, CodexStep
    PROVE  NoneLost'
<1>0. /\ Typed /\ wire \in Seq(Message) /\ Longer(wire, wire') /\ UNCHANGED registry
      /\ history'.displaced = history.displaced
  BY CodexWrites, CodexAnswers DEF Before, Typed
<1>1. ASSUME NEW q \in Open' \ history'.displaced
      PROVE  AsksIn(wire', q) # {} \/ (\E e \in registry.entries : Holds(e, q)') \/ \E m \in toCodex' : m.route = Rpc(q)
  <2>1. CASE Asks(q)
    <3>1. Len(wire) + 1 \in AsksIn(wire', q)
      BY <1>0, <2>1 DEF Asks, Wrote, AsksIn
    <3> QED BY <3>1
  <2>2. CASE q \in Open
    <3>1. CASE AsksIn(wire, q) # {}
      BY <1>0, <3>1 DEF AsksIn, Longer
    <3>2. CASE Held(q)
      <4>1. codex'.turn = codex.turn
        BY <1>1, CodexOpens
      <4> QED BY <3>2, <4>1 DEF Held, Holds
    <3>3. ASSUME NEW m \in toCodex, m.route = Rpc(q)
          PROVE  m \in toCodex'
      BY <1>0, <1>1, <3>3, CodexAnswers, RoutesDiffer
    <3> QED BY <1>0, <1>1, <2>2, <3>1, <3>2, <3>3 DEF NoneLost
  <2> QED BY <1>1, <2>1, <2>2, CodexOpens
<1> QED BY <1>0, <1>1 DEF NoneLost, Held

-----------------------------------------------------------------------------
(* The handlers lose no question *)

\* The first message leaves, and the others move up.
LEMMA WireShifts ==
    ASSUME wire \in Seq(Message), 1 \in DOMAIN wire, wire' = RemoveAt(wire, 1)
    PROVE  /\ \A j \in DOMAIN wire' : j + 1 \in DOMAIN wire /\ j + 1 > 1 /\ wire'[j] = wire[j + 1]
           /\ \A k \in DOMAIN wire : k # 1 => k - 1 \in DOMAIN wire' /\ wire'[k - 1] = wire[k]
           /\ \A k, j \in DOMAIN wire : k < j => j # 1 /\ k - 1 < j - 1
           /\ \A j \in DOMAIN wire', k \in DOMAIN wire : j + 1 < k => j < k - 1
<1> DEFINE v == RemoveAt(wire, 1)
<1>1. /\ v \in Seq(Message) /\ DOMAIN v = 1 .. Len(wire) - 1
      /\ \A i \in 1 .. Len(wire) - 1 : v[i] = IF i < 1 THEN wire[i] ELSE wire[i + 1]
  BY RemovedAt
<1>2. v = wire'
  OBVIOUS
<1> HIDE DEF v
<1>3. DOMAIN wire = 1 .. Len(wire) /\ Len(wire) \in Nat
  OBVIOUS
<1>4. \A j \in DOMAIN wire' : j + 1 \in DOMAIN wire /\ j + 1 > 1 /\ wire'[j] = wire[j + 1]
  BY <1>1, <1>2, <1>3
<1>5. ASSUME NEW k \in DOMAIN wire, k # 1
      PROVE  k - 1 \in DOMAIN wire' /\ wire'[k - 1] = wire[k]
  <2>1. k - 1 \in 1 .. Len(wire) - 1 /\ (k - 1) + 1 = k /\ ~(k - 1 < 1)
    BY <1>3, <1>5
  <2> QED BY <1>1, <1>2, <2>1
<1>6. /\ \A k, j \in DOMAIN wire : k < j => j # 1 /\ k - 1 < j - 1
      /\ \A j \in DOMAIN wire', k \in DOMAIN wire : j + 1 < k => j < k - 1
  BY <1>1, <1>2, <1>3
<1> QED BY <1>4, <1>5, <1>6

\* While messages are handled in order, it is the first that is handled.
LEMMA FirstIsHandled ==
    ASSUME Before, WireFits, NEW t \in Handlers, NEW i \in FirstFor(t), Handled(t, i)
    PROVE  /\ i = 1 /\ 1 \in DOMAIN wire /\ wire[1].kind \in HandledBy[t] /\ wire' = RemoveAt(wire, 1)
           /\ taken[t] # 0 /\ \A u \in Handlers : taken'[u] = 0
<1>1. /\ wire \in Seq(Message) /\ i \in DOMAIN wire /\ taken[t] # 0 /\ taken \in Stamps
      /\ \A j \in 1 .. i - 1 : wire[j].kind \notin HandledBy[t]
      /\ wire' = RemoveAt(wire, i) /\ taken' = [taken EXCEPT ![t] = 0]
  BY DEF Before, Typed, FirstFor, Handled
<1>2. wire[1].kind \in HandledBy[t]
  BY <1>1 DEF WireFits
<1>3. i = 1
  BY <1>1, <1>2
<1>4. ASSUME NEW u \in Handlers, u # t
      PROVE  taken[u] = 0
  <2>1. wire[1].kind \notin HandledBy[u]
    BY <1>2, <1>4 DEF HandledBy, Handlers
  <2> QED BY <2>1 DEF WireFits
<1>5. \A u \in Handlers : taken'[u] = 0
  BY <1>1, <1>4 DEF Stamps, Handlers
<1> QED BY <1>1, <1>2, <1>3, <1>5

\* The rest of the wire is as it should be once the first message is handled.
LEMMA HandledFits ==
    ASSUME Before, WireFits, NEW t \in Handlers, NEW i \in FirstFor(t), Handled(t, i)
    PROVE  /\ WireFits'
           /\ \A q : AsksIn(wire', q) = {} => AsksIn(wire, q) \subseteq {1}
           /\ \A kinds \in SUBSET {"said", "started"} : \A at : Clears(kinds, at) =>
                \/ \E j \in DOMAIN wire' : wire'[j].kind \in kinds
                \/ t = "notice" /\ wire[1].kind \in kinds /\ taken["notice"] >= at
           /\ taken'["notice"] = 0
<1>0. /\ i = 1 /\ 1 \in DOMAIN wire /\ wire[1].kind \in HandledBy[t] /\ wire' = RemoveAt(wire, 1)
      /\ taken[t] # 0 /\ \A u \in Handlers : taken'[u] = 0
      /\ wire \in Seq(Message) /\ UNCHANGED codex /\ Open' = Open
  BY FirstIsHandled DEF Before, Typed, Handled, Open
<1>1. /\ \A j \in DOMAIN wire' : j + 1 \in DOMAIN wire /\ j + 1 > 1 /\ wire'[j] = wire[j + 1]
      /\ \A k \in DOMAIN wire : k # 1 => k - 1 \in DOMAIN wire' /\ wire'[k - 1] = wire[k]
      /\ \A k, j \in DOMAIN wire : k < j => j # 1 /\ k - 1 < j - 1
      /\ \A j \in DOMAIN wire', k \in DOMAIN wire : j + 1 < k => j < k - 1
  BY <1>0, WireShifts
<1>2. ASSUME NEW j \in DOMAIN wire'
      PROVE  /\ wire'[j].kind = "resolved" => codex'.asked[wire'[j].of] = "closed"
             /\ wire'[j].kind \in AskKinds /\ wire'[j].of \in Open' => wire'[j].turn = codex'.turn
             /\ wire'[j].kind \in Closers => \A q \in Open' : \E k \in AsksIn(wire', q) : j < k
             /\ wire'[j].kind = "completed" /\ codex'.running =>
                  \E k \in DOMAIN wire' : j < k /\ wire'[k].kind = "started"
  <2>1. j + 1 \in DOMAIN wire /\ wire'[j] = wire[j + 1]
    BY <1>1
  <2>2. /\ wire'[j].kind = "resolved" => codex'.asked[wire'[j].of] = "closed"
        /\ wire'[j].kind \in AskKinds /\ wire'[j].of \in Open' => wire'[j].turn = codex'.turn
    BY <1>0, <2>1 DEF WireFits
  <2>3. \A k \in DOMAIN wire : j + 1 < k => j < k - 1 /\ k - 1 \in DOMAIN wire' /\ wire'[k - 1] = wire[k]
    BY <1>1, <2>1
  <2>4. ASSUME wire'[j].kind \in Closers, NEW q \in Open'
        PROVE  \E k \in AsksIn(wire', q) : j < k
    <3>1. PICK k \in AsksIn(wire, q) : j + 1 < k
      BY <1>0, <2>1, <2>4 DEF WireFits
    <3> QED BY <2>3, <3>1 DEF AsksIn
  <2>5. ASSUME wire'[j].kind = "completed", codex'.running
        PROVE  \E k \in DOMAIN wire' : j < k /\ wire'[k].kind = "started"
    <3>1. PICK k \in DOMAIN wire : j + 1 < k /\ wire[k].kind = "started"
      BY <1>0, <2>1, <2>5 DEF WireFits
    <3> QED BY <2>3, <3>1
  <2> QED BY <2>2, <2>4, <2>5
<1>3. WireFits'
  BY <1>0, <1>2 DEF WireFits
<1>4. ASSUME NEW q, NEW k \in AsksIn(wire, q), k # 1
      PROVE  AsksIn(wire', q) # {}
  <2>1. k - 1 \in AsksIn(wire', q)
    BY <1>1, <1>4 DEF AsksIn
  <2> QED BY <2>1
<1>5. ASSUME NEW kinds \in SUBSET {"said", "started"}, NEW at, Clears(kinds, at)
      PROVE  \/ \E j \in DOMAIN wire' : wire'[j].kind \in kinds
             \/ t = "notice" /\ wire[1].kind \in kinds /\ taken["notice"] >= at
  <2>1. PICK k \in DOMAIN wire : wire[k].kind \in kinds /\ (k = 1 /\ taken["notice"] # 0 => taken["notice"] >= at)
    BY <1>5 DEF Clears
  <2>2. wire[1].kind \in kinds => t = "notice"
    BY <1>0 DEF HandledBy, Handlers
  <2> QED BY <1>0, <1>1, <2>1, <2>2
<1> QED BY <1>0, <1>3, <1>4, <1>5 DEF Handlers

\* A question that is handled is with the user, and no other is touched.
LEMMA AskedKeeps ==
    ASSUME Before, OffersInv, WireFits, SinceCleared, InFlight, NoneLost,
           NEW t \in Handlers, NEW i \in FirstFor(t), Handled(t, i), wire[i].kind \in AskKinds,
           Adds(registry, registry'), history.displaced \subseteq history'.displaced,
           wire[i].of \in Open \ history'.displaced => \E f \in registry'.entries : Holds(f, wire[i].of)
    PROVE  WireFits' /\ SinceCleared' /\ InFlight' /\ NoneLost'
<1>0. /\ i = 1 /\ 1 \in DOMAIN wire /\ UNCHANGED <<codex, client, toCodex>> /\ Open' = Open
      /\ ClientsFit /\ wire[1].kind \notin {"said", "started"}
  BY FirstIsHandled DEF Handled, Open, OffersInv, AskKinds
<1>1. /\ WireFits'
      /\ \A q : AsksIn(wire', q) = {} => AsksIn(wire, q) \subseteq {1}
      /\ \A kinds \in SUBSET {"said", "started"} : \A at : Clears(kinds, at) => \E j \in DOMAIN wire' : wire'[j].kind \in kinds
      /\ taken'["notice"] = 0
  BY <1>0, HandledFits
<1>2. SinceCleared'
  BY <1>0, <1>1 DEF SinceCleared, Clears, Adds
<1>3. ASSUME NEW c \in Clients, NEW e \in registry'.entries,
             client[c].pc # "idle", e.id = client[c].id, e.route = Observe, codex.running
      PROVE  \E j \in DOMAIN wire' : wire'[j].kind \in {"started"}
  <2>1. e \in registry.entries
    BY <1>0, <1>3 DEF Adds, ClientsFit, Used
  <2>2. Clears({"started"}, e.at)
    BY <1>3, <2>1 DEF InFlight
  <2> QED BY <1>1, <2>2
<1>4. InFlight'
  BY <1>0, <1>1, <1>3 DEF InFlight, Clears
<1>5. ASSUME NEW q \in Open \ history'.displaced
      PROVE  AsksIn(wire', q) # {} \/ (\E f \in registry'.entries : Holds(f, q)) \/ \E m \in toCodex : m.route = Rpc(q)
  <2>1. CASE AsksIn(wire, q) # {}
    <3>1. AsksIn(wire', q) # {} \/ 1 \in AsksIn(wire, q)
      BY <1>1, <2>1
    <3> QED BY <1>0, <1>5, <3>1 DEF AsksIn
  <2>2. ASSUME NEW e \in registry.entries, Holds(e, q)
        PROVE  e \in registry'.entries
    BY <2>2, RoutesDiffer DEF Holds, Adds
  <2> QED BY <1>5, <2>1, <2>2 DEF NoneLost, Held
<1>6. NoneLost'
  BY <1>0, <1>5 DEF NoneLost, Held, Holds
<1> QED BY <1>1, <1>2, <1>4, <1>6

\* Handling a request.
LEMMA RequestKeeps ==
    ASSUME Before, OffersInv, ~history'.mishap, WireFits, SinceCleared, InFlight, NoneLost,
           NEW i \in FirstFor("request"), HandleRequest(i)
    PROVE  WireFits' /\ SinceCleared' /\ InFlight' /\ NoneLost'
<1> DEFINE q == wire[i].of
           route == Rpc(q)
           batch == Live(q, taken["request"], route)
<1>0. /\ Typed /\ CodexFits /\ EntriesFit /\ Handled("request", i) /\ "request" \in Handlers
      /\ registry \in Registries /\ now \in Times /\ registry' \in Observed(registry, batch)
  BY DEF Before, OffersInv, HandleRequest, Handlers, Typed
<1>1. wire[i].kind \in AskKinds /\ q \in Questions /\ route \in Routes /\ route.asks = q /\ route # Observe
  BY <1>0, FirstRequest, RoutesDiffer DEF AskKinds
<1>2. Adds(registry, registry')
  BY <1>0, RequestAdds
<1>3. /\ ~Refused(registry, batch)
      /\ history'.displaced = IF Usurped(registry, batch) THEN history.displaced \cup {q} ELSE history.displaced
  BY <1>0, RequestRemembers
<1>4. ASSUME q \notin history'.displaced
      PROVE  \E f \in registry'.entries : Holds(f, q)
  <2>1. ~Usurped(registry, batch)
    BY <1>3, <1>4
  <2>2. taken["request"] \in 1 .. now /\ \A e \in registry.entries : Sane(e)
    BY <1>0 DEF Typed, CodexFits, Stamps, Times, Handled, Handlers, EntriesFit, Fit
  <2> HIDE DEF route
  <2>3. PICK s : s = registry'
    OBVIOUS
  <2>4. s \in Observed(registry, batch) /\ ~Refused(registry, batch) /\ ~Usurped(registry, batch)
    BY <1>0, <1>3, <2>1, <2>3
  <2>5. \E f \in s.entries : f.route = route \/ (f.submitting /\ f.route = Observe /\ f.text = TextOf[q])
    <3>1. q \in Questions /\ route \in Routes /\ route.asks = q /\ route # Observe
      BY <1>1
    <3>2. registry \in Registries /\ now \in Times
      BY <1>0
    <3> HIDE DEF q
    <3> QED BY <2>2, <2>4, <3>1, <3>2, ObservedHolds
  <2> QED BY <2>3, <2>5 DEF Holds, route
<1>5. history.displaced \subseteq history'.displaced
  BY <1>3
<1> HIDE DEF batch
<1> QED BY <1>0, <1>1, <1>2, <1>4, <1>5, AskedKeeps

\* Handling the notice of a question.
LEMMA AskedNoticeKeeps ==
    ASSUME Before, OffersInv, ~history'.mishap, WireFits, SinceCleared, InFlight, NoneLost,
           NEW i \in FirstFor("notice"), HandleNotice(i), wire[i].kind = "asked"
    PROVE  WireFits' /\ SinceCleared' /\ InFlight' /\ NoneLost'
<1> DEFINE q == wire[i].of
           route == Steer(wire[i].turn, q)
           batch == Live(q, taken["notice"], route)
<1>0. /\ Typed /\ CodexFits /\ EntriesFit /\ Handled("notice", i) /\ "notice" \in Handlers
      /\ registry \in Registries /\ now \in Times /\ registry' \in Observed(registry, batch)
  BY DEF Before, OffersInv, HandleNotice, Handlers, Typed
<1>1. wire[i].kind \in AskKinds /\ q \in Questions /\ route \in Routes /\ route.asks = q /\ route # Observe
  BY <1>0, FirstNotice, RoutesDiffer DEF AskKinds
<1>2. Adds(registry, registry')
  BY <1>0, AskedAdds
<1>3. /\ ~Refused(registry, batch)
      /\ history'.displaced = IF Usurped(registry, batch) THEN history.displaced \cup {q} ELSE history.displaced
  BY <1>0, NoticeRemembers
<1>4. ASSUME q \in Open, q \notin history'.displaced
      PROVE  \E f \in registry'.entries : Holds(f, q)
  <2>1. ~Usurped(registry, batch)
    BY <1>3, <1>4
  <2>2. taken["notice"] \in 1 .. now /\ \A e \in registry.entries : Sane(e)
    BY <1>0 DEF Typed, CodexFits, Stamps, Times, Handled, Handlers, EntriesFit, Fit
  <2>3. route = Steer(codex.turn, q)
    BY <1>0, <1>1, <1>4, FirstNotice DEF WireFits
  <2> HIDE DEF route
  <2>4. \E f \in registry'.entries : f.route = route \/ (f.submitting /\ f.route = Observe /\ f.text = TextOf[q])
    BY <1>0, <1>1, <1>3, <2>1, <2>2, ObservedHolds
  <2> QED BY <2>3, <2>4 DEF Holds
<1>5. history.displaced \subseteq history'.displaced
  BY <1>3
<1> HIDE DEF batch
<1> QED BY <1>0, <1>1, <1>2, <1>4, <1>5, AskedKeeps

\* What is told to be over is not waited for.
LEMMA ToldKeeps ==
    ASSUME Before, OffersInv, WireFits, SinceCleared, InFlight, NoneLost,
           NEW i \in FirstFor("notice"), HandleNotice(i), wire[i].kind # "asked"
    PROVE  WireFits' /\ SinceCleared' /\ InFlight' /\ NoneLost'
<1> DEFINE m == wire[1]
           at == taken["notice"]
<1>0. /\ Handled("notice", i) /\ "notice" \in Handlers /\ registry \in Registries /\ registry.cleared \in Nat
      /\ at \in Nat /\ codex.since \in Nat /\ UNCHANGED history /\ ClientsFit
      /\ \A e \in registry.entries : e \in Entry /\ e.at \in Nat
  <2>1. Handled("notice", i) /\ UNCHANGED history
    BY DEF HandleNotice
  <2>2. Typed /\ ClientsFit
    BY DEF Before, OffersInv
  <2>3. registry \in Registries /\ registry.cleared \in Nat /\ \A e \in registry.entries : e \in Entry
    BY <2>2 DEF Typed, Registries, Times
  <2>5. \A e \in Entry : e.at \in Nat
    BY DEF Entry, Times
  <2>4. at \in Nat /\ codex.since \in Nat /\ "notice" \in Handlers
    BY <2>2 DEF Typed, Stamps, Times, Turns, Handlers
  <2> QED BY <2>1, <2>2, <2>3, <2>4, <2>5
<1>1. /\ i = 1 /\ 1 \in DOMAIN wire /\ UNCHANGED <<codex, client, toCodex>> /\ Open' = Open
      /\ WireFits' /\ taken'["notice"] = 0
      /\ \A q : AsksIn(wire', q) = {} => AsksIn(wire, q) \subseteq {1}
      /\ \A kinds \in SUBSET {"said", "started"} : \A x : Clears(kinds, x) =>
           (\E j \in DOMAIN wire' : wire'[j].kind \in kinds) \/ (m.kind \in kinds /\ at >= x)
      /\ m \in Message /\ m.kind \in {"said", "started", "resolved", "completed"}
  <2>1. i = 1 /\ 1 \in DOMAIN wire
    BY <1>0, FirstIsHandled
  <2>2. /\ WireFits' /\ taken'["notice"] = 0
        /\ \A q : AsksIn(wire', q) = {} => AsksIn(wire, q) \subseteq {1}
        /\ \A kinds \in SUBSET {"said", "started"} : \A x : Clears(kinds, x) =>
             (\E j \in DOMAIN wire' : wire'[j].kind \in kinds) \/ (m.kind \in kinds /\ at >= x)
    BY <1>0, HandledFits
  <2>3. m \in Message /\ m.kind \in {"said", "started", "resolved", "completed"}
    BY <2>1, FirstNotice DEF Before
  <2>4. UNCHANGED <<codex, client, toCodex>> /\ Open' = Open
    BY <1>0 DEF Handled, Open
  <2> QED BY <2>1, <2>2, <2>3, <2>4
<1>2. \/ m.kind \in {"said", "started"} /\ registry' = ClearThread(registry, at)
      \/ m.kind = "resolved" /\ registry' = ResolveRpc(registry, m.of)
      \/ m.kind = "completed" /\ registry' = EndTurn(registry)
  BY <1>1 DEF HandleNotice
<1> HIDE DEF m, at
<1>3. /\ registry'.cleared \in Nat /\ registry'.cleared >= registry.cleared
      /\ m.kind \in {"said", "started"} => registry'.cleared >= at
  <2>1. CASE registry' = ClearThread(registry, at)
    BY <1>0, <2>1 DEF ClearThread
  <2>2. CASE ~(registry' = ClearThread(registry, at))
    <3>1. registry'.cleared = registry.cleared /\ m.kind \notin {"said", "started"}
      BY <1>0, <1>2, <2>2 DEF ResolveRpc, EndTurn, Registries
    <3> QED BY <1>0, <3>1
  <2> QED BY <2>1, <2>2
<1>4. SinceCleared'
  <2>1. CASE registry.cleared >= codex.since
    BY <1>0, <1>1, <1>3, <2>1 DEF SinceCleared
  <2>2. CASE Clears({"said", "started"}, codex.since)
    <3>1. CASE m.kind \in {"said", "started"} /\ at >= codex.since
      BY <1>0, <1>1, <1>3, <3>1 DEF SinceCleared
    <3>2. CASE \E j \in DOMAIN wire' : wire'[j].kind \in {"said", "started"}
      BY <1>1, <3>2 DEF SinceCleared, Clears
    <3> QED BY <1>1, <2>2, <3>1, <3>2
  <2> QED BY <2>1, <2>2 DEF SinceCleared
<1>5. ASSUME NEW c \in Clients, NEW f \in registry'.entries,
             client[c].pc # "idle", f.id = client[c].id, f.route = Observe, codex.running
      PROVE  \E j \in DOMAIN wire' : wire'[j].kind = "started"
  <2>1. CASE m.kind = "completed"
    <3>1. PICK k \in DOMAIN wire : 1 < k /\ wire[k].kind = "started"
      BY <1>1, <1>5, <2>1 DEF WireFits, m
    <3>2. Clears({"started"}, 0) /\ {"started"} \in SUBSET {"said", "started"}
      BY <3>1 DEF Clears
    <3>3. m.kind \notin {"started"}
      BY <2>1
    <3> QED BY <1>1, <3>2, <3>3
  <2>2. CASE m.kind # "completed"
    <3>1. f \in registry.entries /\ (m.kind = "started" => f.at > at)
      BY <1>0, <1>2, <2>2, <1>5 DEF ClearThread, ResolveRpc, Registries
    <3>2. Clears({"started"}, f.at) /\ {"started"} \in SUBSET {"said", "started"} /\ f.at \in Nat
      BY <1>0, <1>5, <3>1 DEF InFlight
    <3>3. ~(m.kind \in {"started"} /\ at >= f.at)
      BY <1>0, <3>1, <3>2
    <3> QED BY <1>1, <3>2, <3>3
  <2> QED BY <2>1, <2>2
<1>6. InFlight'
  BY <1>1, <1>5 DEF InFlight, Clears
<1>7. ASSUME NEW q \in Open \ history.displaced
      PROVE  AsksIn(wire', q) # {} \/ (\E f \in registry'.entries : Holds(f, q)) \/ \E n \in toCodex : n.route = Rpc(q)
  <2>1. 1 \notin AsksIn(wire, q)
    BY <1>1 DEF AsksIn, AskKinds, m
  <2>2. CASE m.kind \in Closers
    <3>1. AsksIn(wire, q) # {}
      BY <1>1, <1>7, <2>2 DEF WireFits, m
    <3> QED BY <1>1, <2>1, <3>1
  <2>3. ASSUME m.kind = "resolved", NEW e \in registry.entries, Holds(e, q)
        PROVE  e \in registry'.entries
    <3>1. q # m.of
      BY <1>1, <1>7, <2>3 DEF WireFits, m, Open
    <3>2. e.route # Rpc(m.of)
      BY <2>3, <3>1, RoutesDiffer DEF Holds
    <3> QED BY <1>0, <1>2, <2>3, <3>2 DEF ResolveRpc, Registries
  <2>4. m.kind \in Closers \/ m.kind = "resolved"
    BY <1>1 DEF Closers
  <2> QED BY <1>1, <1>7, <2>1, <2>2, <2>3, <2>4 DEF NoneLost, Held
<1>8. NoneLost'
  BY <1>0, <1>1, <1>7 DEF NoneLost, Held, Holds
<1> QED BY <1>1, <1>4, <1>6, <1>8

-----------------------------------------------------------------------------
(* The others lose no question *)

\* Taking a message from the wire: while all is in order, it is the first.
LEMMA TakeKeeps ==
    ASSUME Before, OffersInv, ~history'.mishap, WireFits, SinceCleared, InFlight, NoneLost,
           NEW t \in Handlers, Take(t)
    PROVE  WireFits' /\ SinceCleared' /\ InFlight' /\ NoneLost'
<1>0. /\ Typed /\ CodexFits /\ EntriesFit /\ taken \in Stamps /\ history \in Histories /\ wire \in Seq(Message)
      /\ now \in Nat /\ codex.since \in Nat
      /\ UNCHANGED <<codex, wire, transcript, poll, registry, client, toCodex, now>>
      /\ taken' = [taken EXCEPT ![t] = now]
      /\ history' = [history EXCEPT !.mishap = @ \/ 1 \notin FirstFor(t)]
  BY DEF Before, OffersInv, Take, Typed, Times, Turns
<1>1. history'.displaced = history.displaced /\ 1 \in FirstFor(t)
  BY <1>0 DEF Histories
<1>2. WireFits'
  <2>1. ASSUME NEW u \in Handlers, taken'[u] # 0
        PROVE  wire # <<>> /\ wire[1].kind \in HandledBy[u]
    <3>1. CASE u = t
      BY <1>0, <1>1, <3>1 DEF FirstFor
    <3>2. CASE u # t
      <4>1. taken[u] # 0
        BY <1>0, <2>1, <3>2 DEF Stamps, Handlers
      <4> QED BY <4>1 DEF WireFits
    <3> QED BY <3>1, <3>2
  <2> QED BY <1>0, <2>1 DEF WireFits, Open, AsksIn
<1>3. ASSUME NEW kinds, NEW at \in Nat, at <= now, Clears(kinds, at)
      PROVE  \E i \in DOMAIN wire : /\ wire[i].kind \in kinds
                                    /\ i = 1 /\ taken'["notice"] # 0 => taken'["notice"] >= at
  <2>1. taken'["notice"] \in {taken["notice"], now}
    BY <1>0 DEF Stamps
  <2> QED BY <1>0, <1>3, <2>1 DEF Clears
<1>4. SinceCleared'
  <2>1. codex.since <= now
    BY <1>0 DEF CodexFits
  <2> QED BY <1>0, <1>3, <2>1 DEF SinceCleared, Clears
<1>5. InFlight'
  <2>1. \A e \in registry.entries : e.at \in Nat /\ e.at <= now
    BY <1>0 DEF EntriesFit, Fit, Sane
  <2> QED BY <1>0, <1>3, <2>1 DEF InFlight, Clears
<1>6. NoneLost'
  BY <1>0, <1>1 DEF NoneLost, Held, Holds, Open, AsksIn
<1> QED BY <1>2, <1>4, <1>5, <1>6

\* Nothing that matters changes, or more answers are on their way.
LEMMA IdleKeeps ==
    ASSUME WireFits, SinceCleared, InFlight, NoneLost,
           UNCHANGED <<codex, wire, taken, registry>>, history'.displaced = history.displaced,
           toCodex \subseteq toCodex',
           \A c \in Clients : client'[c].id = client[c].id /\ (client'[c].pc # "idle" => client[c].pc # "idle")
    PROVE  WireFits' /\ SinceCleared' /\ InFlight' /\ NoneLost'
<1>1. WireFits'
  BY DEF WireFits, Open, AsksIn
<1>2. SinceCleared'
  BY DEF SinceCleared, Clears
<1>3. InFlight'
  BY DEF InFlight, Clears
<1>4. NoneLost'
  BY DEF NoneLost, Held, Holds, Open, AsksIn
<1> QED BY <1>1, <1>2, <1>3, <1>4

\* The registry changes, while the wire and the answers stay.
LEMMA RegistryKeeps ==
    ASSUME Before, WireFits, SinceCleared, UNCHANGED <<codex, wire, taken, toCodex>>,
           registry'.cleared >= registry.cleared, registry'.cleared \in Nat,
           \A c \in Clients, f \in registry'.entries :
             client'[c].pc # "idle" /\ f.id = client'[c].id /\ f.route = Observe /\ codex.running =>
               Clears({"started"}, f.at),
           \A q \in Open \ history'.displaced :
             AsksIn(wire, q) # {} \/ (\E f \in registry'.entries : Holds(f, q)) \/ \E m \in toCodex : m.route = Rpc(q)
    PROVE  WireFits' /\ SinceCleared' /\ InFlight' /\ NoneLost'
<1>0. registry.cleared \in Nat /\ codex.since \in Nat
  BY DEF Before, Typed, Registries, Turns, Times
<1>1. WireFits'
  BY DEF WireFits, Open, AsksIn
<1>2. SinceCleared'
  BY <1>0 DEF SinceCleared, Clears
<1>3. InFlight'
  BY DEF InFlight, Clears
<1>4. NoneLost'
  BY DEF NoneLost, Held, Holds, Open, AsksIn
<1> QED BY <1>1, <1>2, <1>3, <1>4

\* What ends questions and is still on the wire comes before those that are open.
LEMMA ClearedBefore ==
    ASSUME WireFits, NEW q \in Open, NEW kinds \in SUBSET {"said", "started"}, NEW at, Clears(kinds, at)
    PROVE  AsksIn(wire, q) # {}
BY DEF Clears, WireFits, Closers

\* Applying what was read of the transcript.
LEMMA PollKeeps ==
    ASSUME Before, OffersInv, WireFits, SinceCleared, InFlight, NoneLost, PollApply
    PROVE  WireFits' /\ SinceCleared' /\ InFlight' /\ NoneLost'
<1>0. /\ Typed /\ CodexFits /\ EntriesFit /\ ClientsFit /\ registry \in Registries /\ registry.cleared \in Nat
      /\ codex.since \in Nat
      /\ \A e \in registry.entries : e.at \in Nat /\ e.at > registry.cleared
      /\ UNCHANGED <<codex, wire, taken, transcript, client, toCodex, now, history>>
  BY DEF Before, OffersInv, Typed, Registries, Turns, Times, PollApply, EntriesFit, Fit, Sane
<1>1. PICK rec \in ToSet(poll.observed) :
             /\ rec.at \in 1 .. now /\ rec.at \in Times
             /\ \/ Adds(registry, registry')
                \/ rec.kind # "question" /\ registry' = ClearThread(registry, rec.at)
                \/ registry' = registry
  BY <1>0, PollDoes
<1>2. CASE registry' = registry
  BY <1>0, <1>2, IdleKeeps
<1>3. CASE Adds(registry, registry')
  <2>1. registry'.cleared = registry.cleared
    BY <1>3 DEF Adds
  <2>2. ASSUME NEW c \in Clients, NEW f \in registry'.entries,
               client[c].pc # "idle", f.id = client[c].id
        PROVE  f \in registry.entries
    BY <1>0, <1>3, <2>2 DEF Adds, ClientsFit, Used
  <2>3. ASSUME NEW q \in Open \ history.displaced, NEW e \in registry.entries, Holds(e, q)
        PROVE  e \in registry'.entries
    BY <1>3, <2>3, RoutesDiffer DEF Holds, Adds
  <2> QED BY <1>0, <2>1, <2>2, <2>3, RegistryKeeps DEF InFlight, NoneLost, Held
<1>4. CASE rec.kind # "question" /\ registry' = ClearThread(registry, rec.at)
  <2>1. /\ registry'.cleared >= registry.cleared /\ registry'.cleared \in Nat
        /\ registry'.entries = {e \in registry.entries : e.at > rec.at}
    BY <1>0, <1>1, <1>4 DEF ClearThread
  <2>2. ASSUME NEW q \in Open \ history.displaced, AsksIn(wire, q) = {}, NEW e \in registry.entries, Holds(e, q)
        PROVE  e \in registry'.entries
    <3>1. rec.at <= codex.since
      BY <1>0, <1>1, <1>4, <2>2 DEF CodexFits
    <3>2. registry.cleared >= codex.since
      BY <2>2, ClearedBefore DEF SinceCleared
    <3> QED BY <1>0, <1>1, <2>1, <3>1, <3>2
  <2> QED BY <1>0, <2>1, <2>2, RegistryKeeps DEF InFlight, NoneLost, Held
<1> QED BY <1>1, <1>2, <1>3, <1>4

\* Nothing has expired.
LEMMA NothingPurged ==
    ASSUME Typed, EntriesFit, now <= Ttl + 1
    PROVE  Purged(registry).entries = registry.entries /\ Purged(registry).cleared = registry.cleared
<1>1. /\ registry.cleared \in Nat /\ now \in Nat /\ Ttl \in Nat
      /\ \A e \in registry.entries : e.at \in Nat /\ e.at >= 1
  BY DEF Typed, Registries, Times, EntriesFit, Fit, Sane
<1>2. \A e \in registry.entries : now - e.at <= Ttl
  BY <1>1
<1>3. now - registry.cleared <= Ttl \/ registry.cleared = 0
  BY <1>1
<1> QED BY <1>2, <1>3 DEF Purged

\* Claiming an entry: it keeps its question while it is submitted.
LEMMA ClaimKeeps ==
    ASSUME Before, OffersInv, Regular, WireFits, SinceCleared, InFlight, NoneLost,
           NEW c \in Clients, NEW e \in registry.entries, Claim(c, e)
    PROVE  WireFits' /\ SinceCleared' /\ InFlight' /\ NoneLost'
<1> DEFINE r == Purged(registry)
           f == [e EXCEPT !.submitting = TRUE]
<1>0. /\ Typed /\ EntriesFit /\ IdsFree /\ registry \in Registries /\ registry.cleared \in Nat /\ now <= Ttl + 1
      /\ UNCHANGED <<codex, wire, taken, poll, toCodex, now, history>>
      /\ client \in [Clients -> Attempts]
  BY DEF Before, OffersInv, Typed, Registries, Times, Claim, Regular
<1>1. r.entries = registry.entries /\ r.cleared = registry.cleared /\ registry' = Claimed(r, e) /\ r \in Registries
  BY <1>0, NothingPurged, PurgeShrinks DEF Claim, Shrinks
<1>2. Claimable(e) /\ e \in Entry /\ ~e.submitting /\ e.route # Observe
  <2>1. Claimable(e) /\ e \in Entry
    BY <1>0, ClaimMoves
  <2>2. e.answerable <=> e.route # Observe
    BY <1>0 DEF EntriesFit, Fit, Sane
  <2> QED BY <2>1, <2>2 DEF Claimable
<1>3. f.id = e.id /\ f.route = e.route /\ f.submitting /\ f.text = e.text
  BY <1>2 DEF Entry
<1> HIDE DEF f
<1>4. registry'.entries = (registry.entries \ {e}) \cup {f} /\ registry'.cleared = registry.cleared
  BY <1>1 DEF Claimed, Registries, f
<1>5. \A d \in Clients : client'[d] = IF d = c THEN [pc |-> "send", ok |-> FALSE, id |-> e.id, route |-> e.route]
                                              ELSE client[d]
  BY <1>0 DEF Claim
<1>6. \A d \in Clients : client[d].id # e.id
  BY <1>0, <1>2 DEF IdsFree
<1>7. ASSUME NEW d \in Clients, NEW g \in registry'.entries,
             client'[d].pc # "idle", g.id = client'[d].id, g.route = Observe, codex.running
      PROVE  Clears({"started"}, g.at)
  <2>1. CASE d = c
    <3>1. g.id = e.id
      BY <1>5, <1>7, <2>1
    <3>2. g = f
      BY <1>0, <1>4, <3>1 DEF IdsFree, UniqueIds
    <3> QED BY <1>2, <1>3, <1>7, <3>2
  <2>2. CASE d # c
    <3>1. client'[d] = client[d] /\ g \in registry.entries
      BY <1>3, <1>4, <1>5, <1>6, <1>7, <2>2
    <3> QED BY <1>7, <3>1 DEF InFlight
  <2> QED BY <2>1, <2>2
<1>8. ASSUME NEW q \in Open \ history.displaced, NEW g \in registry.entries, Holds(g, q)
      PROVE  \E h \in registry'.entries : Holds(h, q)
  <2>1. CASE g = e
    <3>1. Holds(f, q)
      BY <1>2, <1>3, <1>8, <2>1 DEF Holds
    <3> QED BY <1>4, <3>1
  <2>2. CASE g # e
    BY <1>4, <1>8, <2>2
  <2> QED BY <2>1, <2>2
<1> HIDE DEF r
<1> QED BY <1>0, <1>4, <1>7, <1>8, RegistryKeeps DEF NoneLost, Held

\* Reading the list for a snapshot.
LEMMA SnapshotKeeps ==
    ASSUME Before, OffersInv, Regular, WireFits, SinceCleared, InFlight, NoneLost, Snapshot
    PROVE  WireFits' /\ SinceCleared' /\ InFlight' /\ NoneLost'
<1>1. /\ Typed /\ EntriesFit /\ registry.cleared \in Nat /\ now <= Ttl + 1
      /\ UNCHANGED <<codex, wire, taken, poll, client, toCodex, now, history>>
  BY DEF Before, OffersInv, Typed, Registries, Times, Snapshot, Regular
<1>2. registry'.entries = registry.entries /\ registry'.cleared = registry.cleared
  BY <1>1, NothingPurged DEF Snapshot
<1> QED BY <1>1, <1>2, RegistryKeeps DEF InFlight, NoneLost, Held

\* What the end of a submission does to the registry.
LEMMA FinishedCases ==
    ASSUME NEW r \in Registries, NEW id, NEW ok
    PROVE  LET s == Finished(r, id, ok)
           IN  /\ s.cleared >= r.cleared /\ s.cleared \in Nat
               /\ \/ s = r /\ \A e \in r.entries : e.id # id
                  \/ \E e \in r.entries :
                       /\ e.id = id
                       /\ \/ ok /\ s.entries \subseteq r.entries
                          \/ \E h \in Entry :
                               /\ ~ok /\ s.entries = (r.entries \ {e}) \cup {h}
                               /\ h.id = e.id /\ h.text = e.text /\ h.submitting /\ h.route = Observe
<1> DEFINE own == {e \in r.entries : e.id = id}
           e == CHOOSE e \in own : TRUE
           h == [e EXCEPT !.answerable = FALSE, !.route = Observe, !.submitting = TRUE]
           less == [r EXCEPT !.entries = @ \ {e}]
           back == [r EXCEPT !.entries = (@ \ {e}) \cup {h}]
<1>1. Finished(r, id, ok) = IF own = {} THEN r ELSE IF ok THEN ClearThread(less, e.at) ELSE back
  BY DEF Finished
<1>2. own # {} => e \in r.entries /\ e.id = id
  OBVIOUS
<1>3. r.cleared \in Nat /\ (own # {} => e.at \in Nat /\ e \in Entry)
  <2>1. r.cleared \in Times /\ r.entries \in SUBSET Entry
    BY DEF Registries
  <2>2. ASSUME own # {}
        PROVE  e \in Entry
    BY <1>2, <2>1, <2>2
  <2>3. \A f \in Entry : f.at \in Times
    BY DEF Entry
  <2>4. Times \subseteq Nat
    BY DEF Times
  <2> HIDE DEF own, e
  <2> QED BY <2>1, <2>2, <2>3, <2>4
<1>4. less.entries \subseteq r.entries /\ less.cleared = r.cleared
  BY DEF Registries
<1>5. back.entries = (r.entries \ {e}) \cup {h} /\ back.cleared = r.cleared
  BY DEF Registries
<1>6. own # {} => h \in Entry /\ h.id = e.id /\ h.text = e.text /\ h.submitting /\ h.route = Observe
  BY <1>3, ObserveRoute DEF Entry
<1> HIDE DEF e, h, less, back
<1>7. /\ ClearThread(less, e.at).entries \subseteq r.entries
      /\ own # {} => ClearThread(less, e.at).cleared >= r.cleared /\ ClearThread(less, e.at).cleared \in Nat
  BY <1>3, <1>4 DEF ClearThread
<1>8. CASE own = {}
  BY <1>1, <1>3, <1>8
<1>9. CASE own # {} /\ ok
  BY <1>1, <1>2, <1>7, <1>9
<1>10. CASE own # {} /\ ~ok
  BY <1>1, <1>2, <1>3, <1>5, <1>6, <1>10
<1> QED BY <1>8, <1>9, <1>10

\* The end of a submission: the question is answered, or waits for its answer.
LEMMA FinishKeeps ==
    ASSUME Before, OffersInv, WireFits, SinceCleared, InFlight, NoneLost, NEW c \in Clients, Finish(c)
    PROVE  WireFits' /\ SinceCleared' /\ InFlight' /\ NoneLost'
<1> DEFINE own == client[c]
           lost == {e \in registry.entries \ registry'.entries : e.id # own.id /\ (e.answerable \/ e.submitting)}
<1>0. /\ Typed /\ EntriesFit /\ IdsFree /\ ClientsFit /\ CodexFits /\ registry \in Registries
      /\ UNCHANGED <<codex, wire, taken, poll, toCodex, now>>
      /\ client \in [Clients -> Attempts] /\ own.pc = "finish" /\ own.ok \in BOOLEAN
      /\ registry' = Finished(registry, own.id, own.ok)
  <2>1. Typed /\ EntriesFit /\ IdsFree /\ ClientsFit /\ CodexFits
    BY DEF Before, OffersInv
  <2>2. registry \in Registries /\ client \in [Clients -> Attempts]
    BY <2>1 DEF Typed
  <2>3. client[c] \in Attempts
    BY <2>2
  <2>4. own.ok \in BOOLEAN
    BY <2>3, Zenon DEF Attempts
  <2>5. own.pc = "finish" /\ registry' = Finished(registry, own.id, own.ok)
    BY DEF Finish
  <2>6. UNCHANGED <<codex, wire, taken, poll, toCodex, now>>
    BY DEF Finish
  <2> QED BY <2>1, <2>2, <2>4, <2>5, <2>6
<1>1. \A d \in Clients : client'[d] = IF d = c THEN Idle ELSE client[d]
  BY <1>0 DEF Finish
<1>2. history'.displaced = history.displaced \cup (Open \cap UNION {AskedBy(e) : e \in lost})
  BY DEF Finish, Before, Typed, Histories
<1>3. /\ registry'.cleared >= registry.cleared /\ registry'.cleared \in Nat
      /\ \/ registry' = registry /\ \A e \in registry.entries : e.id # own.id
         \/ \E e \in registry.entries :
              /\ e.id = own.id
              /\ \/ own.ok /\ registry'.entries \subseteq registry.entries
                 \/ \E h \in Entry :
                      /\ ~own.ok /\ registry'.entries = (registry.entries \ {e}) \cup {h}
                      /\ h.id = e.id /\ h.text = e.text /\ h.submitting /\ h.route = Observe
  BY <1>0, FinishedCases
<1>4. \A f \in registry'.entries : f \in registry.entries \/ f.id = own.id
  BY <1>3
<1>5. ASSUME NEW d \in Clients, NEW f \in registry'.entries,
             client'[d].pc # "idle", f.id = client'[d].id, f.route = Observe, codex.running
      PROVE  Clears({"started"}, f.at)
  <2>1. d # c /\ client'[d] = client[d]
    BY <1>1, <1>5 DEF Idle
  <2>2. client[d].id # own.id
    BY <1>0, <1>5, <2>1 DEF ClientsFit
  <2>3. f \in registry.entries
    BY <1>4, <1>5, <2>1, <2>2
  <2> QED BY <1>5, <2>1, <2>3 DEF InFlight
<1>6. ASSUME NEW q \in Open \ history'.displaced, AsksIn(wire, q) = {}, NEW e \in registry.entries, Holds(e, q)
      PROVE  (\E f \in registry'.entries : Holds(f, q)) \/ \E m \in toCodex : m.route = Rpc(q)
  <2>0. q \in Questions /\ codex.running /\ codex.asked[q] = "open" /\ Sane(e)
    BY <1>0, <1>6 DEF CodexFits, Open, EntriesFit, Fit
  <2>1. CASE e.id # own.id
    <3>1. e.answerable \/ e.submitting
      BY <1>6, <2>0, RoutesDiffer DEF Holds, Sane
    <3>2. q \in AskedBy(e)
      BY <1>6, <2>0, RoutesDiffer DEF AskedBy, Holds
    <3>3. e \notin lost
      BY <1>2, <1>6, <3>2
    <3>4. e \in registry'.entries
      BY <2>1, <3>1, <3>3
    <3> QED BY <1>6, <3>4
  <2>2. CASE e.id = own.id
    <3>1. e.submitting /\ e.route \in {own.route, Observe} /\ own.route # Observe
      BY <1>0, <1>6, <2>2 DEF ClientsFit
    <3>2. CASE own.ok
      <4>1. e.route # Observe
        <5>1. e.route = Observe => Clears({"started"}, e.at)
          BY <1>0, <1>6, <2>0, <2>2 DEF InFlight
        <5>2. {"started"} \in SUBSET {"said", "started"}
          OBVIOUS
        <5> QED BY <1>6, <5>1, <5>2, ClearedBefore
      <4>2. e.route = own.route /\ own.route.asks = q
        BY <1>6, <3>1, <4>1, RoutesDiffer DEF Holds
      <4>3. Done(codex.asked, toCodex, own.route)
        BY <1>0, <3>2 DEF ClientsFit
      <4>4. PICK m \in toCodex : own.route.kind = "rpc" /\ m.route = own.route
        BY <2>0, <4>2, <4>3 DEF Done
      <4>5. own.route = Rpc(q)
        BY <1>6, <4>1, <4>2, <4>4, RoutesDiffer DEF Holds
      <4> QED BY <4>4, <4>5
    <3>3. CASE ~own.ok
      <4>1. e.text = TextOf[q]
        BY <1>6, <2>0, RoutesDiffer DEF Holds, Sane
      <4>2. PICK d \in registry.entries, h \in Entry :
               /\ d.id = own.id /\ registry'.entries = (registry.entries \ {d}) \cup {h}
               /\ h.id = d.id /\ h.text = d.text /\ h.submitting /\ h.route = Observe
        BY <1>3, <1>6, <2>2, <3>3
      <4>3. d = e
        BY <1>0, <2>2, <4>2 DEF IdsFree, UniqueIds
      <4>4. h \in registry'.entries /\ Holds(h, q)
        BY <4>1, <4>2, <4>3 DEF Holds
      <4> QED BY <4>4
    <3> QED BY <1>0, <3>2, <3>3
  <2> QED BY <2>1, <2>2
<1>7. \A q \in Open \ history'.displaced :
        AsksIn(wire, q) # {} \/ (\E f \in registry'.entries : Holds(f, q)) \/ \E m \in toCodex : m.route = Rpc(q)
  BY <1>2, <1>6 DEF NoneLost, Held
<1> HIDE DEF own
<1> QED BY <1>0, <1>3, <1>5, <1>7, RegistryKeeps

-----------------------------------------------------------------------------

\* Every step keeps the invariant.
LEMMA OffersKept ==
    ASSUME Before, OffersInv, [QuestionNext]_vars
    PROVE  OffersInv'
<1>1. Typed /\ EntriesFit' /\ CodexFits' /\ ClientsFit'
  BY EntriesFitKept, CodexFitsKept, ClientsFitKept DEF Before, OffersInv
<1>2. ASSUME Regular'
      PROVE  WireFits' /\ SinceCleared' /\ InFlight' /\ NoneLost'
  <2>1. Regular /\ WireFits /\ SinceCleared /\ InFlight /\ NoneLost /\ ~history'.mishap
    BY <1>1, <1>2, RegularBefore DEF OffersInv, Regular
  <2>2. CASE CodexStep
    BY <2>1, <2>2, CodexWireFits, CodexClears, CodexLosesNone
  <2>3. ASSUME NEW t \in Handlers, Take(t)
        PROVE  WireFits' /\ SinceCleared' /\ InFlight' /\ NoneLost'
    BY <2>1, <2>3, TakeKeeps
  <2>4. ASSUME NEW i \in FirstFor("request"), HandleRequest(i)
        PROVE  WireFits' /\ SinceCleared' /\ InFlight' /\ NoneLost'
    BY <2>1, <2>4, RequestKeeps
  <2>5. ASSUME NEW i \in FirstFor("notice"), HandleNotice(i)
        PROVE  WireFits' /\ SinceCleared' /\ InFlight' /\ NoneLost'
    BY <2>1, <2>5, AskedNoticeKeeps, ToldKeeps
  <2>6. CASE PollApply
    BY <2>1, <2>6, PollKeeps
  <2>7. CASE UNCHANGED vars \/ Tick \/ \E start \in {0, poll.read} : PollRead(start)
    <3>1. UNCHANGED <<codex, wire, taken, registry, client, toCodex, history>>
      BY <2>7 DEF vars, Tick, PollRead
    <3> QED BY <2>1, <3>1, IdleKeeps
  <2>8. ASSUME NEW c \in Clients, Send(c) \/ SendFails(c) \/ GiveUp(c)
        PROVE  WireFits' /\ SinceCleared' /\ InFlight' /\ NoneLost'
    <3>1. UNCHANGED <<codex, wire, taken, registry, history>> /\ toCodex \subseteq toCodex'
      BY <2>8 DEF Send, SendFails, GiveUp
    <3>2. \A d \in Clients : client'[d].id = client[d].id /\ (client'[d].pc # "idle" => client[d].pc # "idle")
      BY <1>1, <2>8, SendMoves
    <3> QED BY <2>1, <3>1, <3>2, IdleKeeps
  <2>9. ASSUME NEW c \in Clients, NEW e \in registry.entries, Claim(c, e)
        PROVE  WireFits' /\ SinceCleared' /\ InFlight' /\ NoneLost'
    BY <2>1, <2>9, ClaimKeeps
  <2>10. ASSUME NEW c \in Clients, Finish(c)
         PROVE  WireFits' /\ SinceCleared' /\ InFlight' /\ NoneLost'
    BY <2>1, <2>10, FinishKeeps
  <2>11. CASE Snapshot
    BY <2>1, <2>11, SnapshotKeeps
  <2> QED BY <2>2, <2>3, <2>4, <2>5, <2>6, <2>7, <2>8, <2>9, <2>10, <2>11 DEF QuestionNext, Handlers
<1> QED BY <1>1, <1>2 DEF OffersInv

\* Whatever Codex waits for, the user can answer or has answered, once the wire is
\* empty.  What ends questions precedes on the wire those that are open; until it is
\* handled nothing later than the last message of the user is cleared; and an entry
\* that holds a question goes only with the question, or is counted as displaced.
THEOREM QuestionOffers == QuestionSpec => []OpenIsOffered
<1> DEFINE Inv == Before /\ OffersInv
<1>1. QuestionInit => Inv
  <2> SUFFICES ASSUME QuestionInit PROVE Inv
    OBVIOUS
  <2>1. Typed
    BY InitTypes, TypesMean
  <2>2. /\ wire = <<>> /\ registry.entries = {} /\ toCodex = {} /\ transcript = <<>> /\ poll.observed = <<>>
        /\ registry.cleared = 0 /\ now = 1 /\ \A t \in Handlers : taken[t] = 0
        /\ \A q \in Questions : history.answers[q] = 0
        /\ \A c \in Clients : client[c].pc = "idle"
    BY DEF QuestionInit, Idle, Handlers
  <2>3. codex.since = 0 /\ Open = {}
    BY DEF QuestionInit, Open
  <2>4. \A q \in Questions : OnePlace(q)
    <3> TAKE q \in Questions
    <3>1. AsksIn(wire, q) = {} /\ Offers(registry, q) = {} /\ Sent(toCodex, q) = {}
      BY <2>2 DEF AsksIn, Offers, Sent
    <3>2. Senders(client, q) = {}
      BY <2>2 DEF Senders
    <3> QED BY <2>2, <3>1, <3>2 DEF OnePlace, AtMostOne, Unasked, Unoffered, Unclaimed, Unsent, Unanswered
  <2>5. Before
    BY <2>1, <2>2, <2>4 DEF Before, IdsFree, UniqueIds, AnswersFit, SentWasTaken
  <2>6. EntriesFit /\ ClientsFit /\ InFlight
    BY <2>2 DEF EntriesFit, Fit, ClientsFit, InFlight
  <2>7. CodexFits
    BY <2>2, <2>3 DEF CodexFits, ToSet
  <2>8. WireFits /\ SinceCleared /\ NoneLost
    BY <2>2, <2>3 DEF WireFits, SinceCleared, NoneLost
  <2> QED BY <2>5, <2>6, <2>7, <2>8 DEF OffersInv
<1>2. Inv /\ [QuestionNext]_vars => Inv'
  BY TypesKept, IdsKept, FitKept, SentKept, PlaceKept, OffersKept DEF Before
<1>3. Inv => OpenIsOffered
  <2> SUFFICES ASSUME Inv, Quiet, ~history.mishap, NEW q \in Open \ history.displaced PROVE Offered(q)
    BY DEF OpenIsOffered
  <2>1. EntriesFit /\ NoneLost /\ wire = <<>> /\ toCodex = {}
    BY DEF OffersInv, Regular, Quiet
  <2>2. PICK e \in registry.entries : Holds(e, q)
    BY <2>1 DEF NoneLost, AsksIn, Held
  <2>3. e.answerable <=> e.route # Observe
    BY <2>1 DEF EntriesFit, Fit, Sane
  <2> QED BY <2>2, <2>3, RoutesDiffer DEF Offered, Holds
<1> HIDE DEF Inv
<1> QED BY <1>1, <1>2, <1>3, PTL DEF QuestionSpec

=============================================================================
