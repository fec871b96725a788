--------------------------- MODULE WaiterRegistry ---------------------------
(***************************************************************************)
(* The in-memory table of blocked Hook connections                         *)
(* (crates/runtime/src/waiter.rs).                                         *)
(*                                                                         *)
(* A Hook connection that needs a reply registers its request and blocks   *)
(* on a one-way channel, its ticket.  The table keeps two maps under one   *)
(* mutex: by request id, and by a correlation key that identifies the      *)
(* logical request, so that a repeated prompt replaces the older waiter.   *)
(* Each operation below holds the mutex from beginning to end and is one   *)
(* action.                                                                 *)
(***************************************************************************)
EXTENDS Naturals, Sequences

CONSTANTS
    Requests,      \* request ids
    Correlations,  \* correlation keys
    Tickets,       \* channels, one per registration
    Responses,     \* what can be sent on a channel
    PassThrough,   \* the response that hands control back to the provider
    Times,         \* clock readings and deadlines
    None           \* no entry, no owner

ASSUME RegistryAssumption ==
    /\ Times \subseteq Nat
    /\ PassThrough \in Responses
    /\ None \notin Requests
    /\ None \notin [correlation : Correlations, deadline : Times, ticket : Tickets]

VARIABLES
    byRequest,      \* by_request: the waiting entry of each request, or None
    byCorrelation,  \* by_correlation: the request that owns each key, or None
    issued,         \* the tickets handed out so far
    mailbox         \* what has been sent on each ticket's channel

registryVars == <<byRequest, byCorrelation, issued, mailbox>>

Entry == [correlation : Correlations, deadline : Times, ticket : Tickets]

RegistryTypeOK ==
    /\ byRequest \in [Requests -> Entry \cup {None}]
    /\ byCorrelation \in [Correlations -> Requests \cup {None}]
    /\ issued \subseteq Tickets
    /\ mailbox \in [Tickets -> Seq(Responses)]

RegistryInit ==
    /\ byRequest = [r \in Requests |-> None]
    /\ byCorrelation = [k \in Correlations |-> None]
    /\ issued = {}
    /\ mailbox = [t \in Tickets |-> <<>>]

-----------------------------------------------------------------------------
(* Reads *)

Active(r) == byRequest[r] # None

ActiveRequests == {r \in Requests : Active(r)}

Due(now) == {r \in ActiveRequests : byRequest[r].deadline <= now}

-----------------------------------------------------------------------------
(* Updates shared by the operations *)

\* Mutant: keys are never released.
KeptKeys(gone) == byCorrelation

\* The key table once the entries of gone are removed: a key is released only
\* when it still points at the removed request (remove_locked).
ReleasedKeys(gone) ==
    [k \in Correlations |->
        IF \E r \in gone : byCorrelation[k] = r /\ byRequest[r].correlation = k
        THEN None
        ELSE byCorrelation[k]]

\* Mutant: the response is lost on the way.
AnsweredEmpty(gone, response) ==
    [t \in Tickets |->
        IF \E r \in gone : byRequest[r].ticket = t
        THEN Append(mailbox[t], None)
        ELSE mailbox[t]]

\* Every channel whose entry is removed gets exactly the given response.
Answered(gone, response) ==
    [t \in Tickets |->
        IF \E r \in gone : byRequest[r].ticket = t
        THEN Append(mailbox[t], response)
        ELSE mailbox[t]]

\* Remove the entries of gone and answer their channels.
Remove(gone, response) ==
    /\ byRequest' = [r \in Requests |-> IF r \in gone THEN None ELSE byRequest[r]]
    /\ byCorrelation' = ReleasedKeys(gone)
    /\ mailbox' = Answered(gone, response)
    /\ UNCHANGED issued

-----------------------------------------------------------------------------
(* Operations *)

\* The older request a registration replaces: the owner of the key after the
\* due entries were expired, when it is another request.
Replaced(r, k, now) == {q \in Requests \ {r} : byCorrelation[k] = q} \ Due(now)

\* Mutant: the older waiters are dropped without a response.
RegisterSilently(r, k, deadline, t, now) ==
    LET gone == Due(now) \cup ((Replaced(r, k, now) \cup {r}) \cap ActiveRequests)
    IN  /\ t \notin issued
        /\ byRequest' =
             [q \in Requests |->
                IF q = r
                THEN [correlation |-> k, deadline |-> deadline, ticket |-> t]
                ELSE IF q \in gone THEN None ELSE byRequest[q]]
        /\ byCorrelation' = [ReleasedKeys(gone) EXCEPT ![k] = r]
        /\ mailbox' = Answered(Due(now), PassThrough)
        /\ issued' = issued \cup {t}

\* register_at: expire what is due (the expired ids are dropped), pass the older
\* waiter of the key and an older waiter of the same id through, then insert.
Register(r, k, deadline, t, now) ==
    LET gone == Due(now) \cup ((Replaced(r, k, now) \cup {r}) \cap ActiveRequests)
    IN  /\ t \notin issued
        /\ byRequest' =
             [q \in Requests |->
                IF q = r
                THEN [correlation |-> k, deadline |-> deadline, ticket |-> t]
                ELSE IF q \in gone THEN None ELSE byRequest[q]]
        /\ byCorrelation' = [ReleasedKeys(gone) EXCEPT ![k] = r]
        /\ mailbox' = Answered(gone, PassThrough)
        /\ issued' = issued \cup {t}

\* resolve, behind decide, pass_through and answer; NotActive leaves no trace.
Resolve(r, response) == Active(r) /\ Remove({r}, response)

\* expire_request_ids_at, expire_at
Expire(now) == Remove(Due(now), PassThrough)

\* Drop: the last handle goes away and every waiter is passed through.
Shutdown ==
    /\ byRequest' = [r \in Requests |-> None]
    /\ byCorrelation' = [k \in Correlations |-> None]
    /\ mailbox' = Answered(ActiveRequests, PassThrough)
    /\ UNCHANGED issued

RegistryNext ==
    \/ \E r \in Requests, k \in Correlations, d \in Times, t \in Tickets, now \in Times :
         Register(r, k, d, t, now)
    \/ \E r \in Requests, response \in Responses : Resolve(r, response)
    \/ \E now \in Times : Expire(now)
    \/ Shutdown

RegistrySpec == RegistryInit /\ [][RegistryNext]_registryVars

-----------------------------------------------------------------------------
(* Properties *)

\* The two maps are inverse: every waiting request owns its correlation key,
\* and every owned key belongs to a waiting request.  A key that outlived its
\* entry would make the next registration report a replacement that never
\* happened; an entry without its key would let a duplicate wait twice.
MapsAgree ==
    /\ \A r \in Requests : Active(r) => byCorrelation[byRequest[r].correlation] = r
    /\ \A k \in Correlations : byCorrelation[k] # None =>
         /\ Active(byCorrelation[k])
         /\ byRequest[byCorrelation[k]].correlation = k

Waiting(t) == \E r \in Requests : Active(r) /\ byRequest[r].ticket = t

\* A Hook thread that holds a ticket is either still waiting, behind exactly one
\* entry and with nothing sent, or it has been sent exactly one response: no
\* replacement, expiry or shutdown strands it or answers it twice.
TicketsAnsweredOnce ==
    /\ \A t \in Tickets :
         /\ t \notin issued => mailbox[t] = <<>> /\ ~Waiting(t)
         /\ t \in issued => Len(mailbox[t]) = IF Waiting(t) THEN 0 ELSE 1
    /\ \A q, r \in Requests :
         Active(q) /\ Active(r) /\ byRequest[q].ticket = byRequest[r].ticket => q = r
=============================================================================
