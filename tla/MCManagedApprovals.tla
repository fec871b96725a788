-------------------------- MODULE MCManagedApprovals --------------------------
(* Approvals of one Codex turn with equal input, and the end of their turn. *)
EXTENDS ManagedApprovals, TLC

CONSTANTS ra, s1, bash, stopEvent

MCTimes == 0..MaxTime

MCEnvelope ==
    [r \in Requests |->
        [session |-> s1, kind |-> "approval", tool |-> bash, deadline |-> 1,
         receivedAt |-> 0, remoteActionable |-> TRUE]]

\* A Hook reports the end of the turn: the Stop event closes the item.
MCEventOf ==
    [e \in Events |-> [session |-> s1, kind |-> "Stopped", tool |-> bash]]

\* The key is made of the turn, the tool and its input.
MCSameKey == [r \in Requests |-> Envelope[r].kind]

\* Command ids are interchangeable.
Symmetry == Permutations(Commands)
=============================================================================
