--------------------------- MODULE MCApprovalStore ---------------------------
(* An instance of ApprovalStore: two approvals of one session that differ in  *)
(* their tool, and a question; two commands.  The last clock reading is at    *)
(* the deadline of the requests and at the end of an undo window.             *)
EXTENDS ApprovalStore, TLC

CONSTANTS ra, rb, question, s1, bash, edit

MCTimes == 0..1

MCEnvelope ==
    LET Of(kind, tool, at, deadline) ==
          [session |-> s1, kind |-> kind, tool |-> tool, deadline |-> deadline,
           receivedAt |-> at, remoteActionable |-> TRUE]
    IN     ra :> Of("approval", bash, 0, 1)
        @@ rb :> Of("approval", edit, 1, 1)
        @@ question :> Of("question", bash, 0, 1)

\* Command ids are interchangeable and no liveness is checked here.
Symmetry == Permutations(Commands)
=============================================================================
