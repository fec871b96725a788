---------------------------- MODULE MCApprovalLoop ----------------------------
(* Instances of ApprovalLoop.  Two approvals of one session and a question;   *)
(* which of them take part, and how often the process restarts, is set in     *)
(* each configuration.                                                        *)
EXTENDS ApprovalLoop, TLC

CONSTANTS ra, rb, question, s1, bash, toolEvent, stopEvent

MCTimes == 0..MaxTime

MCEnvelope ==
    LET Of(kind, at, deadline) ==
          [session |-> s1, kind |-> kind, tool |-> bash, deadline |-> deadline,
           receivedAt |-> at, remoteActionable |-> TRUE]
        all == ra :> Of("approval", 0, MaxTime)
            @@ rb :> Of("approval", 0, 1)
            @@ question :> Of("question", 0, 1)
    IN  [r \in Requests |-> all[r]]

\* The provider runs the tool, or its turn ends.
MCEventOf ==
    LET all == toolEvent :> [session |-> s1, kind |-> "ToolStarted", tool |-> bash]
            @@ stopEvent :> [session |-> s1, kind |-> "Stopped", tool |-> bash]
    IN  [e \in Events |-> all[e]]

\* Two requests with equal input share one key.
MCSameKey == [r \in Requests |-> "same"]
MCOwnKey == [r \in Requests |-> r]

\* Command ids and handlers are interchangeable; used for safety only.
Symmetry == Permutations(Commands) \cup Permutations(Handlers)
=============================================================================
