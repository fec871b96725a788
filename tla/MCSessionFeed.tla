---------------------------- MODULE MCSessionFeed ----------------------------
EXTENDS SessionFeed
Times == [i \in Ids |-> i]
=============================================================================
