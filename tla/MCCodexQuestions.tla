--------------------------- MODULE MCCodexQuestions ---------------------------
(* Instances of CodexQuestions: two questions with the same text.  Which of   *)
(* them are requests of the app-server is set in each configuration.          *)
EXTENDS CodexQuestions

CONSTANT c1

MCSameText == [q \in Questions |-> "text"]
=============================================================================
