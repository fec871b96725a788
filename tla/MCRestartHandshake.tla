-------------------------- MODULE MCRestartHandshake --------------------------
(* A handler of the API and the quota loop ask for a restart at any time,      *)
(* beside one ordinary connection.                                             *)
EXTENDS RestartHandshake

CONSTANTS api, quota, hook
=============================================================================
