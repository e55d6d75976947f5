---------------------------- MODULE MCRetryQueue ----------------------------
(* A small instance of RetryQueue for TLC. *)
EXTENDS RetryQueue

\* One row at a time, or as many as the default allows.
OneOrDefault == {0, 1}

\* The instance meets the premise of the theorem about the back-off.
ASSUME DelaysFitHere == DelaysFit
=============================================================================
