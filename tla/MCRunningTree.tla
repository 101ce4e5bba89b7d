--------------------------- MODULE MCRunningTree ---------------------------
(* RunningTree on two keys and one value, small enough for TLC. *)
EXTENDS RunningTree

=============================================================================
