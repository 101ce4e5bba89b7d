----------------------------- MODULE MCLsmTree -----------------------------
(* LsmTree on two keys and one value, small enough for TLC. *)
EXTENDS LsmTree

=============================================================================
