------------------------------ MODULE MCServer ------------------------------
(***************************************************************************)
(* A checked instance of Server: a hard limit, all, and batches of two.    *)
(***************************************************************************)
EXTENDS Server

CONSTANTS c1, c2

MCConnections == {c1, c2}
MCMaxCursors == [c \in MCConnections |-> IF c = c1 THEN 2 ELSE 0]
MCSizes == {-2, 0, 1, 2}
=============================================================================
