--------------------------- MODULE MCFileCatalogue ---------------------------
(***************************************************************************)
(* Instances of FileCatalogue for TLC.                                     *)
(***************************************************************************)
EXTENDS FileCatalogue, TLC

CONSTANTS d1, d2, d3, all1, all2, w1, w2, ann, bob

\* One process serves the deletes d1 and d2, another one d3 and the wipe all2.
MCWorkerOf == [c \in Calls |-> IF c \in {d3, all2} THEN w2 ELSE w1]

\* Two users delete and wipe; Ann owns the first two rows, Bob the last.
MCUserOf == [c \in Calls |-> IF c \in {d3, all2} THEN bob ELSE ann]
MCOwnerOf == [i \in Rows |-> IF i <= 2 THEN ann ELSE bob]

\* Ann deletes two rows in the order opposite to a scan's; Bob aims at his own.
MCTarget == [c \in Deletes |-> CASE c = d1 -> 2 [] c = d2 -> 1 [] OTHER -> 3]
=============================================================================
