----------------------------- MODULE MCChunking -----------------------------
(***************************************************************************)
(* An instance of Chunking for TLC: three Chunkers, asked for two chunks,  *)
(* for three and for none.                                                 *)
(***************************************************************************)
EXTENDS Chunking

CONSTANTS c0, c2, c3

MCSize == [c \in Chunkers |-> CASE c = c0 -> 0 [] c = c2 -> 2 [] c = c3 -> 3]
=============================================================================
