---------------------------- MODULE MCImageStore ----------------------------
(***************************************************************************)
(* Instances of ImageStore for TLC.                                        *)
(***************************************************************************)
EXTENDS ImageStore, TLC

CONSTANTS a, b, c, d, r1, r2, w1

\* One request carries every file: they share one Session and one User.
OneRequest == [f \in Files |-> r1]
OneWorker == [r \in Requests |-> w1]

\* File d travels in a request of its own.
TwoRequests == [f \in Files |-> IF f = d THEN r2 ELSE r1]

\* The files of OneRequest whose names have a dot are interchangeable.
FileSymmetry == Permutations(Files \ Dotless)
=============================================================================
