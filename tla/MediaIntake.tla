---------------------------- MODULE MediaIntake ----------------------------
(***************************************************************************)
(* What the image pipeline of the storage service promises about the files *)
(* of POST /storage/compress/image, without threads, sessions or IPFS: a   *)
(* file is accepted together with the rest of its request, and its fate is *)
(* then decided once.  It is stored (it has a row in data_storage) or      *)
(* dropped, a stored file stays stored, and a file that was given up on    *)
(* never turns up later.  ImageStore is shown to implement this module.    *)
(***************************************************************************)
CONSTANT Files

VARIABLE fate      \* fate[f]: what has become of file f

Fates == {"new", "refused", "accepted", "stored", "dropped"}

TypeOK == fate \in [Files -> Fates]

Init == fate = [f \in Files |-> "new"]

\* The files of S, which all stand at a, move to b together.
Move(S, a, b) ==
    /\ S # {}
    /\ \A f \in S : fate[f] = a
    /\ fate' = [f \in Files |-> IF f \in S THEN b ELSE fate[f]]

\* A request is answered before its files are processed.
Accept(S) == Move(S, "new", "accepted")

\* A request is answered with an error and leaves nothing behind.
Refuse(S) == Move(S, "new", "refused")

\* One database commit may store several files of a request.
Store(S) == Move(S, "accepted", "stored")

\* The processing of the files has ended without a row for them.
Drop(S) == Move(S, "accepted", "dropped")

\* The first conjunct spares TLC the search for S when a step decides nothing.
Next ==
    /\ fate' # fate
    /\ \E S \in SUBSET Files : Accept(S) \/ Refuse(S) \/ Store(S) \/ Drop(S)

Spec == Init /\ [][Next]_fate

=============================================================================
