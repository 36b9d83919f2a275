----------------------------- MODULE MCAccounts -----------------------------
(***************************************************************************)
(* An instance of Accounts for TLC: t1 and t2 ask for the same name with   *)
(* different addresses and passwords, t3 and t4 for others with malformed  *)
(* addresses, t4 by way of the other process.                              *)
(***************************************************************************)
EXTENDS Accounts

CONSTANTS t1, t2, t3, t4, ann, bob, cat, ea, eb, bad, worse, w1, w2

MCNameOf == [a \in Attempts |-> CASE a \in {t1, t2} -> ann
                                  [] a = t3         -> bob
                                  [] a = t4         -> cat]

MCEmailOf == [a \in Attempts |-> CASE a = t1 -> ea
                                   [] a = t2 -> eb
                                   [] a = t3 -> bad
                                   [] a = t4 -> worse]

MCWorkerOf == [a \in Attempts |-> IF a \in {t2, t4} THEN w2 ELSE w1]

\* Everyone has a password of their own.
MCPasswordOf == [a \in Attempts |-> a]
=============================================================================
