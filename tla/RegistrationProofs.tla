------------------------- MODULE RegistrationProofs -------------------------
(***************************************************************************)
(* Theorems about Registration, for every set of attempts, names and       *)
(* addresses.                                                              *)
(***************************************************************************)
EXTENDS Registration, TLAPS

\* An attempt has a row once it has committed, and the rows are distinct.
Rows ==
    /\ \A a \in users : pc[a] \in {"stored", "done"}
    /\ \A a \in Attempts : pc[a] = "stored" => a \in users
    /\ \A u, v \in users :
          NameOf[u] = NameOf[v] \/ StoredEmail(u) = StoredEmail(v) => u = v

\* What a client has been told is true of its attempt.
Told ==
    /\ \A a \in Attempts : pc[a] # "done" => reply[a] = "none"
    /\ \A a \in Attempts : reply[a] = "created" => a \in auth
    /\ \A a \in users :
          pc[a] = "stored" \/ reply[a] \in {"created", "failed", "lost"}
    /\ RefusalJustified

RegistrationInv == TypeOK /\ Rows /\ Told

LEMMA InvStep == RegistrationInv /\ [Next]_vars => RegistrationInv'
<1> SUFFICES ASSUME RegistrationInv, [Next]_vars PROVE RegistrationInv'
  OBVIOUS
<1> USE DEF RegistrationInv, TypeOK, Rows, Told, RefusalJustified
<1> USE DEF Steps, Replies, Goto, Answer
<1>1. ASSUME NEW a \in Attempts, Lookup(a) PROVE RegistrationInv'
  BY <1>1 DEF Lookup, NameTaken, StoredEmail
<1>2. ASSUME NEW a \in Attempts, CheckAgain(a) PROVE RegistrationInv'
  BY <1>2 DEF CheckAgain, NameTaken, StoredEmail
<1>3. ASSUME NEW a \in Attempts, CommitUser(a) PROVE RegistrationInv'
  <2>1. CASE Violates(a)
    BY <1>3, <2>1 DEF CommitUser, Violates, NameTaken, StoredEmail
  <2>2. CASE ~Violates(a)
    BY <1>3, <2>2 DEF CommitUser, Violates, NameTaken, StoredEmail
  <2> QED
    BY <2>1, <2>2
<1>4. ASSUME NEW a \in Attempts, CommitAuth(a) PROVE RegistrationInv'
  BY <1>4 DEF CommitAuth, StoredEmail
<1>5. ASSUME NEW a \in Attempts, Fail(a) PROVE RegistrationInv'
  BY <1>5 DEF Fail, StoredEmail
<1>6. ASSUME NEW w \in Workers, Crash(w) PROVE RegistrationInv'
  BY <1>6 DEF Crash, StoredEmail
<1>7. CASE UNCHANGED vars
  BY <1>7 DEF vars, StoredEmail
<1> QED
  BY <1>1, <1>2, <1>3, <1>4, <1>5, <1>6, <1>7 DEF Next, Proceed, Finished

THEOREM InvHolds == Spec => []RegistrationInv
<1>1. Init => RegistrationInv
  BY DEF Init, RegistrationInv, TypeOK, Rows, Told, RefusalJustified, Steps,
         Replies
<1> QED
  BY <1>1, InvStep, PTL DEF Spec

\* Type correctness.
THEOREM RegistrationTypeCorrect == Spec => []TypeOK
<1>1. RegistrationInv => TypeOK
  BY DEF RegistrationInv
<1> QED
  BY <1>1, InvHolds, PTL

\* However registrations race, no two accounts share a name or a stored
\* address, and success is only reported for complete accounts.
THEOREM DistinctAccounts == Spec => []AccountsDistinct
<1>1. RegistrationInv => AccountsDistinct
  BY DEF RegistrationInv, TypeOK, Rows, Told, AccountsDistinct
<1> QED
  BY <1>1, InvHolds, PTL

\* Refusals name a clash that exists.
THEOREM JustifiedRefusals == Spec => []RefusalJustified
<1>1. RegistrationInv => RefusalJustified
  BY DEF RegistrationInv, Told
<1> QED
  BY <1>1, InvHolds, PTL

\* Half an account means that its client is waiting, or that its process died
\* or the database failed it.
THEOREM HalvesOfFailures == Spec => []HalfAccountOfFailure
<1>1. RegistrationInv => HalfAccountOfFailure
  BY DEF RegistrationInv, TypeOK, Told, HalfAccountOfFailure
<1> QED
  BY <1>1, InvHolds, PTL

LEMMA HalfStep ==
    RegistrationInv /\ [Next]_vars =>
        [\A a \in users \ auth : reply[a] \in {"failed", "lost"} =>
            /\ a \in users' \ auth'
            /\ \A b \in Attempts : NameOf[b] = NameOf[a]
                                      => b \notin users' \ users]_vars
<1> SUFFICES ASSUME RegistrationInv, [Next]_vars,
                    NEW a \in users \ auth, reply[a] \in {"failed", "lost"}
             PROVE  /\ a \in users' \ auth'
                    /\ \A b \in Attempts : NameOf[b] = NameOf[a]
                                              => b \notin users' \ users
  OBVIOUS
<1>1. pc[a] = "done" /\ a \in Attempts
  BY DEF RegistrationInv, TypeOK, Told
<1> QED
  BY <1>1 DEF Next, vars, Lookup, Proceed, CheckAgain, CommitUser,
              CommitAuth, Fail, Crash, Finished, Violates, NameTaken

\* An account that a crash or a failure has left without auth_data stays so.
THEOREM LastingHalves == Spec => HalfAccountStays
BY HalfStep, InvHolds, PTL DEF Spec, HalfAccountStays
=============================================================================
