------------------------- MODULE FileCatalogueProofs -------------------------
(***************************************************************************)
(* The safety properties of FileCatalogue, for any number of rows, calls,  *)
(* users and processes.                                                    *)
(***************************************************************************)
EXTENDS FileCatalogue, TLAPS

\* The steps a call of each route can stand at.
OwnSteps ==
    /\ \A c \in Deletes : step[c] \in {"idle", "ready", "deleting", "raised",
                                       "closing", "failed", "lost"}
    /\ \A c \in Wipes : step[c] \in {"idle", "ready", "wiping", "wiped",
                                     "answered", "lost"}

\* A locked row is there; a delete locks until its Session is closed, a wipe
\* until it commits, and only what it has seen.
Holders ==
    \A i \in Rows : lock[i] # "none" =>
        /\ row[i] = "stored"
        /\ lock[i] \in Deletes => step[lock[i]] \in {"raised", "closing"}
        /\ lock[i] \in Wipes => At(lock[i], "wiping") /\ i \in view[lock[i]]

\* A wipe has seen rows that had been stored: they will not be stored again.
Seen == \A c \in Wipes : \A i \in view[c] : row[i] # "absent"

CatalogueInv == TypeOK /\ OwnSteps /\ Holders /\ Seen /\ WipeLeavesNothing

\* The invariant is inductive: it relates the locks that a transaction holds to
\* the step its call stands at and to what its statement has seen.
THEOREM CatalogueStep == CatalogueInv /\ [Next]_vars => CatalogueInv'
<1>. SUFFICES ASSUME CatalogueInv, [Next]_vars
              PROVE  CatalogueInv'
  OBVIOUS
<1>. USE DEF CatalogueInv, At, Goto
<1>1. ASSUME NEW i \in Rows, Store(i) PROVE CatalogueInv'
  <2>1. TypeOK'
    BY <1>1, CatalogueAssumption DEF Store, TypeOK, Steps, Open, Over, Calls
  <2>2. OwnSteps'
    BY <1>1, CatalogueAssumption DEF Store, TypeOK, OwnSteps, Calls
  <2>3. Holders'
    BY <1>1, CatalogueAssumption DEF Store, TypeOK, OwnSteps, Holders, Calls
  <2>4. Seen'
    BY <1>1, CatalogueAssumption DEF Store, TypeOK, Seen, Stored, Calls
  <2>5. WipeLeavesNothing'
    BY <1>1, CatalogueAssumption
       DEF Store, TypeOK, OwnSteps, Seen, WipeLeavesNothing, Stored, Calls
  <2>. QED  BY <2>1, <2>2, <2>3, <2>4, <2>5 DEF CatalogueInv
<1>2. ASSUME NEW c \in Calls, Arrive(c) PROVE CatalogueInv'
  <2>1. TypeOK'
    BY <1>2, CatalogueAssumption DEF Arrive, TypeOK, Steps, Open, Over, Calls
  <2>2. OwnSteps'
    BY <1>2, CatalogueAssumption DEF Arrive, TypeOK, OwnSteps, Calls
  <2>3. Holders'
    BY <1>2, CatalogueAssumption DEF Arrive, TypeOK, OwnSteps, Holders, Calls
  <2>4. Seen'
    BY <1>2, CatalogueAssumption DEF Arrive, TypeOK, Seen, Stored, Calls
  <2>5. WipeLeavesNothing'
    BY <1>2, CatalogueAssumption
       DEF Arrive, TypeOK, OwnSteps, Seen, WipeLeavesNothing, Stored, Calls
  <2>. QED  BY <2>1, <2>2, <2>3, <2>4, <2>5 DEF CatalogueInv
<1>3. ASSUME NEW c \in Deletes, BeginDelete(c) PROVE CatalogueInv'
  <2>1. TypeOK'
    BY <1>3, CatalogueAssumption
       DEF BeginDelete, TypeOK, Steps, Open, Over, Calls
  <2>2. OwnSteps'
    BY <1>3, CatalogueAssumption DEF BeginDelete, TypeOK, OwnSteps, Calls
  <2>3. Holders'
    BY <1>3, CatalogueAssumption
       DEF BeginDelete, TypeOK, OwnSteps, Holders, Calls
  <2>4. Seen'
    BY <1>3, CatalogueAssumption DEF BeginDelete, TypeOK, Seen, Stored, Calls
  <2>5. WipeLeavesNothing'
    BY <1>3, CatalogueAssumption
       DEF BeginDelete, TypeOK, OwnSteps, Seen, WipeLeavesNothing, Stored,
           Calls
  <2>. QED  BY <2>1, <2>2, <2>3, <2>4, <2>5 DEF CatalogueInv
<1>4. ASSUME NEW c \in Deletes, DeleteRow(c) PROVE CatalogueInv'
  <2>1. TypeOK'
    BY <1>4, CatalogueAssumption
       DEF DeleteRow, Holder, Stored, TypeOK, Steps, Open, Over, Calls
  <2>2. OwnSteps'
    BY <1>4, CatalogueAssumption DEF DeleteRow, Holder, Stored, TypeOK,
                                     OwnSteps, Calls
  <2>3. Holders'
    BY <1>4, CatalogueAssumption
       DEF DeleteRow, Holder, Stored, TypeOK, OwnSteps, Holders, Calls
  <2>4. Seen'
    BY <1>4, CatalogueAssumption
       DEF DeleteRow, Holder, Stored, TypeOK, Seen, Calls
  <2>5. WipeLeavesNothing'
    BY <1>4, CatalogueAssumption
       DEF DeleteRow, Holder, Stored, TypeOK, OwnSteps, Seen,
           WipeLeavesNothing, Calls
  <2>. QED  BY <2>1, <2>2, <2>3, <2>4, <2>5 DEF CatalogueInv
<1>5. ASSUME NEW c \in Deletes, SubmitClose(c) PROVE CatalogueInv'
  <2>1. TypeOK'
    BY <1>5, CatalogueAssumption
       DEF SubmitClose, TypeOK, Steps, Open, Over, Calls
  <2>2. OwnSteps'
    BY <1>5, CatalogueAssumption DEF SubmitClose, TypeOK, OwnSteps, Calls
  <2>3. Holders'
    BY <1>5, CatalogueAssumption
       DEF SubmitClose, TypeOK, OwnSteps, Holders, Calls
  <2>4. Seen'
    BY <1>5, CatalogueAssumption DEF SubmitClose, TypeOK, Seen, Stored, Calls
  <2>5. WipeLeavesNothing'
    BY <1>5, CatalogueAssumption
       DEF SubmitClose, TypeOK, OwnSteps, Seen, WipeLeavesNothing, Stored,
           Calls
  <2>. QED  BY <2>1, <2>2, <2>3, <2>4, <2>5 DEF CatalogueInv
<1>6. ASSUME NEW c \in Deletes, Close(c) PROVE CatalogueInv'
  <2>1. TypeOK'
    BY <1>6, CatalogueAssumption
       DEF Close, RolledBack, Release, TypeOK, Steps, Open, Over, Calls
  <2>2. OwnSteps'
    BY <1>6, CatalogueAssumption DEF Close, RolledBack, Release, TypeOK,
                                     OwnSteps, Calls
  <2>3. Holders'
    BY <1>6, CatalogueAssumption
       DEF Close, RolledBack, Release, TypeOK, OwnSteps, Holders, Calls
  <2>4. Seen'
    BY <1>6, CatalogueAssumption
       DEF Close, RolledBack, Release, TypeOK, Seen, Stored, Calls
  <2>5. WipeLeavesNothing'
    BY <1>6, CatalogueAssumption
       DEF Close, RolledBack, Release, TypeOK, OwnSteps, Seen,
           WipeLeavesNothing, Stored,
           Calls
  <2>. QED  BY <2>1, <2>2, <2>3, <2>4, <2>5 DEF CatalogueInv
<1>7. ASSUME NEW c \in Wipes, BeginWipe(c) PROVE CatalogueInv'
  <2>1. TypeOK'
    BY <1>7, CatalogueAssumption
       DEF BeginWipe, Stored, TypeOK, Steps, Open, Over, Calls
  <2>2. OwnSteps'
    BY <1>7, CatalogueAssumption DEF BeginWipe, Stored, TypeOK, OwnSteps,
                                     Calls
  <2>3. Holders'
    BY <1>7, CatalogueAssumption
       DEF BeginWipe, Stored, TypeOK, OwnSteps, Holders, Calls
  <2>4. Seen'
    BY <1>7, CatalogueAssumption
       DEF BeginWipe, Stored, TypeOK, Seen, Calls
  <2>5. WipeLeavesNothing'
    BY <1>7, CatalogueAssumption
       DEF BeginWipe, Stored, TypeOK, OwnSteps, Seen, WipeLeavesNothing, Calls
  <2>. QED  BY <2>1, <2>2, <2>3, <2>4, <2>5 DEF CatalogueInv
<1>8. ASSUME NEW c \in Wipes, WipeRow(c) PROVE CatalogueInv'
  <2>1. TypeOK'
    BY <1>8, CatalogueAssumption
       DEF WipeRow, Left, TypeOK, Steps, Open, Over, Calls
  <2>2. OwnSteps'
    BY <1>8, CatalogueAssumption DEF WipeRow, Left, TypeOK, OwnSteps, Calls
  <2>3. Holders'
    <3>1. PICK i \in view[c] : /\ lock[i] = "none" /\ row[i] = "stored"
                              /\ lock' = [lock EXCEPT ![i] = c]
      BY <1>8 DEF WipeRow, Left
    <3>2. At(c, "wiping") /\ UNCHANGED <<step, row, view>>
      BY <1>8 DEF WipeRow
    <3>3. i \in Rows /\ c \in Calls
      BY <3>1 DEF TypeOK, Calls
    <3>. QED
      BY <3>1, <3>2, <3>3, CatalogueAssumption DEF TypeOK, Holders, Calls
  <2>4. Seen'
    BY <1>8, CatalogueAssumption DEF WipeRow, Left, TypeOK, Seen, Stored,
                                     Calls
  <2>5. WipeLeavesNothing'
    BY <1>8, CatalogueAssumption
       DEF WipeRow, Left, TypeOK, OwnSteps, Seen, WipeLeavesNothing, Stored,
           Calls
  <2>. QED  BY <2>1, <2>2, <2>3, <2>4, <2>5 DEF CatalogueInv
<1>9. ASSUME NEW c \in Wipes, CommitWipe(c) PROVE CatalogueInv'
  <2>1. TypeOK'
    BY <1>9, CatalogueAssumption
       DEF CommitWipe, Committed, Left, Release, TypeOK, Steps, Open, Over,
           Calls
  <2>2. OwnSteps'
    BY <1>9, CatalogueAssumption
       DEF CommitWipe, Committed, Left, Release, TypeOK, OwnSteps, Calls
  <2>3. Holders'
    BY <1>9, CatalogueAssumption
       DEF CommitWipe, Committed, Left, Release, TypeOK, OwnSteps, Holders,
           Calls
  <2>4. Seen'
    BY <1>9, CatalogueAssumption
       DEF CommitWipe, Committed, Left, Release, TypeOK, Seen, Stored, Calls
  <2>5. WipeLeavesNothing'
    BY <1>9, CatalogueAssumption
       DEF CommitWipe, Committed, Left, Release, TypeOK, OwnSteps, Seen,
           WipeLeavesNothing, Stored, Calls
  <2>. QED  BY <2>1, <2>2, <2>3, <2>4, <2>5 DEF CatalogueInv
<1>10. ASSUME NEW c \in Wipes, AnswerWipe(c) PROVE CatalogueInv'
  <2>1. TypeOK'
    BY <1>10, CatalogueAssumption
       DEF AnswerWipe, TypeOK, Steps, Open, Over, Calls
  <2>2. OwnSteps'
    BY <1>10, CatalogueAssumption DEF AnswerWipe, TypeOK, OwnSteps, Calls
  <2>3. Holders'
    BY <1>10, CatalogueAssumption
       DEF AnswerWipe, TypeOK, OwnSteps, Holders, Calls
  <2>4. Seen'
    BY <1>10, CatalogueAssumption DEF AnswerWipe, TypeOK, Seen, Stored, Calls
  <2>5. WipeLeavesNothing'
    BY <1>10, CatalogueAssumption
       DEF AnswerWipe, TypeOK, OwnSteps, Seen, WipeLeavesNothing, Stored,
           Calls
  <2>. QED  BY <2>1, <2>2, <2>3, <2>4, <2>5 DEF CatalogueInv
<1>11. ASSUME NEW w \in Workers, Crash(w) PROVE CatalogueInv'
  <2>1. TypeOK'
    BY <1>11, CatalogueAssumption
       DEF Crash, Over, TypeOK, Steps, Open, Calls
  <2>2. OwnSteps'
    BY <1>11, CatalogueAssumption DEF Crash, Over, TypeOK, OwnSteps, Calls
  <2>3. Holders'
    BY <1>11, CatalogueAssumption
       DEF Crash, Over, TypeOK, OwnSteps, Holders, Calls
  <2>4. Seen'
    BY <1>11, CatalogueAssumption DEF Crash, Over, TypeOK, Seen, Stored, Calls
  <2>5. WipeLeavesNothing'
    BY <1>11, CatalogueAssumption
       DEF Crash, Over, TypeOK, OwnSteps, Seen, WipeLeavesNothing, Stored,
           Calls
  <2>. QED  BY <2>1, <2>2, <2>3, <2>4, <2>5 DEF CatalogueInv
<1>12. CASE UNCHANGED vars
  <2>1. TypeOK'
    BY <1>12, CatalogueAssumption
       DEF vars, Left, TypeOK, Steps, Open, Over, Calls
  <2>2. OwnSteps'
    BY <1>12, CatalogueAssumption DEF vars, Left, TypeOK, OwnSteps, Calls
  <2>3. Holders'
    BY <1>12, CatalogueAssumption
       DEF vars, Left, TypeOK, OwnSteps, Holders, Calls
  <2>4. Seen'
    BY <1>12, CatalogueAssumption DEF vars, Left, TypeOK, Seen, Stored, Calls
  <2>5. WipeLeavesNothing'
    BY <1>12, CatalogueAssumption
       DEF vars, Left, TypeOK, OwnSteps, Seen, WipeLeavesNothing, Stored,
           Calls
  <2>. QED  BY <2>1, <2>2, <2>3, <2>4, <2>5 DEF CatalogueInv
<1>. QED
  BY <1>1, <1>2, <1>3, <1>4, <1>5, <1>6, <1>7, <1>8, <1>9, <1>10, <1>11, <1>12
     DEF Next, Delete, DeleteAll, Finished

\* The invariant holds in every reachable state.
THEOREM CatalogueInvariant == Spec => []CatalogueInv
<1>1. Init => CatalogueInv
  BY CatalogueAssumption
     DEF Init, CatalogueInv, TypeOK, OwnSteps, Holders, Seen,
         WipeLeavesNothing, Steps, Open, Over, Calls
<1>. QED  BY <1>1, CatalogueStep, PTL DEF Spec

\* Type correctness.
THEOREM CatalogueTypeCorrect == Spec => []TypeOK
BY CatalogueInvariant, PTL DEF CatalogueInv

\* A delete_all that has committed leaves no record it has seen, whatever
\* deletes were open and rolled back under it.
THEOREM WipesAreComplete == Spec => []WipeLeavesNothing
BY CatalogueInvariant, PTL DEF CatalogueInv

\* No call that is over holds a lock, and no lock is held on a row that is gone.
THEOREM LiveLocks == Spec => []LocksAreLive
<1>1. CatalogueInv => LocksAreLive
  BY DEF CatalogueInv, TypeOK, OwnSteps, Holders, LocksAreLive, Open, At,
         Calls
<1>. QED  BY <1>1, CatalogueInvariant, PTL

\* Only a delete_all that has seen a record removes it; no delete ever does.
THEOREM DeletesRemoveNothing == Spec => OnlyWipesRemove
<1>. DEFINE Removal ==
       \A i \in Rows :
          i \in Stored /\ row'[i] # "stored" =>
              \E c \in Wipes : i \in view[c] /\ At(c, "wiping")
<1>1. CatalogueInv /\ [Next]_vars => [Removal]_vars
  <2>. SUFFICES ASSUME CatalogueInv, Next
                PROVE  Removal
    OBVIOUS
  <2>1. ASSUME NEW c \in Wipes, CommitWipe(c)
        PROVE  Removal
    <3>1. SUFFICES ASSUME NEW i \in Rows, i \in Stored, row'[i] # "stored"
                   PROVE  i \in view[c] /\ At(c, "wiping")
      OBVIOUS
    <3>2. lock[i] = c
      BY <2>1, <3>1 DEF CommitWipe, Committed, Stored
    <3>3. c # "none"
      BY CatalogueAssumption DEF Calls
    <3>. QED  BY <3>2, <3>3 DEF CatalogueInv, Holders
  <2>2. ASSUME NEW i \in Rows, Store(i)
        PROVE  Removal
    BY <2>2 DEF CatalogueInv, TypeOK, Store, Stored
  <2>3. CASE UNCHANGED row
    BY <2>3 DEF Stored
  <2>. QED
    BY <2>1, <2>2, <2>3
       DEF Next, Arrive, Delete, BeginDelete, DeleteRow, Holder, SubmitClose,
           Close, RolledBack,
           DeleteAll, BeginWipe, WipeRow, AnswerWipe, Crash, Finished, vars
<1>. QED  BY <1>1, CatalogueInvariant, PTL DEF Spec, OnlyWipesRemove

-----------------------------------------------------------------------------

\* A delete_all has locked the rows before those that are left to it.
LockedFirst ==
    \A c \in Wipes : At(c, "wiping") =>
        \A j \in Rows, i \in Left(c) : lock[j] = c => j < i

LEMMA LockedFirstStep ==
    CatalogueInv /\ LockedFirst /\ [Next]_vars => LockedFirst'
<1> SUFFICES ASSUME CatalogueInv, LockedFirst, [Next]_vars,
                    NEW c \in Wipes, At(c, "wiping")',
                    NEW j \in Rows, NEW i \in Left(c)', lock'[j] = c
             PROVE  j < i
  BY DEF LockedFirst
<1> USE CatalogueAssumption
<1>1. /\ TypeOK /\ Holders /\ Seen /\ c \in Calls /\ c # "none"
      /\ Rows \subseteq Nat
  BY DEF CatalogueInv, Calls
<1>2. /\ i \in Rows /\ i \in view'[c] /\ lock'[i] # c /\ row'[i] = "stored"
      /\ step'[c] = "wiping"
  <2>1. CatalogueInv'
    BY CatalogueStep
  <2> QED
    BY <2>1 DEF Left, CatalogueInv, TypeOK, At
\* Nothing that c has in view is stored again, and c does not unlock.
<1>3. CASE /\ At(c, "wiping") /\ view'[c] = view[c]
           /\ row[i] = "stored" \/ row'[i] # "stored"
           /\ lock[j] = c /\ lock[i] # c
  <2>1. i \in Left(c)
    BY <1>2, <1>3 DEF Left
  <2> QED
    BY <1>3, <2>1 DEF LockedFirst
<1>4. ASSUME NEW k \in Rows, Store(k)
      PROVE  j < i
  <2>1. step' = step /\ lock' = lock /\ view' = view /\ row[k] = "absent"
        /\ row' = [row EXCEPT ![k] = "stored"]
    BY <1>4 DEF Store
  <2>2. i # k
    BY <1>1, <1>2, <2>1 DEF Seen
  <2>3. row[i] = "stored"
    BY <1>1, <1>2, <2>1, <2>2 DEF TypeOK
  <2> QED
    BY <1>2, <1>3, <2>1, <2>3 DEF At
<1>5. ASSUME NEW d \in Calls, Arrive(d)
      PROVE  j < i
  <2>1. /\ step[c] = "wiping" /\ UNCHANGED <<row, lock, view>>
    BY <1>1, <1>2, <1>5 DEF Arrive, At, Goto, TypeOK
  <2> QED
    BY <1>2, <1>3, <2>1 DEF At
<1>6. ASSUME NEW d \in Deletes, Delete(d)
      PROVE  j < i
  <2>1. d # c /\ d \in Calls /\ UNCHANGED <<row, view>>
    BY <1>6 DEF Delete, BeginDelete, DeleteRow, SubmitClose, Close, RolledBack,
                Calls
  <2>2. step[c] = "wiping"
    BY <1>1, <1>2, <1>6, <2>1
       DEF Delete, BeginDelete, DeleteRow, SubmitClose, Close, At, Goto, TypeOK
  <2>3. \A k \in Rows : lock'[k] = c <=> lock[k] = c
    <3>1. CASE lock' = lock
      BY <3>1
    <3>2. CASE DeleteRow(d)
      <4>1. Target[d] \in Rows
        OBVIOUS
      <4>2. \/ lock' = lock
            \/ lock[Target[d]] = "none" /\ lock' = [lock EXCEPT ![Target[d]] = d]
        BY <3>2 DEF DeleteRow, Holder
      <4> QED
        BY <1>1, <2>1, <4>1, <4>2 DEF TypeOK
    <3>3. CASE Close(d)
      BY <1>1, <2>1, <3>3 DEF Close, Release, TypeOK
    <3> QED
      BY <1>6, <3>1, <3>2, <3>3 DEF Delete, BeginDelete, SubmitClose
  <2> QED
    BY <1>2, <1>3, <2>1, <2>2, <2>3 DEF At
<1>7. ASSUME NEW d \in Wipes, BeginWipe(d)
      PROVE  j < i
  <2>1. UNCHANGED <<row, lock>>
    BY <1>7 DEF BeginWipe
  <2>2. step[c] = "wiping"
    BY <1>1, <2>1 DEF Holders, At
  <2>3. d # c
    BY <1>7, <2>2 DEF BeginWipe, At
  <2>4. view'[c] = view[c]
    BY <1>1, <1>7, <2>3 DEF BeginWipe, TypeOK
  <2> QED
    BY <1>2, <1>3, <2>1, <2>2, <2>4 DEF At
\* The row that is locked next is the first of those that are left.
<1>8. ASSUME NEW d \in Wipes, WipeRow(d)
      PROVE  j < i
  <2>1. PICK k \in Left(d) : /\ \A m \in Left(d) : k <= m
                             /\ lock[k] = "none"
                             /\ lock' = [lock EXCEPT ![k] = d]
    BY <1>8 DEF WipeRow
  <2>2. UNCHANGED <<step, row, view>> /\ k \in Rows
    BY <1>1, <1>8, <2>1 DEF WipeRow, Left, TypeOK
  <2>3. CASE j # k \/ d # c
    <3>1. lock[j] = c /\ lock[i] # c
      BY <1>1, <1>2, <2>1, <2>2, <2>3 DEF TypeOK
    <3> QED
      BY <1>2, <1>3, <2>2, <3>1 DEF At
  <2>4. CASE j = k /\ d = c
    <3>1. i \in Left(c) /\ i # k
      BY <1>1, <1>2, <2>1, <2>2, <2>4 DEF Left, TypeOK
    <3> QED
      BY <1>1, <1>2, <2>1, <2>2, <2>4, <3>1
  <2> QED
    BY <2>3, <2>4
<1>9. ASSUME NEW d \in Wipes, CommitWipe(d)
      PROVE  j < i
  <2>1. /\ row' = Committed(d) /\ lock' = Release(d) /\ view' = view
        /\ step' = [step EXCEPT ![d] = "wiped"]
    BY <1>9 DEF CommitWipe, Goto
  <2>2. d # c /\ d \in Calls
    BY <1>1, <1>2, <2>1 DEF TypeOK, Calls
  <2>3. step[c] = "wiping"
    BY <1>1, <1>2, <2>1, <2>2 DEF TypeOK
  <2>4. lock[j] = c /\ lock[i] # c /\ row[i] = "stored"
    BY <1>1, <1>2, <2>1, <2>2 DEF Release, Committed, TypeOK
  <2> QED
    BY <1>2, <1>3, <2>1, <2>3, <2>4 DEF At
<1>10. ASSUME NEW d \in Wipes, AnswerWipe(d)
       PROVE  j < i
  <2>1. /\ step[c] = "wiping" /\ UNCHANGED <<row, lock, view>>
    BY <1>1, <1>2, <1>10 DEF AnswerWipe, At, Goto, TypeOK, Calls
  <2> QED
    BY <1>2, <1>3, <2>1 DEF At
<1>11. ASSUME NEW w \in Workers, Crash(w)
       PROVE  j < i
  <2>1. step[c] = "wiping" /\ UNCHANGED <<row, view>>
    BY <1>1, <1>2, <1>11 DEF Crash
  <2>2. lock[j] = c
    BY <1>1, <1>11 DEF Crash, TypeOK
  <2>3. lock[i] # c
    <3>1. \A k \in Rows : lock'[k] = lock[k] \/ step'[lock[k]] = "lost"
      BY <1>1, <1>11 DEF Crash, TypeOK
    <3> QED
      BY <1>2, <3>1
  <2> QED
    BY <1>2, <1>3, <2>1, <2>2, <2>3 DEF At
<1>12. CASE UNCHANGED vars
  BY <1>2, <1>3, <1>12 DEF vars, At
<1> QED
  BY <1>4, <1>5, <1>6, <1>7, <1>8, <1>9, <1>10, <1>11, <1>12
     DEF Next, DeleteAll, Finished

\* Calls wait for rows in the order in which they lock them, never in a circle.
THEOREM OrderedWaits == Spec => []WaitsAreOrdered
<1>1. Init => LockedFirst
  BY DEF Init, LockedFirst, At, Calls
<1>2. CatalogueInv /\ LockedFirst => WaitsAreOrdered
  <2> SUFFICES ASSUME CatalogueInv, LockedFirst,
                      NEW j \in Rows, lock[j] # "none", NEW i \in Awaited(lock[j])
               PROVE  j < i
    BY DEF WaitsAreOrdered
  <2> DEFINE c == lock[j]
  <2>1. c \in Calls
    BY DEF CatalogueInv, TypeOK
  <2>2. ~At(c, "deleting")
    BY <2>1 DEF CatalogueInv, OwnSteps, Holders, Calls, At
  <2>3. At(c, "wiping") /\ i \in Left(c)
    BY <2>2 DEF Awaited
  <2>4. c \in Wipes
    BY <2>1, <2>3 DEF CatalogueInv, OwnSteps, Calls, At
  <2> QED
    BY <2>3, <2>4 DEF LockedFirst
<1> QED
  BY <1>1, <1>2, LockedFirstStep, CatalogueInvariant, PTL DEF Spec

-----------------------------------------------------------------------------

\* The calls as RecordTable sees them.
callers == [c \in Calls |-> Progress[step[c]]]

\* What Progress makes of each step.
LEMMA ProgressOf ==
    /\ \A s \in {"idle", "ready", "deleting", "raised", "closing"} :
          Progress[s] = "waiting"
    /\ Progress["wiping"] = "running"
    /\ Progress["wiped"] = "done"
    /\ Progress["answered"] = "answered"
    /\ Progress["failed"] = "refused"
    /\ Progress["lost"] = "lost"
    /\ \A s \in Steps : Progress[s] \in Table!States
    /\ \A s \in Steps \ Over :
          Progress[s] \in {"waiting", "running", "done"}
BY DEF Progress, Steps, Open, Over, Table!States

\* A step of one call moves that call only.
LEMMA CallMoves ==
    ASSUME TypeOK, NEW c \in Calls, NEW s \in Steps, Goto(c, s)
    PROVE  /\ callers[c] = Progress[step[c]]
           /\ callers' = [callers EXCEPT ![c] = Progress[s]]
           /\ Progress[s] = Progress[step[c]] => callers' = callers
<1>1. step' = [step EXCEPT ![c] = s] /\ step \in [Calls -> Steps]
  BY DEF Goto, TypeOK
<1>2. \A d \in Calls : step'[d] = IF d = c THEN s ELSE step[d]
  BY <1>1
<1>3. callers' = [d \in Calls |-> Progress[step'[d]]]
  BY DEF callers, Progress, Steps, Open, Over
<1> QED
  BY <1>2, <1>3 DEF callers

LEMMA TableStep ==
    CatalogueInv /\ [Next]_vars => Table!Next \/ UNCHANGED <<row, callers, view>>
<1> SUFFICES ASSUME CatalogueInv, [Next]_vars
             PROVE  Table!Next \/ UNCHANGED <<row, callers, view>>
  OBVIOUS
<1> USE CatalogueAssumption
<1>1. /\ TypeOK /\ Holders /\ Seen
      /\ Deletes \subseteq Calls /\ Wipes \subseteq Calls
      /\ "none" \notin Calls
  BY DEF CatalogueInv, Calls
<1>2. {"idle", "ready", "wiped", "deleting", "raised", "closing", "wiping",
       "failed", "answered", "lost"} \subseteq Steps
  BY DEF Steps, Open, Over
<1>3. ASSUME UNCHANGED step
      PROVE  callers' = callers
  BY <1>3 DEF callers, Progress, Steps, Open, Over
<1>4. ASSUME NEW i \in Rows, Store(i)
      PROVE  Table!Next
  <2>1. Table!Add(i)
    BY <1>3, <1>4 DEF Store, Table!Add, callers
  <2> QED
    BY <2>1 DEF Table!Next
\* The steps of a call that its caller does not see.
<1>5. ASSUME NEW c \in Calls, Arrive(c)
      PROVE  UNCHANGED <<row, callers, view>>
  BY <1>1, <1>2, <1>5, CallMoves, ProgressOf DEF Arrive, At
<1>6. ASSUME NEW c \in Deletes, BeginDelete(c) \/ DeleteRow(c) \/ SubmitClose(c)
      PROVE  UNCHANGED <<row, callers, view>>
  <2>1. \E s \in {"deleting", "raised", "closing"} : Goto(c, s)
    BY <1>6 DEF BeginDelete, DeleteRow, SubmitClose
  <2>2. UNCHANGED <<row, view>> /\ step[c] \in {"ready", "deleting", "raised"}
    BY <1>6 DEF BeginDelete, DeleteRow, SubmitClose, At
  <2> QED
    BY <1>1, <1>2, <2>1, <2>2, CallMoves, ProgressOf
<1>7. ASSUME NEW c \in Wipes, WipeRow(c)
      PROVE  UNCHANGED <<row, callers, view>>
  BY <1>3, <1>7 DEF WipeRow
\* The steps that the caller of a delete or of a delete_all sees.
<1>8. ASSUME NEW c \in Deletes, Close(c)
      PROVE  Table!Next
  <2>1. callers[c] = "waiting" /\ callers' = [callers EXCEPT ![c] = "refused"]
    BY <1>1, <1>2, <1>8, CallMoves, ProgressOf DEF Close, At
  <2>2. UNCHANGED <<row, view>>
    BY <1>8 DEF Close, RolledBack
  <2> QED
    BY <2>1, <2>2 DEF Table!Next, Table!Refuse, Table!Move, callers
<1>9. ASSUME NEW c \in Wipes, BeginWipe(c)
      PROVE  Table!Next
  <2>1. callers[c] = "waiting" /\ callers' = [callers EXCEPT ![c] = "running"]
    BY <1>1, <1>2, <1>9, CallMoves, ProgressOf DEF BeginWipe, At
  <2>2. row' = row /\ view' = [view EXCEPT ![c] = Stored]
    BY <1>9 DEF BeginWipe
  <2> QED
    BY <2>1, <2>2 DEF Table!Next, Table!Begin, Table!Move, callers, Stored
\* The rows that a commit deletes are those in view: all others in view have
\* gone before, and a lock on a row out of view belongs to another call.
<1>10. ASSUME NEW c \in Wipes, CommitWipe(c)
       PROVE  Table!Next
  <2>1. callers[c] = "running" /\ callers' = [callers EXCEPT ![c] = "done"]
    BY <1>1, <1>2, <1>10, CallMoves, ProgressOf DEF CommitWipe, At
  <2>2. row' = Committed(c) /\ view' = view /\ Left(c) = {}
    BY <1>10 DEF CommitWipe
  <2>3. ASSUME NEW i \in Rows
        PROVE  (IF lock[i] = c THEN "deleted" ELSE row[i])
                 = IF i \in view[c] THEN "deleted" ELSE row[i]
    <3>1. lock[i] = c => i \in view[c]
      BY <1>1 DEF Holders
    <3>2. i \in view[c] => lock[i] = c \/ row[i] # "stored"
      BY <2>2 DEF Left
    <3>3. i \in view[c] => row[i] \in {"stored", "deleted"}
      BY <1>1 DEF TypeOK, Seen
    <3> QED
      BY <3>1, <3>2, <3>3
  <2>4. row' = [i \in Rows |-> IF i \in view[c] THEN "deleted" ELSE row[i]]
    BY <2>2, <2>3 DEF Committed
  <2> QED
    BY <2>1, <2>2, <2>4 DEF Table!Next, Table!RemoveAll, Table!Move, callers
<1>11. ASSUME NEW c \in Wipes, AnswerWipe(c)
       PROVE  Table!Next
  <2>1. callers[c] = "done" /\ callers' = [callers EXCEPT ![c] = "answered"]
    BY <1>1, <1>2, <1>11, CallMoves, ProgressOf DEF AnswerWipe, At
  <2>2. UNCHANGED <<row, view>>
    BY <1>11 DEF AnswerWipe
  <2> QED
    BY <2>1, <2>2 DEF Table!Next, Table!Answer, Table!Move, callers
<1>12. ASSUME NEW w \in Workers, Crash(w)
       PROVE  Table!Next
  <2>1. UNCHANGED <<row, view>>
    BY <1>12 DEF Crash
  <2>2. /\ step' \in [Calls -> Steps]
        /\ \A c \in Calls : step'[c] # step[c] =>
              step[c] \in Steps \ Over /\ step'[c] = "lost"
    BY <1>1, <1>2, <1>12 DEF Crash, TypeOK
  <2>3. callers' = [c \in Calls |-> Progress[step'[c]]]
    BY DEF callers, Progress, Steps, Open, Over
  <2>4. callers' \in [Calls -> Table!States]
    BY <2>2, <2>3, ProgressOf
  <2>5. ASSUME NEW c \in Calls, callers'[c] # callers[c]
        PROVE  callers[c] \in {"waiting", "running", "done"}
               /\ callers'[c] = "lost"
    <3>1. step'[c] # step[c]
      BY <2>3, <2>5 DEF callers
    <3> QED
      BY <2>2, <2>3, <3>1, ProgressOf DEF callers
  <2>6. Table!Lose
    BY <2>1, <2>4, <2>5 DEF Table!Lose, Table!Calls, Calls, callers
  <2> QED
    BY <2>6 DEF Table!Next
<1>13. CASE UNCHANGED vars
  BY <1>3, <1>13 DEF vars
<1> QED
  BY <1>4, <1>5, <1>6, <1>7, <1>8, <1>9, <1>10, <1>11, <1>12, <1>13
     DEF Next, Delete, DeleteAll, Finished

\* Every step of the routes is a step of RecordTable or none: a delete_all takes
\* effect at once, on what there was when it began, and a delete never.
THEOREM CatalogueImplementsTable == Spec => ImplementsTable
<1>1. Init => Table!Init
  BY ProgressOf DEF Init, Table!Init, Table!Calls, Calls
<1>2. CatalogueInv /\ [Next]_vars => [Table!Next]_(Table!vars)
  BY TableStep DEF Table!vars, callers
<1> QED
  BY <1>1, <1>2, CatalogueInvariant, PTL DEF Spec, ImplementsTable, Table!Spec
=============================================================================
