-------------------------- MODULE ImageStoreProofs --------------------------
(***************************************************************************)
(* Theorems about ImageStore, for every set of files, requests and         *)
(* processes and every size of the executor.                               *)
(***************************************************************************)
EXTENDS ImageStore, FiniteSetTheorems, TLAPS

-----------------------------------------------------------------------------
(* Type correctness.                                                       *)

\* A step that moves f takes it to a known step.
LEMMA GotoTyped ==
    ASSUME pc \in [Files -> Steps], NEW f \in Files, NEW step \in Steps,
           Goto(f, step)
    PROVE  pc' \in [Files -> Steps]
  BY DEF Goto

\* Every variable keeps its type in every reachable state.
THEOREM TypeCorrect == Spec => []TypeOK
<1>1. Init => TypeOK
  BY DEF Init, TypeOK, Steps, UserStates, AddStates, Outcomes
<1>2. TypeOK /\ [Next]_vars => TypeOK'
  <2> SUFFICES ASSUME TypeOK, [Next]_vars PROVE TypeOK'
    OBVIOUS
  <2> USE StoreAssumption DEF TypeOK
  <2> DEFINE Known == {"saved", "queued", "adding", "owner", "hashing",
                       "hashed", "commit", "entering", "flushing", "written",
                       "flushed", "closing", "cleanup", "done", "failed"}
  <2>0. /\ Known \subseteq Steps
        /\ {"accepted", "refused", "crashed"} \subseteq Steps
        /\ {"none", "returned", "FileNotFoundError", "DetachedInstanceError",
            "SessionError"} \subseteq Outcomes
        /\ {"loaded", "expired", "detached", "lost"} = UserStates
        /\ {"none", "spawned", "running", "added"} \subseteq AddStates
    BY DEF Steps, Running, Settled, Outcomes, UserStates, AddStates
  <2>1. ASSUME NEW r \in Requests, CompressTaskImage(r) PROVE TypeOK'
    BY <2>0, <2>1 DEF CompressTaskImage, ipfsVars, dbVars, callVars, flushVars
  <2>2. ASSUME NEW r \in Requests, Upload(r) PROVE TypeOK'
    BY <2>0, <2>2 DEF Upload, ipfsVars, dbVars, callVars, flushVars
  <2>3. ASSUME NEW f \in Files, SaveToTemp(f) PROVE TypeOK'
    BY <2>0, <2>3, GotoTyped
       DEF SaveToTemp, ipfsVars, dbVars, callVars, flushVars
  <2>4. ASSUME NEW f \in Files, ProduceCompression(f) PROVE TypeOK'
    BY <2>0, <2>4, GotoTyped
       DEF ProduceCompression, Continue, ipfsVars, dbVars, callVars, flushVars
  <2>5. ASSUME NEW f \in Files, StartAdd(f) PROVE TypeOK'
    BY <2>0, <2>5, GotoTyped
       DEF StartAdd, ipfsVars, dbVars, callVars, flushVars
  <2>6. ASSUME NEW f \in Files, RunAdd(f) PROVE TypeOK'
    BY <2>0, <2>6 DEF RunAdd, ipfsVars, dbVars, callVars, flushVars
  <2>7. ASSUME NEW f \in Files, ReadCid(f) PROVE TypeOK'
    BY <2>0, <2>7, GotoTyped
       DEF ReadCid, Slept, Ends, ipfsVars, dbVars, callVars, flushVars
  <2>8. ASSUME NEW f \in Files, ReadOwner(f) PROVE TypeOK'
    BY <2>0, <2>8, GotoTyped
       DEF ReadOwner, Ends, ipfsVars, dbVars, callVars, flushVars
  <2>9. ASSUME NEW f \in Files, GenerateHash(f) PROVE TypeOK'
    BY <2>0, <2>9, GotoTyped
       DEF GenerateHash, Ends, ipfsVars, dbVars, callVars, flushVars
  <2>10. ASSUME NEW f \in Files, AddRecord(f) PROVE TypeOK'
    BY <2>0, <2>10, GotoTyped
       DEF AddRecord, ipfsVars, dbVars, callVars, flushVars
  <2>11. ASSUME NEW f \in Files, Refused(f),
                UNCHANGED <<ipfsFlag, temp, ipfsVars>>,
                touched' \subseteq Files, contested' = contested
         PROVE  TypeOK'
    BY <2>0, <2>11, GotoTyped DEF Refused, Ends, ipfsVars, dbVars
  <2>12. ASSUME NEW f \in Files, BeginCommit(f) PROVE TypeOK'
    BY <2>0, <2>11, <2>12, GotoTyped DEF BeginCommit, ipfsVars, dbVars
  <2>13. ASSUME NEW f \in Files, EnterFlush(f) PROVE TypeOK'
    <3>1. CASE Refused(f) /\ UNCHANGED contested
      BY <2>11, <2>13, <3>1 DEF EnterFlush
    <3>2. CASE /\ Goto(f, "flushed")
               /\ UNCHANGED <<dbVars, flushVars, stranded, outcome>>
      BY <2>0, <2>13, <3>2, GotoTyped
         DEF EnterFlush, ipfsVars, dbVars, flushVars
    <3>3. CASE /\ Goto(f, "flushing")
               /\ flag' = [flag EXCEPT ![RequestOf[f]] = TRUE]
               /\ batch' = [batch EXCEPT ![f] = PendingOn(RequestOf[f])]
               /\ contested' \subseteq Files
               /\ UNCHANGED <<dbVars, stranded, outcome>>
      BY <2>0, <2>13, <3>3, GotoTyped
         DEF EnterFlush, PendingOn, FilesOf, ipfsVars, dbVars
    <3> QED
      BY <2>13, <3>1, <3>2, <3>3 DEF EnterFlush, PendingOn, FilesOf
  <2>14. ASSUME NEW f \in Files, NEW left \in SUBSET Files,
                FlushFails(f, left),
                UNCHANGED <<ipfsFlag, temp, ipfsVars, touched, contested>>
         PROVE  TypeOK'
    <3>1. pc' \in [Files -> Steps] /\ outcome' \in [Files -> Outcomes]
      BY <2>0, <2>14, GotoTyped DEF FlushFails, Ends
    <3>2. /\ flag' \in [Requests -> BOOLEAN]
          /\ batch' \in [Files -> SUBSET Files]
      BY <2>14 DEF FlushFails, LeaveFlush
    <3>3. /\ pending' \subseteq Files
          /\ inserted' \in [Files -> Nat]
          /\ user' \in [Requests -> UserStates]
          /\ stranded' \subseteq Files
      BY <2>0, <2>14
         DEF FlushFails, Discard, Strand, Expire, Siblings, FilesOf
    <3> QED
      BY <2>14, <3>1, <3>2, <3>3 DEF FlushFails, ipfsVars
  <2>15. ASSUME NEW f \in Files, Insert(f) PROVE TypeOK'
    <3>1. CASE FlushFails(f, pending)
      BY <2>14, <2>15, <3>1 DEF Insert
    <3>2. ASSUME NEW S \in SUBSET batch[f], Goto(f, "written"),
                 inserted' = [g \in Files |-> IF g \in S THEN inserted[g] + 1
                                                         ELSE inserted[g]],
                 UNCHANGED <<pending, user, rows, flag, batch, stranded,
                             outcome>>
          PROVE  TypeOK'
      BY <2>0, <2>15, <3>2, GotoTyped DEF Insert, ipfsVars
    <3> QED
      BY <2>15, <3>1, <3>2 DEF Insert
  <2>16. ASSUME NEW f \in Files, Finalize(f) PROVE TypeOK'
    <3>1. CASE FlushFails(f, Unflushed(f))
      BY <2>14, <2>16, <3>1 DEF Finalize, Unflushed
    <3>2. CASE /\ Goto(f, "entering") /\ LeaveFlush(f)
               /\ pending' = Unflushed(f)
               /\ UNCHANGED <<inserted, user, rows, stranded, outcome>>
      BY <2>0, <2>16, <3>2, GotoTyped
         DEF Finalize, Unflushed, LeaveFlush, ipfsVars
    <3> QED
      BY <2>16, <3>1, <3>2 DEF Finalize
  <2>17. ASSUME NEW f \in Files, Commit(f) PROVE TypeOK'
    BY <2>0, <2>17, GotoTyped
       DEF Commit, Ends, Expire, Strand, Siblings, FilesOf, ipfsVars,
           flushVars
  <2>18. ASSUME NEW f \in Files, CommitNested(f) PROVE TypeOK'
    BY <2>0, <2>18, GotoTyped
       DEF CommitNested, Ends, Strand, Siblings, FilesOf, ipfsVars, dbVars,
           flushVars
  <2>19. ASSUME NEW f \in Files, StaleCommit(f) PROVE TypeOK'
    BY <2>0, <2>11, <2>19, GotoTyped DEF StaleCommit, Ends, ipfsVars, dbVars
  <2>20. ASSUME NEW f \in Files, CloseSession(f) PROVE TypeOK'
    BY <2>0, <2>20, GotoTyped
       DEF CloseSession, Discard, Strand, Siblings, FilesOf, Detach,
           ipfsVars, flushVars
  <2>21. ASSUME NEW f \in Files, Cleanup(f) PROVE TypeOK'
    BY <2>0, <2>21, GotoTyped
       DEF Cleanup, ipfsVars, dbVars, callVars, flushVars
  <2>22. ASSUME NEW w \in Workers, Crash(w) PROVE TypeOK'
    BY <2>0, <2>22 DEF Crash
  <2>23. CASE UNCHANGED vars
    BY <2>23 DEF vars
  <2> QED
    BY <2>1, <2>2, <2>3, <2>4, <2>5, <2>6, <2>7, <2>8, <2>9, <2>10, <2>12,
       <2>13, <2>15, <2>16, <2>17, <2>18, <2>19, <2>20, <2>21, <2>22, <2>23
       DEF Next, Process, Finished
<1> QED
  BY <1>1, <1>2, PTL DEF Spec

-----------------------------------------------------------------------------
(* What a second row of a file takes.                                      *)

\* The steps before a record exists, and those at which it may be in the
\* Session.
Unrecorded == {"idle", "accepted", "saved", "queued", "adding", "owner",
               "hashing", "hashed", "refused", "failed"}
InSession == {"commit", "closing"} \cup Committing

Copies(f) == rows[f] + inserted[f]

\* As long as no two flushes have held the record of f at once, it is in one
\* place: waiting, in one flush that has not inserted it yet, or inserted.
OneCopy(f) ==
    /\ Copies(f) <= 1
    /\ \A g, h \in Files : f \in batch[g] /\ f \in batch[h] => g = h
    /\ \A g \in Files :
          f \in batch[g] /\ pc[g] = "flushing" => Copies(f) = 0
    /\ f \in pending /\ (\A g \in Files : f \notin batch[g]) => Copies(f) = 0

\* Records are pending only while their file is being committed, there is none
\* before, and a flush holds records of its own request only.
Placed ==
    /\ \A f \in pending : pc[f] \in InSession
    /\ \A f \in Files : pc[f] \in Unrecorded => rows[f] = 0 /\ ~Held(f)
    /\ \A f, g \in Files : f \in batch[g] => /\ RequestOf[f] = RequestOf[g]
                                             /\ pc[g] \in Flushing
    /\ \A f \in Files \ contested : OneCopy(f)

\* A step of f's thread moves only f.
LEMMA GotoMoves ==
    ASSUME pc \in [Files -> Steps], NEW f \in Files, NEW step, Goto(f, step)
    PROVE  /\ pc'[f] = step
           /\ \A g \in Files \ {f} : pc'[g] = pc[g]
  BY DEF Goto

LEMMA PlacedStep == TypeOK /\ Placed /\ [Next]_vars => Placed'
<1> SUFFICES ASSUME TypeOK, Placed, [Next]_vars PROVE Placed'
  OBVIOUS
<1> USE StoreAssumption DEF TypeOK, Flushing, Committing
<1> DEFINE SameRecords == UNCHANGED <<dbVars, batch, contested>>
\* A step of f that leaves the Session alone.
<1>1. ASSUME SameRecords, NEW f \in Files, NEW step, Goto(f, step),
             pc[f] \notin Flushing,
             pc[f] \in InSession => step \in InSession \/ f \notin pending,
             step \in Unrecorded => pc[f] \in Unrecorded
      PROVE  Placed'
  BY <1>1, GotoMoves
     DEF Placed, OneCopy, Copies, Held, dbVars, InSession, Unrecorded
<1>2. ASSUME UNCHANGED pc, SameRecords PROVE Placed'
  BY <1>2 DEF Placed, OneCopy, Copies, Held, dbVars
<1>3. ASSUME NEW r \in Requests, SameRecords,
             \A f \in FilesOf(r) : At(f, "idle"),
             NEW answer \in {"accepted", "refused"},
             pc' = [f \in Files |->
                      IF f \in FilesOf(r) THEN answer ELSE pc[f]]
      PROVE  Placed'
  <2>1. \A f \in Files : \/ pc'[f] = pc[f]
                         \/ pc[f] = "idle" /\ pc'[f] \in Unrecorded
    BY <1>3 DEF At, Unrecorded
  <2> QED
    BY <1>3, <2>1
       DEF Placed, OneCopy, Copies, Held, dbVars, InSession, Unrecorded
<1>4. ASSUME NEW r \in Requests, CompressTaskImage(r) PROVE Placed'
  BY <1>3, <1>4 DEF CompressTaskImage, dbVars, callVars, flushVars
<1>5. ASSUME NEW r \in Requests, Upload(r) PROVE Placed'
  BY <1>3, <1>5 DEF Upload, dbVars, callVars, flushVars
<1>6. ASSUME NEW f \in Files, SaveToTemp(f) PROVE Placed'
  BY <1>1, <1>6
     DEF SaveToTemp, At, Unrecorded, InSession, dbVars, callVars, flushVars
<1>7. ASSUME NEW f \in Files, ProduceCompression(f) PROVE Placed'
  BY <1>1, <1>7
     DEF ProduceCompression, Continue, At, Unrecorded, InSession, dbVars,
         callVars, flushVars
<1>8. ASSUME NEW f \in Files, StartAdd(f) PROVE Placed'
  BY <1>1, <1>8
     DEF StartAdd, At, Unrecorded, InSession, dbVars, callVars, flushVars
<1>9. ASSUME NEW f \in Files, RunAdd(f) PROVE Placed'
  BY <1>2, <1>9 DEF RunAdd, dbVars, callVars, flushVars
<1>10. ASSUME NEW f \in Files, ReadCid(f) PROVE Placed'
  BY <1>1, <1>10
     DEF ReadCid, Ends, At, Unrecorded, InSession, dbVars, callVars,
         flushVars
<1>11. ASSUME NEW f \in Files, ReadOwner(f) PROVE Placed'
  <2>1. /\ pc[f] = "owner"
        /\ Goto(f, "hashing") \/ Goto(f, "closing")
        /\ UNCHANGED <<pending, inserted, rows, batch, contested>>
    BY <1>11 DEF ReadOwner, Ends, At, callVars, flushVars
  <2> QED
    BY <2>1, GotoMoves
       DEF Placed, OneCopy, Copies, Held, InSession, Unrecorded
<1>12. ASSUME NEW f \in Files, GenerateHash(f) PROVE Placed'
  BY <1>1, <1>12
     DEF GenerateHash, Ends, At, Unrecorded, InSession, dbVars, callVars,
         flushVars
<1>13. ASSUME NEW f \in Files, AddRecord(f) PROVE Placed'
  <2>1. /\ pc[f] = "hashed" /\ pc'[f] = "commit"
        /\ \A g \in Files \ {f} : pc'[g] = pc[g]
        /\ pending' = pending \cup {f}
        /\ UNCHANGED <<inserted, rows, batch, contested>>
    BY <1>13, GotoMoves DEF AddRecord, At, callVars, flushVars
  <2>2. Copies(f) = 0
    BY <2>1 DEF Placed, Copies, Held, Unrecorded
  <2> QED
    BY <2>1, <2>2
       DEF Placed, OneCopy, Copies, Held, InSession, Unrecorded
<1>14. ASSUME NEW f \in Files, Refused(f), UNCHANGED contested,
              pc[f] \in InSession \ Flushing
       PROVE  Placed'
  BY <1>1, <1>14 DEF Refused, Ends, dbVars, InSession, Unrecorded
<1>15. ASSUME NEW f \in Files, BeginCommit(f) PROVE Placed'
  <2>1. pc[f] = "commit" /\ UNCHANGED contested
    BY <1>15 DEF BeginCommit, At
  <2>2. \/ Refused(f)
        \/ \E step \in {"entering", "flushed"} :
              Goto(f, step) /\ UNCHANGED <<dbVars, batch>>
    BY <1>15 DEF BeginCommit
  <2> QED
    BY <1>1, <1>14, <2>1, <2>2 DEF InSession, Unrecorded
<1>16. ASSUME NEW f \in Files, EnterFlush(f) PROVE Placed'
  <2> DEFINE New == PendingOn(RequestOf[f])
  <2>1. pc[f] = "entering"
    BY <1>16 DEF EnterFlush, At
  <2>2. CASE Refused(f) /\ UNCHANGED contested
    BY <1>14, <2>1, <2>2 DEF InSession
  <2>3. CASE Goto(f, "flushed") /\ UNCHANGED <<dbVars, flushVars>>
    BY <1>1, <2>1, <2>3 DEF flushVars, InSession, Unrecorded
  <2>4. CASE /\ Goto(f, "flushing")
             /\ batch' = [batch EXCEPT ![f] = New]
             /\ contested' = contested \cup
                   {x \in New : \E g \in Siblings(f) : x \in batch[g]}
             /\ UNCHANGED dbVars
    <3>1. /\ batch'[f] = New
          /\ \A g \in Files \ {f} : batch'[g] = batch[g]
          /\ UNCHANGED <<pending, inserted, rows>>
      BY <2>4 DEF dbVars
    <3>2. \A x \in New : x \in pending /\ RequestOf[x] = RequestOf[f]
      BY DEF PendingOn, FilesOf
    <3>3. /\ pc'[f] = "flushing"
          /\ \A g \in Files \ {f} : pc'[g] = pc[g]
      BY <2>4, GotoMoves
    <3>4. batch[f] = {}
      BY <2>1 DEF Placed
    \* What f takes and no sibling holds is in no flush yet.
    <3>5. \A x \in New \ contested' :
             \A g \in Files : x \notin batch[g]
      BY <2>4, <3>2, <3>4 DEF Placed, Siblings, FilesOf
    <3>6. \A x \in Files \ contested' : OneCopy(x)'
      <4> SUFFICES ASSUME NEW x \in Files \ contested' PROVE OneCopy(x)'
        OBVIOUS
      <4>1. OneCopy(x)
        BY <2>4 DEF Placed
      <4>2. CASE x \in New
        BY <3>1, <3>2, <3>3, <3>5, <4>1, <4>2 DEF OneCopy, Copies
      <4>3. CASE x \notin New
        BY <3>1, <3>3, <3>4, <4>1, <4>3 DEF OneCopy, Copies
      <4> QED
        BY <4>2, <4>3
    <3>7. \A x \in Files : pc'[x] \in Unrecorded => rows'[x] = 0 /\ ~Held(x)'
      BY <2>1, <3>1, <3>2, <3>3
         DEF Placed, Held, InSession, Unrecorded
    <3> QED
      BY <2>1, <3>1, <3>2, <3>3, <3>6, <3>7 DEF Placed, InSession
  <2> QED
    BY <1>16, <2>2, <2>3, <2>4 DEF EnterFlush
\* A flush ends: with the transaction rolled back, or with its records left
\* pending or not.
<1>17. ASSUME NEW f \in Files, pc[f] \in Flushing, NEW step \in InSession,
              Goto(f, step), step \notin Flushing,
              batch' = [batch EXCEPT ![f] = {}],
              UNCHANGED <<rows, contested>>,
              \/ UNCHANGED inserted /\ pending' = pending \ batch[f]
              \/ pc[f] = "flushing" /\ UNCHANGED <<inserted, pending>>
              \/ Discard(RequestOf[f])
       PROVE  Placed'
  <2>1. /\ pc'[f] = step
        /\ \A g \in Files \ {f} : pc'[g] = pc[g]
    BY <1>17, GotoMoves
  <2>2. /\ batch'[f] = {}
        /\ \A g \in Files \ {f} : batch'[g] = batch[g]
    BY <1>17
  <2>3. /\ pending' \subseteq pending
        /\ \A x \in Files : inserted'[x] \in {0, inserted[x]}
    BY <1>17 DEF Discard
  <2>4. \A x \in Files : Copies(x)' <= Copies(x) /\ Copies(x)' \in Nat
                            /\ Copies(x) \in Nat
    BY <1>17, <2>3 DEF Copies
  <2>5. \A x \in Files \ contested' : OneCopy(x)'
    <3> SUFFICES ASSUME NEW x \in Files \ contested' PROVE OneCopy(x)'
      OBVIOUS
    <3>1. OneCopy(x)
      BY <1>17 DEF Placed
    <3>2. ASSUME x \in pending', \A g \in Files : x \notin batch'[g]
          PROVE  Copies(x)' = 0
      <4>1. CASE x \in batch[f]
        <5>1. \/ pc[f] = "flushing" /\ UNCHANGED inserted
              \/ x \in pending' /\ Discard(RequestOf[f])
          BY <1>17, <3>2, <4>1
        <5>2. ~(x \in pending' /\ Discard(RequestOf[f]))
          BY <4>1 DEF Placed, Discard, FilesOf
        <5> QED
          BY <2>4, <3>1, <4>1, <5>1, <5>2 DEF OneCopy
      <4>2. CASE x \notin batch[f]
        BY <2>2, <2>3, <2>4, <3>1, <3>2, <4>2 DEF OneCopy
      <4> QED
        BY <4>1, <4>2
    <3> QED
      BY <2>1, <2>2, <2>4, <3>1, <3>2 DEF OneCopy
  <2>6. \A x \in Files : pc'[x] \in Unrecorded => rows'[x] = 0 /\ ~Held(x)'
    BY <1>17, <2>1, <2>2, <2>3
       DEF Placed, Held, InSession, Unrecorded
  <2> QED
    BY <1>17, <2>1, <2>2, <2>3, <2>5, <2>6 DEF Placed, InSession
<1>18. ASSUME NEW f \in Files, NEW left, FlushFails(f, left),
              pc[f] \in Flushing, UNCHANGED contested,
              left = Unflushed(f) \/ (pc[f] = "flushing" /\ left = pending)
       PROVE  Placed'
  BY <1>17, <1>18 DEF FlushFails, Ends, LeaveFlush, Unflushed, InSession
<1>19. ASSUME NEW f \in Files, Insert(f) PROVE Placed'
  <2>1. pc[f] = "flushing" /\ UNCHANGED contested
    BY <1>19 DEF Insert, At
  <2>2. CASE FlushFails(f, pending)
    BY <1>18, <2>1, <2>2
  <2>3. ASSUME NEW S \in SUBSET batch[f], Goto(f, "written"),
               inserted' = [g \in Files |-> IF g \in S THEN inserted[g] + 1
                                                       ELSE inserted[g]],
               UNCHANGED <<pending, rows, batch>>
        PROVE  Placed'
    <3>1. /\ pc'[f] = "written"
          /\ \A g \in Files \ {f} : pc'[g] = pc[g]
      BY <2>3, GotoMoves
    <3>2. \A x \in Files :
             /\ Copies(x) \in Nat /\ Copies(x)' \in Nat
             /\ Copies(x)' = IF x \in S THEN Copies(x) + 1 ELSE Copies(x)
      BY <2>3 DEF Copies
    <3>3. \A x \in Files \ contested' : OneCopy(x)'
      <4> SUFFICES ASSUME NEW x \in Files \ contested' PROVE OneCopy(x)'
        OBVIOUS
      <4>1. OneCopy(x)
        BY <2>1 DEF Placed
      <4>2. CASE x \in S
        <5>1. Copies(x) = 0 /\ x \in batch[f]
          BY <2>1, <4>1, <4>2 DEF OneCopy
        <5> QED
          BY <2>3, <3>1, <3>2, <4>1, <4>2, <5>1 DEF OneCopy
      <4>3. CASE x \notin S
        BY <2>3, <3>1, <3>2, <4>1, <4>3 DEF OneCopy
      <4> QED
        BY <4>2, <4>3
    <3>4. \A x \in Files : pc'[x] \in Unrecorded => rows'[x] = 0 /\ ~Held(x)'
      BY <2>1, <2>3, <3>1 DEF Placed, Held, Unrecorded
    <3> QED
      BY <2>1, <2>3, <3>1, <3>3, <3>4 DEF Placed, InSession
  <2> QED
    BY <1>19, <2>2, <2>3 DEF Insert
<1>20. ASSUME NEW f \in Files, Finalize(f) PROVE Placed'
  <2>1. pc[f] = "written" /\ UNCHANGED contested
    BY <1>20 DEF Finalize, At
  <2>2. CASE FlushFails(f, Unflushed(f))
    BY <1>18, <2>1, <2>2
  <2>3. CASE /\ Goto(f, "entering") /\ LeaveFlush(f)
             /\ pending' = Unflushed(f)
             /\ UNCHANGED <<inserted, rows>>
    BY <1>17, <2>1, <2>3 DEF LeaveFlush, Unflushed, InSession
  <2> QED
    BY <1>20, <2>2, <2>3 DEF Finalize
<1>21. ASSUME NEW f \in Files, Commit(f) PROVE Placed'
  <2>1. /\ pc[f] = "flushed" /\ pc'[f] = "closing"
        /\ \A g \in Files \ {f} : pc'[g] = pc[g]
        /\ UNCHANGED <<pending, batch, contested>>
    BY <1>21, GotoMoves DEF Commit, Ends, At, flushVars
  <2>2. \A x \in Files :
           \/ rows'[x] = rows[x] /\ inserted'[x] = inserted[x]
           \/ rows'[x] = rows[x] + inserted[x] /\ inserted'[x] = 0
    BY <1>21 DEF Commit
  <2>3. \A x \in Files : Copies(x)' = Copies(x)
    BY <2>2 DEF Copies
  <2>4. \A x \in Files : pc'[x] \in Unrecorded => rows'[x] = 0 /\ ~Held(x)'
    BY <2>1, <2>2 DEF Placed, Held, Unrecorded
  <2>5. \A x \in Files \ contested' : OneCopy(x)'
    BY <2>1, <2>3 DEF Placed, OneCopy
  <2> QED
    BY <2>1, <2>4, <2>5 DEF Placed, InSession
<1>22. ASSUME NEW f \in Files, CommitNested(f) PROVE Placed'
  BY <1>1, <1>22
     DEF CommitNested, Ends, At, flushVars, InSession, Unrecorded
<1>23. ASSUME NEW f \in Files, StaleCommit(f) PROVE Placed'
  <2>1. pc[f] = "flushed" /\ UNCHANGED contested
    BY <1>23 DEF StaleCommit, At
  <2>2. \/ Refused(f)
        \/ Goto(f, "closing") /\ UNCHANGED <<dbVars, batch>>
    BY <1>23 DEF StaleCommit, Ends
  <2> QED
    BY <1>1, <1>14, <2>1, <2>2 DEF InSession, Unrecorded
<1>24. ASSUME NEW f \in Files, CloseSession(f) PROVE Placed'
  <2>1. /\ pc[f] = "closing" /\ pc'[f] = "cleanup"
        /\ \A g \in Files \ {f} : pc'[g] = pc[g]
        /\ UNCHANGED <<rows, batch, contested>>
        /\ Discard(RequestOf[f])
    BY <1>24, GotoMoves DEF CloseSession, At, flushVars
  <2>2. /\ pending' \subseteq pending /\ f \notin pending'
        /\ \A x \in Files : inserted'[x] \in {0, inserted[x]}
    BY <2>1 DEF Discard, FilesOf
  <2>3. \A x \in Files : /\ Copies(x)' <= Copies(x)
                         /\ Copies(x)' \in Nat /\ Copies(x) \in Nat
    BY <2>1, <2>2 DEF Copies
  <2>4. \A x \in Files \ contested' : OneCopy(x)'
    BY <2>1, <2>2, <2>3 DEF Placed, OneCopy
  <2>5. \A x \in Files : pc'[x] \in Unrecorded => rows'[x] = 0 /\ ~Held(x)'
    BY <2>1, <2>2 DEF Placed, Held, Unrecorded
  <2> QED
    BY <2>1, <2>2, <2>4, <2>5 DEF Placed, InSession
<1>25. ASSUME NEW f \in Files, Cleanup(f) PROVE Placed'
  <2>1. pc[f] = "cleanup" /\ Goto(f, "done") /\ SameRecords
    BY <1>25 DEF Cleanup, At, dbVars, callVars, flushVars
  <2> QED
    BY <1>1, <2>1 DEF InSession, Unrecorded
<1>26. ASSUME NEW w \in Workers, Crash(w) PROVE Placed'
  <2> DEFINE Served == {x \in Files : WorkerOf[RequestOf[x]] = w}
  <2>1. /\ \A x \in Served : /\ x \notin pending' /\ inserted'[x] = 0
                             /\ batch'[x] = {}
                             /\ \/ pc'[x] = pc[x]
                                \/ pc'[x] = "crashed"
        /\ \A x \in Files \ Served :
              /\ pc'[x] = pc[x]
              /\ x \in pending' <=> x \in pending
              /\ inserted'[x] = inserted[x] /\ batch'[x] = batch[x]
        /\ UNCHANGED <<rows, contested>>
        /\ pending' \subseteq pending
    BY <1>26 DEF Crash
  <2>2. \A x, g \in Files : x \in batch'[g] => x \in batch[g] /\ g \notin Served
                                               /\ x \notin Served
    BY <2>1 DEF Placed
  <2>3. \A x \in Files : /\ Copies(x)' <= Copies(x)
                         /\ Copies(x)' \in Nat /\ Copies(x) \in Nat
    BY <2>1 DEF Copies
  <2>4. \A x \in Files \ contested' : OneCopy(x)'
    <3> SUFFICES ASSUME NEW x \in Files \ contested' PROVE OneCopy(x)'
      OBVIOUS
    <3>1. OneCopy(x)
      BY <2>1 DEF Placed
    <3>2. CASE x \in Served
      BY <2>1, <2>2, <2>3, <3>1, <3>2 DEF OneCopy
    <3>3. CASE x \notin Served
      <4>1. \A g \in Files : x \in batch[g] => g \notin Served
        BY <3>3 DEF Placed
      <4> QED
        BY <2>1, <2>2, <2>3, <3>1, <3>3, <4>1 DEF OneCopy
    <3> QED
      BY <3>2, <3>3
  <2>5. \A x \in Files : pc'[x] \in Unrecorded => rows'[x] = 0 /\ ~Held(x)'
    BY <2>1, <2>2 DEF Placed, Held, Unrecorded
  <2> QED
    BY <2>1, <2>2, <2>4, <2>5 DEF Placed
<1>27. CASE UNCHANGED vars
  BY <1>2, <1>27 DEF vars, dbVars
<1> QED
  BY <1>4, <1>5, <1>6, <1>7, <1>8, <1>9, <1>10, <1>11, <1>12, <1>13, <1>15,
     <1>16, <1>19, <1>20, <1>21, <1>22, <1>23, <1>24, <1>25, <1>26, <1>27
     DEF Next, Process, Finished

LEMMA PlacedInvariant == Spec => []Placed
<1>1. Init => Placed
  BY DEF Init, Placed, OneCopy, Copies, Held, Unrecorded
<1> QED
  BY <1>1, PlacedStep, TypeCorrect, PTL DEF Spec

\* However the threads of a request overlap in db.commit, a file has a second
\* row in data_storage only if two flushes held its record at the same time.
THEOREM DuplicatesExplained == Spec => []DuplicatesNeedOverlap
<1>1. TypeOK /\ Placed => DuplicatesNeedOverlap
  BY DEF TypeOK, Placed, OneCopy, Copies, DuplicatesNeedOverlap
<1> QED
  BY <1>1, PlacedInvariant, TypeCorrect, PTL

-----------------------------------------------------------------------------
(* A file is lost only if another file of its request was there.           *)

\* A thread inside commit is in touched.  The flag of a Session is set only
\* while a flush is under way, and a contested record has seen two files of
\* its request come to the Session.
Entered ==
    /\ \A f \in Files : pc[f] \in Committing => f \in touched
    /\ \A r \in Requests :
          flag[r] => \E g \in Files : RequestOf[g] = r /\ pc[g] \in Flushing
    /\ \A x \in contested : \E g, h \in touched :
          g # h /\ RequestOf[g] = RequestOf[x] /\ RequestOf[h] = RequestOf[x]

LEMMA EnteredStep ==
    TypeOK /\ Placed /\ Entered /\ [Next]_vars => Entered'
<1> SUFFICES ASSUME TypeOK, Placed, Entered, [Next]_vars PROVE Entered'
  OBVIOUS
<1> USE StoreAssumption DEF TypeOK, Flushing, Committing
\* A step of f neither into a flush nor out of one.
<1>1. ASSUME NEW f \in Files, NEW step, Goto(f, step), UNCHANGED flushVars,
             touched \subseteq touched',
             pc[f] \in Flushing <=> step \in Flushing,
             step \in Committing => f \in touched'
      PROVE  Entered'
  <2>1. /\ pc'[f] = step
        /\ \A g \in Files \ {f} : pc'[g] = pc[g]
        /\ UNCHANGED <<flag, contested>>
    BY <1>1, GotoMoves DEF flushVars
  <2>2. \A g \in Files : pc'[g] \in Committing => g \in touched'
    BY <1>1, <2>1 DEF Entered
  <2>3. \A g \in Files : pc[g] \in Flushing => pc'[g] \in Flushing
    BY <1>1, <2>1
  <2> QED
    BY <1>1, <2>1, <2>2, <2>3 DEF Entered
<1>2. ASSUME UNCHANGED <<flushVars, touched>>,
             \A g \in Files : \/ pc'[g] = pc[g]
                              \/ /\ pc[g] \notin Flushing
                                 /\ pc'[g] \notin Committing
      PROVE  Entered'
  BY <1>2 DEF Entered, flushVars
\* The flush of f ends.
<1>3. ASSUME NEW f \in Files, NEW step \in {"closing", "entering"},
             pc[f] \in Flushing, Goto(f, step), LeaveFlush(f),
             UNCHANGED <<touched, contested>>
      PROVE  Entered'
  <2>1. /\ pc'[f] = step
        /\ \A g \in Files \ {f} : pc'[g] = pc[g]
        /\ flag' = [flag EXCEPT ![RequestOf[f]] = FALSE]
        /\ f \in touched
    BY <1>3, GotoMoves DEF LeaveFlush, Entered
  <2>2. \A r \in Requests : flag'[r] => flag[r] /\ r # RequestOf[f]
    BY <2>1
  <2>3. ASSUME NEW r \in Requests, flag'[r]
        PROVE  \E g \in Files : RequestOf[g] = r /\ pc'[g] \in Flushing
    BY <2>1, <2>2, <2>3 DEF Entered
  <2> QED
    BY <1>3, <2>1, <2>3 DEF Entered
<1>4. ASSUME NEW r \in Requests, CompressTaskImage(r) PROVE Entered'
  BY <1>2, <1>4 DEF CompressTaskImage, FilesOf, At, callVars
<1>5. ASSUME NEW r \in Requests, Upload(r) PROVE Entered'
  BY <1>2, <1>5 DEF Upload, FilesOf, At, callVars
<1>6. ASSUME NEW f \in Files,
             \/ SaveToTemp(f) \/ ProduceCompression(f) \/ StartAdd(f)
             \/ ReadCid(f) \/ ReadOwner(f) \/ GenerateHash(f) \/ AddRecord(f)
             \/ Cleanup(f)
      PROVE  Entered'
  <2>1. UNCHANGED <<flushVars, touched>>
    BY <1>6
       DEF SaveToTemp, ProduceCompression, StartAdd, ReadCid, ReadOwner,
           GenerateHash, AddRecord, Cleanup, callVars
  <2>2. /\ pc[f] \in {"accepted", "saved", "queued", "adding", "owner",
                      "hashing", "hashed", "cleanup"}
        /\ \E step \in {"failed", "saved", "queued", "cleanup", "adding",
                        "owner", "closing", "hashing", "hashed", "commit",
                        "done"} : Goto(f, step)
    BY <1>6
       DEF SaveToTemp, ProduceCompression, Continue, StartAdd, ReadCid,
           ReadOwner, GenerateHash, AddRecord, Cleanup, Ends, At
  <2> QED
    BY <1>1, <2>1, <2>2
<1>7. ASSUME NEW f \in Files, RunAdd(f) PROVE Entered'
  BY <1>2, <1>7 DEF RunAdd, callVars
<1>8. ASSUME NEW f \in Files, Refused(f), UNCHANGED contested,
             touched \subseteq touched', pc[f] \notin Flushing
      PROVE  Entered'
  BY <1>1, <1>8 DEF Refused, Ends, flushVars
<1>9. ASSUME NEW f \in Files, BeginCommit(f) PROVE Entered'
  <2>1. pc[f] = "commit" /\ f \in touched' /\ touched \subseteq touched'
    BY <1>9 DEF BeginCommit, At
  <2>2. \/ Refused(f)
        \/ \E step \in {"entering", "flushed"} :
              Goto(f, step) /\ UNCHANGED <<flag, batch>>
    BY <1>9 DEF BeginCommit
  <2>3. UNCHANGED contested
    BY <1>9 DEF BeginCommit
  <2> QED
    BY <1>1, <1>8, <2>1, <2>2, <2>3 DEF flushVars
<1>10. ASSUME NEW f \in Files, EnterFlush(f) PROVE Entered'
  <2>1. pc[f] = "entering" /\ f \in touched /\ UNCHANGED touched
    BY <1>10 DEF EnterFlush, At, Entered
  <2>2. CASE Refused(f) /\ UNCHANGED contested
    BY <1>8, <2>1, <2>2
  <2>3. CASE Goto(f, "flushed") /\ UNCHANGED flushVars
    BY <1>1, <2>1, <2>3
  <2>4. CASE /\ Goto(f, "flushing")
             /\ flag' = [flag EXCEPT ![RequestOf[f]] = TRUE]
             /\ contested' = contested \cup
                   {x \in PendingOn(RequestOf[f]) :
                       \E g \in Siblings(f) : x \in batch[g]}
    <3>1. /\ pc'[f] = "flushing"
          /\ \A g \in Files \ {f} : pc'[g] = pc[g]
      BY <2>4, GotoMoves
    <3>2. ASSUME NEW r \in Requests, flag'[r]
          PROVE  \E g \in Files : RequestOf[g] = r /\ pc'[g] \in Flushing
      <4>1. CASE r = RequestOf[f]
        BY <3>1, <4>1
      <4>2. CASE r # RequestOf[f]
        BY <2>4, <3>1, <3>2, <4>2 DEF Entered
      <4> QED
        BY <4>1, <4>2
    <3>3. ASSUME NEW x \in contested' \ contested
          PROVE  \E g, h \in touched' : /\ g # h
                                        /\ RequestOf[g] = RequestOf[x]
                                        /\ RequestOf[h] = RequestOf[x]
      <4>1. PICK g \in Siblings(f) : x \in batch[g]
        BY <2>4
      <4>2. g \in Files /\ g # f /\ RequestOf[x] = RequestOf[f]
            /\ RequestOf[g] = RequestOf[f]
        BY <2>4 DEF PendingOn, FilesOf, Siblings
      <4>3. g \in touched
        BY <4>1, <4>2 DEF Placed, Entered
      <4> QED
        BY <2>1, <4>2, <4>3
    <3>4. \A x \in contested : \E g, h \in touched' :
             /\ g # h /\ RequestOf[g] = RequestOf[x]
             /\ RequestOf[h] = RequestOf[x]
      BY <2>1 DEF Entered
    <3> QED
      BY <2>1, <3>1, <3>2, <3>3, <3>4 DEF Entered
  <2> QED
    BY <1>10, <2>2, <2>3, <2>4 DEF EnterFlush
<1>11. ASSUME NEW f \in Files, Insert(f) PROVE Entered'
  <2>1. pc[f] = "flushing" /\ UNCHANGED <<touched, contested>>
        /\ f \in touched
    BY <1>11 DEF Insert, At, Entered
  <2>2. CASE FlushFails(f, pending)
    BY <1>3, <2>1, <2>2 DEF FlushFails, Ends
  <2>3. CASE Goto(f, "written") /\ UNCHANGED <<flag, batch>>
    BY <1>1, <2>1, <2>3 DEF flushVars
  <2> QED
    BY <1>11, <2>2, <2>3 DEF Insert
<1>12. ASSUME NEW f \in Files, Finalize(f) PROVE Entered'
  BY <1>3, <1>12 DEF Finalize, FlushFails, Ends, At
<1>13. ASSUME NEW f \in Files,
              \/ Commit(f) \/ CommitNested(f) \/ StaleCommit(f)
              \/ CloseSession(f)
       PROVE  Entered'
  <2>1. /\ pc[f] \in {"flushed", "closing"}
        /\ Goto(f, "closing") \/ Goto(f, "cleanup")
        /\ UNCHANGED flushVars /\ touched \subseteq touched'
    BY <1>13
       DEF Commit, CommitNested, StaleCommit, CloseSession, Refused, Ends,
           At, flushVars
  <2> QED
    BY <1>1, <2>1
<1>14. ASSUME NEW w \in Workers, Crash(w) PROVE Entered'
  <2>1. /\ \A g \in Files : \/ pc'[g] = pc[g]
                            \/ pc'[g] = "crashed" /\ WorkerOf[RequestOf[g]] = w
        /\ \A r \in Requests : flag'[r] => flag[r] /\ WorkerOf[r] # w
        /\ UNCHANGED <<touched, contested>>
    BY <1>14 DEF Crash
  <2> QED
    BY <2>1 DEF Entered
<1>15. CASE UNCHANGED vars
  BY <1>2, <1>15 DEF vars, flushVars
<1> QED
  BY <1>4, <1>5, <1>6, <1>7, <1>9, <1>10, <1>11, <1>12, <1>13, <1>14, <1>15
     DEF Next, Process, Finished

LEMMA EnteredInvariant == Spec => []Entered
<1>1. Init => Entered
  BY DEF Init, Entered, Committing, Flushing
<1> QED
  BY <1>1, EnteredStep, PlacedInvariant, TypeCorrect, PTL DEF Spec

Alone(f) == \A g \in Siblings(f) : g \notin touched

\* Threads that have not called commit are not in touched and have no outcome.
Fresh(f) ==
    pc[f] \in Unrecorded \cup {"commit"} =>
        f \notin touched /\ outcome[f] = "none"

\* What the thread of f relies on while no sibling has come to the Session:
\* the instance it reads is loaded, its record waits in the Session until it
\* is inserted, and its transaction is not ended by others.
Undisturbed(f) ==
    /\ f \notin touched => user[RequestOf[f]] = "loaded"
    /\ pc[f] = "commit" => f \in pending
    /\ pc[f] = "entering" => f \in pending \/ inserted[f] > 0
    /\ pc[f] = "flushing" => f \in pending \cap batch[f] \/ inserted[f] > 0
    /\ pc[f] \in {"written", "flushed"} => inserted[f] > 0
    /\ f \notin stranded
    /\ outcome[f] \in {"none", "returned", "FileNotFoundError"}
    /\ outcome[f] = "returned" => rows[f] > 0

Sharing == \A f \in Files : Fresh(f) /\ (Alone(f) => Undisturbed(f))

\* Files that no thread of this step concerns keep what they rely on.
LEMMA UndisturbedKept ==
    ASSUME TypeOK, Sharing, NEW f \in Files,
           pc'[f] = pc[f], outcome'[f] = outcome[f], rows'[f] = rows[f],
           user'[RequestOf[f]] \in {user[RequestOf[f]], "loaded"},
           f \in pending => f \in pending',
           inserted'[f] = inserted[f], batch'[f] = batch[f],
           f \in stranded' => f \in stranded,
           f \in touched' <=> f \in touched,
           touched \subseteq touched'
    PROVE  Fresh(f)' /\ (Alone(f)' => Undisturbed(f)')
  BY DEF Sharing, Fresh, Undisturbed, Alone

\* A call that the Session refuses finds a touched sibling.
LEMMA NotAlone ==
    ASSUME TypeOK, Placed, Entered, Sharing, NEW f \in Files,
           f \notin touched \/ pc[f] \in Committing,
           \/ Disturbed(f) /\ f \notin touched
           \/ flag[RequestOf[f]] /\ pc[f] \notin Flushing
           \/ \E g \in Siblings(f) : pc[g] \in Committing
           \/ \E x \in batch[f] : pc[f] = "flushing" /\ Copies(x) > 0
    PROVE  ~Alone(f)
  <1> USE StoreAssumption DEF TypeOK
  <1>1. ASSUME \E g \in Siblings(f) : pc[g] \in Committing PROVE ~Alone(f)
    BY <1>1 DEF Entered, Alone, Siblings, FilesOf
  <1>2. ASSUME NEW g \in Siblings(f), outcome[g] = "SessionError",
               f \notin touched
        PROVE  ~Alone(f)
    <2>1. g \in Files /\ g # f /\ RequestOf[g] = RequestOf[f]
      BY DEF Siblings, FilesOf
    <2>2. ~Alone(g)
      BY <1>2, <2>1 DEF Sharing, Undisturbed
    <2> QED
      BY <1>2, <2>1, <2>2 DEF Alone, Siblings, FilesOf
  <1>3. ASSUME flag[RequestOf[f]], pc[f] \notin Flushing PROVE ~Alone(f)
    BY <1>3 DEF Entered, Alone, Siblings, FilesOf, Committing
  <1>4. ASSUME NEW x \in batch[f], pc[f] = "flushing", Copies(x) > 0
        PROVE  ~Alone(f)
    <2>1. x \in contested
      BY <1>4 DEF Placed, OneCopy
    <2> QED
      BY <1>4, <2>1 DEF Placed, Entered, Alone, Siblings, FilesOf
  <1> QED
    BY <1>1, <1>2, <1>3, <1>4 DEF Disturbed

LEMMA SharingStep ==
    TypeOK /\ Placed /\ Entered /\ Sharing /\ [Next]_vars => Sharing'
<1> SUFFICES ASSUME TypeOK, Placed, Entered, Sharing, [Next]_vars
             PROVE  Sharing'
  OBVIOUS
<1> USE StoreAssumption DEF Flushing, Committing
<1> DEFINE Kept(f) == Fresh(f) /\ (Alone(f) => Undisturbed(f))
           Apart(g) ==
               \A f \in Files : RequestOf[f] # RequestOf[g] =>
                  /\ rows'[f] = rows[f] /\ inserted'[f] = inserted[f]
                  /\ f \in pending => f \in pending'
                  /\ user'[RequestOf[f]] = user[RequestOf[f]]
                  /\ batch'[f] = batch[f]
                  /\ f \in stranded' => f \in stranded
\* A step of g that keeps the database side concerns g only.
<1>1. ASSUME NEW g \in Files, UNCHANGED <<dbVars, callVars>>,
             \A f \in Files \ {g} : pc'[f] = pc[f] /\ outcome'[f] = outcome[f],
             Kept(g)'
      PROVE  Sharing'
  BY <1>1, UndisturbedKept DEF Sharing, dbVars, callVars, flushVars
<1>2. ASSUME UNCHANGED <<pc, dbVars, outcome, callVars>> PROVE Sharing'
  BY <1>2, UndisturbedKept DEF Sharing, dbVars, callVars, flushVars
<1>3. ASSUME NEW g \in Files, UNCHANGED <<dbVars, outcome, callVars>>,
             NEW step \in Unrecorded \cup {"cleanup", "done"},
             Goto(g, step),
             step \in Unrecorded => pc[g] \in Unrecorded
      PROVE  Sharing'
  <2>1. /\ pc'[g] = step
        /\ \A f \in Files \ {g} : pc'[f] = pc[f]
    BY <1>3, GotoMoves DEF TypeOK
  <2>2. Kept(g)'
    BY <1>3, <2>1
       DEF Sharing, Fresh, Undisturbed, Alone, Unrecorded, dbVars, callVars
  <2> QED
    BY <1>1, <1>3, <2>1, <2>2
\* commit_to_ipfs ends before it has come to the Session.
<1>4. ASSUME NEW g \in Files, UNCHANGED <<dbVars, callVars>>,
             Ends(g, "FileNotFoundError"), pc[g] \in Unrecorded
      PROVE  Sharing'
  <2>1. /\ pc'[g] = "closing" /\ outcome'[g] = "FileNotFoundError"
        /\ \A f \in Files \ {g} : pc'[f] = pc[f] /\ outcome'[f] = outcome[f]
    BY <1>4, GotoMoves DEF TypeOK, Ends
  <2>2. Kept(g)'
    BY <1>4, <2>1
       DEF Sharing, Fresh, Undisturbed, Alone, Unrecorded, dbVars, callVars
  <2> QED
    BY <1>1, <1>4, <2>1, <2>2
<1>5. ASSUME NEW r \in Requests, CompressTaskImage(r) PROVE Sharing'
  BY <1>5 DEF CompressTaskImage, At, FilesOf, dbVars, callVars, flushVars,
              Unrecorded, TypeOK, Sharing, Fresh, Undisturbed, Alone
<1>6. ASSUME NEW r \in Requests, Upload(r) PROVE Sharing'
  BY <1>6 DEF Upload, At, FilesOf, dbVars, callVars, flushVars, Unrecorded,
              TypeOK, Sharing, Fresh, Undisturbed, Alone
<1>7. ASSUME NEW g \in Files, SaveToTemp(g) PROVE Sharing'
  BY <1>3, <1>7 DEF SaveToTemp, At, Unrecorded
<1>8. ASSUME NEW g \in Files, ProduceCompression(g) PROVE Sharing'
  BY <1>3, <1>8 DEF ProduceCompression, Continue, At, Unrecorded
<1>9. ASSUME NEW g \in Files, StartAdd(g) PROVE Sharing'
  BY <1>3, <1>9 DEF StartAdd, At, Unrecorded
<1>10. ASSUME NEW g \in Files, RunAdd(g) PROVE Sharing'
  BY <1>2, <1>10 DEF RunAdd
<1>11. ASSUME NEW g \in Files, ReadCid(g) PROVE Sharing'
  BY <1>3, <1>4, <1>11 DEF ReadCid, At, Unrecorded
<1>12. ASSUME NEW g \in Files, GenerateHash(g) PROVE Sharing'
  BY <1>3, <1>4, <1>12 DEF GenerateHash, At, Unrecorded
<1>13. ASSUME NEW g \in Files, ReadOwner(g) PROVE Sharing'
  <2>1. /\ pc[g] = "owner" /\ g \notin touched /\ outcome[g] = "none"
        /\ UNCHANGED <<pending, inserted, rows, callVars>>
    BY <1>13 DEF ReadOwner, At, Sharing, Fresh, Unrecorded
  <2>2. CASE Goto(g, "hashing") /\ UNCHANGED <<user, outcome>>
    BY <1>3, <2>1, <2>2 DEF dbVars, Unrecorded
  <2>3. CASE user[RequestOf[g]] \in {"expired", "lost"}
    \* A loaded instance was expired or detached by a sibling.
    <3>1. ~Alone(g)
      BY <2>1, <2>3 DEF Sharing, Undisturbed
    <3>2. /\ \A f \in Files \ {g} : pc'[f] = pc[f]
                                    /\ outcome'[f] = outcome[f]
          /\ pc'[g] \in {"hashing", "closing"}
          /\ pc'[g] = "hashing" => outcome'[g] = "none"
      BY <1>13, <2>1, GotoMoves DEF ReadOwner, Ends, TypeOK
    <3>3. \A r \in Requests : user'[r] \in {user[r], "loaded"}
      BY <1>13 DEF ReadOwner, TypeOK
    <3>4. Kept(g)'
      BY <2>1, <3>1, <3>2 DEF Fresh, Alone, Unrecorded, callVars
    <3> QED
      BY <2>1, <3>2, <3>3, <3>4, UndisturbedKept
         DEF Sharing, callVars, flushVars
  <2> QED
    BY <1>13, <2>2, <2>3 DEF ReadOwner
\* A step of g at the Session concerns g, its siblings, which are not alone
\* any more, and no other request.
<1>14. ASSUME NEW g \in Files, g \in touched', touched' = touched \cup {g},
              NEW step, Goto(g, step), step \notin Unrecorded,
              pc[g] \notin Unrecorded,
              \A f \in Files \ {g} : outcome'[f] = outcome[f],
              Apart(g), Kept(g)'
       PROVE  Sharing'
  <2>1. /\ pc'[g] = step
        /\ \A f \in Files \ {g} : pc'[f] = pc[f]
    BY <1>14, GotoMoves DEF TypeOK
  <2>2. ASSUME NEW f \in Files, RequestOf[f] # RequestOf[g] PROVE Kept(f)'
    BY <1>14, <2>1, <2>2, UndisturbedKept
  <2>3. ASSUME NEW f \in Files, f # g, RequestOf[f] = RequestOf[g]
        PROVE  Kept(f)'
    <3>1. ~Alone(f)'
      BY <1>14, <2>3 DEF Alone, Siblings, FilesOf
    <3>2. Fresh(f)'
      BY <1>14, <2>1, <2>3 DEF Sharing, Fresh
    <3> QED
      BY <3>1, <3>2
  <2> QED
    BY <1>14, <2>2, <2>3 DEF Sharing
<1>15. ASSUME NEW g \in Files, AddRecord(g) PROVE Sharing'
  <2>1. /\ pc[g] = "hashed" /\ pc'[g] = "commit"
        /\ \A f \in Files \ {g} : pc'[f] = pc[f]
        /\ pending' = pending \cup {g}
        /\ UNCHANGED <<inserted, user, rows, outcome, callVars>>
    BY <1>15, GotoMoves DEF AddRecord, At, TypeOK
  <2>2. Kept(g)'
    BY <2>1 DEF Sharing, Fresh, Undisturbed, Alone, Unrecorded, callVars
  <2> QED
    BY <2>1, <2>2, UndisturbedKept DEF Sharing, callVars, flushVars
\* The call of a file that is not alone fails.
<1>16. ASSUME NEW g \in Files, touched' = touched \cup {g}, ~Alone(g),
              Refused(g) \/ (\E left : FlushFails(g, left)
                                       /\ pending \ FilesOf(RequestOf[g])
                                             \subseteq left),
              pc[g] \in {"commit"} \cup Committing
       PROVE  Sharing'
  <2>1. pc'[g] = "closing"
        /\ \A f \in Files \ {g} : outcome'[f] = outcome[f]
    BY <1>16, GotoMoves DEF Refused, FlushFails, Ends, TypeOK
  <2>2. Kept(g)'
    BY <1>16, <2>1 DEF Fresh, Alone, Unrecorded
  <2>3. Apart(g)
    <3>1. CASE Refused(g)
      BY <3>1 DEF Refused, dbVars
    <3>2. ASSUME NEW left, FlushFails(g, left),
                 pending \ FilesOf(RequestOf[g]) \subseteq left
          PROVE  Apart(g)
      <4>1. \A f \in Files : RequestOf[f] # RequestOf[g] =>
               /\ inserted'[f] = inserted[f]
               /\ f \in pending => f \in pending'
               /\ f \in stranded' => f \in stranded
        BY <3>2 DEF FlushFails, Discard, Strand, Siblings, FilesOf
      <4>2. \A f \in Files : RequestOf[f] # RequestOf[g] =>
               /\ rows'[f] = rows[f]
               /\ user'[RequestOf[f]] = user[RequestOf[f]]
               /\ batch'[f] = batch[f]
        BY <3>2 DEF FlushFails, LeaveFlush, TypeOK
      <4> QED
        BY <4>1, <4>2
    <3> QED
      BY <1>16, <3>1, <3>2
  <2> QED
    BY <1>14, <1>16, <2>1, <2>2, <2>3 DEF Refused, FlushFails, Ends,
       Unrecorded
\* f has come to the Session and commits.
<1>17. ASSUME NEW g \in Files, BeginCommit(g) PROVE Sharing'
  <2>1. /\ pc[g] = "commit" /\ outcome[g] = "none" /\ g \notin touched
        /\ touched' = touched \cup {g}
    BY <1>17 DEF BeginCommit, At, Sharing, Fresh
  <2>2. CASE Goto(g, "entering") /\ UNCHANGED <<dbVars, flag, batch,
                                                stranded, outcome>>
    <3>1. Kept(g)'
      BY <2>1, <2>2, GotoMoves
         DEF TypeOK, Sharing, Fresh, Undisturbed, Alone, dbVars, Unrecorded
    <3> QED
      BY <1>14, <2>1, <2>2, <3>1 DEF dbVars, Unrecorded
  <2>3. CASE /\ flag[RequestOf[g]] \/ \E f \in Siblings(g) : At(f, "flushed")
             /\ Goto(g, "flushed")
             /\ UNCHANGED <<dbVars, flag, batch, stranded, outcome>>
    <3>1. ~Alone(g)
      BY <2>1, <2>3, NotAlone DEF At
    <3>2. Kept(g)'
      BY <2>1, <2>3, <3>1, GotoMoves DEF TypeOK, Fresh, Alone, Unrecorded
    <3> QED
      BY <1>14, <2>1, <2>3, <3>2 DEF dbVars, Unrecorded
  <2>4. CASE Disturbed(g) /\ Refused(g)
    BY <1>16, <2>1, <2>4, NotAlone
  <2> QED
    BY <1>17, <2>2, <2>3, <2>4 DEF BeginCommit
<1>18. ASSUME NEW g \in Files, EnterFlush(g) PROVE Sharing'
  <2>1. /\ pc[g] = "entering" /\ g \in touched /\ UNCHANGED touched
        /\ touched' = touched \cup {g}
    BY <1>18 DEF EnterFlush, At, Entered
  <2>2. CASE Refused(g) /\ flag[RequestOf[g]]
    BY <1>16, <2>1, <2>2, NotAlone
  <2>3. CASE /\ PendingOn(RequestOf[g]) = {}
             /\ Goto(g, "flushed")
             /\ UNCHANGED <<dbVars, flushVars, stranded, outcome>>
    <3>1. Kept(g)'
      BY <2>1, <2>3, GotoMoves
         DEF TypeOK, Sharing, Fresh, Undisturbed, Alone, dbVars, Unrecorded,
             PendingOn, FilesOf
    <3> QED
      BY <1>14, <2>1, <2>3, <3>1 DEF dbVars, flushVars, Unrecorded
  <2>4. CASE /\ Goto(g, "flushing")
             /\ batch' = [batch EXCEPT ![g] = PendingOn(RequestOf[g])]
             /\ UNCHANGED <<dbVars, stranded, outcome>>
    <3>1. /\ batch'[g] = PendingOn(RequestOf[g])
          /\ \A f \in Files \ {g} : batch'[f] = batch[f]
      BY <2>4 DEF TypeOK
    <3>2. Kept(g)'
      BY <2>1, <2>4, <3>1, GotoMoves
         DEF TypeOK, Sharing, Fresh, Undisturbed, Alone, dbVars, Unrecorded,
             PendingOn, FilesOf
    <3> QED
      BY <1>14, <2>1, <2>4, <3>1, <3>2 DEF dbVars, Unrecorded
  <2> QED
    BY <1>18, <2>2, <2>3, <2>4 DEF EnterFlush
<1>19. ASSUME NEW g \in Files, Insert(g) PROVE Sharing'
  <2>1. /\ pc[g] = "flushing" /\ g \in touched /\ UNCHANGED touched
        /\ touched' = touched \cup {g}
    BY <1>19 DEF Insert, At, Entered
  <2>2. CASE /\ FlushFails(g, pending)
             /\ \/ g \in stranded
                \/ \E x \in batch[g] : inserted[x] + rows[x] > 0
    <3>1. ASSUME NEW x \in batch[g], inserted[x] + rows[x] > 0
          PROVE  Copies(x) > 0
      BY <3>1 DEF Copies, TypeOK
    <3>2. ~Alone(g)
      BY <2>1, <2>2, <3>1, NotAlone DEF Sharing, Undisturbed
    <3> QED
      BY <1>16, <2>1, <2>2, <3>2
  <2>3. ASSUME NEW S \in SUBSET batch[g], batch[g] \cap pending \subseteq S,
               inserted' = [x \in Files |-> IF x \in S THEN inserted[x] + 1
                                                       ELSE inserted[x]],
               Goto(g, "written"),
               UNCHANGED <<pending, user, rows, flag, batch, stranded,
                           outcome>>
        PROVE  Sharing'
    <3>1. Kept(g)'
      BY <2>1, <2>3, GotoMoves
         DEF TypeOK, Sharing, Fresh, Undisturbed, Alone, Unrecorded
    <3>2. \A f \in Files : RequestOf[f] # RequestOf[g] =>
             inserted'[f] = inserted[f]
      BY <2>3 DEF Placed
    <3> QED
      BY <1>14, <2>1, <2>3, <3>1, <3>2 DEF Unrecorded
  <2> QED
    BY <1>19, <2>2, <2>3 DEF Insert
<1>20. ASSUME NEW g \in Files, Finalize(g) PROVE Sharing'
  <2>1. /\ pc[g] = "written" /\ g \in touched /\ UNCHANGED touched
        /\ touched' = touched \cup {g}
    BY <1>20 DEF Finalize, At, Entered
  <2>2. \A f \in Files : RequestOf[f] # RequestOf[g] =>
           (f \in pending => f \in Unflushed(g))
    BY DEF Unflushed, Placed
  <2>3. CASE g \in stranded /\ FlushFails(g, Unflushed(g))
    <3>1. ~Alone(g)
      BY <2>3 DEF Sharing, Undisturbed
    <3>2. pending \ FilesOf(RequestOf[g]) \subseteq Unflushed(g)
      BY <2>2 DEF FilesOf, TypeOK
    <3> QED
      BY <1>16, <2>1, <2>3, <3>1, <3>2
  <2>4. CASE /\ Goto(g, "entering") /\ LeaveFlush(g)
             /\ pending' = Unflushed(g)
             /\ UNCHANGED <<inserted, user, rows, stranded, outcome>>
    <3>1. Kept(g)'
      BY <2>1, <2>4, GotoMoves
         DEF TypeOK, Sharing, Fresh, Undisturbed, Alone, Unrecorded
    <3>2. \A f \in Files \ {g} : batch'[f] = batch[f]
      BY <2>4 DEF LeaveFlush, TypeOK
    <3> QED
      BY <1>14, <2>1, <2>2, <2>4, <3>1, <3>2 DEF Unrecorded
  <2> QED
    BY <1>20, <2>3, <2>4 DEF Finalize
<1>21. ASSUME NEW g \in Files, Commit(g) PROVE Sharing'
  <2>1. /\ pc[g] = "flushed" /\ g \in touched
        /\ Goto(g, "closing") /\ pc'[g] = "closing"
        /\ outcome' = [outcome EXCEPT ![g] = "returned"]
        /\ g \notin stranded'
        /\ UNCHANGED <<pending, batch, touched>>
    BY <1>21, GotoMoves
       DEF Commit, Ends, Strand, At, TypeOK, Entered, flushVars
  <2>2. rows'[g] = rows[g] + inserted[g]
    BY <1>21 DEF Commit, TypeOK
  <2>3. Kept(g)'
    BY <2>1, <2>2 DEF TypeOK, Sharing, Fresh, Undisturbed, Alone, Unrecorded
  <2>4. \A f \in Files : RequestOf[f] # RequestOf[g] =>
           /\ rows'[f] = rows[f] /\ inserted'[f] = inserted[f]
           /\ user'[RequestOf[f]] = user[RequestOf[f]]
           /\ f \in stranded' => f \in stranded
    BY <1>21 DEF Commit, Strand, Siblings, FilesOf, TypeOK
  <2> QED
    BY <1>14, <2>1, <2>3, <2>4 DEF TypeOK, Unrecorded
<1>22. ASSUME NEW g \in Files, CommitNested(g) PROVE Sharing'
  <2>1. /\ pc[g] = "flushed" /\ g \in touched
        /\ Goto(g, "closing") /\ pc'[g] = "closing"
        /\ outcome' = [outcome EXCEPT ![g] = "returned"]
        /\ UNCHANGED <<dbVars, batch, touched>>
    BY <1>22, GotoMoves
       DEF CommitNested, Ends, At, TypeOK, Entered, flushVars
  <2>2. ~Alone(g)
    BY <1>22, <2>1, NotAlone DEF CommitNested
  <2>3. Kept(g)'
    BY <2>1, <2>2 DEF Fresh, Alone, Unrecorded
  <2>4. \A f \in Files : RequestOf[f] # RequestOf[g] =>
           (f \in stranded' => f \in stranded)
    BY <1>22 DEF CommitNested, Strand, Siblings, FilesOf
  <2> QED
    BY <1>14, <2>1, <2>3, <2>4 DEF TypeOK, Unrecorded, dbVars
<1>23. ASSUME NEW g \in Files, StaleCommit(g) PROVE Sharing'
  <2>1. /\ pc[g] = "flushed" /\ touched' = touched \cup {g} /\ g \in touched'
        /\ ~Alone(g) /\ UNCHANGED touched
    BY <1>23 DEF StaleCommit, At, Entered, Sharing, Undisturbed
  <2>2. CASE /\ Ends(g, "returned") /\ stranded' = stranded \ {g}
             /\ UNCHANGED <<dbVars, flag, batch>>
    <3>1. Kept(g)'
      BY <2>1, <2>2, GotoMoves DEF Ends, TypeOK, Fresh, Alone, Unrecorded
    <3> QED
      BY <1>14, <2>1, <2>2, <3>1 DEF Ends, TypeOK, dbVars, Unrecorded
  <2> QED
    BY <1>16, <1>23, <2>1, <2>2 DEF StaleCommit
<1>24. ASSUME NEW g \in Files, CloseSession(g) PROVE Sharing'
  <2>1. /\ pc[g] = "closing" /\ Goto(g, "cleanup") /\ pc'[g] = "cleanup"
        /\ touched' = touched \cup {g} /\ g \notin stranded'
        /\ UNCHANGED <<rows, outcome, batch>>
    BY <1>24, GotoMoves DEF CloseSession, Strand, At, TypeOK, flushVars
  <2>2. Kept(g)'
    BY <2>1 DEF TypeOK, Sharing, Fresh, Undisturbed, Alone, Unrecorded
  <2>3. \A f \in Files : RequestOf[f] # RequestOf[g] =>
           /\ f \in pending => f \in pending'
           /\ inserted'[f] = inserted[f]
           /\ user'[RequestOf[f]] = user[RequestOf[f]]
           /\ f \in stranded' => f \in stranded
    BY <1>24
       DEF CloseSession, Discard, Strand, Siblings, FilesOf, TypeOK
  <2> QED
    BY <1>14, <2>1, <2>2, <2>3 DEF Unrecorded
<1>25. ASSUME NEW g \in Files, Cleanup(g) PROVE Sharing'
  BY <1>3, <1>25 DEF Cleanup, Unrecorded
<1>26. ASSUME NEW w \in Workers, Crash(w) PROVE Sharing'
  <2>1. /\ \A f \in Files :
              \/ pc'[f] = pc[f] /\ pc[f] \in Settled \cup {"idle"}
              \/ pc'[f] = "crashed"
              \/ /\ pc'[f] = pc[f]
                 /\ f \in pending => f \in pending'
                 /\ inserted'[f] = inserted[f] /\ batch'[f] = batch[f]
        /\ stranded' \subseteq stranded
        /\ UNCHANGED <<user, rows, outcome, touched>>
    BY <1>26 DEF Crash, TypeOK
  <2> QED
    BY <2>1 DEF TypeOK, Sharing, Fresh, Undisturbed, Alone, Unrecorded,
                Settled
<1>27. CASE UNCHANGED vars
  BY <1>2, <1>27 DEF vars, dbVars, callVars, flushVars
<1> QED
  BY <1>5, <1>6, <1>7, <1>8, <1>9, <1>10, <1>11, <1>12, <1>13, <1>15, <1>17,
     <1>18, <1>19, <1>20, <1>21, <1>22, <1>23, <1>24, <1>25, <1>26, <1>27
     DEF Next, Process, Finished

\* A file whose commit_to_ipfs ended normally, or with an error of the
\* Session, and that is not on record shared its Session with another file.
THEOREM NotLostAlone == Spec => []LossNeedsSibling
<1>1. Init => Sharing
  BY StoreAssumption
     DEF Init, Sharing, Fresh, Undisturbed, Alone, Unrecorded
<1>2. TypeOK /\ Sharing => LossNeedsSibling
  BY DEF TypeOK, Sharing, Undisturbed, Alone, LossNeedsSibling
<1> QED
  BY <1>1, <1>2, SharingStep, PlacedInvariant, EnteredInvariant, TypeCorrect,
     PTL DEF Spec

-----------------------------------------------------------------------------
(* What is left on disk.                                                   *)

\* A temporary copy exists only between its making and the cleanup.  Scripts
\* belong to a job that is waiting for IPFS, to one that found no buffer file,
\* or to a process that died; and a job that found none is at its end.
Tidy ==
    \A f \in Files :
        /\ f \in temp =>
              pc[f] \notin {"idle", "accepted", "refused", "failed", "done"}
        /\ f \in litter => \/ pc[f] \in {"adding", "crashed"}
                           \/ outcome[f] = "FileNotFoundError"
        /\ outcome[f] = "FileNotFoundError" =>
              pc[f] \in {"closing", "cleanup", "done", "crashed"}

LEMMA TidyStep == TypeOK /\ Tidy /\ [Next]_vars => Tidy'
<1> SUFFICES ASSUME TypeOK, Tidy, [Next]_vars PROVE Tidy'
  OBVIOUS
<1> USE StoreAssumption DEF TypeOK, Tidy, At
\* The database side leaves the files on disk alone.
<1>1. ASSUME NEW f \in Files, UNCHANGED <<temp, litter, outcome>>,
             pc[f] \in {"owner", "hashed", "closing"} \cup Committing
                \cup {"commit"},
             NEW step \in {"hashing", "commit", "cleanup"} \cup Committing,
             pc[f] = "closing" <=> step = "cleanup",
             Goto(f, step)
      PROVE  Tidy'
  BY <1>1, GotoMoves DEF Committing, Flushing
<1>2. ASSUME NEW f \in Files, UNCHANGED <<temp, litter>>,
             pc[f] \in {"owner", "commit"} \cup Committing,
             NEW how \in Outcomes \ {"FileNotFoundError"}, Ends(f, how)
      PROVE  Tidy'
  BY <1>2, GotoMoves DEF Ends, Committing, Flushing
<1>3. ASSUME NEW r \in Requests, CompressTaskImage(r) PROVE Tidy'
  BY <1>3 DEF CompressTaskImage, ipfsVars
<1>4. ASSUME NEW r \in Requests, Upload(r) PROVE Tidy'
  BY <1>4 DEF Upload, ipfsVars
<1>5. ASSUME NEW f \in Files, SaveToTemp(f) PROVE Tidy'
  BY <1>5, GotoMoves DEF SaveToTemp, ipfsVars
<1>6. ASSUME NEW f \in Files, ProduceCompression(f) PROVE Tidy'
  BY <1>6, GotoMoves DEF ProduceCompression, Continue, ipfsVars
<1>7. ASSUME NEW f \in Files, StartAdd(f) PROVE Tidy'
  BY <1>7, GotoMoves DEF StartAdd
<1>8. ASSUME NEW f \in Files, RunAdd(f) PROVE Tidy'
  BY <1>8 DEF RunAdd
<1>9. ASSUME NEW f \in Files, ReadCid(f) PROVE Tidy'
  BY <1>9, GotoMoves DEF ReadCid, Slept, Ends
<1>10. ASSUME NEW f \in Files, ReadOwner(f) PROVE Tidy'
  <2>1. pc[f] = "owner" /\ UNCHANGED <<temp, litter>>
    BY <1>10 DEF ReadOwner, ipfsVars
  <2>2. \/ Goto(f, "hashing") /\ UNCHANGED outcome
        \/ \E how \in Outcomes \ {"FileNotFoundError"} : Ends(f, how)
    BY <1>10 DEF ReadOwner, Outcomes
  <2> QED
    BY <1>1, <1>2, <2>1, <2>2
<1>11. ASSUME NEW f \in Files, GenerateHash(f) PROVE Tidy'
  BY <1>11, GotoMoves DEF GenerateHash, Ends
<1>12. ASSUME NEW f \in Files, AddRecord(f) PROVE Tidy'
  BY <1>1, <1>12 DEF AddRecord, ipfsVars
<1>13. ASSUME NEW f \in Files,
              \/ BeginCommit(f) \/ EnterFlush(f) \/ Insert(f) \/ Finalize(f)
              \/ Commit(f) \/ CommitNested(f) \/ StaleCommit(f)
       PROVE  Tidy'
  <2>1. /\ pc[f] \in {"commit"} \cup Committing
        /\ UNCHANGED <<temp, litter>>
    BY <1>13
       DEF BeginCommit, EnterFlush, Insert, Finalize, Commit, CommitNested,
           StaleCommit, Committing, Flushing, ipfsVars
  <2>2. \/ \E step \in Committing : Goto(f, step) /\ UNCHANGED outcome
        \/ \E how \in {"returned", "SessionError"} : Ends(f, how)
    BY <1>13
       DEF BeginCommit, EnterFlush, Insert, Finalize, Commit, CommitNested,
           StaleCommit, Refused, FlushFails, Committing, Flushing
  <2>3. {"returned", "SessionError"} \subseteq
           Outcomes \ {"FileNotFoundError"}
    BY DEF Outcomes
  <2>4. ASSUME NEW step \in Committing, Goto(f, step), UNCHANGED outcome
        PROVE  Tidy'
    BY <1>1, <2>1, <2>4 DEF Committing, Flushing
  <2> QED
    BY <1>2, <2>1, <2>2, <2>3, <2>4
<1>14. ASSUME NEW f \in Files, CloseSession(f) PROVE Tidy'
  BY <1>1, <1>14 DEF CloseSession, ipfsVars
<1>15. ASSUME NEW f \in Files, Cleanup(f) PROVE Tidy'
  BY <1>15, GotoMoves DEF Cleanup, ipfsVars
<1>16. ASSUME NEW w \in Workers, Crash(w) PROVE Tidy'
  BY <1>16 DEF Crash, Settled
<1>17. CASE UNCHANGED vars
  BY <1>17 DEF vars
<1> QED
  BY <1>3, <1>4, <1>5, <1>6, <1>7, <1>8, <1>9, <1>10, <1>11, <1>12, <1>13,
     <1>14, <1>15, <1>16, <1>17
     DEF Next, Process, Finished

\* Whatever failed on the way, a file whose processing is over has left no
\* temporary copy, and scripts only if its job found no buffer file.
THEOREM NothingLeftBehind == Spec => []EndLeavesNoFiles
<1>1. Init => Tidy
  BY DEF Init, Tidy
<1>2. Tidy => EndLeavesNoFiles
  BY DEF Tidy, EndLeavesNoFiles, At
<1> QED
  BY <1>1, <1>2, TidyStep, TypeCorrect, PTL DEF Spec

-----------------------------------------------------------------------------
(* The pipeline implements MediaIntake.                                    *)

\* The steps between the answer to the client and the end of the processing.
Over == {"failed", "done", "crashed"}
Active == Steps \ ({"idle", "refused"} \cup Over)

fates == [f \in Files |-> FateOf(f)]

LEMMA FateCases ==
    ASSUME NEW f \in Files, pc[f] \in Steps, rows[f] \in Nat
    PROVE  /\ rows[f] > 0 => FateOf(f) = "stored"
           /\ rows[f] = 0 =>
                 /\ pc[f] \in Active => FateOf(f) = "accepted"
                 /\ pc[f] \in Over /\ Held(f) => FateOf(f) = "accepted"
                 /\ pc[f] \in Over /\ ~Held(f) => FateOf(f) = "dropped"
                 /\ pc[f] = "idle" => FateOf(f) = "new"
                 /\ pc[f] = "refused" => FateOf(f) = "refused"
  BY DEF FateOf, At, Active, Over

\* The steps of MediaIntake that decide the fates of a set of files.
LEMMA FatesMove ==
    ASSUME NEW S \in SUBSET Files, S # {}, NEW a, NEW b,
           \A f \in S : FateOf(f) = a /\ FateOf(f)' = b,
           \A f \in Files \ S : FateOf(f)' = FateOf(f),
           \/ a = "new" /\ b \in {"accepted", "refused"}
           \/ a = "accepted" /\ b \in {"stored", "dropped"}
    PROVE  Intake!Next
  <1>1. fates' = [f \in Files |-> IF f \in S THEN b ELSE fates[f]]
    BY DEF fates
  <1>2. Intake!Move(S, a, b)
    BY <1>1 DEF Intake!Move, fates
  <1>3. [f \in Files |-> FateOf(f)]' # [f \in Files |-> FateOf(f)]
    <2>1. PICK f \in S : TRUE
      OBVIOUS
    <2>2. fates'[f] # fates[f]
      BY <2>1 DEF fates
    <2> QED
      BY <2>2 DEF fates
  <1> QED
    BY <1>2, <1>3
       DEF Intake!Next, Intake!Accept, Intake!Refuse, Intake!Store,
           Intake!Drop

\* A step after which some accepted files share a fate, and the others keep
\* theirs, is one of MediaIntake or none.
LEMMA FatesDecided ==
    ASSUME NEW b \in {"stored", "dropped"},
           \A f \in Files : \/ FateOf(f)' = FateOf(f)
                            \/ FateOf(f) = "accepted" /\ FateOf(f)' = b
    PROVE  Intake!Next \/ UNCHANGED fates
  <1> DEFINE S == {f \in Files : FateOf(f)' # FateOf(f)}
  <1>1. /\ S \in SUBSET Files
        /\ \A f \in S : FateOf(f) = "accepted" /\ FateOf(f)' = b
        /\ \A f \in Files \ S : FateOf(f)' = FateOf(f)
    OBVIOUS
  <1>2. CASE S = {}
    <2>1. \A f \in Files : FateOf(f)' = FateOf(f)
      BY <1>1, <1>2
    <2> QED
      BY <2>1 DEF fates
  <1>3. CASE S # {}
    <2> HIDE DEF S
    <2> QED
      BY <1>1, <1>3, FatesMove
  <1> QED
    BY <1>2, <1>3

\* A step that commits nothing, ends no file's processing for good but that of
\* active files, and lets no record of a finished file back in.
LEMMA NothingRevived ==
    ASSUME TypeOK, TypeOK', UNCHANGED rows,
           \A f \in Files : \/ pc'[f] = pc[f]
                            \/ pc[f] \in Active /\ pc'[f] \in Active \cup Over,
           \A f \in Files : pc[f] \in Over /\ Held(f)' => Held(f)
    PROVE  Intake!Next \/ UNCHANGED fates
  <1> SUFFICES ASSUME NEW f \in Files
               PROVE  \/ FateOf(f)' = FateOf(f)
                      \/ FateOf(f) = "accepted" /\ FateOf(f)' = "dropped"
    BY FatesDecided
  <1>1. pc[f] \in Steps /\ rows[f] \in Nat /\ pc'[f] \in Steps
        /\ rows'[f] = rows[f]
    BY DEF TypeOK
  <1>2. CASE rows[f] > 0
    BY <1>1, <1>2 DEF FateOf
  <1>3. CASE rows[f] = 0 /\ pc[f] \in Active
    <2>1. FateOf(f) = "accepted"
      BY <1>1, <1>3, FateCases
    <2>2. FateOf(f)' \in {"accepted", "dropped"}
      BY <1>1, <1>3 DEF FateOf, At, Active, Over
    <2> QED
      BY <2>1, <2>2
  <1>4. CASE rows[f] = 0 /\ pc[f] \in Over
    <2>1. pc'[f] = pc[f]
      BY <1>4 DEF Active
    <2>2. CASE Held(f)
      <3>1. FateOf(f) = "accepted"
        BY <1>1, <1>4, <2>2, FateCases
      <3>2. FateOf(f)' \in {"accepted", "dropped"}
        BY <1>1, <1>4, <2>1 DEF FateOf, At, Over
      <3> QED
        BY <3>1, <3>2
    <2>3. CASE ~Held(f)
      <3>1. ~Held(f)'
        BY <1>4, <2>3
      <3> QED
        BY <1>1, <1>4, <2>1, <2>3, <3>1 DEF FateOf, At, Over
    <2> QED
      BY <2>2, <2>3
  <1>5. CASE rows[f] = 0 /\ pc[f] \in {"idle", "refused"}
    <2>1. pc'[f] = pc[f]
      BY <1>5 DEF Active
    <2> QED
      BY <1>1, <1>5, <2>1 DEF FateOf, At, Over
  <1> QED
    BY <1>1, <1>2, <1>3, <1>4, <1>5 DEF Active

LEMMA IntakeStep ==
    TypeOK /\ TypeOK' /\ Placed /\ [Next]_vars => [Intake!Next]_fates
<1> SUFFICES ASSUME TypeOK, TypeOK', Placed, [Next]_vars
             PROVE  Intake!Next \/ UNCHANGED fates
  OBVIOUS
<1> USE StoreAssumption DEF Flushing, Committing
<1>0. /\ {"accepted", "saved", "queued", "adding", "owner", "hashing",
          "hashed", "commit", "entering", "flushing", "written", "flushed",
          "closing", "cleanup"} = Active
      /\ {"failed", "done", "crashed"} = Over
  BY DEF Active, Over, Steps, Running, Settled
\* A thread or the event loop takes f one step further.
<1>1. ASSUME NEW f \in Files, UNCHANGED rows,
             pc[f] \in Active, NEW step \in Active \cup Over, Goto(f, step),
             \A x \in Files : pc[x] \in Over /\ Held(x)' => Held(x)
      PROVE  Intake!Next \/ UNCHANGED fates
  <2>1. \A g \in Files : \/ pc'[g] = pc[g]
                         \/ pc[g] \in Active /\ pc'[g] \in Active \cup Over
    BY <1>1, GotoMoves DEF TypeOK
  <2> QED
    BY <1>1, <2>1, NothingRevived
\* A request is answered: its files are accepted or refused together.
<1>2. ASSUME NEW r \in Requests, FilesOf(r) # {},
             NEW answer \in {"accepted", "refused"},
             \A f \in FilesOf(r) : At(f, "idle"),
             pc' = [f \in Files |->
                      IF f \in FilesOf(r) THEN answer ELSE pc[f]],
             UNCHANGED <<rows, inserted, batch>>
      PROVE  Intake!Next
  <2>1. FilesOf(r) \in SUBSET Files
    BY DEF FilesOf
  <2>2. \A f \in FilesOf(r) : FateOf(f) = "new" /\ FateOf(f)' = answer
    <3> SUFFICES ASSUME NEW f \in FilesOf(r)
                 PROVE  FateOf(f) = "new" /\ FateOf(f)' = answer
      OBVIOUS
    <3>1. pc[f] = "idle" /\ rows[f] = 0
      BY <1>2, <2>1 DEF At, Placed, Unrecorded
    <3>2. pc'[f] = answer /\ rows'[f] = 0
      BY <1>2, <2>1, <3>1
    <3> QED
      BY <3>1, <3>2 DEF FateOf, At
  <2>3. \A f \in Files \ FilesOf(r) : FateOf(f)' = FateOf(f)
    BY <1>2 DEF FateOf, At, Held
  <2> QED
    BY <1>2, <2>1, <2>2, <2>3, FatesMove
<1>3. ASSUME NEW r \in Requests, CompressTaskImage(r) PROVE Intake!Next
  BY <1>2, <1>3 DEF CompressTaskImage, dbVars, callVars, flushVars
<1>4. ASSUME NEW r \in Requests, Upload(r) PROVE Intake!Next
  <2>1. FilesOf(r) # {}
    BY <1>4, FS_EmptySet DEF Upload
  <2> QED
    BY <1>2, <1>4, <2>1 DEF Upload, dbVars, callVars, flushVars
\* Steps that leave the records alone.
<1>5. ASSUME NEW f \in Files,
             \/ SaveToTemp(f) \/ ProduceCompression(f) \/ StartAdd(f)
             \/ ReadCid(f) \/ ReadOwner(f) \/ GenerateHash(f) \/ AddRecord(f)
             \/ BeginCommit(f) \/ CommitNested(f) \/ StaleCommit(f)
             \/ Cleanup(f)
      PROVE  Intake!Next \/ UNCHANGED fates
  <2>1. UNCHANGED <<rows, inserted, batch>>
    BY <1>5
       DEF SaveToTemp, ProduceCompression, StartAdd, ReadCid, ReadOwner,
           GenerateHash, AddRecord, BeginCommit, CommitNested, StaleCommit,
           Cleanup, Refused, dbVars, callVars, flushVars
  <2>2. pc[f] \in Active /\ \E step \in Active \cup Over : Goto(f, step)
    BY <1>0, <1>5
       DEF SaveToTemp, ProduceCompression, Continue, StartAdd, ReadCid,
           ReadOwner, GenerateHash, AddRecord, BeginCommit, CommitNested,
           StaleCommit, Cleanup, Refused, Ends, At
  <2> QED
    BY <1>1, <2>1, <2>2 DEF Held
\* What a flush takes is of files that are being committed, what it inserts
\* it has taken before.
<1>6. ASSUME NEW f \in Files, EnterFlush(f)
      PROVE  Intake!Next \/ UNCHANGED fates
  <2>1. /\ pc[f] = "entering" /\ UNCHANGED <<rows, inserted>>
        /\ \E step \in {"flushed", "flushing", "closing"} : Goto(f, step)
        /\ batch' = batch
           \/ batch' = [batch EXCEPT ![f] = PendingOn(RequestOf[f])]
    BY <1>6 DEF EnterFlush, Refused, Ends, At, dbVars, flushVars
  <2>2. \A x \in PendingOn(RequestOf[f]) : pc[x] \notin Over
    BY DEF PendingOn, Placed, InSession, Over
  <2>3. \A x \in Files : pc[x] \in Over /\ Held(x)' => Held(x)
    BY <2>1, <2>2 DEF Held, TypeOK
  <2> QED
    BY <1>0, <1>1, <2>1, <2>3
<1>7. ASSUME NEW f \in Files, Insert(f) \/ Finalize(f) \/ CloseSession(f)
      PROVE  Intake!Next \/ UNCHANGED fates
  <2>1. /\ pc[f] \in {"flushing", "written", "closing"} /\ UNCHANGED rows
        /\ \E step \in {"written", "entering", "cleanup", "closing"} :
              Goto(f, step)
    BY <1>7
       DEF Insert, Finalize, CloseSession, FlushFails, Ends, At
  <2>2. \A g \in Files : batch'[g] \subseteq batch[g]
    BY <1>7
       DEF Insert, Finalize, CloseSession, FlushFails, LeaveFlush, TypeOK,
           flushVars
  <2>3. \A x \in Files : inserted'[x] > 0 => Held(x)
    BY <1>7
       DEF Insert, Finalize, CloseSession, FlushFails, Discard, Held, TypeOK
  <2>4. \A x \in Files : Held(x)' => Held(x)
    BY <2>2, <2>3 DEF Held
  <2> QED
    BY <1>0, <1>1, <2>1, <2>4
\* COMMIT stores the files whose records were in the transaction.
<1>8. ASSUME NEW f \in Files, Commit(f)
      PROVE  Intake!Next \/ UNCHANGED fates
  <2> SUFFICES ASSUME NEW x \in Files
               PROVE  \/ FateOf(x)' = FateOf(x)
                      \/ FateOf(x) = "accepted" /\ FateOf(x)' = "stored"
    BY FatesDecided
  <2>1. /\ pc[f] = "flushed" /\ pc'[f] = "closing"
        /\ \A g \in Files \ {f} : pc'[g] = pc[g]
        /\ UNCHANGED batch
    BY <1>8, GotoMoves DEF Commit, Ends, At, flushVars, TypeOK
  <2>2. /\ rows[x] \in Nat /\ inserted[x] \in Nat
        /\ \/ rows'[x] = rows[x] /\ inserted'[x] = inserted[x]
           \/ rows'[x] = rows[x] + inserted[x] /\ inserted'[x] = 0
    BY <1>8 DEF Commit, TypeOK
  <2>3. CASE rows[x] > 0
    BY <2>2, <2>3 DEF FateOf
  <2>4. CASE rows[x] = 0 /\ rows'[x] > 0
    <3>1. Held(x) /\ pc[x] \in Steps
      BY <2>2, <2>4 DEF Held, TypeOK
    <3>2. pc[x] \notin Unrecorded
      BY <3>1 DEF Placed
    <3>3. FateOf(x) = "accepted"
      BY <2>4, <3>1, <3>2 DEF FateOf, At, Unrecorded
    <3>4. FateOf(x)' = "stored"
      BY <2>4 DEF FateOf
    <3> QED
      BY <3>3, <3>4
  <2>5. CASE rows[x] = 0 /\ rows'[x] = 0
    <3>1. inserted'[x] = inserted[x]
      BY <2>2, <2>5
    <3>2. Held(x)' <=> Held(x)
      BY <2>1, <3>1 DEF Held
    <3> QED
      BY <2>1, <2>5, <3>2 DEF FateOf, At
  <2> QED
    BY <2>2, <2>3, <2>4, <2>5
<1>9. ASSUME NEW w \in Workers, Crash(w)
      PROVE  Intake!Next \/ UNCHANGED fates
  <2>1. \A x \in Files : \/ pc'[x] = pc[x]
                         \/ pc[x] \in Active /\ pc'[x] \in Active \cup Over
    BY <1>0, <1>9 DEF Crash, TypeOK, Settled, Active, Over
  <2>2. /\ \A x \in Files : inserted'[x] > 0 => inserted[x] > 0
        /\ \A x \in Files : batch'[x] \subseteq batch[x]
        /\ UNCHANGED rows
    BY <1>9 DEF Crash, TypeOK
  <2>3. \A x \in Files : Held(x)' => Held(x)
    BY <2>2 DEF Held
  <2> QED
    BY <2>1, <2>2, <2>3, NothingRevived
<1>10. ASSUME UNCHANGED <<pc, dbVars, batch>> PROVE UNCHANGED fates
  BY <1>10 DEF fates, FateOf, At, Held, dbVars
<1>11. ASSUME NEW f \in Files, RunAdd(f) PROVE UNCHANGED fates
  BY <1>10, <1>11 DEF RunAdd, callVars, flushVars
<1>12. CASE UNCHANGED vars
  BY <1>10, <1>12 DEF vars, dbVars
<1> QED
  BY <1>3, <1>4, <1>5, <1>6, <1>7, <1>8, <1>9, <1>11, <1>12
     DEF Next, Process, Finished

\* Requests are accepted or refused as a whole, and the fate of every accepted
\* file is decided once: every step of the pipeline, whatever its threads do to
\* their Session and whichever process dies, is one of MediaIntake or none.
THEOREM ImageStoreImplementsIntake == Spec => ImplementsIntake
<1>1. Init => Intake!Init
  BY DEF Init, Intake!Init, FateOf, At
<1>2. [Intake!Next]_fates <=> [Intake!Next]_([f \in Files |-> FateOf(f)])
  BY DEF fates
<1> QED
  BY <1>1, <1>2, IntakeStep, TypeCorrect, PlacedInvariant, PTL
     DEF Spec, ImplementsIntake, Intake!Spec
=============================================================================
