------------------------- MODULE SyncSessionsProofs -------------------------
(***************************************************************************)
(* Theorems about SyncSessions, for every set of sessions and processes    *)
(* and every number of crashes.                                            *)
(***************************************************************************)
EXTENDS SyncSessions, FiniteSetTheorems, SequenceTheorems, TLAPS

\* What list.remove leaves.
LEMMA WithoutProperties ==
    ASSUME NEW q \in Seq(Sessions), NEW i \in 1..Len(q)
    PROVE  /\ Without(q, i) \in Seq(Sessions)
           /\ Len(Without(q, i)) = Len(q) - 1
           /\ \A j \in 1..Len(q) - 1 :
                 Without(q, i)[j] = IF j < i THEN q[j] ELSE q[j + 1]
<1> DEFINE a == SubSeq(q, 1, i - 1)
           b == SubSeq(q, i + 1, Len(q))
<1>1. Len(q) \in Nat /\ i \in Nat /\ i >= 1 /\ i <= Len(q)
  BY LenProperties
<1>2. \A j \in 1..Len(q) : q[j] \in Sessions
  BY ElementOfSeq
<1>3. /\ a \in Seq(Sessions) /\ Len(a) = i - 1
      /\ \A j \in 1..i - 1 : a[j] = q[j]
  <2>1. 1 \in Int /\ i - 1 \in Int /\ \A j \in 1..i - 1 : q[j] \in Sessions
    BY <1>1, <1>2
  <2>2. /\ a \in Seq(Sessions)
        /\ Len(a) = IF 1 <= i - 1 THEN i - 1 - 1 + 1 ELSE 0
        /\ \A j \in 1..i - 1 - 1 + 1 : a[j] = q[1 + j - 1]
    BY <2>1, SubSeqProperties
  <2> HIDE DEF a
  <2> QED
    BY <1>1, <2>2
<1>4. /\ b \in Seq(Sessions) /\ Len(b) = Len(q) - i
      /\ \A j \in 1..Len(q) - i : b[j] = q[i + j]
  <2>1. /\ i + 1 \in Int /\ Len(q) \in Int
        /\ \A j \in i + 1..Len(q) : q[j] \in Sessions
    BY <1>1, <1>2
  <2>2. /\ b \in Seq(Sessions)
        /\ Len(b) = IF i + 1 <= Len(q) THEN Len(q) - (i + 1) + 1 ELSE 0
        /\ \A j \in 1..Len(q) - (i + 1) + 1 : b[j] = q[i + 1 + j - 1]
    BY <2>1, SubSeqProperties
  <2> HIDE DEF b
  <2> QED
    BY <1>1, <2>2
<1>5. Without(q, i) = a \o b
  BY DEF Without
<1> HIDE DEF a, b
<1>6. /\ a \o b \in Seq(Sessions)
      /\ Len(a \o b) = Len(a) + Len(b)
      /\ \A j \in 1..Len(a) + Len(b) :
            (a \o b)[j] = IF j <= Len(a) THEN a[j] ELSE b[j - Len(a)]
  BY <1>3, <1>4, ConcatProperties
<1> QED
  BY <1>1, <1>3, <1>4, <1>5, <1>6

\* The lists of a scan.
LEMMA ListingProperties ==
    ASSUME NEW S \in SUBSET Sessions, NEW q \in Listings(S)
    PROVE  /\ q \in Seq(Sessions)
           /\ \A i \in 1..Len(q) : q[i] \in S
           /\ \A s \in S : \E i \in 1..Len(q) : q[i] = s
           /\ \A i, j \in 1..Len(q) : q[i] = q[j] => i = j
<1>1. PICK n \in 0..Cardinality(S) : q \in [1..n -> S]
  BY DEF Listings
<1>2. n \in Nat
  BY <1>1
<1>3. q \in Seq(S) /\ Len(q) = n
  BY <1>1, <1>2
<1> QED
  BY <1>1, <1>2, <1>3 DEF Listings

-----------------------------------------------------------------------------

\* A pass that removes something stands at an element of its list.
Position ==
    \A w \in Workers :
        phase[w] \in {"folder", "key"} => index[w] <= Len(sessions[w])

\* A process that fetches is not in the directory of the application.
Away ==
    \A s \in Sessions :
        fetch[s] \in {"downloading", "written", "waiting"} =>
            cwd[WorkerOf[s]] # "app"

Base == TypeOK /\ Position /\ Away

\* The variables of the passes.
LEMMA EndPassKeeps ==
    ASSUME SyncAssumption, Base, NEW w \in Workers, EndPass(w)
    PROVE  /\ phase' \in [Workers -> Phases]
           /\ sessions' \in [Workers -> Seq(Sessions)]
           /\ index' \in [Workers -> Nat \ {0}]
           /\ found' \in [Workers -> Seq(Sessions)]
           /\ overdue' \in [Workers -> SUBSET Sessions]
           /\ Position'
<1>0. <<>> \in Seq(Sessions)
  BY EmptySeq
<1>1. phase' \in [Workers -> Phases]
  BY DEF EndPass, Base, TypeOK, Phases
<1>2. sessions' \in [Workers -> Seq(Sessions)]
  BY <1>0 DEF EndPass, Base, TypeOK
<1>3. index' \in [Workers -> Nat \ {0}]
  BY DEF EndPass, Base, TypeOK, First
<1>4. found' \in [Workers -> Seq(Sessions)]
  BY <1>0 DEF EndPass, Base, TypeOK
<1>5. overdue' \in [Workers -> SUBSET Sessions]
  BY DEF EndPass, Base, TypeOK
<1>6. Position'
  <2> SUFFICES ASSUME NEW v \in Workers, phase'[v] \in {"folder", "key"}
               PROVE  index'[v] <= Len(sessions'[v])
    BY DEF Position
  <2>1. v # w
    BY DEF EndPass, Base, TypeOK
  <2>2. phase'[v] = phase[v] /\ index'[v] = index[v] /\ sessions'[v] = sessions[v]
    BY <2>1 DEF EndPass, Base, TypeOK
  <2> QED
    BY <2>2 DEF Base, Position
<1> QED
  BY <1>1, <1>2, <1>3, <1>4, <1>5, <1>6

LEMMA BaseStep ==
    SyncAssumption /\ Base /\ [Next]_vars => Base'
<1> SUFFICES ASSUME SyncAssumption, Base, [Next]_vars
             PROVE  Base'
  OBVIOUS
<1> USE DEF Base, TypeOK, Position, Away, FetchSteps, Phases, Standing, First,
            SyncAssumption
<1>1. ASSUME NEW s \in Sessions, Activate(s) PROVE Base'
  BY <1>1 DEF Activate, cleanVars
<1>2. ASSUME NEW s \in Sessions, MakeFolder(s) PROVE Base'
  <2>1. WorkerOf[s] \in Workers /\ s # "app"
    OBVIOUS
  <2>2. TypeOK'
    BY <1>2, <2>1 DEF MakeFolder, Underway, cleanVars
  <2>3. Position'
    BY <1>2 DEF MakeFolder, cleanVars
  <2>4. Away'
    BY <1>2, <2>1 DEF MakeFolder
  <2> QED
    BY <2>2, <2>3, <2>4
<1>3. ASSUME NEW s \in Sessions, Download(s) PROVE Base'
  <2>1. WorkerOf[s] \in Workers /\ fetch[s] = "downloading"
    BY <1>3 DEF Download
  <2>2. cwd[WorkerOf[s]] \in {"none", "field"} \cup Sessions
    BY <2>1
  <2>3. placed' \in [Sessions -> {"none", "field"} \cup Sessions]
    <3>1. placed' = placed
          \/ placed' = [placed EXCEPT ![s] = cwd[WorkerOf[s]]]
      BY <1>3 DEF Download, Destination
    <3> QED
      BY <2>2, <3>1
  <2>4. fetch' = [fetch EXCEPT ![s] = "ended"] \/ fetch' = [fetch EXCEPT ![s] = "written"]
    BY <1>3 DEF Download
  <2>5. UNCHANGED <<key, folders, cwd, phase, sessions, index, found, overdue,
                    crashes, early, overlapped>>
    BY <1>3 DEF Download, cleanVars
  <2> QED
    BY <2>1, <2>3, <2>4, <2>5
<1>4. ASSUME NEW s \in Sessions, Summarise(s) \/ Insure(s) \/ Expire(s)
      PROVE  Base'
  BY <1>4 DEF Summarise, Insure, Expire, cleanVars, fetchVars
<1>5. ASSUME NEW w \in Workers, FetchSpecific(w) PROVE Base'
  BY <1>5 DEF FetchSpecific, Underway, cleanVars
<1>6. ASSUME NEW w \in Workers, Scan(w) PROVE Base'
  <2>1. PICK q \in Listings({s \in Sessions : key[s] # "none"}) :
             /\ sessions' = [sessions EXCEPT ![w] = q]
             /\ found' = [found EXCEPT ![w] = q]
    BY <1>6 DEF Scan
  <2>2. q \in Seq(Sessions)
    BY <2>1, ListingProperties
  <2> QED
    BY <1>6, <2>1, <2>2 DEF Scan, fetchVars
<1>8. ASSUME NEW w \in Workers, Check(w) PROVE Base'
  <2> DEFINE q == sessions[w]
             i == index[w]
  <2>0. /\ q \in Seq(Sessions) /\ i \in Nat \ {0} /\ Len(q) \in Nat
        /\ (q # <<>> => Len(q) >= 1)
        /\ phase[w] = "check"
    BY <1>8, EmptySeq, LenProperties DEF Check
  <2>a. UNCHANGED <<fetch, placed, overlapped, key, folders, cwd, crashes, early>>
    BY <1>8 DEF Check, fetchVars
  <2>1. CASE i > Len(q)
    <3>1. /\ phase' = [phase EXCEPT ![w] = IF q = <<>> THEN "sweep" ELSE "folder"]
          /\ index' = [index EXCEPT ![w] = 1]
          /\ UNCHANGED <<sessions, found, overdue>>
      BY <1>8, <2>1 DEF Check
    <3>2. Position'
      BY <2>0, <3>1
    <3> QED
      BY <2>a, <3>1, <3>2
  <2>2. CASE i <= Len(q) /\ key[q[i]] = "none"
    <3>1. EndPass(w)
      BY <1>8, <2>0, <2>2 DEF Check
    <3> QED
      BY <2>a, <3>1, EndPassKeeps
  <2>3. CASE i <= Len(q) /\ key[q[i]] # "none"
    <3>1. Without(q, i) \in Seq(Sessions)
      BY <2>0, <2>3, WithoutProperties
    <3>3. /\ sessions' = sessions \/ sessions' = [sessions EXCEPT ![w] = Without(q, i)]
          /\ index' = [index EXCEPT ![w] = i + 1]
          /\ UNCHANGED <<phase, found, overdue>>
      BY <1>8, <2>0, <2>3 DEF Check
    <3>2. sessions \in [Workers -> Seq(Sessions)]
      OBVIOUS
    <3> HIDE DEF q, i
    <3>4. sessions' \in [Workers -> Seq(Sessions)]
      <4> HIDE DEF Base, TypeOK, Position, Away, SyncAssumption
      <4> QED
        BY <3>1, <3>2, <3>3
    <3>5. index' \in [Workers -> Nat \ {0}]
      BY <2>0, <3>3
    <3>6. Position'
      BY <2>0, <3>3
    <3> QED
      BY <2>a, <3>3, <3>4, <3>5, <3>6
  <2> HIDE DEF Base, q, i
  <2> QED
    BY <2>0, <2>1, <2>2, <2>3
<1>9. ASSUME NEW w \in Workers, RemoveFolder(w) PROVE Base'
  <2>1. sessions[w][index[w]] \in Sessions
    <3>1. index[w] \in 1..Len(sessions[w])
      BY <1>9 DEF RemoveFolder
    <3> QED
      BY <3>1, ElementOfSeq
  <2>2. /\ phase' = [phase EXCEPT ![w] = "key"] /\ phase[w] = "folder"
        /\ folders' \subseteq folders
        /\ UNCHANGED <<fetch, placed, overlapped, key, cwd, sessions, index, found,
                       overdue, crashes>>
    BY <1>9 DEF RemoveFolder, Removed, fetchVars
  <2>3. early' \subseteq Sessions
    BY <1>9, <2>1 DEF RemoveFolder
  <2> QED
    BY <2>2, <2>3
<1>10. ASSUME NEW w \in Workers, DeleteKey(w) PROVE Base'
  <2>1. /\ phase[w] = "key"
        /\ key' = [key EXCEPT ![sessions[w][index[w]]] = "none"]
        /\ UNCHANGED <<fetch, placed, overlapped, folders, cwd, sessions, found,
                       overdue, crashes, early>>
    BY <1>10 DEF DeleteKey, Deleted, fetchVars
  <2>2. /\ key' \in [Sessions -> {"none", "live", "expired"}]
        /\ index[w] \in Nat \ {0} /\ Len(sessions[w]) \in Nat
    BY <2>1, LenProperties
  <2>3. \/ /\ index[w] < Len(sessions[w])
           /\ phase' = [phase EXCEPT ![w] = "folder"]
           /\ index' = [index EXCEPT ![w] = index[w] + 1]
        \/ phase' = [phase EXCEPT ![w] = "sweep"] /\ index' = index
    BY <1>10, <2>1, <2>2 DEF DeleteKey
  <2>4. TypeOK'
    <3>1. phase' \in [Workers -> Phases]
      BY <2>3
    <3>2. index' \in [Workers -> Nat \ {0}]
      <4>1. index[w] + 1 \in Nat \ {0}
        BY <2>2
      <4>2. index \in [Workers -> Nat \ {0}]
        OBVIOUS
      <4>3. index' = index \/ index' = [index EXCEPT ![w] = index[w] + 1]
        BY <2>3
      <4> HIDE DEF Base, TypeOK, Position, Away, SyncAssumption
      <4> QED
        BY <4>1, <4>2, <4>3
    <3> QED
      BY <2>1, <2>2, <3>1, <3>2
  <2>5. Position'
    BY <2>1, <2>2, <2>3
  <2>6. Away'
    BY <2>1
  <2> QED
    BY <2>4, <2>5, <2>6
<1>11. ASSUME NEW w \in Workers, Sweep(w) PROVE Base'
  <2>1. EndPass(w) /\ UNCHANGED <<fetch, placed, overlapped, key, cwd, crashes, early>>
    BY <1>11 DEF Sweep, fetchVars
  <2>2. folders' \subseteq Sessions
    BY <1>11 DEF Sweep
  <2> QED
    BY <2>1, <2>2, EndPassKeeps
<1>12. ASSUME NEW w \in Workers, Crash(w) PROVE Base'
  <2>1. EndPass(w) /\ UNCHANGED <<key, folders, placed, early, overlapped>>
    BY <1>12 DEF Crash
  <2>2. fetch' \in [Sessions -> FetchSteps]
    BY <1>12 DEF Crash
  <2>3. cwd' \in [Workers -> Standing \cup Sessions] /\ crashes' \in 0..MaxCrashes
    BY <1>12 DEF Crash
  <2>4. Away'
    BY <1>12 DEF Crash
  <2> QED
    BY <2>1, <2>2, <2>3, <2>4, EndPassKeeps
<1>13. CASE UNCHANGED vars
  BY <1>13 DEF vars, fetchVars, cleanVars
<1> QED
  BY <1>1, <1>2, <1>3, <1>4, <1>5, <1>6, <1>8, <1>9, <1>10, <1>11, <1>12, <1>13
     DEF Next, Proceed, Clean

LEMMA BaseHolds == Spec => []Base
<1>1. SyncAssumption /\ Init => Base
  BY EmptySeq DEF SyncAssumption, Init, Base, TypeOK, Position, Away, FetchSteps,
                  Phases, Standing
<1> QED
  BY <1>1, BaseStep, SyncAssumption, PTL DEF Spec

\* Every reachable state has its types, in particular whatever the cleaner
\* takes from the list it iterates over.
THEOREM SyncTypeCorrect == Spec => []TypeOK
<1>1. Base => TypeOK
  BY DEF Base
<1> QED
  BY <1>1, BaseHolds, PTL

-----------------------------------------------------------------------------
(* WaitNeedsOverlap                                                        *)

\* A fetch that no other handler has come between stands in its own folder.
WaitsFor(t) ==
    /\ t \notin overlapped /\ fetch[t] \in {"downloading", "written", "waiting"} =>
          cwd[WorkerOf[t]] = t /\ placed[t] \in {"none", t}
    /\ fetch[t] \in {"idle", "activated", "downloading"} => placed[t] = "none"
    /\ fetch[t] = "waiting" /\ placed[t] # "none" => t \in overlapped

Waits == \A t \in Sessions : WaitsFor(t)

LEMMA WaitsStep ==
    SyncAssumption /\ Base /\ Waits /\ [Next]_vars => Waits'
<1> SUFFICES ASSUME SyncAssumption, Base, Waits, [Next]_vars,
                    NEW t \in Sessions
             PROVE  WaitsFor(t)'
  BY DEF Waits
<1>0. /\ WaitsFor(t) /\ WorkerOf[t] \in Workers /\ t # "none"
      /\ fetch \in [Sessions -> FetchSteps]
      /\ cwd \in [Workers -> Standing \cup Sessions]
      /\ placed \in [Sessions -> {"none", "field"} \cup Sessions]
  BY DEF Waits, SyncAssumption, Base, TypeOK
<1> USE DEF WaitsFor
<1>1. ASSUME NEW s \in Sessions, Activate(s) PROVE WaitsFor(t)'
  BY <1>0, <1>1 DEF Activate
<1>2. ASSUME NEW s \in Sessions, MakeFolder(s) PROVE WaitsFor(t)'
  <2>0. WorkerOf[s] \in Workers
    BY DEF SyncAssumption
  <2>1. CASE s = t
    BY <1>0, <1>2, <2>1 DEF MakeFolder
  <2>2. CASE s # t /\ WorkerOf[s] = WorkerOf[t]
    BY <1>0, <1>2, <2>2 DEF MakeFolder, Underway
  <2>3. CASE s # t /\ WorkerOf[s] # WorkerOf[t]
    BY <1>0, <1>2, <2>0, <2>3 DEF MakeFolder, Underway
  <2> QED
    BY <2>1, <2>2, <2>3
<1>3. ASSUME NEW s \in Sessions, Download(s) PROVE WaitsFor(t)'
  BY <1>0, <1>3 DEF Download, Destination
<1>4. ASSUME NEW s \in Sessions, Summarise(s) PROVE WaitsFor(t)'
  <2>1. CASE s = t
    BY <1>0, <1>4, <2>1 DEF Summarise, Insured
  <2>2. CASE s # t
    BY <1>0, <1>4, <2>2 DEF Summarise
  <2> QED
    BY <2>1, <2>2
<1>5. ASSUME NEW s \in Sessions, Insure(s) PROVE WaitsFor(t)'
  BY <1>0, <1>5 DEF Insure
<1>6. ASSUME NEW w \in Workers, FetchSpecific(w) PROVE WaitsFor(t)'
  <2>1. CASE WorkerOf[t] = w
    BY <1>0, <1>6, <2>1 DEF FetchSpecific, Underway
  <2>2. CASE WorkerOf[t] # w
    BY <1>0, <1>6, <2>2 DEF FetchSpecific, Underway
  <2> QED
    BY <2>1, <2>2
<1>7. ASSUME NEW w \in Workers, Crash(w) PROVE WaitsFor(t)'
  BY <1>0, <1>7 DEF Crash, FetchSteps
<1>8. ASSUME UNCHANGED <<fetch, placed, overlapped, cwd>> PROVE WaitsFor(t)'
  BY <1>0, <1>8
<1>9. ASSUME NEW s \in Sessions, Expire(s) PROVE WaitsFor(t)'
  BY <1>8, <1>9 DEF Expire, fetchVars
<1>10. ASSUME NEW w \in Workers, Clean(w) PROVE WaitsFor(t)'
  BY <1>8, <1>10 DEF Clean, Scan, Check, RemoveFolder, DeleteKey, Sweep, fetchVars
<1>11. CASE UNCHANGED vars
  BY <1>8, <1>11 DEF vars, fetchVars
<1> QED
  BY <1>1, <1>2, <1>3, <1>4, <1>5, <1>6, <1>7, <1>9, <1>10, <1>11 DEF Next, Proceed

\* A fetch whose files have come completely waits for them only if another
\* handler changed the working directory of the process meanwhile.
THEOREM WaitsNeedOverlaps == Spec => []WaitNeedsOverlap
<1>1. Init => Waits
  BY DEF Init, Waits, WaitsFor
<1>2. Waits => WaitNeedsOverlap
  BY DEF Waits, WaitsFor, WaitNeedsOverlap
<1> QED
  BY <1>1, <1>2, WaitsStep, BaseHolds, SyncAssumption, PTL DEF Spec

-----------------------------------------------------------------------------
(* OrphanWasUnexpired                                                      *)

\* The three things a turn of get_expired_sessions may do.
LEMMA CheckCases ==
    ASSUME SyncAssumption, Base, NEW w \in Workers, Check(w)
    PROVE  /\ phase[w] = "check"
           /\ UNCHANGED <<fetchVars, key, folders, cwd, crashes, early>>
           /\ \/ /\ index[w] > Len(sessions[w])
                 /\ phase' = [phase EXCEPT ![w] = IF sessions[w] = <<>>
                                                  THEN "sweep" ELSE "folder"]
                 /\ index' = [index EXCEPT ![w] = 1]
                 /\ UNCHANGED <<sessions, found, overdue>>
              \/ EndPass(w)
              \/ /\ index[w] \in 1..Len(sessions[w])
                 /\ index' = [index EXCEPT ![w] = index[w] + 1]
                 /\ UNCHANGED <<phase, found, overdue>>
                 /\ \/ /\ key[sessions[w][index[w]]] # "live"
                       /\ sessions' = sessions
                    \/ /\ key[sessions[w][index[w]]] = "live"
                       /\ sessions' = [sessions EXCEPT
                                          ![w] = Without(sessions[w], index[w])]
<1>1. index[w] \in Nat \ {0} /\ Len(sessions[w]) \in Nat
  BY LenProperties DEF Base, TypeOK
<1>2. CASE index[w] > Len(sessions[w])
  BY <1>2 DEF Check, First
<1>3. CASE ~(index[w] > Len(sessions[w])) /\ key[sessions[w][index[w]]] = "none"
  BY <1>3 DEF Check
<1>4. CASE ~(index[w] > Len(sessions[w])) /\ key[sessions[w][index[w]]] # "none"
  <2>1. index[w] \in 1..Len(sessions[w])
    BY <1>1, <1>4
  <2> QED
    BY <2>1, <1>4 DEF Check, Takes
<1> QED
  BY <1>2, <1>3, <1>4

\* Keys and folders of a session before its folder is made, and after.
OrphanFor(t) ==
    /\ fetch[t] = "idle" => key[t] = "none" /\ t \notin folders
    /\ fetch[t] = "activated" => /\ key[t] # "expired" /\ t \notin folders
                                 /\ key[t] = "none" => t \in early
    /\ t \in folders /\ key[t] = "none" => t \in early

\* A session that the cleaner of v has listed was opened.  When its folder has
\* been removed, either it will not be made again or the session was taken
\* early.
OrphanAt(v) ==
    /\ \A i \in 1..Len(sessions[v]) : fetch[sessions[v][i]] # "idle"
    /\ phase[v] = "key" =>
          LET s == sessions[v][index[v]] IN
          s \in early \/ (s \notin folders /\ fetch[s] # "activated")

Orphans == (\A t \in Sessions : OrphanFor(t)) /\ (\A v \in Workers : OrphanAt(v))

\* The key that a process is about to delete is a session that was opened.
LEMMA Current ==
    ASSUME Base, NEW v \in Workers, phase[v] \in {"folder", "key"}
    PROVE  /\ index[v] \in 1..Len(sessions[v])
           /\ sessions[v][index[v]] \in Sessions
<1>1. index[v] \in 1..Len(sessions[v])
  BY LenProperties DEF Base, TypeOK, Position
<1>2. sessions[v] \in Seq(Sessions)
  BY DEF Base, TypeOK
<1> QED
  BY <1>1, <1>2, ElementOfSeq

LEMMA OrphanForStep ==
    ASSUME SyncAssumption, Base, Orphans, [Next]_vars, NEW t \in Sessions
    PROVE  OrphanFor(t)'
<1>0. /\ OrphanFor(t)
      /\ fetch \in [Sessions -> FetchSteps]
      /\ key \in [Sessions -> {"none", "live", "expired"}]
      /\ folders \subseteq Sessions /\ early \subseteq Sessions
  BY DEF Orphans, Base, TypeOK
<1> USE DEF OrphanFor
<1>1. ASSUME NEW s \in Sessions, Activate(s) PROVE OrphanFor(t)'
  BY <1>0, <1>1 DEF Activate
<1>2. ASSUME NEW s \in Sessions, MakeFolder(s) PROVE OrphanFor(t)'
  BY <1>0, <1>2 DEF MakeFolder
<1>3. ASSUME NEW s \in Sessions, Download(s) \/ Summarise(s) \/ Insure(s)
      PROVE  OrphanFor(t)'
  BY <1>0, <1>3 DEF Download, Summarise, Insure
<1>4. ASSUME NEW s \in Sessions, Expire(s) PROVE OrphanFor(t)'
  BY <1>0, <1>4 DEF Expire, fetchVars
<1>5. ASSUME UNCHANGED <<fetch, key, early>>, folders' \subseteq folders
      PROVE  OrphanFor(t)'
  BY <1>0, <1>5
<1>6. ASSUME NEW w \in Workers, FetchSpecific(w) \/ Scan(w) \/ Check(w)
      PROVE  OrphanFor(t)'
  BY <1>5, <1>6 DEF FetchSpecific, Scan, Check, fetchVars
<1>7. ASSUME NEW w \in Workers, Sweep(w) PROVE OrphanFor(t)'
  BY <1>5, <1>7 DEF Sweep, fetchVars
<1>8. ASSUME NEW w \in Workers, RemoveFolder(w) PROVE OrphanFor(t)'
  BY <1>0, <1>8 DEF RemoveFolder, Removed, fetchVars
<1>9. ASSUME NEW w \in Workers, DeleteKey(w) PROVE OrphanFor(t)'
  <2> DEFINE c == sessions[w][index[w]]
  <2>1. /\ phase[w] = "key" /\ key' = [key EXCEPT ![c] = "none"]
        /\ UNCHANGED <<fetch, folders, early>>
    BY <1>9 DEF DeleteKey, Deleted, fetchVars
  <2>2. /\ c \in Sessions /\ fetch[c] # "idle"
        /\ c \in early \/ (c \notin folders /\ fetch[c] # "activated")
    BY <2>1, Current DEF Orphans, OrphanAt
  <2> HIDE DEF c
  <2> QED
    BY <1>0, <2>1, <2>2
<1>10. ASSUME NEW w \in Workers, Crash(w) PROVE OrphanFor(t)'
  BY <1>0, <1>10 DEF Crash, FetchSteps
<1>11. CASE UNCHANGED vars
  BY <1>5, <1>11 DEF vars, fetchVars
<1> QED
  BY <1>1, <1>2, <1>3, <1>4, <1>6, <1>7, <1>8, <1>9, <1>10, <1>11
     DEF Next, Proceed, Clean

\* What no step undoes for a session that has been opened.
LEMMA Onward ==
    ASSUME SyncAssumption, Base, [Next]_vars, NEW t \in Sessions
    PROVE  /\ fetch[t] # "idle" => fetch'[t] # "idle"
           /\ fetch[t] \notin {"idle", "activated"} =>
                 /\ fetch'[t] \notin {"idle", "activated"}
                 /\ t \notin folders => t \notin folders'
           /\ t \in early => t \in early'
           /\ fetch[t] # "idle" /\ key[t] # "live" => key'[t] # "live"
           /\ fetch[t] # "idle" /\ key[t] = "none" => key'[t] = "none"
<1> DEFINE Goal == /\ fetch[t] # "idle" => fetch'[t] # "idle"
                   /\ fetch[t] \notin {"idle", "activated"} =>
                         /\ fetch'[t] \notin {"idle", "activated"}
                         /\ t \notin folders => t \notin folders'
                   /\ t \in early => t \in early'
                   /\ fetch[t] # "idle" /\ key[t] # "live" => key'[t] # "live"
                   /\ fetch[t] # "idle" /\ key[t] = "none" => key'[t] = "none"
<1> SUFFICES Goal
  BY DEF Goal
<1>0. /\ fetch \in [Sessions -> FetchSteps]
      /\ key \in [Sessions -> {"none", "live", "expired"}]
  BY DEF Base, TypeOK
<1>1. ASSUME NEW s \in Sessions, Activate(s) \/ MakeFolder(s) PROVE Goal
  BY <1>0, <1>1 DEF Activate, MakeFolder
<1>2. ASSUME NEW s \in Sessions, Download(s) \/ Summarise(s) \/ Insure(s)
      PROVE  Goal
  BY <1>0, <1>2 DEF Download, Summarise, Insure
<1>3. ASSUME NEW s \in Sessions, Expire(s) PROVE Goal
  BY <1>0, <1>3 DEF Expire, fetchVars
<1>4. ASSUME NEW w \in Workers, FetchSpecific(w) \/ Scan(w) \/ Check(w)
      PROVE  Goal
  BY <1>4 DEF FetchSpecific, Scan, Check, fetchVars
<1>5. ASSUME NEW w \in Workers, RemoveFolder(w) \/ Sweep(w) PROVE Goal
  BY <1>5 DEF RemoveFolder, Removed, Sweep, fetchVars
<1>6. ASSUME NEW w \in Workers, DeleteKey(w) PROVE Goal
  BY <1>0, <1>6 DEF DeleteKey, Deleted, fetchVars
<1>7. ASSUME NEW w \in Workers, Crash(w) PROVE Goal
  BY <1>0, <1>7 DEF Crash
<1>8. CASE UNCHANGED vars
  BY <1>8 DEF vars, fetchVars
<1> HIDE DEF Goal
<1>9. CASE Next
  <2>1. CASE \E s \in Sessions : Activate(s) \/ Proceed(s) \/ Expire(s)
    BY <1>1, <1>2, <1>3, <2>1 DEF Proceed
  <2>2. CASE \E w \in Workers : FetchSpecific(w) \/ Clean(w) \/ Crash(w)
    BY <1>4, <1>5, <1>6, <1>7, <2>2 DEF Clean
  <2> QED
    BY <1>9, <2>1, <2>2 DEF Next
<1> QED
  BY <1>8, <1>9

\* Nobody else changes the variables of a pass.
LEMMA OwnPass ==
    ASSUME SyncAssumption, Base, [Next]_vars, NEW v \in Workers
    PROVE  \/ /\ phase'[v] = phase[v] /\ sessions'[v] = sessions[v]
              /\ index'[v] = index[v] /\ found'[v] = found[v]
              /\ overdue'[v] = overdue[v]
           \/ Clean(v) \/ Crash(v)
<1> DEFINE Same == /\ phase'[v] = phase[v] /\ sessions'[v] = sessions[v]
                   /\ index'[v] = index[v] /\ found'[v] = found[v]
                   /\ overdue'[v] = overdue[v]
<1> SUFFICES Same \/ Clean(v) \/ Crash(v)
  BY DEF Same
<1>0. /\ phase \in [Workers -> Phases] /\ sessions \in [Workers -> Seq(Sessions)]
      /\ index \in [Workers -> Nat \ {0}] /\ found \in [Workers -> Seq(Sessions)]
      /\ overdue \in [Workers -> SUBSET Sessions]
  BY DEF Base, TypeOK
<1>1. ASSUME NEW s \in Sessions, Activate(s) \/ Proceed(s) \/ Expire(s)
      PROVE  Same
  BY <1>1 DEF Activate, Proceed, MakeFolder, Download, Summarise, Insure, Expire,
              cleanVars
<1>2. ASSUME NEW w \in Workers \ {v}, EndPass(w) PROVE Same
  BY <1>0, <1>2 DEF EndPass
<1>3. ASSUME NEW w \in Workers \ {v}, Check(w) PROVE Same
  <2>1. \/ /\ phase' = phase \/ \E p \in Phases : phase' = [phase EXCEPT ![w] = p]
           /\ \E i \in Nat : index' = [index EXCEPT ![w] = i]
           /\ \/ sessions' = sessions
              \/ sessions' = [sessions EXCEPT ![w] = Without(sessions[w], index[w])]
           /\ UNCHANGED <<found, overdue>>
        \/ EndPass(w)
    <3>1. index[w] + 1 \in Nat
      BY <1>0
    <3> QED
      BY <1>3, <3>1, CheckCases DEF Phases
  <2> QED
    BY <1>0, <1>2, <2>1
<1>4. ASSUME NEW w \in Workers \ {v}, Scan(w) \/ RemoveFolder(w) \/ DeleteKey(w)
      PROVE  Same
  BY <1>0, <1>4 DEF Scan, RemoveFolder, DeleteKey
<1>5. ASSUME NEW w \in Workers \ {v}, Sweep(w) \/ Crash(w) PROVE Same
  BY <1>2, <1>5 DEF Sweep, Crash
<1>6. ASSUME NEW w \in Workers, FetchSpecific(w) PROVE Same
  BY <1>6 DEF FetchSpecific, cleanVars
<1>7. CASE UNCHANGED vars
  BY <1>7 DEF vars, cleanVars
<1> HIDE DEF Same
<1>8. CASE Next
  <2>1. CASE \E s \in Sessions : Activate(s) \/ Proceed(s) \/ Expire(s)
    BY <1>1, <2>1
  <2>2. CASE \E w \in Workers : FetchSpecific(w) \/ Clean(w) \/ Crash(w)
    <3>1. PICK w \in Workers : FetchSpecific(w) \/ Clean(w) \/ Crash(w)
      BY <2>2
    <3>2. CASE w = v
      BY <1>6, <3>1, <3>2
    <3>3. CASE w # v
      BY <1>3, <1>4, <1>5, <1>6, <3>1, <3>3 DEF Clean
    <3> QED
      BY <3>2, <3>3
  <2> QED
    BY <1>8, <2>1, <2>2 DEF Next
<1> QED
  BY <1>7, <1>8

LEMMA OrphanAtStep ==
    ASSUME SyncAssumption, Base, Orphans, [Next]_vars, NEW v \in Workers
    PROVE  OrphanAt(v)'
<1>0. /\ OrphanAt(v)
      /\ sessions[v] \in Seq(Sessions) /\ Len(sessions[v]) \in Nat
      /\ \A i \in 1..Len(sessions[v]) : sessions[v][i] \in Sessions
  BY ElementOfSeq, LenProperties DEF Orphans, Base, TypeOK
<1>a. phase \in [Workers -> Phases] /\ sessions \in [Workers -> Seq(Sessions)]
      /\ index \in [Workers -> Nat \ {0}]
  BY DEF Base, TypeOK
<1>1. CASE /\ phase'[v] = phase[v] /\ sessions'[v] = sessions[v]
           /\ index'[v] = index[v]
  <2>1. \A i \in 1..Len(sessions[v]) : fetch'[sessions[v][i]] # "idle"
    BY <1>0, Onward DEF OrphanAt
  <2>2. ASSUME phase[v] = "key"
        PROVE  LET s == sessions[v][index[v]] IN
               s \in early' \/ (s \notin folders' /\ fetch'[s] # "activated")
    <3> DEFINE s == sessions[v][index[v]]
    <3>1. s \in Sessions /\ fetch[s] # "idle"
      BY <2>2, <1>0, Current DEF OrphanAt
    <3>2. s \in early \/ (s \notin folders /\ fetch[s] # "activated")
      BY <2>2, <1>0 DEF OrphanAt
    <3> HIDE DEF s
    <3>3. s \in early' \/ (s \notin folders' /\ fetch'[s] # "activated")
      BY <3>1, <3>2, Onward
    <3> QED
      BY <3>3 DEF s
  <2> QED
    BY <1>1, <2>1, <2>2 DEF OrphanAt
<1>2. ASSUME EndPass(v) PROVE OrphanAt(v)'
  <2>1. phase'[v] = "rest" /\ sessions'[v] = <<>>
    BY <1>a, <1>2 DEF EndPass
  <2> QED
    BY <2>1 DEF OrphanAt
<1>3. CASE Scan(v)
  <2>1. PICK q \in Listings({s \in Sessions : key[s] # "none"}) :
             sessions' = [sessions EXCEPT ![v] = q]
    BY <1>3 DEF Scan
  <2>2. \A i \in 1..Len(q) : q[i] \in {s \in Sessions : key[s] # "none"}
    BY <2>1, ListingProperties
  <2>3. \A i \in 1..Len(q) : fetch[q[i]] # "idle"
    BY <2>2 DEF Orphans, OrphanFor
  <2>4. sessions'[v] = q /\ phase'[v] = "check" /\ fetch' = fetch
    BY <1>a, <1>3, <2>1 DEF Scan, fetchVars
  <2> QED
    BY <2>3, <2>4 DEF OrphanAt
<1>4. CASE Check(v)
  <2>1. phase[v] = "check" /\ fetch' = fetch
    BY <1>4, CheckCases DEF fetchVars
  <2>2. CASE EndPass(v)
    BY <1>2, <2>2
  <2>3. CASE sessions' = sessions /\ phase'[v] # "key"
    BY <1>0, <2>1, <2>3 DEF OrphanAt
  <2>4. CASE /\ index[v] \in 1..Len(sessions[v]) /\ phase' = phase
             /\ sessions' = [sessions EXCEPT ![v] = Without(sessions[v], index[v])]
    <3> DEFINE q == sessions[v]
               r == Without(q, index[v])
    <3>1. /\ r \in Seq(Sessions) /\ Len(r) = Len(q) - 1
          /\ \A j \in 1..Len(q) - 1 :
                r[j] = IF j < index[v] THEN q[j] ELSE q[j + 1]
      BY <1>0, <2>4, WithoutProperties
    <3>2. sessions'[v] = r /\ phase'[v] = "check"
      BY <1>a, <2>1, <2>4
    <3>3. \A i \in 1..Len(q) : fetch[q[i]] # "idle"
      BY <1>0 DEF OrphanAt
    <3> HIDE DEF r, q
    <3>4. Len(q) \in Nat
      BY <1>0 DEF q
    <3>5. \A j \in 1..Len(r) : fetch[r[j]] # "idle"
      BY <3>1, <3>3, <3>4
    <3> QED
      BY <2>1, <3>2, <3>5 DEF OrphanAt
  <2>5. phase'[v] # "key" \/ EndPass(v)
    BY <1>4, <1>a, <2>1, CheckCases
  <2> QED
    BY <1>4, <2>1, <2>2, <2>3, <2>4, <2>5, CheckCases
<1>5. CASE RemoveFolder(v)
  <2> DEFINE s == sessions[v][index[v]]
  <2>1. /\ phase[v] = "folder" /\ phase'[v] = "key"
        /\ UNCHANGED <<fetch, sessions, index, key>>
        /\ folders' = folders \ {s}
        /\ early' = early \cup {t \in {s} : key[t] = "live"}
    BY <1>5, <1>a DEF RemoveFolder, Removed, fetchVars
  <2>2. s \in Sessions /\ fetch[s] # "idle"
    BY <1>0, <2>1, Current DEF OrphanAt
  <2>3. key[s] \in {"none", "live", "expired"} /\ OrphanFor(s)
    BY <2>2 DEF Orphans, Base, TypeOK
  <2>4. s \in early' \/ (s \notin folders' /\ fetch'[s] # "activated")
    <3> HIDE DEF s
    <3> QED
      BY <2>1, <2>2, <2>3 DEF OrphanFor
  <2> QED
    BY <1>0, <2>1, <2>4 DEF OrphanAt
<1>6. CASE DeleteKey(v)
  <2>1. phase'[v] # "key" /\ UNCHANGED <<fetch, sessions>>
    BY <1>6, <1>a DEF DeleteKey, fetchVars
  <2> QED
    BY <1>0, <2>1 DEF OrphanAt
<1> QED
  BY <1>1, <1>2, <1>3, <1>4, <1>5, <1>6, OwnPass DEF Clean, Sweep, Crash

LEMMA OrphansHold == Spec => []Orphans
<1>1. Init => Orphans
  BY DEF Init, Orphans, OrphanFor, OrphanAt
<1>2. SyncAssumption /\ Base /\ Orphans /\ [Next]_vars => Orphans'
  BY OrphanForStep, OrphanAtStep DEF Orphans
<1> QED
  BY <1>1, <1>2, BaseHolds, SyncAssumption, PTL DEF Spec

\* A folder is out of the cleaner's reach only if the cleaner took the session
\* before it had expired: removing the folder, deleting the key and making the
\* folder may come in any order in any processes.
THEOREM OrphansWereUnexpired == Spec => []OrphanWasUnexpired
<1>1. Base /\ Orphans => OrphanWasUnexpired
  BY DEF Base, TypeOK, Orphans, OrphanFor, OrphanWasUnexpired
<1> QED
  BY <1>1, BaseHolds, OrphansHold, PTL

-----------------------------------------------------------------------------
(* PassReclaimsExpired                                                     *)

\* What is left to do for s at a pass of v.
Ahead(s, v) ==
    \/ /\ phase[v] = "check"
       /\ \E i \in 1..Len(sessions[v]) : sessions[v][i] = s
    \/ /\ phase[v] = "folder"
       /\ \E i \in index[v]..Len(sessions[v]) : sessions[v][i] = s
    \/ /\ phase[v] = "key"
       /\ \/ sessions[v][index[v]] = s /\ s \notin folders
          \/ \E i \in index[v] + 1..Len(sessions[v]) : sessions[v][i] = s
    \/ /\ phase[v] \in {"folder", "key", "sweep"}
       /\ key[s] = "none" /\ s \notin folders

\* A session that had expired is not opened again, is not taken from the list,
\* and either lies ahead in the list or is gone.
ReclaimAt(v) ==
    \A s \in overdue[v] :
        /\ fetch[s] \notin {"idle", "activated"}
        /\ key[s] # "live"
        /\ Ahead(s, v)

Reclaim == \A v \in Workers : ReclaimAt(v)

LEMMA ReclaimStep ==
    ASSUME SyncAssumption, Base, Orphans, Reclaim, [Next]_vars, NEW v \in Workers
    PROVE  ReclaimAt(v)'
<1>0. /\ ReclaimAt(v)
      /\ sessions[v] \in Seq(Sessions) /\ Len(sessions[v]) \in Nat
      /\ index[v] \in Nat \ {0} /\ overdue[v] \subseteq Sessions
      /\ \A i \in 1..Len(sessions[v]) : sessions[v][i] \in Sessions
  BY ElementOfSeq, LenProperties DEF Reclaim, Base, TypeOK
<1>a. /\ phase \in [Workers -> Phases] /\ sessions \in [Workers -> Seq(Sessions)]
      /\ index \in [Workers -> Nat \ {0}] /\ overdue \in [Workers -> SUBSET Sessions]
  BY DEF Base, TypeOK
<1>b. \A s \in overdue[v] :
         /\ fetch'[s] \notin {"idle", "activated"} /\ key'[s] # "live"
         /\ s \notin folders => s \notin folders'
         /\ key[s] = "none" => key'[s] = "none"
  BY <1>0, Onward DEF ReclaimAt
<1>1. CASE /\ phase'[v] = phase[v] /\ sessions'[v] = sessions[v]
           /\ index'[v] = index[v] /\ overdue'[v] = overdue[v]
  <2> SUFFICES ASSUME NEW s \in overdue[v]
               PROVE  Ahead(s, v)'
    BY <1>1, <1>b DEF ReclaimAt
  <2>1. Ahead(s, v)
    BY <1>0 DEF ReclaimAt
  <2>2. CASE phase[v] = "check"
    BY <1>1, <2>1, <2>2 DEF Ahead
  <2>3. CASE phase[v] = "folder"
    BY <1>1, <1>b, <2>1, <2>3 DEF Ahead
  <2>4. CASE phase[v] = "key"
    BY <1>1, <1>b, <2>1, <2>4 DEF Ahead
  <2>5. CASE phase[v] = "sweep"
    BY <1>1, <1>b, <2>1, <2>5 DEF Ahead
  <2> QED
    BY <2>1, <2>2, <2>3, <2>4, <2>5 DEF Ahead
<1>2. ASSUME EndPass(v) PROVE ReclaimAt(v)'
  <2>1. overdue'[v] = {}
    BY <1>a, <1>2 DEF EndPass
  <2> QED
    BY <2>1 DEF ReclaimAt
<1>3. CASE Scan(v)
  <2> DEFINE S == {s \in Sessions : key[s] # "none"}
  <2>1. PICK q \in Listings(S) : sessions' = [sessions EXCEPT ![v] = q]
    BY <1>3 DEF Scan
  <2>2. \A s \in S : \E i \in 1..Len(q) : q[i] = s
    <3>1. S \in SUBSET Sessions
      OBVIOUS
    <3> HIDE DEF S
    <3> QED
      BY <3>1, ListingProperties
  <2>4. /\ sessions'[v] = q /\ phase'[v] = "check" /\ fetch' = fetch /\ key' = key
        /\ overdue'[v] = {s \in Sessions : key[s] = "expired"}
    BY <1>a, <1>3, <2>1 DEF Scan, fetchVars
  <2> SUFFICES ASSUME NEW s \in Sessions, key[s] = "expired"
               PROVE  fetch[s] \notin {"idle", "activated"} /\ Ahead(s, v)'
    BY <2>4 DEF ReclaimAt
  <2>5. fetch[s] \notin {"idle", "activated"}
    BY DEF Orphans, OrphanFor
  <2>6. \E i \in 1..Len(q) : q[i] = s
    BY <2>2
  <2> QED
    BY <2>4, <2>5, <2>6 DEF Ahead
<1>4. CASE Check(v)
  <2>1. phase[v] = "check" /\ UNCHANGED <<fetch, key, folders>>
    BY <1>4, CheckCases DEF fetchVars
  <2>2. \A s \in overdue[v] : \E i \in 1..Len(sessions[v]) : sessions[v][i] = s
    BY <1>0, <2>1 DEF ReclaimAt, Ahead
  <2>3. CASE EndPass(v)
    BY <1>2, <2>3
  <2>4. CASE /\ phase' = [phase EXCEPT ![v] = IF sessions[v] = <<>>
                                              THEN "sweep" ELSE "folder"]
             /\ index' = [index EXCEPT ![v] = 1]
             /\ UNCHANGED <<sessions, overdue>>
    <3> SUFFICES ASSUME NEW s \in overdue[v] PROVE Ahead(s, v)'
      BY <1>b, <2>4 DEF ReclaimAt
    <3>1. \E i \in 1..Len(sessions[v]) : sessions[v][i] = s
      BY <2>2
    <3>2. sessions[v] # <<>>
      BY <3>1
    <3>3. phase'[v] = "folder" /\ index'[v] = 1 /\ sessions' = sessions
      BY <1>a, <2>4, <3>2
    <3> QED
      BY <3>1, <3>3 DEF Ahead
  <2>5. CASE UNCHANGED <<phase, sessions, overdue>>
    <3> SUFFICES ASSUME NEW s \in overdue[v] PROVE Ahead(s, v)'
      BY <1>b, <2>5 DEF ReclaimAt
    <3> QED
      BY <2>1, <2>2, <2>5 DEF Ahead
  <2>6. CASE /\ index[v] \in 1..Len(sessions[v])
             /\ key[sessions[v][index[v]]] = "live"
             /\ sessions' = [sessions EXCEPT ![v] = Without(sessions[v], index[v])]
             /\ UNCHANGED <<phase, overdue>>
    <3> SUFFICES ASSUME NEW s \in overdue[v] PROVE Ahead(s, v)'
      BY <1>b, <2>6 DEF ReclaimAt
    <3> DEFINE q == sessions[v]
               r == Without(q, index[v])
    <3>1. /\ Len(r) = Len(q) - 1
          /\ \A j \in 1..Len(q) - 1 :
                r[j] = IF j < index[v] THEN q[j] ELSE q[j + 1]
      BY <1>0, <2>6, WithoutProperties
    <3>2. PICK i \in 1..Len(q) : q[i] = s
      BY <2>2
    <3>3. i # index[v]
      BY <1>0, <2>6, <3>2 DEF ReclaimAt
    <3>4. sessions'[v] = r /\ phase'[v] = "check"
      BY <1>a, <2>1, <2>6
    <3> HIDE DEF r
    <3>5. \E j \in 1..Len(r) : r[j] = s
      <4>1. CASE i < index[v]
        <5>1. i \in 1..Len(q) - 1
          BY <1>0, <2>6, <4>1
        <5>2. r[i] = s
          BY <3>1, <3>2, <4>1, <5>1
        <5> QED
          BY <3>1, <5>1, <5>2
      <4>2. CASE i > index[v]
        <5>1. i - 1 \in 1..Len(q) - 1 /\ ~(i - 1 < index[v]) /\ i - 1 + 1 = i
          BY <1>0, <2>6, <4>2
        <5>2. r[i - 1] = q[i - 1 + 1]
          BY <3>1, <5>1
        <5>3. r[i - 1] = s
          BY <3>2, <5>1, <5>2
        <5> QED
          BY <3>1, <5>1, <5>3
      <4> QED
        BY <1>0, <2>6, <3>3, <4>1, <4>2
    <3> QED
      BY <3>4, <3>5 DEF Ahead
  <2> QED
    BY <1>4, <2>3, <2>4, <2>5, <2>6, CheckCases
<1>5. CASE RemoveFolder(v)
  <2> DEFINE c == sessions[v][index[v]]
  <2>1. /\ phase[v] = "folder" /\ phase'[v] = "key"
        /\ UNCHANGED <<key, sessions, index, overdue>>
        /\ folders' = folders \ {c}
    BY <1>5, <1>a DEF RemoveFolder, Removed
  <2> SUFFICES ASSUME NEW s \in overdue[v] PROVE Ahead(s, v)'
    BY <1>b, <2>1 DEF ReclaimAt
  <2>2. \/ key[s] = "none" /\ s \notin folders
        \/ \E i \in index[v]..Len(sessions[v]) : sessions[v][i] = s
    BY <1>0, <2>1 DEF ReclaimAt, Ahead
  <2>3. \/ key[s] = "none" /\ s \notin folders
        \/ c = s
        \/ \E i \in index[v] + 1..Len(sessions[v]) : sessions[v][i] = s
    BY <1>0, <2>2
  <2> QED
    BY <2>1, <2>3 DEF Ahead
<1>6. CASE DeleteKey(v)
  <2> DEFINE c == sessions[v][index[v]]
  <2>1. /\ phase[v] = "key" /\ key' = [key EXCEPT ![c] = "none"]
        /\ UNCHANGED <<folders, sessions, overdue>>
    BY <1>6 DEF DeleteKey, Deleted
  <2>2. \/ /\ index[v] < Len(sessions[v])
           /\ phase'[v] = "folder" /\ index'[v] = index[v] + 1
        \/ /\ ~(index[v] < Len(sessions[v]))
           /\ phase'[v] = "sweep" /\ index'[v] = index[v]
    BY <1>6, <1>a DEF DeleteKey
  <2> SUFFICES ASSUME NEW s \in overdue[v] PROVE Ahead(s, v)'
    BY <1>b, <2>1 DEF ReclaimAt
  <2>3. \/ key[s] = "none" /\ s \notin folders
        \/ c = s /\ s \notin folders
        \/ \E i \in index[v] + 1..Len(sessions[v]) : sessions[v][i] = s
    BY <1>0, <2>1 DEF ReclaimAt, Ahead
  <2>4. c \in Sessions
    BY <2>1, Current
  <2>5. key' = [key EXCEPT ![c] = "none"] /\ key \in [Sessions -> {"none", "live", "expired"}]
    BY <2>1 DEF Base, TypeOK
  <2> HIDE DEF c
  <2>6. \/ key'[s] = "none" /\ s \notin folders'
        \/ \E i \in index[v] + 1..Len(sessions[v]) : sessions[v][i] = s
    BY <2>1, <2>3, <2>4, <2>5
  <2>7. CASE phase'[v] = "folder" /\ index'[v] = index[v] + 1
    BY <2>1, <2>6, <2>7 DEF Ahead
  <2>8. CASE ~(index[v] < Len(sessions[v])) /\ phase'[v] = "sweep"
    <3>1. index[v] + 1..Len(sessions[v]) = {}
      BY <1>0, <2>8
    <3> QED
      BY <2>6, <2>8, <3>1 DEF Ahead
  <2> QED
    BY <2>2, <2>7, <2>8
<1> QED
  BY <1>1, <1>2, <1>3, <1>4, <1>5, <1>6, OwnPass DEF Clean, Sweep, Crash

\* A pass of the cleaner that gets to its end has removed every session that
\* had expired when it began, although it takes elements from the list it
\* iterates over and other processes clean, fetch and die meanwhile.
THEOREM PassesReclaimExpired == Spec => []PassReclaimsExpired
<1>1. Init => Reclaim
  BY DEF Init, Reclaim, ReclaimAt
<1>2. SyncAssumption /\ Base /\ Orphans /\ Reclaim /\ [Next]_vars => Reclaim'
  BY ReclaimStep DEF Reclaim
<1>3. Reclaim => PassReclaimsExpired
  BY DEF Reclaim, ReclaimAt, Ahead, PassReclaimsExpired
<1> QED
  BY <1>1, <1>2, <1>3, BaseHolds, OrphansHold, SyncAssumption, PTL DEF Spec

-----------------------------------------------------------------------------
(* UnexpiredKept                                                           *)

\* The list of v has no repetitions.  While it is being checked, what has not
\* been looked at is the end of what the scan found.  Every unexpired session
\* that has been passed over was skipped.
SkipAt(v) ==
    LET q == sessions[v]
        f == found[v]
    IN
    /\ \A i, j \in 1..Len(q) : q[i] = q[j] => i = j
    /\ phase[v] = "check" =>
          /\ Len(q) <= Len(f)
          /\ \A j \in 1..Len(q) : j >= index[v] => q[j] = f[j + (Len(f) - Len(q))]
    /\ \A j \in 1..Len(q) :
          (phase[v] = "check" => j < index[v]) /\ key[q[j]] = "live" =>
              SkippedIn(q[j], v)

Skips == \A v \in Workers : SkipAt(v)

\* Taking the i-th element q[i], which is unexpired, out of a list that is
\* aligned with f makes the next element one that was skipped.
LEMMA TakeAligned ==
    ASSUME NEW q \in Seq(Sessions), NEW f \in Seq(Sessions), NEW i \in 1..Len(q),
           Len(q) <= Len(f),
           \A j \in 1..Len(q) : j >= i => q[j] = f[j + (Len(f) - Len(q))],
           \A m, n \in 1..Len(q) : q[m] = q[n] => m = n
    PROVE  LET r == Without(q, i) IN
           /\ \A m, n \in 1..Len(r) : r[m] = r[n] => m = n
           /\ Len(r) <= Len(f)
           /\ \A j \in 1..Len(r) : j >= i + 1 => r[j] = f[j + (Len(f) - Len(r))]
           /\ \A j \in 1..Len(r) : \E m \in 1..Len(q) : r[j] = q[m]
           /\ \A j \in 1..Len(r) : j < i => r[j] = q[j]
           /\ i \in 1..Len(r) =>
                 \E k \in 1..Len(f) - 1 :
                    /\ f[k + 1] = r[i]
                    /\ \A m \in 1..Len(r) : r[m] # f[k]
<1> DEFINE r == Without(q, i)
<1>0. Len(q) \in Nat /\ Len(f) \in Nat
  BY LenProperties
<1>1. /\ Len(r) = Len(q) - 1
      /\ \A j \in 1..Len(q) - 1 : r[j] = IF j < i THEN q[j] ELSE q[j + 1]
  BY WithoutProperties
<1> HIDE DEF r
<1>2. \A m, n \in 1..Len(r) : r[m] = r[n] => m = n
  <2> SUFFICES ASSUME NEW m \in 1..Len(r), NEW n \in 1..Len(r), r[m] = r[n]
               PROVE  m = n
    OBVIOUS
  <2> DEFINE a == IF m < i THEN m ELSE m + 1
             b == IF n < i THEN n ELSE n + 1
  <2>1. a \in 1..Len(q) /\ b \in 1..Len(q)
    BY <1>0, <1>1
  <2>2. q[a] = q[b]
    BY <1>0, <1>1
  <2>3. a = b
    BY <2>1, <2>2
  <2> QED
    BY <2>3, <1>0
<1>3. \A j \in 1..Len(r) : j >= i + 1 => r[j] = f[j + (Len(f) - Len(r))]
  <2> SUFFICES ASSUME NEW j \in 1..Len(r), j >= i + 1
               PROVE  r[j] = f[j + (Len(f) - Len(r))]
    OBVIOUS
  <2>1. j + 1 \in 1..Len(q) /\ j + 1 >= i /\ r[j] = q[j + 1]
    BY <1>0, <1>1
  <2>2. q[j + 1] = f[j + 1 + (Len(f) - Len(q))]
    BY <2>1
  <2>3. j + 1 + (Len(f) - Len(q)) = j + (Len(f) - Len(r))
    BY <1>0, <1>1
  <2> QED
    BY <2>1, <2>2, <2>3
<1>4. \A j \in 1..Len(r) : \E m \in 1..Len(q) : m # i /\ r[j] = q[m]
  <2> SUFFICES ASSUME NEW j \in 1..Len(r)
               PROVE  \E m \in 1..Len(q) : m # i /\ r[j] = q[m]
    OBVIOUS
  <2>1. CASE j < i
    <3>1. j \in 1..Len(q) /\ j # i /\ r[j] = q[j]
      BY <1>0, <1>1, <2>1
    <3> QED
      BY <3>1
  <2>2. CASE ~(j < i)
    <3>1. j + 1 \in 1..Len(q) /\ j + 1 # i /\ r[j] = q[j + 1]
      BY <1>0, <1>1, <2>2
    <3> QED
      BY <3>1
  <2> QED
    BY <2>1, <2>2
<1>5. ASSUME i \in 1..Len(r)
      PROVE  \E k \in 1..Len(f) - 1 : /\ f[k + 1] = r[i]
                                      /\ \A m \in 1..Len(r) : r[m] # f[k]
  <2> DEFINE k == i + (Len(f) - Len(q))
  <2>1. k \in 1..Len(f) - 1
    BY <1>0, <1>1, <1>5
  <2>2. f[k] = q[i]
    BY <1>0
  <2>3. i + 1 \in 1..Len(q) /\ r[i] = q[i + 1] /\ i + 1 >= i
    BY <1>0, <1>1, <1>5
  <2>4. q[i + 1] = f[i + 1 + (Len(f) - Len(q))]
    BY <2>3
  <2>5. i + 1 + (Len(f) - Len(q)) = k + 1
    BY <1>0
  <2>6. \A m \in 1..Len(r) : r[m] # f[k]
    BY <1>4, <2>2
  <2> QED
    BY <2>1, <2>3, <2>4, <2>5, <2>6
<1>6. Len(r) <= Len(f) /\ \A j \in 1..Len(r) : j < i => r[j] = q[j]
  BY <1>0, <1>1
<1> QED
  BY <1>2, <1>3, <1>4, <1>5, <1>6 DEF r

LEMMA SkipStep ==
    ASSUME SyncAssumption, Base, Orphans, Skips, [Next]_vars, NEW v \in Workers
    PROVE  SkipAt(v)'
<1>0. /\ SkipAt(v)
      /\ sessions[v] \in Seq(Sessions) /\ found[v] \in Seq(Sessions)
      /\ index[v] \in Nat \ {0}
      /\ Len(sessions[v]) \in Nat /\ Len(found[v]) \in Nat
      /\ \A i \in 1..Len(sessions[v]) : sessions[v][i] \in Sessions
  BY ElementOfSeq, LenProperties DEF Skips, Base, TypeOK
<1>a. /\ phase \in [Workers -> Phases] /\ sessions \in [Workers -> Seq(Sessions)]
      /\ index \in [Workers -> Nat \ {0}] /\ found \in [Workers -> Seq(Sessions)]
  BY DEF Base, TypeOK
<1>b. \A i \in 1..Len(sessions[v]) :
         key'[sessions[v][i]] = "live" => key[sessions[v][i]] = "live"
  BY <1>0, Onward DEF Orphans, OrphanAt
<1>1. ASSUME sessions'[v] = sessions[v], found'[v] = found[v],
             \/ phase'[v] = phase[v] /\ index'[v] = index[v]
             \/ phase[v] # "check" /\ phase'[v] # "check"
      PROVE  SkipAt(v)'
  <2>1. \A s : SkippedIn(s, v) => SkippedIn(s, v)'
    BY <1>1 DEF SkippedIn
  <2> QED
    BY <1>0, <1>1, <1>b, <2>1 DEF SkipAt
<1>2. ASSUME EndPass(v) PROVE SkipAt(v)'
  <2>1. phase'[v] = "rest" /\ sessions'[v] = <<>>
    BY <1>a, <1>2 DEF EndPass
  <2> QED
    BY <2>1 DEF SkipAt
<1>3. CASE Scan(v)
  <2> DEFINE S == {s \in Sessions : key[s] # "none"}
  <2>1. PICK q \in Listings(S) : /\ sessions' = [sessions EXCEPT ![v] = q]
                                 /\ found' = [found EXCEPT ![v] = q]
    BY <1>3 DEF Scan
  <2>2. q \in Seq(Sessions) /\ \A i, j \in 1..Len(q) : q[i] = q[j] => i = j
    <3>1. S \in SUBSET Sessions
      OBVIOUS
    <3> HIDE DEF S
    <3> QED
      BY <3>1, ListingProperties
  <2>3. /\ sessions'[v] = q /\ found'[v] = q /\ index'[v] = 1 /\ phase'[v] = "check"
    BY <1>a, <1>3, <2>1 DEF Scan, First
  <2>4. Len(q) \in Nat /\ \A j \in 1..Len(q) : j + (Len(q) - Len(q)) = j /\ ~(j < 1)
    BY <2>2, LenProperties
  <2> QED
    BY <2>2, <2>3, <2>4 DEF SkipAt
<1>4. CASE Check(v)
  <2>1. phase[v] = "check" /\ key' = key
    BY <1>4, CheckCases
  <2>2. CASE EndPass(v)
    BY <1>2, <2>2
  <2>3. CASE /\ index[v] > Len(sessions[v])
             /\ phase' = [phase EXCEPT ![v] = IF sessions[v] = <<>>
                                              THEN "sweep" ELSE "folder"]
             /\ UNCHANGED <<sessions, found>>
    <3>1. phase'[v] # "check"
      BY <1>a, <2>3
    <3>2. \A s : SkippedIn(s, v) => SkippedIn(s, v)'
      BY <2>3 DEF SkippedIn
    <3>3. \A j \in 1..Len(sessions[v]) : j < index[v]
      BY <1>0, <2>3
    <3> QED
      BY <1>0, <2>1, <2>3, <3>1, <3>2, <3>3 DEF SkipAt
  <2>4. CASE /\ index[v] \in 1..Len(sessions[v])
             /\ index' = [index EXCEPT ![v] = index[v] + 1]
             /\ UNCHANGED <<phase, found, sessions>>
             /\ key[sessions[v][index[v]]] # "live"
    <3>1. index'[v] = index[v] + 1
      BY <1>a, <2>4
    <3>2. \A s : SkippedIn(s, v) => SkippedIn(s, v)'
      BY <2>4 DEF SkippedIn
    <3>3. \A j \in 1..Len(sessions[v]) :
             /\ j >= index[v] + 1 => j >= index[v]
             /\ j < index[v] + 1 => j < index[v] \/ j = index[v]
      BY <1>0
    <3> QED
      BY <1>0, <2>1, <2>4, <3>1, <3>2, <3>3 DEF SkipAt
  <2>5. CASE /\ index[v] \in 1..Len(sessions[v])
             /\ index' = [index EXCEPT ![v] = index[v] + 1]
             /\ UNCHANGED <<phase, found>>
             /\ sessions' = [sessions EXCEPT ![v] = Without(sessions[v], index[v])]
    <3> DEFINE q == sessions[v]
               f == found[v]
               i == index[v]
               r == Without(q, i)
    <3>1. sessions'[v] = r /\ index'[v] = i + 1 /\ found'[v] = f /\ phase'[v] = "check"
      BY <1>a, <2>1, <2>5
    <3>2. /\ q \in Seq(Sessions) /\ f \in Seq(Sessions) /\ i \in 1..Len(q)
          /\ Len(q) <= Len(f)
          /\ \A j \in 1..Len(q) : j >= i => q[j] = f[j + (Len(f) - Len(q))]
          /\ \A m, n \in 1..Len(q) : q[m] = q[n] => m = n
          /\ \A j \in 1..Len(q) : j < i /\ key[q[j]] = "live" =>
                \E k \in 1..Len(f) - 1 : /\ f[k + 1] = q[j]
                                         /\ \A m \in 1..Len(q) : q[m] # f[k]
      BY <1>0, <2>1, <2>5 DEF SkipAt, SkippedIn
    <3> HIDE DEF q, f, i
    <3>3. /\ \A m, n \in 1..Len(r) : r[m] = r[n] => m = n
          /\ Len(r) <= Len(f)
          /\ \A j \in 1..Len(r) : j >= i + 1 => r[j] = f[j + (Len(f) - Len(r))]
          /\ \A j \in 1..Len(r) : \E m \in 1..Len(q) : r[j] = q[m]
          /\ \A j \in 1..Len(r) : j < i => r[j] = q[j]
          /\ i \in 1..Len(r) =>
                \E k \in 1..Len(f) - 1 :
                   /\ f[k + 1] = r[i]
                   /\ \A m \in 1..Len(r) : r[m] # f[k]
      BY <3>2, TakeAligned
    <3>a. Len(r) \in Nat /\ Len(r) = Len(q) - 1 /\ i \in Nat /\ Len(q) \in Nat
      BY <3>2, WithoutProperties, LenProperties
    <3> HIDE DEF r
    <3>4. \A j \in 1..Len(r) : j < i + 1 /\ key[r[j]] = "live" =>
             \E k \in 1..Len(f) - 1 : /\ f[k + 1] = r[j]
                                      /\ \A m \in 1..Len(r) : r[m] # f[k]
      <4> SUFFICES ASSUME NEW j \in 1..Len(r), j < i + 1, key[r[j]] = "live"
                   PROVE  \E k \in 1..Len(f) - 1 :
                             /\ f[k + 1] = r[j]
                             /\ \A m \in 1..Len(r) : r[m] # f[k]
        OBVIOUS
      <4>1. CASE j < i
        <5>1. j \in 1..Len(q) /\ r[j] = q[j]
          BY <3>3, <3>a, <4>1
        <5>2. PICK k \in 1..Len(f) - 1 : /\ f[k + 1] = q[j]
                                         /\ \A m \in 1..Len(q) : q[m] # f[k]
          BY <3>2, <4>1, <5>1
        <5>3. \A m \in 1..Len(r) : r[m] # f[k]
          BY <3>3, <5>2
        <5> QED
          BY <5>1, <5>2, <5>3
      <4>2. CASE j = i
        BY <3>3, <4>2
      <4> QED
        BY <3>a, <4>1, <4>2
    <3> QED
      BY <2>1, <3>1, <3>3, <3>4 DEF SkipAt, SkippedIn
  <2> QED
    BY <1>4, <2>2, <2>3, <2>4, <2>5, CheckCases
<1>5. CASE RemoveFolder(v)
  BY <1>1, <1>5, <1>a DEF RemoveFolder
<1>6. CASE DeleteKey(v)
  BY <1>1, <1>6, <1>a DEF DeleteKey
<1> QED
  BY <1>1, <1>2, <1>3, <1>4, <1>5, <1>6, OwnPass DEF Clean, Sweep, Crash

LEMMA SkipsHold == Spec => []Skips
<1>1. Init => Skips
  BY DEF Init, Skips, SkipAt
<1>2. SyncAssumption /\ Base /\ Orphans /\ Skips /\ [Next]_vars => Skips'
  BY SkipStep DEF Skips
<1> QED
  BY <1>1, <1>2, BaseHolds, OrphansHold, SyncAssumption, PTL DEF Spec

\* What removes the folder of an unexpired session.
Excused(s) ==
    \E w \in Workers : \/ phase[w] = "folder" /\ SkippedIn(s, w)
                       \/ phase[w] = "sweep" /\ cwd[w] = "field"

LEMMA RemovalExcused ==
    ASSUME SyncAssumption, Base, Skips, [Next]_vars,
           NEW s \in folders \ folders', key[s] = "live"
    PROVE  Excused(s)
<1>1. ASSUME NEW t \in Sessions, Activate(t) \/ Proceed(t) \/ Expire(t) PROVE FALSE
  BY <1>1 DEF Activate, Proceed, MakeFolder, Download, Summarise, Insure, Expire
<1>2. ASSUME NEW w \in Workers,
             FetchSpecific(w) \/ Scan(w) \/ Check(w) \/ DeleteKey(w) \/ Crash(w)
      PROVE  FALSE
  BY <1>2 DEF FetchSpecific, Scan, Check, DeleteKey, Crash
<1>3. ASSUME NEW w \in Workers, RemoveFolder(w) PROVE Excused(s)
  <2>1. phase[w] = "folder" /\ s = sessions[w][index[w]]
    BY <1>3 DEF RemoveFolder, Removed
  <2>2. index[w] \in 1..Len(sessions[w])
    BY <2>1, Current
  <2>3. SkippedIn(s, w)
    BY <2>1, <2>2 DEF Skips, SkipAt
  <2> QED
    BY <2>1, <2>3 DEF Excused
<1>4. ASSUME NEW w \in Workers, Sweep(w) PROVE Excused(s)
  BY <1>4 DEF Sweep, Excused
<1>5. CASE UNCHANGED vars
  BY <1>5 DEF vars
<1>6. CASE Next
  <2>1. CASE \E t \in Sessions : Activate(t) \/ Proceed(t) \/ Expire(t)
    BY <1>1, <2>1
  <2>2. CASE \E w \in Workers : FetchSpecific(w) \/ Clean(w) \/ Crash(w)
    BY <1>2, <1>3, <1>4, <2>2 DEF Clean
  <2> QED
    BY <1>6, <2>1, <2>2 DEF Next
<1> QED
  BY <1>5, <1>6

\* The folder of an unexpired session is removed in two cases only: the pass
\* never looked at its key because the key before it was unexpired, or the
\* sweep ran in a process that GET /fetch had moved to FILE_PLAYING_FIELD.
THEOREM UnexpiredAreKept == Spec => UnexpiredKept
<1> DEFINE A == \A s \in folders \ folders' : key[s] = "live" => Excused(s)
<1>1. SyncAssumption /\ Base /\ Skips /\ [Next]_vars => [A]_vars
  BY RemovalExcused
<1>2. [A]_vars <=> [\A s \in folders \ folders' :
                       key[s] = "live" =>
                           \E w \in Workers :
                               \/ phase[w] = "folder" /\ SkippedIn(s, w)
                               \/ phase[w] = "sweep" /\ cwd[w] = "field"]_vars
  BY DEF Excused
<1> HIDE DEF A
<1> QED
  BY <1>1, <1>2, BaseHolds, SkipsHold, SyncAssumption, PTL DEF Spec, UnexpiredKept

-----------------------------------------------------------------------------
(* ImplementsLife                                                          *)

\* What a scan has found was opened, and a session whose folder has just been
\* removed either had expired or counts as taken.
PassAt(v) ==
    /\ \A i \in 1..Len(found[v]) : fetch[found[v][i]] # "idle"
    /\ phase[v] = "key" =>
          LET s == sessions[v][index[v]] IN s \in early \/ key[s] # "live"

Passes == \A v \in Workers : PassAt(v)

LEMMA PassStep ==
    ASSUME SyncAssumption, Base, Orphans, Passes, [Next]_vars, NEW v \in Workers
    PROVE  PassAt(v)'
<1>0. /\ PassAt(v)
      /\ found[v] \in Seq(Sessions)
      /\ \A i \in 1..Len(found[v]) : found[v][i] \in Sessions
  BY ElementOfSeq DEF Passes, Base, TypeOK
<1>a. /\ phase \in [Workers -> Phases] /\ found \in [Workers -> Seq(Sessions)]
      /\ sessions \in [Workers -> Seq(Sessions)]
      /\ index \in [Workers -> Nat \ {0}]
  BY DEF Base, TypeOK
<1>b. \A i \in 1..Len(found[v]) : fetch'[found[v][i]] # "idle"
  BY <1>0, Onward DEF PassAt
<1>1. CASE /\ phase'[v] = phase[v] /\ sessions'[v] = sessions[v]
           /\ index'[v] = index[v] /\ found'[v] = found[v]
  <2>1. ASSUME phase[v] = "key"
        PROVE  LET s == sessions[v][index[v]] IN s \in early' \/ key'[s] # "live"
    <3> DEFINE s == sessions[v][index[v]]
    <3>1. s \in Sessions /\ fetch[s] # "idle"
      BY <2>1, Current DEF Orphans, OrphanAt
    <3>2. s \in early \/ key[s] # "live"
      BY <1>0, <2>1 DEF PassAt
    <3> HIDE DEF s
    <3>3. s \in early' \/ key'[s] # "live"
      BY <3>1, <3>2, Onward
    <3> QED
      BY <3>3 DEF s
  <2> QED
    BY <1>1, <1>b, <2>1 DEF PassAt
<1>2. CASE EndPass(v)
  <2>1. phase'[v] = "rest" /\ found'[v] = <<>>
    BY <1>a, <1>2 DEF EndPass
  <2> QED
    BY <2>1 DEF PassAt
<1>3. CASE Scan(v)
  <2>1. PICK q \in Listings({s \in Sessions : key[s] # "none"}) :
             found' = [found EXCEPT ![v] = q]
    BY <1>3 DEF Scan
  <2>2. \A i \in 1..Len(q) : q[i] \in {s \in Sessions : key[s] # "none"}
    BY <2>1, ListingProperties
  <2>3. \A i \in 1..Len(q) : fetch[q[i]] # "idle"
    BY <2>2 DEF Orphans, OrphanFor
  <2>4. found'[v] = q /\ phase'[v] = "check" /\ fetch' = fetch
    BY <1>a, <1>3, <2>1 DEF Scan, fetchVars
  <2> QED
    BY <2>3, <2>4 DEF PassAt
<1>4. CASE found'[v] = found[v] /\ phase'[v] # "key"
  BY <1>4, <1>b DEF PassAt
<1>5. CASE Check(v)
  <2>1. EndPass(v) \/ (found'[v] = found[v] /\ phase'[v] # "key")
    BY <1>5, <1>a, CheckCases
  <2> QED
    BY <1>2, <1>4, <2>1
<1>6. CASE RemoveFolder(v)
  <2> DEFINE s == sessions[v][index[v]]
  <2>1. /\ phase'[v] = "key" /\ UNCHANGED <<sessions, index, key, found>>
        /\ early' = early \cup {t \in {s} : key[t] = "live"}
    BY <1>6, <1>a DEF RemoveFolder
  <2>2. s \in early' \/ key'[s] # "live"
    <3> HIDE DEF s
    <3> QED
      BY <2>1
  <2> QED
    BY <1>b, <2>1, <2>2 DEF PassAt
<1>7. CASE DeleteKey(v)
  <2>1. found' = found /\ phase'[v] # "key"
    BY <1>7, <1>a DEF DeleteKey
  <2> QED
    BY <1>4, <2>1
<1> QED
  BY <1>1, <1>2, <1>3, <1>5, <1>6, <1>7, OwnPass DEF Clean, Sweep, Crash

LEMMA PassesHold == Spec => []Passes
<1>1. Init => Passes
  BY DEF Init, Passes, PassAt
<1>2. SyncAssumption /\ Base /\ Orphans /\ Passes /\ [Next]_vars => Passes'
  BY PassStep DEF Passes
<1> QED
  BY <1>1, <1>2, BaseHolds, OrphansHold, SyncAssumption, PTL DEF Spec

\* The sessions as SessionLife sees them.
stages == [s \in Sessions |-> Stage[fetch[s]]]

\* A fetch that goes a step further opens its session, or is past that.
LEMMA StageMoves ==
    ASSUME Base, NEW s \in Sessions, NEW f \in FetchSteps,
           fetch' = [fetch EXCEPT ![s] = f]
    PROVE  /\ stages[s] = Stage[fetch[s]]
           /\ stages' = [stages EXCEPT ![s] = Stage[f]]
           /\ Stage[f] = Stage[fetch[s]] => stages' = stages
<1>1. fetch \in [Sessions -> FetchSteps]
  BY DEF Base, TypeOK
<1>2. \A t \in Sessions : fetch'[t] = IF t = s THEN f ELSE fetch[t]
  BY <1>1
<1>3. stages' = [t \in Sessions |-> Stage[fetch'[t]]]
  BY DEF stages, Stage, FetchSteps
<1>4. stages' = [t \in Sessions |-> IF t = s THEN Stage[f] ELSE Stage[fetch[t]]]
  BY <1>2, <1>3
<1>5. stages' = [stages EXCEPT ![s] = Stage[f]]
  BY <1>4 DEF stages
<1>6. ASSUME Stage[f] = Stage[fetch[s]]
      PROVE  stages' = stages
  BY <1>4, <1>6 DEF stages
<1>7. stages[s] = Stage[fetch[s]]
  BY DEF stages
<1> QED
  BY <1>5, <1>6, <1>7

LEMMA StageOf ==
    /\ Stage["idle"] = "new"
    /\ Stage["activated"] = "opening"
    /\ \A f \in FetchSteps \ {"idle", "activated"} : Stage[f] = "opened"
BY DEF Stage, FetchSteps

\* The session that a process is about to clean, before the folder is removed.
LEMMA FolderStep ==
    ASSUME SyncAssumption, Base, Orphans, Skips, Passes,
           NEW w \in Workers, RemoveFolder(w)
    PROVE  Life!Next \/ UNCHANGED <<stages, key, folders, early>>
<1> DEFINE s == sessions[w][index[w]]
<1>1. /\ phase[w] = "folder" /\ UNCHANGED <<fetch, key>>
      /\ folders' = folders \ {s}
      /\ early' = early \cup {t \in {s} : key[t] = "live"}
  BY DEF RemoveFolder, Removed, fetchVars
<1>2. index[w] \in 1..Len(sessions[w]) /\ s \in Sessions
  BY <1>1, Current
<1>3. key[s] = "live" => SkippedIn(s, w)
  BY <1>1, <1>2 DEF Skips, SkipAt
<1>4. s = sessions[w][index[w]]
  OBVIOUS
<1> HIDE DEF s
<1>5. /\ OrphanFor(s) /\ PassAt(w)
      /\ key[s] \in {"none", "live", "expired"}
      /\ found[w] \in Seq(Sessions)
  BY <1>2 DEF Orphans, Passes, Base, TypeOK
<1>6. stages' = stages
  BY <1>1 DEF stages, Stage, FetchSteps
<1>7. CASE key[s] = "live"
  <2>1. PICK i \in 1..Len(found[w]) - 1 :
             \A j \in 1..Len(sessions[w]) : sessions[w][j] # found[w][i]
    BY <1>3, <1>7 DEF SkippedIn
  <2>2. i \in 1..Len(found[w])
    BY <1>5, LenProperties
  <2>3. /\ found[w][i] \in Sessions /\ found[w][i] # s
        /\ fetch[found[w][i]] # "idle"
    BY <1>2, <1>4, <1>5, <2>1, <2>2, ElementOfSeq DEF PassAt
  <2>4. stages[found[w][i]] # "new"
    BY <2>3, StageOf DEF stages, Base, TypeOK
  <2>5. early' = early \cup {s}
    BY <1>1, <1>7
  <2>6. Life!Take(s)
    BY <1>1, <1>6, <1>7, <2>3, <2>4, <2>5 DEF Life!Take, stages
  <2> QED
    BY <1>2, <2>6 DEF Life!Next
<1>8. CASE key[s] # "live"
  <2>1. early' = early
    BY <1>1, <1>8
  <2>2. CASE key[s] = "expired" \/ s \in early
    BY <1>1, <1>2, <1>6, <2>1, <2>2 DEF Life!Next, Life!RemoveFolder, stages
  <2>3. CASE key[s] = "none" /\ s \notin early
    BY <1>1, <1>5, <1>6, <2>1, <2>3 DEF OrphanFor
  <2> QED
    BY <1>5, <1>8, <2>2, <2>3
<1> QED
  BY <1>7, <1>8

LEMMA LifeStep ==
    ASSUME SyncAssumption, Base, Orphans, Skips, Passes, [Next]_vars
    PROVE  Life!Next \/ UNCHANGED <<stages, key, folders, early>>
<1>0. /\ fetch \in [Sessions -> FetchSteps]
      /\ key \in [Sessions -> {"none", "live", "expired"}]
      /\ \A s \in Sessions : OrphanFor(s)
  BY DEF Orphans, Base, TypeOK
<1>a. fetch' = fetch => stages' = stages
  BY DEF stages, Stage, FetchSteps
<1>1. ASSUME NEW s \in Sessions, Activate(s)
      PROVE  Life!Next
  <2>1. stages[s] = "new" /\ stages' = [stages EXCEPT ![s] = "opening"]
    BY <1>1, StageMoves, StageOf DEF Activate, FetchSteps
  <2> QED
    BY <1>1, <2>1 DEF Activate, Life!Next, Life!Open, stages
<1>2. ASSUME NEW s \in Sessions, MakeFolder(s)
      PROVE  Life!Next
  <2>1. stages[s] = "opening" /\ stages' = [stages EXCEPT ![s] = "opened"]
    BY <1>2, StageMoves, StageOf DEF MakeFolder, FetchSteps
  <2> QED
    BY <1>2, <2>1 DEF MakeFolder, Life!Next, Life!MakeFolder, stages
<1>3. ASSUME NEW s \in Sessions, Download(s) \/ Summarise(s) \/ Insure(s)
      PROVE  UNCHANGED <<stages, key, folders, early>>
  <2>1. /\ fetch[s] \in {"downloading", "written", "waiting"}
        /\ \E f \in {"written", "waiting", "ended"} :
              fetch' = [fetch EXCEPT ![s] = f]
        /\ UNCHANGED <<key, folders, early>>
    BY <1>3 DEF Download, Summarise, Insure
  <2>2. PICK f \in {"written", "waiting", "ended"} :
             fetch' = [fetch EXCEPT ![s] = f]
    BY <2>1
  <2>3. /\ f \in FetchSteps /\ Stage[f] = "opened"
        /\ Stage[fetch[s]] = "opened"
    BY <2>1, StageOf DEF FetchSteps
  <2> QED
    BY <2>1, <2>2, <2>3, StageMoves
<1>4. ASSUME NEW s \in Sessions, Expire(s)
      PROVE  Life!Next
  <2>1. /\ key[s] = "live" /\ key' = [key EXCEPT ![s] = "expired"]
        /\ fetch[s] \notin {"idle", "activated"}
        /\ UNCHANGED <<fetch, folders, early>>
    BY <1>0, <1>4 DEF Expire, OrphanFor, fetchVars
  <2>2. stages[s] = "opened"
    BY <1>0, <2>1, StageOf DEF stages
  <2> QED
    BY <1>a, <2>1, <2>2 DEF Life!Next, Life!Expire, stages
<1>5. ASSUME NEW w \in Workers, FetchSpecific(w) \/ Scan(w) \/ Check(w)
      PROVE  UNCHANGED <<stages, key, folders, early>>
  BY <1>a, <1>5 DEF FetchSpecific, Scan, Check, fetchVars
<1>6. ASSUME NEW w \in Workers, DeleteKey(w)
      PROVE  Life!Next \/ UNCHANGED <<stages, key, folders, early>>
  <2> DEFINE s == sessions[w][index[w]]
  <2>1. /\ phase[w] = "key" /\ key' = [key EXCEPT ![s] = "none"]
        /\ UNCHANGED <<fetch, folders, early>>
    BY <1>6 DEF DeleteKey, Deleted, fetchVars
  <2>2. /\ s \in Sessions
        /\ s \in early \/ (s \notin folders /\ key[s] # "live")
    BY <2>1, Current DEF Orphans, OrphanAt, Passes, PassAt
  <2> HIDE DEF s
  <2>3. CASE s \in early \/ key[s] = "expired"
    BY <1>a, <2>1, <2>2, <2>3 DEF Life!Next, Life!DeleteKey, stages
  <2>4. CASE key[s] = "none"
    BY <1>0, <1>a, <2>1, <2>2, <2>4
  <2> QED
    BY <1>0, <2>2, <2>3, <2>4
<1>7. ASSUME NEW w \in Workers, Sweep(w)
      PROVE  Life!Next \/ UNCHANGED <<stages, key, folders, early>>
  BY <1>a, <1>7 DEF Sweep, fetchVars, Life!Next, Life!Sweep, stages
<1>8. ASSUME NEW w \in Workers, Crash(w)
      PROVE  Life!Next
  <2>1. /\ UNCHANGED <<key, folders, early>>
        /\ \A s \in Sessions :
              /\ fetch'[s] \in FetchSteps
              /\ fetch'[s] # fetch[s] => fetch[s] # "idle" /\ fetch'[s] = "ended"
    BY <1>0, <1>8 DEF Crash, FetchSteps
  <2>2. stages' = [s \in Sessions |-> Stage[fetch'[s]]]
    BY DEF stages, Stage, FetchSteps
  <2>3. stages' \in [Sessions -> Life!Stages]
    BY <2>1, <2>2, StageOf DEF Life!Stages
  <2>4. ASSUME NEW s \in Sessions, stages'[s] # stages[s]
        PROVE  stages[s] = "opening" /\ stages'[s] = "opened"
    BY <1>0, <2>1, <2>2, <2>4, StageOf DEF stages, FetchSteps
  <2> QED
    BY <2>1, <2>3, <2>4 DEF Life!Next, Life!Abandon, stages
<1>9. CASE UNCHANGED vars
  BY <1>a, <1>9 DEF vars, fetchVars
<1> QED
  BY <1>1, <1>2, <1>3, <1>4, <1>5, <1>6, <1>7, <1>8, <1>9, FolderStep
     DEF Next, Proceed, Clean

\* Every step of handlers, cleaners and crashes is a step in the life of one
\* session, or one of those that end or sweep several, or none.
THEOREM SessionsImplementLife == Spec => ImplementsLife
<1>1. Init => Life!Init
  BY StageOf DEF Init, Life!Init
<1>2. SyncAssumption /\ Base /\ Orphans /\ Skips /\ Passes /\ [Next]_vars
        => [Life!Next]_(Life!vars)
  BY LifeStep DEF Life!vars, stages
<1> QED
  BY <1>1, <1>2, BaseHolds, OrphansHold, SkipsHold, PassesHold, SyncAssumption,
     PTL DEF Spec, ImplementsLife, Life!Spec
=============================================================================
