---------------------------- MODULE FileCatalogue ----------------------------
(***************************************************************************)
(* Removing records of data_storage: GET /sync/delete/ and POST            *)
(* /sync/fetch/delete/all, which clients of several processes call at the  *)
(* same time while the storage service adds records.                       *)
(*                                                                         *)
(* delete is a coroutine: it runs on the event loop of its process, and so *)
(* does its DELETE statement, however long PostgreSQL lets it wait for a   *)
(* row lock.  Then it decodes the Redis entry of the user, which nothing   *)
(* in the code ever writes, and raises before it commits: the transaction  *)
(* is rolled back, and the row lock given up, when get_db closes the       *)
(* Session, in a thread that the event loop has yet to start.  delete_all  *)
(* runs in a thread from the beginning.                                    *)
(***************************************************************************)
EXTENDS Naturals, FiniteSets

CONSTANTS
    Rows,         \* the ids of data_storage, in the order a scan meets them
    Deletes,      \* the calls of /delete/
    Wipes,        \* the calls of /fetch/delete/all
    Workers,      \* the server processes
    Users,        \* the users
    WorkerOf,     \* WorkerOf[c]: the process that serves call c
    UserOf,       \* UserOf[c]: the user who makes call c
    OwnerOf,      \* OwnerOf[i]: the user whose file row i records
    Target        \* Target[c]: the image_index of the delete c

Calls == Deletes \cup Wipes

ASSUME CatalogueAssumption ==
    /\ Rows \subseteq Nat
    /\ Deletes \cap Wipes = {}
    /\ "none" \notin Calls
    /\ WorkerOf \in [Calls -> Workers]
    /\ UserOf \in [Calls -> Users]
    /\ OwnerOf \in [Rows -> Users]
    /\ Target \in [Deletes -> Rows]

VARIABLES
    step,         \* step[c]: where call c stands
    row,          \* row[i]: the committed state of row i
    lock,         \* lock[i]: the call whose open transaction has deleted row i
    view          \* view[c]: the rows the DELETE of the wipe c has to delete

vars == <<step, row, lock, view>>

-----------------------------------------------------------------------------

\* The steps with an open transaction.
Open == {"deleting", "raised", "closing", "wiping"}

\* The steps at which a call is over.
Over == {"failed", "answered", "lost"}

Steps == {"idle", "ready", "wiped"} \cup Open \cup Over

TypeOK ==
    /\ step \in [Calls -> Steps]
    /\ row \in [Rows -> {"absent", "stored", "deleted"}]
    /\ lock \in [Rows -> Calls \cup {"none"}]
    /\ view \in [Wipes -> SUBSET Rows]

Init ==
    /\ step = [c \in Calls |-> "idle"]
    /\ row = [i \in Rows |-> "absent"]
    /\ lock = [i \in Rows |-> "none"]
    /\ view = [c \in Wipes |-> {}]

At(c, s) == step[c] = s

Goto(c, s) == step' = [step EXCEPT ![c] = s]

Stored == {i \in Rows : row[i] = "stored"}

\* What the COMMIT of c makes of the rows, and what a rollback does.
Committed(c) == [i \in Rows |-> IF lock[i] = c THEN "deleted" ELSE row[i]]
RolledBack(c) == row

\* A mutant: a transaction that ends keeps its locks.
ReleaseNothing(c) == lock

\* The transaction of c ends: the rows it has deleted are open to others.
Release(c) == [i \in Rows |-> IF lock[i] = c THEN "none" ELSE lock[i]]

\* A mutant: delete_all is a coroutine as well.
LoopFreeOfWipes(w) ==
    \A c \in Calls : WorkerOf[c] = w => step[c] \notin {"deleting", "wiping"}

\* The event loop of w is not inside a DELETE.
LoopFree(w) == \A c \in Deletes : WorkerOf[c] = w => ~At(c, "deleting")

-----------------------------------------------------------------------------

\* The storage service has committed a new record.
Store(i) ==
    /\ row[i] = "absent"
    /\ \A j \in Rows : j < i => row[j] # "absent"
    /\ row' = [row EXCEPT ![i] = "stored"]
    /\ UNCHANGED <<step, lock, view>>

\* The request is there, its Session open, and get_current_user, a coroutine, has
\* found its user.
Arrive(c) ==
    /\ At(c, "idle")
    /\ LoopFree(WorkerOf[c])
    /\ Goto(c, "ready")
    /\ UNCHANGED <<row, lock, view>>

-----------------------------------------------------------------------------
(* delete                                                                  *)

\* The coroutine sends its DELETE and keeps the event loop.
BeginDelete(c) ==
    /\ At(c, "ready")
    /\ LoopFree(WorkerOf[c])
    /\ Goto(c, "deleting")
    /\ UNCHANGED <<row, lock, view>>

\* A mutant: the Session, and with it the transaction, belongs to the user.
HolderOfUser(c) == UserOf[c]

\* The Session, and with it the transaction, belongs to the call.
Holder(c) == c

\* The statement returns when no other transaction holds the row.  There is no
\* cached list, json.loads(None) raises, and the coroutine is left.
DeleteRow(c) ==
    LET i == Target[c]
        Matches == i \in Stored /\ OwnerOf[i] = UserOf[c]
    IN
    /\ At(c, "deleting")
    /\ Matches => lock[i] = "none"
    /\ Goto(c, "raised")
    /\ lock' = IF Matches THEN [lock EXCEPT ![i] = Holder(c)] ELSE lock
    /\ UNCHANGED <<row, view>>

\* The event loop hands Session.close to a thread.
SubmitClose(c) ==
    /\ At(c, "raised")
    /\ LoopFree(WorkerOf[c])
    /\ Goto(c, "closing")
    /\ UNCHANGED <<row, lock, view>>

\* Session.close rolls back; the client gets 500.
Close(c) ==
    /\ At(c, "closing")
    /\ Goto(c, "failed")
    /\ row' = RolledBack(c)
    /\ lock' = Release(c)
    /\ UNCHANGED view

-----------------------------------------------------------------------------
(* delete_all                                                              *)

\* The DELETE, which has no condition, sees the rows committed by now.
BeginWipe(c) ==
    /\ At(c, "ready")
    /\ Goto(c, "wiping")
    /\ view' = [view EXCEPT ![c] = Stored]
    /\ UNCHANGED <<row, lock>>

\* A mutant: rows that others have locked are skipped.
LeftUnlocked(c) == {i \in view[c] : lock[i] = "none" /\ row[i] = "stored"}

\* The rows in sight that are neither deleted yet nor gone meanwhile.
Left(c) == {i \in view[c] : lock[i] # c /\ row[i] = "stored"}

\* A mutant: every row is deleted by a transaction of its own.
WipeRowByRow(c) ==
    /\ At(c, "wiping")
    /\ \E i \in Left(c) : lock[i] = "none" /\ row' = [row EXCEPT ![i] = "deleted"]
    /\ UNCHANGED <<step, lock, view>>

\* A mutant: the scan meets the rows in any order.
WipeAnyRow(c) ==
    /\ At(c, "wiping")
    /\ \E i \in Left(c) : lock[i] = "none" /\ lock' = [lock EXCEPT ![i] = c]
    /\ UNCHANGED <<step, row, view>>

\* The scan deletes the next row, once no other transaction holds it.
WipeRow(c) ==
    /\ At(c, "wiping")
    /\ \E i \in Left(c) :
          /\ \A j \in Left(c) : i <= j
          /\ lock[i] = "none"
          /\ lock' = [lock EXCEPT ![i] = c]
    /\ UNCHANGED <<step, row, view>>

\* The statement is through, and db.commit makes it last.
CommitWipe(c) ==
    /\ At(c, "wiping")
    /\ Left(c) = {}
    /\ Goto(c, "wiped")
    /\ row' = Committed(c)
    /\ lock' = Release(c)
    /\ UNCHANGED view

\* The event loop sends {"message": "deleted"}.
AnswerWipe(c) ==
    /\ At(c, "wiped")
    /\ LoopFree(WorkerOf[c])
    /\ Goto(c, "answered")
    /\ UNCHANGED <<row, lock, view>>

-----------------------------------------------------------------------------

\* The process dies, and PostgreSQL rolls its transactions back.
Crash(w) ==
    LET Served == {c \in Calls : WorkerOf[c] = w /\ ~At(c, "idle")
                                                 /\ step[c] \notin Over}
    IN
    /\ Served # {}
    /\ step' = [c \in Calls |-> IF c \in Served THEN "lost" ELSE step[c]]
    /\ lock' = [i \in Rows |-> IF lock[i] \in Served THEN "none" ELSE lock[i]]
    /\ UNCHANGED <<row, view>>

-----------------------------------------------------------------------------

Delete(c) == BeginDelete(c) \/ DeleteRow(c) \/ SubmitClose(c) \/ Close(c)

DeleteAll(c) == BeginWipe(c) \/ WipeRow(c) \/ CommitWipe(c) \/ AnswerWipe(c)

\* Every call has been made and is over, and no record is to come.
Finished ==
    /\ \A c \in Calls : step[c] \in Over
    /\ \A i \in Rows : row[i] # "absent"
    /\ UNCHANGED vars

Next ==
    \/ \E i \in Rows : Store(i)
    \/ \E c \in Calls : Arrive(c)
    \/ \E c \in Deletes : Delete(c)
    \/ \E c \in Wipes : DeleteAll(c)
    \/ \E w \in Workers : Crash(w)
    \/ Finished

\* The event loop, the threads and PostgreSQL go on; nobody has to call.
Fairness ==
    /\ \A c \in Deletes : WF_vars(Delete(c))
    /\ \A c \in Wipes : WF_vars(DeleteAll(c))

Spec == Init /\ [][Next]_vars /\ Fairness

-----------------------------------------------------------------------------
(* Properties that hold.                                                   *)

\* When delete_all has committed, every record it could see is gone, also the
\* ones a concurrent delete had deleted and then put back by its rollback.
WipeLeavesNothing ==
    \A c \in Wipes :
        step[c] \in {"wiped", "answered"} => view[c] \cap Stored = {}

\* A call that is over leaves no row locked, however it ended, and only a
\* record that is still there is locked: nobody waits for a row that is gone
\* or for a call that has been answered (Session.close in get_db).
LocksAreLive ==
    \A i \in Rows : lock[i] # "none" => /\ step[lock[i]] \in Open
                                        /\ row[i] = "stored"

\* The rows that the DELETE of c waits for, as another call has locked them.
Awaited(c) ==
    {i \in Rows : /\ lock[i] \notin {"none", c}
                  /\ \/ /\ At(c, "deleting")
                        /\ i = Target[c]
                        /\ OwnerOf[i] = UserOf[c]
                     \/ /\ At(c, "wiping")
                        /\ i \in Left(c)
                        /\ \A j \in Left(c) : i <= j}

\* A call waits only for a row behind all those it has locked: calls do not
\* wait for one another in a circle, and PostgreSQL never fails one of them
\* with "deadlock detected".  What hangs, hangs on the event loop.
WaitsAreOrdered ==
    \A j \in Rows : lock[j] # "none" => \A i \in Awaited(lock[j]) : j < i

\* A record goes only when a delete_all commits that has seen it.  Nothing else
\* removes it, a delete of one's own file included, and a delete_all takes the
\* records of every user: this describes the code as it is and not as README.md:7
\* has it ("manage your own compressed media"); see OwnDeletesRemove below, which
\* the code violates.
OnlyWipesRemove ==
    [][\A i \in Rows :
          i \in Stored /\ row'[i] # "stored" =>
              \E c \in Wipes : i \in view[c] /\ At(c, "wiping")]_vars

\* The deletes of w that have begun and are not over.
OpenDeletes(w) == {c \in Deletes : WorkerOf[c] = w /\ step[c] \in Open}

\* Every call is answered, unless one process serves two deletes at a time.
\* Two are enough to hang it for good: the second one's DELETE keeps the event
\* loop and waits for a lock, the first one's or that of a delete_all which
\* waits for the first one's, and the first one's Session is closed only when
\* the event loop gets to it.
AnsweredUnlessOverlapping ==
    [](\A w \in Workers : Cardinality(OpenDeletes(w)) <= 1)
        => <>[](\A c \in Calls : step[c] \in Over \cup {"idle"})

\* How far a call is for its caller, by the step it stands at.
Progress ==
    [s \in Steps |->
        CASE s \in {"answered", "lost"} -> s
          [] s = "wiping"              -> "running"
          [] s = "wiped"               -> "done"
          [] s = "failed"              -> "refused"
          [] OTHER                     -> "waiting"]

Table == INSTANCE RecordTable WITH
    record <- row,
    call <- [c \in Calls |-> Progress[step[c]]],
    scope <- view

\* However its locking interleaves with deletes that are rolled back, with new
\* records, other wipes and crashes, a delete_all takes effect in one step, on
\* exactly the records that there were when it began, or not at all.
ImplementsTable == Table!Spec

-----------------------------------------------------------------------------
(* What the documentation says and the code does not do.                   *)

\* Nuclei "allows you to upload and manage your own compressed media"
\* (README.md:7), and delete commits and answers "deleted"
\* (sync_util_endpoints.py:85-87): when the DELETE of a user has found the
\* user's own file and the call comes to its end, the file is gone.  The code:
\* json.loads(None) raises before the commit, and Session.close rolls back.
OwnDeletesRemove ==
    [][\A c \in Deletes :
          lock[Target[c]] = c /\ step'[c] \in Over \ {"lost"} =>
              row'[Target[c]] # "stored"]_vars
=============================================================================
