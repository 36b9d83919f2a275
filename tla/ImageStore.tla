----------------------------- MODULE ImageStore -----------------------------
(***************************************************************************)
(* The image pipeline of the storage service.  POST                        *)
(* /storage/compress/image answers at once and processes its files in the  *)
(* background: each file is written to a temporary file, compressed in a   *)
(* thread, added to IPFS by a shell script whose output is read after one  *)
(* second, and recorded in data_storage.  The files of one request run     *)
(* concurrently and share one SQLAlchemy Session and one User instance.    *)
(*                                                                         *)
(* A file's pc names the step its coroutine, or its thread, does next.     *)
(* Payloads are left out: a file stands for its own (compressed) content,  *)
(* and the CID and hash columns, on which no step depends (both are empty  *)
(* when IPFS answers late), only for the error paths of their scripts.     *)
(***************************************************************************)
EXTENDS Naturals, FiniteSets

CONSTANTS
    Files,        \* the files clients send
    Requests,     \* the requests that carry them
    Workers,      \* the server processes
    RequestOf,    \* RequestOf[f]: the request of file f
    WorkerOf,     \* WorkerOf[r]: the process that serves request r
    Dotless,      \* the files whose name has no "."
    PoolSize      \* threads of a process's default executor

ASSUME StoreAssumption ==
    /\ RequestOf \in [Files -> Requests]
    /\ WorkerOf \in [Requests -> Workers]
    /\ Dotless \subseteq Files
    /\ PoolSize \in Nat \ {0}

VARIABLES
    pc,           \* pc[f]: the next step of file f
    ipfsFlag,     \* ipfsFlag[r]: the query parameter of request r
    temp,         \* files with a copy in image_compression/_compression_temp
    litter,       \* files with scripts or copies left in processing_temp
    add,          \* add[f]: the script with "ipfs add" that f's job waits for
    pending,      \* files whose record was added to the Session, not flushed
    inserted,     \* inserted[f]: rows of f in the Session's open transaction
    user,         \* user[r]: the state of the User instance of request r
    rows,         \* rows[f]: rows of data_storage committed for f
    flag,         \* flag[r]: Session._flushing of r's Session
    batch,        \* batch[f]: the records the flush of f's thread has taken
    stranded,     \* files in commit whose transaction a sibling has ended
    outcome,      \* outcome[f]: how commit_to_ipfs ended for f
    touched,      \* history: files that called commit, or left "with db"
    contested     \* history: files whose record two flushes held at once

vars == <<pc, ipfsFlag, temp, litter, add, pending, inserted, user, rows,
          flag, batch, stranded, outcome, touched, contested>>

ipfsVars == <<litter, add>>
dbVars == <<pending, inserted, user, rows>>
flushVars == <<flag, batch, contested>>
callVars == <<flushVars, stranded, touched>>

-----------------------------------------------------------------------------

\* The steps at which a file's job occupies an executor thread.
Running == {"adding", "owner", "hashing", "hashed", "commit", "entering",
            "flushing", "written", "flushed"}

\* The steps at which a thread has taken records to flush, and those at which
\* it is inside Session.commit().
Flushing == {"flushing", "written"}
Committing == {"entering", "flushed"} \cup Flushing

\* The states in which the processing of a file is over.
Settled == {"refused", "failed", "done", "crashed"}

Steps == {"idle", "accepted", "saved", "queued", "closing", "cleanup"}
            \cup Running \cup Settled

\* How commit_to_ipfs ends: normally or with an exception ("SessionError" is
\* one of the Session, its transaction or the database).
Outcomes == {"none", "returned", "FileNotFoundError", "DetachedInstanceError",
             "SessionError"}

\* The User instance: attached to the Session or not, attributes loaded or
\* expired ("lost": expired and no longer attached).
UserStates == {"loaded", "expired", "detached", "lost"}

AddStates == {"none", "spawned", "running", "added"}

TypeOK ==
    /\ pc \in [Files -> Steps]
    /\ ipfsFlag \in [Requests -> BOOLEAN]
    /\ temp \subseteq Files
    /\ litter \subseteq Files
    /\ add \in [Files -> AddStates]
    /\ pending \subseteq Files
    /\ inserted \in [Files -> Nat]
    /\ user \in [Requests -> UserStates]
    /\ rows \in [Files -> Nat]
    /\ flag \in [Requests -> BOOLEAN]
    /\ batch \in [Files -> SUBSET Files]
    /\ stranded \subseteq Files
    /\ outcome \in [Files -> Outcomes]
    /\ touched \subseteq Files
    /\ contested \subseteq Files

Init ==
    /\ pc = [f \in Files |-> "idle"]
    /\ ipfsFlag = [r \in Requests |-> TRUE]
    /\ temp = {}
    /\ litter = {}
    /\ add = [f \in Files |-> "none"]
    /\ pending = {}
    /\ inserted = [f \in Files |-> 0]
    /\ user = [r \in Requests |-> "loaded"]
    /\ rows = [f \in Files |-> 0]
    /\ flag = [r \in Requests |-> FALSE]
    /\ batch = [f \in Files |-> {}]
    /\ stranded = {}
    /\ outcome = [f \in Files |-> "none"]
    /\ touched = {}
    /\ contested = {}

FilesOf(r) == {f \in Files : RequestOf[f] = r}

Siblings(f) == FilesOf(RequestOf[f]) \ {f}

\* A thread of the executor of f's process is free.
FreeThread(f) ==
    LET w == WorkerOf[RequestOf[f]]
    IN  Cardinality({g \in Files : /\ WorkerOf[RequestOf[g]] = w
                                   /\ pc[g] \in Running}) < PoolSize

At(f, step) == pc[f] = step

Goto(f, step) == pc' = [pc EXCEPT ![f] = step]

\* commit_to_ipfs ends in the thread of f: the coroutine will leave "with db".
Ends(f, how) ==
    /\ Goto(f, "closing")
    /\ outcome' = [outcome EXCEPT ![f] = how]

-----------------------------------------------------------------------------
(* The routes.                                                             *)

\* POST /compress/image: the background task is registered and the client is
\* told that its files were submitted.
CompressTaskImage(r) ==
    /\ FilesOf(r) # {}
    /\ \A f \in FilesOf(r) : At(f, "idle")
    /\ pc' = [f \in Files |-> IF f \in FilesOf(r) THEN "accepted" ELSE pc[f]]
    /\ \E asked \in BOOLEAN : ipfsFlag' = [ipfsFlag EXCEPT ![r] = asked]
    /\ UNCHANGED <<temp, ipfsVars, dbVars, outcome, callVars>>

\* POST /upload: it hands the UploadFile itself to produce_cid as the file
\* name.  save_temp_file slices it, which raises TypeError before anything is
\* written, and the route answers 500.
Upload(r) ==
    /\ Cardinality(FilesOf(r)) = 1
    /\ \A f \in FilesOf(r) : At(f, "idle")
    /\ pc' = [f \in Files |-> IF f \in FilesOf(r) THEN "refused" ELSE pc[f]]
    /\ UNCHANGED <<ipfsFlag, temp, ipfsVars, dbVars, outcome, callVars>>

-----------------------------------------------------------------------------
(* process_file, up to the job that commits the file.                      *)

\* CompressImage(file, filename): filename.index(".") raises ValueError for a
\* name without a dot, which ends process_file; otherwise the copy is written.
SaveToTemp(f) ==
    /\ At(f, "accepted")
    /\ IF f \in Dotless
       THEN Goto(f, "failed") /\ UNCHANGED temp
       ELSE Goto(f, "saved") /\ temp' = temp \cup {f}
    /\ UNCHANGED <<ipfsFlag, ipfsVars, dbVars, outcome, callVars>>

\* A mutant: without ipfs_flag the cleanup is forgotten.
FinishDirectly(f) == IF ipfsFlag[RequestOf[f]] THEN "queued" ELSE "done"

\* A mutant: without ipfs_flag, the outcome of a commit that was never made
\* decides what comes next.
ByOutcome(f) == IF ipfsFlag[RequestOf[f]] THEN "queued" ELSE outcome[f]

\* With ipfs_flag the file is committed, and cleaned up in the end anyway.
Continue(f) == IF ipfsFlag[RequestOf[f]] THEN "queued" ELSE "cleanup"

\* produce_compression, in a thread: an error of zlib yields b"", so the job
\* always returns.  Without ipfs_flag the result is then thrown away.
ProduceCompression(f) ==
    /\ At(f, "saved")
    /\ FreeThread(f)
    /\ Goto(f, Continue(f))
    /\ UNCHANGED <<ipfsFlag, temp, ipfsVars, dbVars, outcome, callVars>>

-----------------------------------------------------------------------------
(* commit_to_ipfs, in a thread.                                            *)

\* produce_cid writes the script and a copy of the file and starts the script.
StartAdd(f) ==
    /\ At(f, "queued")
    /\ FreeThread(f)
    /\ Goto(f, "adding")
    /\ litter' = litter \cup {f}
    /\ add' = [add EXCEPT ![f] = "spawned"]
    /\ UNCHANGED <<ipfsFlag, temp, dbVars, outcome, callVars>>

\* The shell and "ipfs add" answer in their own time: the redirection creates
\* the buffer file, and the CID is in it once the content has been added.  What
\* the script does when the buffer has been read, nobody looks at.
RunAdd(f) ==
    /\ \/ add[f] = "spawned" /\ add' = [add EXCEPT ![f] = "running"]
       \/ add[f] = "running" /\ add' = [add EXCEPT ![f] = "added"]
    /\ UNCHANGED <<pc, ipfsFlag, temp, litter, dbVars, outcome, callVars>>

\* A mutant: produce_cid waits until the content has been added.
Answered(f) == add[f] = "added"

\* produce_cid sleeps for a second and waits for nothing.
Slept(f) == TRUE

\* One second later produce_cid reads the buffer, whatever the script has got
\* to.  Without a buffer, open raises and script and copy stay behind.
ReadCid(f) ==
    /\ At(f, "adding")
    /\ Slept(f)
    /\ IF add[f] = "spawned"
       THEN /\ Ends(f, "FileNotFoundError")
            /\ UNCHANGED litter
       ELSE /\ Goto(f, "owner")
            /\ litter' = litter \ {f}
            /\ UNCHANGED outcome
    /\ add' = [add EXCEPT ![f] = "none"]
    /\ UNCHANGED <<ipfsFlag, temp, dbVars, callVars>>

\* A sibling is in commit, or its flush has failed and broken the transaction
\* off, which lasts until a Session.close.
Disturbed(f) ==
    \E g \in Siblings(f) :
        \/ pc[g] \in Committing
        \/ At(g, "closing") /\ outcome[g] = "SessionError"

\* commit_to_ipfs evaluates user.id.  A loaded attribute is read from the
\* instance; an expired one is refreshed through the Session, which refuses
\* while another thread commits; without a Session the refresh raises.
ReadOwner(f) ==
    LET r == RequestOf[f] IN
    /\ At(f, "owner")
    /\ \/ /\ user[r] \in {"loaded", "detached"}
          /\ Goto(f, "hashing")
          /\ UNCHANGED <<user, outcome>>
       \/ /\ user[r] = "expired"
          /\ Goto(f, "hashing")
          /\ user' = [user EXCEPT ![r] = "loaded"]
          /\ UNCHANGED outcome
       \/ /\ user[r] = "expired"
          /\ Disturbed(f)
          /\ Ends(f, "SessionError")
          /\ UNCHANGED user
       \/ /\ user[r] = "lost"
          /\ Ends(f, "DetachedInstanceError")
          /\ UNCHANGED user
    /\ UNCHANGED <<ipfsFlag, temp, ipfsVars, pending, inserted, rows,
                   callVars>>

\* assemble_record calls generate_hash, which waits for "ipfs ls" like
\* produce_cid waits for "ipfs add": its script stays if there is no buffer.
GenerateHash(f) ==
    /\ At(f, "hashing")
    /\ \/ Goto(f, "hashed") /\ UNCHANGED <<litter, outcome>>
       \/ Ends(f, "FileNotFoundError") /\ litter' = litter \cup {f}
    /\ UNCHANGED <<ipfsFlag, temp, add, dbVars, callVars>>

\* db.add(data_record)
AddRecord(f) ==
    /\ At(f, "hashed")
    /\ Goto(f, "commit")
    /\ pending' = pending \cup {f}
    /\ UNCHANGED <<ipfsFlag, temp, ipfsVars, inserted, user, rows, outcome,
                   callVars>>

-----------------------------------------------------------------------------
(* db.commit() on a Session that several threads use.  The library         *)
(* (SQLAlchemy 1.4) is not part of the repository and takes no lock; the   *)
(* steps below are those at which another thread of the request can come   *)
(* between: the tests of Session.commit and flush, the INSERTs, the        *)
(* bookkeeping after them and the COMMIT.                                  *)

PendingOn(r) == pending \cap FilesOf(r)

\* The Session throws away what it holds: new objects, and the transaction.
Discard(r) ==
    /\ pending' = pending \ FilesOf(r)
    /\ inserted' = [f \in Files |-> IF RequestOf[f] = r THEN 0
                                                        ELSE inserted[f]]

\* f's thread ends the transaction under the siblings that are at given steps.
Strand(f, steps) ==
    stranded' = (stranded \cup {g \in Siblings(f) : pc[g] \in steps}) \ {f}

Expire(u) == IF u = "loaded" THEN "expired" ELSE u

Detach(u) == CASE u = "loaded"  -> "detached"
               [] u = "expired" -> "lost"
               [] OTHER         -> u

\* The Session refuses the call of f's thread.
Refused(f) ==
    /\ Ends(f, "SessionError")
    /\ stranded' = stranded \ {f}
    /\ UNCHANGED <<dbVars, flag, batch>>

\* The "finally" of flush: it resets the flag, whoever set it.
LeaveFlush(f) ==
    /\ flag' = [flag EXCEPT ![RequestOf[f]] = FALSE]
    /\ batch' = [batch EXCEPT ![f] = {}]

\* The flush of f's thread fails.  It rolls back and expunges new objects,
\* unless the transaction it would roll back is closed already.
FlushFails(f, left) ==
    LET r == RequestOf[f] IN
    /\ Ends(f, "SessionError")
    /\ LeaveFlush(f)
    /\ UNCHANGED rows
    /\ \/ /\ f \in stranded
          /\ pending' = left
          /\ stranded' = stranded \ {f}
          /\ UNCHANGED <<inserted, user>>
       \/ /\ Discard(r)
          /\ Strand(f, Committing)
          /\ user' = [user EXCEPT ![r] = Expire(@)]

\* A mutant: the record is committed before it is flushed.
BeginCommitNoFlush(f) ==
    /\ At(f, "commit")
    /\ touched' = touched \cup {f}
    /\ Goto(f, "flushed")
    /\ UNCHANGED <<ipfsFlag, temp, ipfsVars, dbVars, flushVars, stranded,
                   outcome>>

\* commit flushes unless the flag is set or a sibling has prepared the
\* transaction; it fails on a transaction that is neither active nor prepared.
BeginCommit(f) ==
    LET flushing == flag[RequestOf[f]]
        prepared == \E g \in Siblings(f) : At(g, "flushed")
    IN
    /\ At(f, "commit")
    /\ touched' = touched \cup {f}
    /\ \/ /\ ~flushing
          /\ Goto(f, "entering")
          /\ UNCHANGED <<dbVars, flag, batch, stranded, outcome>>
       \/ /\ flushing \/ prepared
          /\ Goto(f, "flushed")
          /\ UNCHANGED <<dbVars, flag, batch, stranded, outcome>>
       \/ Disturbed(f) /\ Refused(f)
    /\ UNCHANGED <<ipfsFlag, temp, ipfsVars, contested>>

\* With nothing to flush, commit goes on to the transaction.  Otherwise flush
\* refuses if the flag is set by now, or else sets it and takes what is
\* pending: the test came before, so another flush may be under way.
EnterFlush(f) ==
    LET r == RequestOf[f] IN
    /\ At(f, "entering")
    /\ \/ /\ PendingOn(r) = {}
          /\ Goto(f, "flushed")
          /\ UNCHANGED <<dbVars, flushVars, stranded, outcome>>
       \/ /\ PendingOn(r) # {}
          /\ Goto(f, "flushing")
          /\ flag' = [flag EXCEPT ![r] = TRUE]
          /\ batch' = [batch EXCEPT ![f] = PendingOn(r)]
          /\ contested' = contested \cup
                 {x \in PendingOn(r) : \E g \in Siblings(f) : x \in batch[g]}
          /\ UNCHANGED <<dbVars, stranded, outcome>>
       \/ /\ PendingOn(r) # {} /\ flag[r]
          /\ Refused(f)
          /\ UNCHANGED contested
    /\ UNCHANGED <<ipfsFlag, temp, ipfsVars, touched>>

\* The INSERTs, one for each record of the batch that is still new to the
\* Session; one that a sibling has just flushed may be inserted again, under
\* another id, or is skipped, or its id is known already and the INSERT fails.
Insert(f) ==
    /\ At(f, "flushing")
    /\ \/ \E S \in SUBSET batch[f] :
             /\ batch[f] \cap pending \subseteq S
             /\ inserted' = [g \in Files |-> IF g \in S THEN inserted[g] + 1
                                                        ELSE inserted[g]]
             /\ Goto(f, "written")
             /\ UNCHANGED <<pending, user, rows, flag, batch, stranded,
                            outcome>>
       \/ /\ \/ f \in stranded
             \/ \E x \in batch[f] : inserted[x] + rows[x] > 0
          /\ FlushFails(f, pending)
    /\ UNCHANGED <<ipfsFlag, temp, ipfsVars, touched, contested>>

\* A mutant: what has been flushed stays pending.
NotFlushed(f) == pending

\* What is pending after the flush of f's thread.
Unflushed(f) == pending \ batch[f]

\* The records of the batch are persistent and the flush is over; commit then
\* looks for more to flush.
Finalize(f) ==
    /\ At(f, "written")
    /\ \/ /\ Goto(f, "entering")
          /\ LeaveFlush(f)
          /\ pending' = Unflushed(f)
          /\ UNCHANGED <<inserted, user, rows, stranded, outcome>>
       \/ f \in stranded /\ FlushFails(f, Unflushed(f))
    /\ UNCHANGED <<ipfsFlag, temp, ipfsVars, touched, contested>>

\* COMMIT: the rows of the transaction are in data_storage, and every
\* instance of the Session is expired (expire_on_commit).
Commit(f) ==
    LET r == RequestOf[f] IN
    /\ At(f, "flushed") /\ f \notin stranded
    /\ Ends(f, "returned")
    /\ rows' = [g \in Files |-> IF RequestOf[g] = r
                                THEN rows[g] + inserted[g] ELSE rows[g]]
    /\ inserted' = [g \in Files |-> IF RequestOf[g] = r THEN 0
                                                        ELSE inserted[g]]
    /\ user' = [user EXCEPT ![r] = Expire(@)]
    /\ Strand(f, Committing)
    /\ UNCHANGED <<ipfsFlag, temp, ipfsVars, pending, flushVars, touched>>

\* The Session's current transaction is the one that a sibling's flush has
\* opened inside the other: f's commit ends that one and stores nothing.
CommitNested(f) ==
    /\ At(f, "flushed")
    /\ \E g \in Siblings(f) : pc[g] \in Flushing
    /\ Ends(f, "returned")
    /\ Strand(f, Flushing)
    /\ UNCHANGED <<ipfsFlag, temp, ipfsVars, dbVars, flushVars, touched>>

\* The transaction went away under the thread: its commit has nothing left to
\* do, or notices and fails.
StaleCommit(f) ==
    /\ At(f, "flushed") /\ f \in stranded
    /\ \/ /\ Ends(f, "returned")
          /\ stranded' = stranded \ {f}
          /\ UNCHANGED <<dbVars, flag, batch>>
       \/ Refused(f)
    /\ UNCHANGED <<ipfsFlag, temp, ipfsVars, touched, contested>>

-----------------------------------------------------------------------------
(* process_file, back on the event loop.                                   *)

\* A mutant: process_file forgets to close the Session.
SessionLeftOpen(f) ==
    /\ At(f, "closing")
    /\ Goto(f, "cleanup")
    /\ UNCHANGED <<ipfsFlag, temp, ipfsVars, dbVars, outcome, callVars>>

\* The end of "with db as _db": Session.close() expunges everything, pending
\* records included, and rolls the open transaction back.
CloseSession(f) ==
    LET r == RequestOf[f] IN
    /\ At(f, "closing")
    /\ Goto(f, "cleanup")
    /\ Discard(r)
    /\ Strand(f, Committing)
    /\ user' = [user EXCEPT ![r] = Detach(@)]
    /\ touched' = touched \cup {f}
    /\ UNCHANGED <<ipfsFlag, temp, ipfsVars, rows, flushVars, outcome>>

\* cleanup_compression_outcome, in a thread, after success and failure alike.
Cleanup(f) ==
    /\ At(f, "cleanup")
    /\ FreeThread(f)
    /\ Goto(f, "done")
    /\ temp' = temp \ {f}
    /\ UNCHANGED <<ipfsFlag, ipfsVars, dbVars, outcome, callVars>>

\* The process dies and is restarted.  Its background tasks are gone, the
\* database rolls back what was not committed, files on disk stay, and the
\* scripts go on unheeded.
Crash(w) ==
    LET Served == {f \in Files : WorkerOf[RequestOf[f]] = w}
        Lost   == {f \in Served : pc[f] \notin Settled \cup {"idle"}}
    IN
    /\ Lost # {}
    /\ pc' = [f \in Files |-> IF f \in Lost THEN "crashed" ELSE pc[f]]
    /\ pending' = pending \ Served
    /\ inserted' = [f \in Files |-> IF f \in Served THEN 0 ELSE inserted[f]]
    /\ flag' = [r \in Requests |-> WorkerOf[r] # w /\ flag[r]]
    /\ batch' = [f \in Files |-> IF f \in Served THEN {} ELSE batch[f]]
    /\ stranded' = stranded \ Served
    /\ add' = [f \in Files |-> IF f \in Served THEN "none" ELSE add[f]]
    /\ UNCHANGED <<ipfsFlag, temp, litter, user, rows, outcome, touched,
                   contested>>

-----------------------------------------------------------------------------

\* What the server itself does for file f.
Process(f) ==
    \/ SaveToTemp(f) \/ ProduceCompression(f)
    \/ StartAdd(f) \/ ReadCid(f) \/ ReadOwner(f) \/ GenerateHash(f)
    \/ AddRecord(f) \/ BeginCommit(f) \/ EnterFlush(f) \/ Insert(f)
    \/ Finalize(f) \/ Commit(f) \/ CommitNested(f) \/ StaleCommit(f)
    \/ CloseSession(f) \/ Cleanup(f)

\* All requests have been made and served.
Finished == /\ \A f \in Files : pc[f] \in Settled
            /\ UNCHANGED vars

Next ==
    \/ \E r \in Requests : CompressTaskImage(r) \/ Upload(r)
    \/ \E f \in Files : Process(f) \/ RunAdd(f)
    \/ \E w \in Workers : Crash(w)
    \/ Finished

\* The event loop and the threads of a process are scheduled fairly.  Clients
\* need not send, IPFS need not answer and processes need not crash.
Fairness == \A f \in Files : WF_vars(Process(f))

Spec == Init /\ [][Next]_vars /\ Fairness

-----------------------------------------------------------------------------
(* Properties that hold.                                                   *)

\* Threads that share a Session may enter flush together, take the same
\* record and INSERT it each (commit_to_ipfs, db.add and db.commit; flush tests
\* its flag and sets it later).  Nothing else stores a file twice: whatever the
\* commits skip, roll back or expunge, a second row needs two flushes that held
\* the record at the same time.
DuplicatesNeedOverlap == \A f \in Files : rows[f] > 1 => f \in contested

\* The work on a file is over once db.commit returned or raised because of the
\* Session.  If the file has no row then, another file of the same request
\* has committed through the shared Session or has closed it ("with db"): a
\* request that carries one file cannot lose it this way.
LossNeedsSibling ==
    \A f \in Files :
        /\ outcome[f] \in {"returned", "DetachedInstanceError",
                           "SessionError"}
        /\ rows[f] = 0
        => \E g \in Siblings(f) : g \in touched

\* When process_file is over, the temporary copy is gone whatever failed in
\* between, and scripts and copies are left in processing_temp only by a job
\* that found no buffer file (produce_cid, generate_hash).
EndLeavesNoFiles ==
    \A f \in Files :
        At(f, "done") => /\ f \notin temp
                         /\ f \in litter => outcome[f] = "FileNotFoundError"

\* Every file whose submission was confirmed is eventually done with: no job
\* waits for IPFS (the code sleeps one second instead), for a thread that is
\* never released or for a sibling's commit, and a request whose process dies
\* is dropped rather than left hanging.
EveryAcceptedSettles ==
    \A f \in Files : At(f, "accepted") ~> pc[f] \in Settled

\* The record of f can still be committed: it is in the open transaction, or a
\* flush has taken it, perhaps that of a sibling when f's own job is over.
Held(f) == inserted[f] > 0 \/ \E g \in Files : f \in batch[g]

\* What has become of file f, as a client or an operator would see it.  A file
\* is given up on when its job is over and its record is not held any more.
FateOf(f) ==
    CASE rows[f] > 0                        -> "stored"
      [] rows[f] = 0 /\ At(f, "idle")       -> "new"
      [] rows[f] = 0 /\ At(f, "refused")    -> "refused"
      [] /\ rows[f] = 0 /\ ~Held(f)
         /\ pc[f] \in {"failed", "done", "crashed"} -> "dropped"
      [] OTHER                              -> "accepted"

Intake == INSTANCE MediaIntake WITH fate <- [f \in Files |-> FateOf(f)]

\* The pipeline implements the intake it is meant to be: requests are accepted
\* or refused as a whole, the rows of a file stay, and a file whose processing
\* has ended without a row is not stored later by a sibling's commit, unless
\* the sibling's flush had taken its record before.
ImplementsIntake == Intake!Spec

-----------------------------------------------------------------------------
(* What the documentation says and the code does not do.                   *)

\* "Nuclei ... securely stores your media files using IPFS" (README.md:9): a
\* file whose commit_to_ipfs ended without an error is on record.  The code: a
\* sibling that leaves "with db" first expunges the pending record, and the
\* commit that follows has nothing to insert.
ReturnedMeansStored ==
    \A f \in Files : At(f, "done") /\ outcome[f] = "returned" => rows[f] > 0
=============================================================================
