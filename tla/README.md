# Verification of the Nuclei backend

TLA+ models of the Nuclei backend (`src/nuclei_backend`), model-checked with TLC
and proved about with TLAPS. Nuclei is a FastAPI application: clients upload
images, the server compresses them, adds them to IPFS and records them in
PostgreSQL, and fetches them back into session folders that Redis keys keep
alive. It runs as several uvicorn processes (`Dockerfile.app`: `--workers=4`),
each with one event loop, a thread pool for synchronous handlers and an executor
for blocking jobs, on one database, one Redis and one directory tree.

## 1. The system

| Component | State | Operations | Interacts with |
|---|---|---|---|
| image pipeline (`storage_service/image_compression`, `CompressionBase.py`, `ipfs_utils.py`) | temporary files, scripts, the request's SQLAlchemy Session and User | `POST /storage/compress/image`, and per file: save, compress, `produce_cid`, `commit_to_ipfs`, cleanup | the executor; the shell and IPFS; `data_storage` |
| direct upload (`ipfs_routes.py`) | none | `POST /storage/upload` | the same helpers |
| sync sessions (`sync_utils.py`, `sync_service_endpoints.py`, `sync_user_cache.py`) | Redis keys `processing:<id>`, folders in `FILE_PLAYING_FIELD`, each process's working directory | `GET /sync/fetch/all`, `GET /sync/fetch`, `FileCleanerSchedule` at start-up and every two hours | `data_storage` (reads), Redis, the file system, the other processes |
| file catalogue (`sync_util_endpoints.py`, `sync_service_endpoints.py`) | rows of `data_storage`, their row locks | `/sync/delete/`, `/sync/fetch/delete/all`; listings | PostgreSQL, the event loop, `get_db` |
| start-up (`__init__.py`, `database/__init__.py`) | the tables' existence | `Nuclei()`: `create_all` in every process | PostgreSQL, the other processes |
| registration (`auth_routes.py`, `user_handler_utils.py`, `user_models.py`) | tables `users` and `auth_data` | `POST /users/register` | PostgreSQL's unique columns |
| tokens and log-in (`auth_utils.py`, `auth_routes.py`) | none (signed tokens that clients hold) | `/users/token`, `/users/token/check`, `/users/token/refresh`, `get_current_user` | registration, the clock |
| second factor (`user_security.py`) | `auth_data` | TOTP routes, all of which fail or do nothing | registration |
| file cache (`RedisController`, `FileListener`) | a Redis entry per user | read, clear; writing is never reached | sync sessions, catalogue |
| quota (`user_quota`) | table `user_quota` | increase, decrease, update | not mounted, cannot be imported |
| chunking (`chunking.py`) | chunk files, `.ccif` files, results | `Chunker.generic_run`, `Reconstruct.run` | the file's owner; no route calls it |
| unused helpers (`quick_sort.py`, `bytes_utils.py`, `chunking/utils.py`) | none | sort, pair, encrypt a file | nothing calls them |

What is hard here, and what makes each component correct:

* **Image pipeline.** The files of one request are processed by coroutines and
  threads that share one Session and one User instance, though neither is meant
  to be shared. One coroutine's `with db as _db` closes the Session under the
  commits of its siblings. The answer of IPFS is read after one second, come
  what may. Work that was confirmed is a background task, lost with the process.
  Correct: a file is lost, or recorded twice, only for a known reason, its fate is
  decided once, every job ends, and temporary files do not pile up.
* **Sync sessions.** Each process has its own cleaner on the same keys and
  folders. `get_expired_sessions` removes elements from the list it iterates
  over. `os.chdir` moves the whole process while handlers await. Keys and
  folders are made and removed in two steps. Correct: what has expired is
  reclaimed, what is in use is not, and a fetch finds its own files and ends.
* **Catalogue.** A coroutine executes a DELETE that may wait for a row lock, on
  the event loop by way of which the lock's holder is to be released. Correct:
  calls are answered, locks are given up, and only the right rows go.
* **Registration.** Check-then-insert twice over, and two transactions for one
  account, the second of which may fail. Correct: names and addresses stay unique,
  refusals have a reason, and half an account is the result of a crash or of an
  error of the database only.
* **Start-up.** Several processes look for the tables and make what they miss.
  Correct: whoever serves has tables, somebody comes out of the race, and no
  start hangs on a transaction of a dead process.
* **Tokens and log-in.** Expiry is rounded twice, and a refresh looks at the
  account before it issues the token. Correct: a token names an account of its
  client and lasts as long as it says, and what a registration was answered
  agrees with who can log in.
* **Chunking.** The size of a chunk is a rounded quotient, the file is read twice
  while its owner may write it, and every step leaves files that a crash does not
  take away. Correct: the chunks are as many as asked for, and a reconstruction
  that ends has restored the file unless there is a reason.

`PROJECT.json` lists every hazard with the line where it bites and the
properties that would show it.

## 2. The modules

| Module | Models | Runs or proofs |
|---|---|---|
| `MediaIntake` | abstract: what the image pipeline promises | `ImplementsIntake` |
| `ImageStore` | image pipeline and direct upload | `shared_session`, `intake`, `returned_means_stored`; `ImageStoreProofs` |
| `SessionLife` | abstract: what becomes of a session's key and folder | `ImplementsLife` |
| `SyncSessions` | fetches, working directories, cleaners | `sync_sessions`, `sync_liveness`, `returns_expired_keys`, `sweep_deletes_the_rest`; `SyncSessionsProofs` |
| `RecordTable` | abstract: what callers may take deletes and wipes for | `ImplementsTable` |
| `FileCatalogue` | removing records | `catalogue`, `manage_your_own`; `FileCatalogueProofs` |
| `Startup` | the processes making the tables | by way of `Accounts` |
| `Registration` | registrations | by way of `Accounts`; `RegistrationProofs` |
| `Accounts` | composes both with log-in, refresh and the clock | `accounts`, `expired_means_expired`; `AccountsProofs` |
| `Chunking` | `Chunker`, `Reconstruct`, the owner's edits | `chunking`; `ChunkingProofs` |

`MC<module>` gives the CONSTANTs that are functions their values. Operators named
in a comment as "a mutant" are changed forms of the definition that follows them:
no action of `Next` uses them. They are the bugs each property is tried against.

### ImageStore

`pc[f]` is the next step of file `f`: `accepted` (background task), `saved`,
`queued` (waiting for a thread), `adding`, `owner`, `hashing`, `hashed`,
`commit`, `entering`, `flushing`, `written`, `flushed` (all in `commit_to_ipfs`, in
a thread), `closing` (end of `with db`), `cleanup`, and the ends `done`, `failed`
(no dot in the name), `refused` (direct upload) and `crashed`. One action is one
stretch of code in which no other actor can make a difference.

`db.commit()` is modelled from the behaviour of the pinned version
(requirements.txt: SQLAlchemy 1.4.46), which takes no lock, where another thread of
the request can come between. `pending`, `inserted` and `user` are the records, the
open transaction and the User instance of a Session; `flag` is its `_flushing`.

* `BeginCommit`: commit tests the flag, and skips the flush if it is set.
* `EnterFlush`: flush looks for something to flush, tests the flag again, sets it and
  takes what is pending (`batch`). The test came earlier, so that two threads can
  be past it with the same records: these are `contested`.
* `Insert`: the INSERTs. A record that a sibling has flushed in the meantime is
  inserted once more, skipped, or makes the statement fail.
* `Finalize`: the records become persistent, the flag is reset, and commit
  looks again whether there is something to flush.
* `Commit`, `CommitNested` (of the subtransaction that a sibling's flush has opened:
  nothing is stored) and `StaleCommit` (a sibling has ended the transaction, which
  makes a thread `stranded`: nothing is left to do, or an error).
* `FlushFails`: the transaction is rolled back and new records are expunged.

COMMIT expires all instances, `close` expunges and detaches them. These definitions
are marked external in `PROJECT.json`. Where the library's outcome depends on
timing below these steps, the choice is left wide: the properties hold whichever
way it goes, and some of the outcomes may need a schedule that is rare.

Not represented: content, sizes, names beyond "has a dot", and the CID and hash
columns, of which only the error paths of their scripts matter: no step depends on
what they hold. `file_type` is bytes in the code; the column takes it.
`MediaIntake` has a file accepted, refused, stored or dropped; by the mapping
`FateOf` a file is dropped when its job is over, it has no row and its record is not
`Held` by a transaction or a flush, which may be that of a sibling.

### SyncSessions

`fetch[s]` follows `process_files`: `activated` (key set), `downloading`,
`written`, `waiting` (the loop around `insurance`), `ended`. `key[s]` and
`folders` are shared by all processes; `cwd[w]` is the working directory of a
process, `placed[s]` the directory that received the files. The cleaner of `w`
is at `phase[w]`, with its list and its position in it: `Check` is one turn of
`get_expired_sessions`, `RemoveFolder` and `DeleteKey` one turn of
`clean_expired_folders`. A handler holds the loop of its process until it awaits
(`LoopFree`). `process_files` cannot get past `FileListener.file_listener`, which
uses an attribute that does not exist (`self.redis`, sync_user_cache.py:165); what
comes after, with the deactivation of the session, has no action.

Abstractions: the downloads of a session are one step, with `DownloadOutcomes`
(`error`; `whole`: all files complete; `other`: something was written that
`insurance` will not accept). Today the address that `download_file` builds has
no host and always raises; the other outcomes are what the code does once that is
repaired. Downloads that go on after a sibling's failure are left out. A SCAN
returns every key once. A sweep is one step. `FILE_PLAYING_FIELD` exists, and 30
seconds suffice to make a folder after its key was set (guard of `Expire`).

`SessionLife` has no processes, loops, directories, downloads or lists: a session
is opened (`Stage` of `fetch[s]`), gets its folder, expires, loses its folder and
then its key. It may be taken unexpired (`early`) only while another session has
been opened, since the element of a list that is skipped has one before it, and
only then may its key go before its folder. `Sweep`, the removal of all folders at
once by a process that stands in `FILE_PLAYING_FIELD`, is part of it, as that is
what the code can do. `Life` is the mapping, `ImplementsLife` the refinement.

### FileCatalogue

`step[c]` follows a call of `/delete/` (`ready`, `deleting` on the event loop,
`raised`, `closing` in a thread, `failed`) or of `/fetch/delete/all` (`ready`,
`wiping` and `wiped` in a thread, `answered`). `lock[i]` is the call whose open
transaction has deleted row `i`, `view[c]` what the DELETE of a wipe has in sight.
No code path reaches `set_files`, so `delete` always finds no cache entry:
`json.loads(None)` raises after the DELETE and before `db.commit()`. The Session
is closed by FastAPI (0.94.1), in a thread that the event loop has to start.
`get_current_user` is a coroutine as well, so that a call arrives only when the
event loop is free.
Assumed of PostgreSQL: READ COMMITTED, a waiting DELETE re-checks its row, a scan
meets rows in the order of their ids. There are enough threads and connections.

`RecordTable` is the table without transactions, locks and Sessions: a
delete_all removes at once what there was when it began, a delete fails and changes
nothing, a call that is lost has done all of its work or none. That is what the code
promises today, not what it should: `OwnDeletesRemove` states the latter, and
`manage_your_own` shows that the code violates it. `Progress` says how far a call
is for its caller, `Table` is the mapping (`scope` is `view`), `ImplementsTable`
the refinement. `Awaited(c)` is the row whose lock `c` waits for, if any.

### Registration

`pc[a]` follows `create_user`: the route's lookup, the second one, the commit of
the user, the commit of `auth_data`. `reply` is the answer in the body (the HTTP
status is 200 unless the first lookup raises). `Fail` is an exception of the
database in any of these calls: what was committed stays, and everything after the
first lookup is answered with a 400, like a refusal but with another text (`failed`).
`check_email` returns `False` for an address it cannot parse, which the column
stores as `'false'`.

### Startup and Accounts

`Startup` is the import of `nuclei_backend` in each process: `boot[w]` is
`starting` (nothing looked at), `missing` (`create_all` has not found the
tables), `creating` (CREATE TABLE executed), `up`, or one of the ends
`unreachable`, `duplicate` (the table was made meanwhile), `killed`. An exception
in `create_all` ends the import and the process; uvicorn (0.15) starts no other.
The tables of both `create_all` calls are one thing, as the two models share one
`Base` and the first call makes everything. `ready` stands for PostgreSQL itself,
which docker-compose starts first but does not wait for.

`Accounts` EXTENDS `Registration` and instantiates `Startup` on variables of its
own. A process serves when it is `up` (`Register`, `Login`, `BeginRefresh`) and
its death (`Die`) is at once a `Kill` of `Startup` and a `Crash` of
`Registration`. `Login`, `BeginRefresh` (the dependency `get_current_user`) and
`Refresh` (the route, in a thread) model the token routes. A token is what it
carries; nobody stores it. `now` counts half seconds, because `exp` holds whole
seconds (`CreateAccessToken` drops the fraction), jose compares whole seconds
(`Decodes`) and `/token/check` compares with the fraction (`VerifyToken`).
`caller` is the account that a refresh has been let in for. Clocks of the
processes agree. PostgreSQL may fail a registration at any step (`Fail`); a failed
log-in or refresh changes nothing and needs no action.

### Chunking

`step[c]` follows `Chunker.generic_run`, with one action for the look at the
size, one for each chunk, one for the hash and two for the `.ccif` file, which is
empty until it is closed. `current` and `todo` follow `Reconstruct.run`, one at a
time in one directory, each chunk a step. Bytes are pairs of the edit that wrote
them and their place, so that contents of different edits differ; a hash stands
for the content. `Edit` may come between any two reads, `Crash` and `BreakOff` at
any step. `uuid` keeps the chunks of different Chunkers apart, but the result has
the name of the file and is shared: hence Chunkers of one file. The hashes of the
chunks are left out: they are hashes of the empty file (`f.read()` right after
`open(..., "wb+")`) and nothing compares them. The hash of the whole file is one
step, as are the reads of `ensure_integrity`, and pieces are taken to be larger
than the buffer Python reads ahead into: smaller ones see the file as it was a
little earlier.

## 3. The runs

| Run | Instance | Shows |
|---|---|---|
| `shared_session` | 4 files of one request, one without a dot, 3 threads, symmetric, crashes | `DuplicatesNeedOverlap`, `LossNeedsSibling`, `EndLeavesNoFiles`, `ImplementsIntake` (refinement), `TypeOK` |
| `intake` | 2 files share a Session, a third comes alone, 2 threads for the three jobs, crashes | `LossNeedsSibling`, `EveryAcceptedSettles` (liveness) |
| `sync_sessions` | 3 sessions in one process that cleans, one with files, all outcomes, 1 crash | `PassReclaimsExpired`, `OrphanWasUnexpired`, `WaitNeedsOverlap`, `UnexpiredKept`, `ImplementsLife` (refinement), `TypeOK` |
| `sync_liveness` | 2 sessions in one of 2 processes that clean, one with files, downloads raise | `PassReclaimsExpired`, `OrphanWasUnexpired`, `ImplementsLife` (refinement) with two cleaners; `FetchAnswered`, `KeysReclaimed` (liveness) |
| `catalogue` | 3 rows of 2 users, 3 deletes, 2 wipes, 2 processes, crashes | `WipeLeavesNothing`, `LocksAreLive`, `WaitsAreOrdered`, `OnlyWipesRemove`, `ImplementsTable` (refinement), `AnsweredUnlessOverlapping` (liveness), `TypeOK` |
| `accounts` | 2 processes, 4 attempts that the database may fail, 3 names, 4 addresses (2 malformed), 1 client, a week of 1 second | start-up: `RaceHasWinner`, `ServedWithTables`, `StartEnds` (liveness); registration: `AccountsDistinct`, `RefusalJustified`, `HalfAccountOfFailure`, `HalfAccountStays`, `RegistrationAnswered` (liveness); log-in: `AnswerForetellsLogin`, `TokenOfOwner`, `LastsAWeek`; `AccountsTypeOK` |
| `chunking` | 3 Chunkers for 2, 3 and 0 chunks, lengths 0, 1, 2, 5, 8, 1 edit, crashes | `ChunkCount`, `VerdictExplained`, `TypeOK` |

Runs that end in a violation, each a disagreement between the code and what the
repository says of it (one more has no run of its own: `delete_all` deletes the rows
of every user, as `RecordTable` says):

| Run | The repository says | The code does |
|---|---|---|
| `returned_means_stored` | files are stored securely using IPFS (README.md:9) | a file that IPFS has and whose commit raised nothing has no row: a sibling's close expunged the record first |
| `returns_expired_keys` | "returns an array of expired keys" (sync_user_cache.py:91) | with two unexpired keys the second is returned, and its folder removed |
| `sweep_deletes_the_rest` | "delete everything else that's not in the redis cache" (sync_user_cache.py:121) | names relative to the working directory are removed: folders without a key stay, unless a sweep runs in a process that stands in `FILE_PLAYING_FIELD`, which removes all |
| `manage_your_own` | "manage your own compressed media" (README.md:7), and the answer "deleted" (sync_util_endpoints.py:85-87) | a user's delete of the user's own file raises before its commit and is rolled back: the file stays |
| `expired_means_expired` | "expired: ...", status 401 (auth_routes.py:85) | `/token/check` says so of every valid token, but for the last second of its life |

Why the bounds suffice. The Session hazards need two threads to collide, and a
third one to profit from what the collision leaves (a record that another flush
inserts, also after its own job is over): hence three files that commit. In
`shared_session` each has a thread of its own, so that all overlap fully; in `intake`
there is a thread less than there are jobs, so that one waits in the queue of the
executor, be it behind its sibling or behind the other request. Both have one
process, as processes share nothing here but the table; the proofs have any
number. The iteration that skips an
element needs two keys, and one that skips, looks and skips again three; a pass is
broken off by a second cleaner (`sync_liveness`) or a crash (`sync_sessions`). The
working directory goes astray with two fetches, or a fetch and `GET /fetch`, in one
process. Everything `sync_sessions` checks is also proved, for any sessions,
processes and number of crashes. The hang of the catalogue needs two deletes in
one process, and a delete_all for its indirect form. A race for the tables needs two processes, one
for a name two attempts, one for `'false'` two malformed addresses; the log-in is
that of an attempt (`t2`) whose name another one may have taken with another
password. A week of two half seconds and five points of time put the token before,
at and after its expiry, from both halves of a second. In `chunking` 5 and 8 bytes
leave a rest for 2 or 3 chunks, 1 and 2 bytes are too few, two working Chunkers
share a result, and one edit shortens, lengthens or replaces the file.

Counters are bounded by `MaxCrashes` in `SyncSessions`, `MaxTime` in `Accounts` and
`MaxEdits` in `Chunking`. Elsewhere processes crash at every step without a bound,
since requests are finite and are not repeated. `accounts` and `chunking` do not
check for deadlock: the system stops when nobody calls any more, all processes are
down or the file is not touched again.

`AnsweredUnlessOverlapping` states under which condition every call is answered. The
condition matters: when one process serves two overlapping deletes of one row
(a double click), the second DELETE waits on the event loop for the lock of the
first, whose Session is closed by way of the same loop. The process hangs until
it is restarted. PostgreSQL does not break the wait: `WaitsAreOrdered` says that a
call waits only for a row above all those it has locked, so that row locks alone
never make a circle for PostgreSQL to detect.

## 4. Fairness

* `ImageStore`: weak fairness of `Process(f)`, what the server itself does for
  file `f`. Event loop and operating system run what can run. A thread that is
  waited for is released, as nothing in a thread waits for anything but itself
  (`intake` has jobs waiting for one).
  No fairness for clients, for IPFS (`RunAdd`) or for crashes.
* `SyncSessions`: weak fairness of the cleaner (it is run again and again) and of
  `Expire` (time passes). Strong fairness of `Proceed(s)`: other handlers take the
  loop again and again, but asyncio runs ready callbacks first come, first
  served, so that a handler that is ready infinitely often does run.
  `KeysReclaimed` and `FetchAnswered` are stated with `<>[]`: sessions are opened
  once, so that "every key is deleted" and "from some time on there is none" are
  the same.
* `FileCatalogue`: weak fairness of each call's own steps. Calls are finite, so
  that the event loop is eventually free for good or never.
* `Accounts`: weak fairness of `Proceed(a)`, the thread of an attempt, and of the
  steps of start-up (PostgreSQL answers, or raises). None for clients, for the clock, for
  deaths, for PostgreSQL to become ready or for the end of a refresh.
* `Chunking`: none, as only safety is stated.

## 5. What is proved

For every value of the constants that satisfies the module's assumption
(`StoreAssumption`, `SyncAssumption`, `CatalogueAssumption`,
`RegistrationAssumption`, `AccountsAssumption`, `ChunkingAssumption`: the types of
the parameters; a pool has a thread, a token lives a positive time).

* `ImageStoreProofs`. `TypeCorrect` is `Spec => []TypeOK`. `DuplicatesExplained`
  (`DuplicatesNeedOverlap`): "an uncontested file has at most one row" is not
  inductive, because nothing in it says that a record that has a row is not also
  waiting to be inserted. `Placed` says so: the record of an uncontested file is in
  at most one place, pending, taken by one flush that has not written it yet, or
  with one copy in the transaction or the table (`OneCopy`), and in none before
  `db.add`. `NotLostAlone` (`LossNeedsSibling`) rests on `Entered` (whoever is
  in `db.commit` has touched the Session, and a contested record had two that did)
  and on `Sharing`: a file none of whose siblings has touched the Session (`Alone`)
  finds the Session as its own steps have left it (`Undisturbed`), and one that has
  not touched it has no outcome of it (`Fresh`).
  `NothingLeftBehind` (`EndLeavesNoFiles`) rests on `Tidy`, which
  says at each step which temporary copies and scripts may exist.
  `ImageStoreImplementsIntake` is the refinement of `MediaIntake`: `FateCases`
  gives the fate of a file at each step, `FatesMove` and `FatesDecided` the steps that
  decide the fates of a set of files together,
  `NothingRevived` the steps that let no record of a finished file back in;
  `IntakeStep` goes through the actions. It needs `Placed`: COMMIT stores only
  what is `Held`, whose files are not given up yet.
* `FileCatalogueProofs`. `CatalogueInv` ties every lock to the step its holder
  stands at (`Holders`), the steps to the routes (`OwnSteps`) and the rows in a
  wipe's view to the past (`Seen`: they were stored, so they are not stored
  again). From it: `WipesAreComplete`, `LiveLocks`, `DeletesRemoveNothing`,
  `CatalogueTypeCorrect`. `OrderedWaits` (`WaitsAreOrdered`) needs more, that a
  wipe has locked the rows before those that are left to it (`LockedFirst`), which
  lasts because nothing in its view is stored again and it gives up no lock.
  `CatalogueImplementsTable` is the refinement of `RecordTable`: `ProgressOf` and
  `CallMoves` translate the steps of a call, `TableStep` goes through the actions.
  The commit of a wipe is the step that matters: what it has locked is what it had
  in view except what others have removed meanwhile, by `Holders` and `Seen`.
* `RegistrationProofs`. `RegistrationInv` says which rows exist at which step
  (`Rows`) and what each answer implies (`Told`). From it: `DistinctAccounts`,
  `JustifiedRefusals`, `HalvesOfFailures`, `LastingHalves` (an action property)
  and `RegistrationTypeCorrect`.

* `SyncSessionsProofs`. `Base` (types, the cleaner's position in its list, the
  directory of a process that fetches) gives `SyncTypeCorrect`. `Onward` says what
  no step of anybody undoes for a session that was opened, `OwnPass` that a pass
  is its process's alone; with the two, each invariant is a matter of the steps of
  one pass. `Reclaim`: a session that had expired at the scan is not opened again,
  is never taken from the list, and lies ahead in the list or is gone
  (`PassesReclaimExpired`). `Orphans`: the steps of making a folder and of
  removing it, in any order (`OrphansWereUnexpired`). `Skips`: what a check has
  not looked at is the end of what the scan found, so that the element that moves
  into a gap is the successor of the one taken (`TakeAligned`), and every
  unexpired session that is passed over was skipped (`UnexpiredAreKept`, an
  action property). `Waits`: a fetch nobody came between stands in its own folder
  (`WaitsNeedOverlaps`). `SessionsImplementLife` is the refinement of
  `SessionLife`, step by step (`FolderStep`, `LifeStep`). It rests on `Orphans`,
  `Skips` and `Passes`: what a scan has found was opened, and a session between
  the removal of its folder and that of its key had expired or counts as taken.
* `AccountsProofs`. `BootInv` (what a process knows of the tables, and that a
  committed table has a committer) gives `WinnerOfTheRace` and
  `TablesWhenServed`; `TokenInv` (every token was issued for a stored account, and
  its two roundings) gives `TokensOfOwners` and `TokensLastAWeek`.
  `RegistersAsSpecified` shows that every step of `Accounts` is one of
  `Registration` or leaves it alone, which carries the theorems above over
  (`RegistrationsKept`, `LoginsForetold`, `AccountsTypeCorrect`).
* `ChunkingProofs`. `CountInv` (the number of bytes read, the size of a chunk and
  the number of chunks, by the division of the length) gives `CountOfChunks`;
  `ChunkingTypeCorrect` is its first conjunct. `VerdictsExplained`
  (`VerdictExplained`) needs to follow the file through every place it is read at:
  `RestoreInv` adds that the chunks of a Chunker whose file was not edited are the
  pieces of it in order (`Sliced`) and reach its end when the hash has been taken
  (`Restorable`), and that the result is the file as far as the chunks have been
  copied (`Rebuilding`). `KeptByOthers` and `OnlyChunkers` say whom a step leaves
  alone, `Ends` where the pieces of a file end.

Every safety property that a run checks is proved, and so are the four refinements
(`MediaIntake`, `RecordTable`, `SessionLife`, and `Registration` by `Accounts`).
Only model-checked is liveness, as fairness and ENABLED are out of the prover's
reach: `EveryAcceptedSettles`, `FetchAnswered`, `KeysReclaimed`,
`AnsweredUnlessOverlapping`, `RegistrationAnswered`, `StartEnds`.

## 6. What is not modelled

* Outages of PostgreSQL once it is ready, except in registrations, where they leave
  something behind, and of Redis, and the limits of the connection pool.
* Listing routes and the reading of the Redis entry of a user: they change
  nothing. No code path writes that entry, although README.md describes it:
  `FileListener` raises, and `delete` reads the entry before it would write it.
* Second factor (`user_security.py`): `setup_otp` raises before it adds its row
  (`pyotp.TOTP()` without a secret), `verify_otp` before it issues its token (it
  calls a function that does not exist), `GET /has` returns coroutines that are
  never run, the other set-up routes are stubs. There are no steps to model.
* Quota (`user_quota`): not mounted, its import fails (`get_file_count` does not
  exist), and the mapper of `UserQuota` cannot be configured, so that no instance
  of it can be made.
* `quick_sort`, `BytePairing`, `encrypt` and `decrypt`: helpers without state of
  their own that nothing calls; `bytes_utils` cannot be imported in the package.
* `get_google_oauth_token`, which no route uses.
* Settings, middleware, alembic's generated environment, the scripts that rebuild
  containers, the load test and the socket wrappers: no state of the program.

## 7. Plan

1. A composition of `ImageStore` and `FileCatalogue` on one table: records that a
   request commits while a wipe scans.
2. An abstract register of accounts (a name is free, half taken or taken) that
   `Registration` implements, as its invariants say what each answer implies.
3. `catalogue` and `accounts` with larger instances, where only their liveness
   needs it, as their safety is proved.
