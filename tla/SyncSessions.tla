---------------------------- MODULE SyncSessions ----------------------------
(***************************************************************************)
(* The folders of the sync service.  GET /fetch/all opens a session: a key *)
(* "processing:<id>" in Redis that expires after 30 seconds, and a folder  *)
(* FILE_PLAYING_FIELD/<id> into which the user's files are downloaded.     *)
(* Its way to the end of process_files, which removes both, is barred by   *)
(* FileListener, which always raises, so that sessions are reclaimed by    *)
(* FileCleanerSchedule alone, a job that every server process runs when it *)
(* starts and every two hours.                                             *)
(*                                                                         *)
(* Redis and the folders are shared by the processes.  A handler runs on   *)
(* the event loop of its process and keeps the loop until it awaits; the   *)
(* cleaner never awaits.  The working directory belongs to the process,    *)
(* and every handler of it that opens a file by name depends on it.        *)
(***************************************************************************)
EXTENDS Naturals, Sequences, FiniteSets

CONSTANTS
    Sessions,          \* the sessions that are ever opened
    Workers,           \* the server processes
    WorkerOf,          \* WorkerOf[s]: the process that serves session s
    HasFiles,          \* the sessions whose user has files on record
    DownloadOutcomes,  \* what may come of the downloads of a session
    MaxCrashes         \* bound: how often processes die

ASSUME SyncAssumption ==
    /\ WorkerOf \in [Sessions -> Workers]
    /\ HasFiles \subseteq Sessions
    /\ {"error"} \subseteq DownloadOutcomes
    /\ DownloadOutcomes \subseteq {"error", "whole", "other"}
    /\ {"app", "field", "none"} \cap Sessions = {}
    /\ MaxCrashes \in Nat

VARIABLES
    fetch,        \* fetch[s]: where process_files stands
    key,          \* key[s]: the entry processing:<s> in Redis
    folders,      \* the sessions that have a folder in FILE_PLAYING_FIELD
    cwd,          \* cwd[w]: the working directory of process w
    placed,       \* placed[s]: the directory that got the whole files of s
    phase,        \* phase[w]: where the cleaner of w stands
    sessions,     \* sessions[w]: its list all_sessions
    index,        \* index[w]: its position in that list
    crashes,      \* how often processes have died
    found,        \* history: found[w] is all_sessions as the scan returned it
    overdue,      \* history: overdue[w], the sessions expired at the scan
    early,        \* history: sessions that the cleaner took unexpired
    overlapped    \* history: fetches during which their process moved on

fetchVars == <<fetch, placed, overlapped>>
cleanVars == <<phase, sessions, index, found, overdue>>
vars == <<fetchVars, key, folders, cwd, cleanVars, crashes, early>>

-----------------------------------------------------------------------------

\* FILE_PLAYING_FIELD and the directory the server was started in exist.
Standing == {"app", "field"}

FetchSteps == {"idle", "activated", "downloading", "written", "waiting",
               "ended"}

Phases == {"rest", "check", "folder", "key", "sweep"}

\* A list without repetition, as redis scan_iter yields the keys.
Listings(S) == {q \in UNION {[1..n -> S] : n \in 0..Cardinality(S)} :
                   /\ \A s \in S : \E i \in DOMAIN q : q[i] = s
                   /\ \A i, j \in DOMAIN q : q[i] = q[j] => i = j}

TypeOK ==
    /\ fetch \in [Sessions -> FetchSteps]
    /\ key \in [Sessions -> {"none", "live", "expired"}]
    /\ folders \subseteq Sessions
    /\ cwd \in [Workers -> Standing \cup Sessions]
    /\ placed \in [Sessions -> {"none", "field"} \cup Sessions]
    /\ phase \in [Workers -> Phases]
    /\ sessions \in [Workers -> Seq(Sessions)]
    /\ index \in [Workers -> Nat \ {0}]
    /\ crashes \in 0..MaxCrashes
    /\ found \in [Workers -> Seq(Sessions)]
    /\ overdue \in [Workers -> SUBSET Sessions]
    /\ early \subseteq Sessions
    /\ overlapped \subseteq Sessions

Init ==
    /\ fetch = [s \in Sessions |-> "idle"]
    /\ key = [s \in Sessions |-> "none"]
    /\ folders = {}
    /\ cwd = [w \in Workers |-> "app"]
    /\ placed = [s \in Sessions |-> "none"]
    /\ phase = [w \in Workers |-> "rest"]
    /\ sessions = [w \in Workers |-> <<>>]
    /\ index = [w \in Workers |-> 1]
    /\ crashes = 0
    /\ found = [w \in Workers |-> <<>>]
    /\ overdue = [w \in Workers |-> {}]
    /\ early = {}
    /\ overlapped = {}

\* No handler of w is in the middle of a step: the loop can start another.
LoopFree(w) ==
    /\ phase[w] = "rest"
    /\ \A s \in Sessions : WorkerOf[s] = w => fetch[s] # "activated"

\* The working directory of w has not been removed.
InPlace(w) == cwd[w] \in Standing \cup folders

\* The fetches of w whose working directory is about to change under them.
Underway(w) == {s \in Sessions : /\ WorkerOf[s] = w
                                 /\ fetch[s] \in {"downloading", "written",
                                                  "waiting"}}

-----------------------------------------------------------------------------
(* process_files                                                           *)

\* FileSessionManager.activate_file_session, before anything awaits.
Activate(s) ==
    /\ fetch[s] = "idle"
    /\ LoopFree(WorkerOf[s])
    /\ fetch' = [fetch EXCEPT ![s] = "activated"]
    /\ key' = [key EXCEPT ![s] = "live"]
    /\ UNCHANGED <<placed, overlapped, folders, cwd, cleanVars, crashes, early>>

\* download_file_ipfs makes the folder and enters it, and awaits the
\* downloads.  There are none for a user without files: then the summary is
\* written and insured at once, and the listener reads it and raises.
MakeFolder(s) ==
    LET w == WorkerOf[s] IN
    /\ fetch[s] = "activated"
    /\ fetch' = [fetch EXCEPT ![s] = IF s \in HasFiles THEN "downloading"
                                                       ELSE "ended"]
    /\ folders' = folders \cup {s}
    /\ cwd' = [cwd EXCEPT ![w] = s]
    /\ overlapped' = overlapped \cup Underway(w)
    /\ UNCHANGED <<key, placed, cleanVars, crashes, early>>

\* A mutant: the error of a download is logged and not raised again.
RaisesNothing(w, outcome) == FALSE

\* A download raises, or it cannot open its file.
Raises(w, outcome) == outcome = "error" \/ ~InPlace(w)

\* A mutant: the files go to the parent of the session's folder.
Parent(w) == "field"

\* Files are opened by their names.
Destination(w) == cwd[w]

\* The downloads write to the working directory the process has by then.  One
\* that raises, and one that cannot open its file, end process_files.  The
\* status of a response is not looked at: its body may be something else.
Download(s) ==
    LET w == WorkerOf[s] IN
    /\ fetch[s] = "downloading"
    /\ LoopFree(w)
    /\ \E outcome \in DownloadOutcomes :
          IF Raises(w, outcome)
          THEN /\ fetch' = [fetch EXCEPT ![s] = "ended"]
               /\ UNCHANGED placed
          ELSE /\ fetch' = [fetch EXCEPT ![s] = "written"]
               /\ placed' = IF outcome = "whole"
                            THEN [placed EXCEPT ![s] = Destination(w)]
                            ELSE placed
    /\ UNCHANGED <<key, folders, cwd, cleanVars, crashes, early, overlapped>>

\* insurance: the files are there, in the working directory, and complete.
Insured(s) ==
    LET w == WorkerOf[s] IN InPlace(w) /\ placed[s] = cwd[w]

\* write_file_summary, then insurance.  What follows success does not await
\* and ends with the AttributeError of the listener.
Summarise(s) ==
    LET w == WorkerOf[s] IN
    /\ fetch[s] = "written"
    /\ LoopFree(w)
    /\ fetch' = [fetch EXCEPT ![s] = IF Insured(s) \/ ~InPlace(w)
                                     THEN "ended" ELSE "waiting"]
    /\ UNCHANGED <<key, folders, cwd, placed, cleanVars, crashes, early,
                   overlapped>>

\* Every five seconds insurance looks again; until it succeeds nothing changes.
Insure(s) ==
    /\ fetch[s] = "waiting"
    /\ LoopFree(WorkerOf[s])
    /\ Insured(s)
    /\ fetch' = [fetch EXCEPT ![s] = "ended"]
    /\ UNCHANGED <<key, folders, cwd, placed, cleanVars, crashes, early,
                   overlapped>>

\* The 30 seconds of a key are over.  They are long enough for the handler
\* that has just set the key to make its folder.
Expire(s) ==
    /\ key[s] = "live"
    /\ fetch[s] # "activated"
    /\ key' = [key EXCEPT ![s] = "expired"]
    /\ UNCHANGED <<fetchVars, folders, cwd, cleanVars, crashes, early>>

-----------------------------------------------------------------------------
(* fetch_specific                                                          *)

\* GET /fetch does not await its download, so that no folder is made.  The
\* summary goes to the working directory, cleanup leaves for
\* FILE_PLAYING_FIELD and raises because there is no folder to remove.
FetchSpecific(w) ==
    /\ LoopFree(w)
    /\ InPlace(w)
    /\ cwd' = [cwd EXCEPT ![w] = "field"]
    /\ overlapped' = overlapped \cup Underway(w)
    /\ UNCHANGED <<fetch, placed, key, folders, cleanVars, crashes, early>>

-----------------------------------------------------------------------------
(* FileCleanerSchedule                                                     *)

\* A mutant: the positions of a list are counted from 0.
FirstOfZero == 0

\* Where a loop over a list begins.
First == 1

\* __init__ lists the keys.
Scan(w) ==
    /\ LoopFree(w)
    /\ \E q \in Listings({s \in Sessions : key[s] # "none"}) :
          /\ sessions' = [sessions EXCEPT ![w] = q]
          /\ found' = [found EXCEPT ![w] = q]
    /\ overdue' = [overdue EXCEPT ![w] = {s \in Sessions : key[s] = "expired"}]
    /\ phase' = [phase EXCEPT ![w] = "check"]
    /\ index' = [index EXCEPT ![w] = First]
    /\ UNCHANGED <<fetchVars, key, folders, cwd, crashes, early>>

\* The pass is over and its FileCleanerSchedule object is gone.
EndPass(w) ==
    /\ phase' = [phase EXCEPT ![w] = "rest"]
    /\ sessions' = [sessions EXCEPT ![w] = <<>>]
    /\ index' = [index EXCEPT ![w] = First]
    /\ found' = [found EXCEPT ![w] = <<>>]
    /\ overdue' = [overdue EXCEPT ![w] = {}]

\* The list without its i-th element.
Without(q, i) == SubSeq(q, 1, i - 1) \o SubSeq(q, i + 1, Len(q))

\* A mutant: the comparison is the wrong way round.
TakesExpired(s) == key[s] = "expired"

\* A mutant: nothing is taken from the list.
TakesNothing(s) == FALSE

\* get_expired_sessions takes the key of s from its list.
Takes(s) == key[s] = "live"

\* One turn of the loop of get_expired_sessions, which takes unexpired keys
\* from the list it iterates over: the next key moves into the gap and is
\* never looked at.  A key that another process has deleted is read as None,
\* and float(None) ends the pass.
Check(w) ==
    LET q == sessions[w]
        i == index[w]
    IN
    /\ phase[w] = "check"
    /\ IF i > Len(q)
       THEN /\ phase' = [phase EXCEPT ![w] = IF q = <<>> THEN "sweep"
                                                         ELSE "folder"]
            /\ index' = [index EXCEPT ![w] = First]
            /\ UNCHANGED <<sessions, found, overdue>>
       ELSE IF key[q[i]] = "none"
       THEN EndPass(w)
       ELSE /\ sessions' = IF Takes(q[i])
                           THEN [sessions EXCEPT ![w] = Without(q, i)]
                           ELSE sessions
            /\ index' = [index EXCEPT ![w] = i + 1]
            /\ UNCHANGED <<phase, found, overdue>>
    /\ UNCHANGED <<fetchVars, key, folders, cwd, crashes, early>>

\* A mutant: the folder is removed by its bare name.
RemovedBare(w, s) == IF cwd[w] = "field" THEN folders \ {s} ELSE folders

\* The folder is removed by its full path.
Removed(w, s) == folders \ {s}

\* One turn of the loop of clean_expired_folders.  The folder goes first; the
\* key follows.
RemoveFolder(w) ==
    /\ phase[w] = "folder"
    /\ folders' = Removed(w, sessions[w][index[w]])
    /\ phase' = [phase EXCEPT ![w] = "key"]
    /\ early' = early \cup {s \in {sessions[w][index[w]]} : key[s] = "live"}
    /\ UNCHANGED <<fetchVars, key, cwd, sessions, index, found, overdue,
                   crashes>>

\* A mutant: the key is forgotten.
Kept(s) == key

Deleted(s) == [key EXCEPT ![s] = "none"]

\* The end of that turn: the key is deleted.
DeleteKey(w) ==
    /\ phase[w] = "key"
    /\ key' = Deleted(sessions[w][index[w]])
    /\ IF index[w] < Len(sessions[w])
       THEN /\ phase' = [phase EXCEPT ![w] = "folder"]
            /\ index' = [index EXCEPT ![w] = @ + 1]
       ELSE /\ phase' = [phase EXCEPT ![w] = "sweep"]
            /\ UNCHANGED index
    /\ UNCHANGED <<fetchVars, folders, cwd, sessions, found, overdue, crashes,
                   early>>

\* "Delete everything else that's not in the redis cache": the names of the
\* folders are compared with keys, which have a prefix, so that every folder
\* counts as one of those.  They are then removed by their bare names, which
\* are found if the process happens to be in FILE_PLAYING_FIELD.
Sweep(w) ==
    /\ phase[w] = "sweep"
    /\ EndPass(w)
    /\ folders' = IF cwd[w] = "field" THEN {} ELSE folders
    /\ UNCHANGED <<fetchVars, key, cwd, crashes, early>>

-----------------------------------------------------------------------------

\* A process dies and is started again in the directory of the application.
\* Its handlers and its pass of the cleaner are gone; keys and folders stay.
Crash(w) ==
    /\ crashes < MaxCrashes
    /\ crashes' = crashes + 1
    /\ fetch' = [s \in Sessions |-> IF WorkerOf[s] = w /\ fetch[s] # "idle"
                                    THEN "ended" ELSE fetch[s]]
    /\ cwd' = [cwd EXCEPT ![w] = "app"]
    /\ EndPass(w)
    /\ UNCHANGED <<key, folders, placed, early, overlapped>>

Proceed(s) == MakeFolder(s) \/ Download(s) \/ Summarise(s) \/ Insure(s)

Clean(w) ==
    Scan(w) \/ Check(w) \/ RemoveFolder(w) \/ DeleteKey(w) \/ Sweep(w)

Next ==
    \/ \E s \in Sessions : Activate(s) \/ Proceed(s) \/ Expire(s)
    \/ \E w \in Workers : FetchSpecific(w) \/ Clean(w) \/ Crash(w)

\* The event loop runs what is ready in order of arrival, so that a handler
\* gets its turn however often the cleaner and /fetch hold the loop before it
\* (strong fairness).  Time passes, and the cleaner of every process is run
\* again and again.  Nobody has to open a session, to call /fetch or to crash.
Fairness ==
    /\ \A s \in Sessions : SF_vars(Proceed(s)) /\ WF_vars(Expire(s))
    /\ \A w \in Workers : WF_vars(Clean(w))

Spec == Init /\ [][Next]_vars /\ Fairness

-----------------------------------------------------------------------------
(* Properties that hold.                                                   *)

\* Although get_expired_sessions skips elements, a pass of the cleaner that
\* gets to its end has removed every session that had expired when it began.
PassReclaimsExpired ==
    \A w \in Workers :
        phase[w] = "sweep" =>
            \A s \in overdue[w] : key[s] = "none" /\ s \notin folders

\* The element before s in the list was unexpired and taken from the list.
SkippedIn(s, w) ==
    \E i \in 1..Len(found[w]) - 1 :
        /\ found[w][i + 1] = s
        /\ \A j \in 1..Len(sessions[w]) : sessions[w][j] # found[w][i]

\* The folder of an unexpired session is removed in two cases only: the pass
\* never looked at its key because the key before it was unexpired, or the
\* sweep ran in a process that GET /fetch had moved to FILE_PLAYING_FIELD.
UnexpiredKept ==
    [][\A s \in folders \ folders' :
          key[s] = "live" =>
              \E w \in Workers :
                  \/ phase[w] = "folder" /\ SkippedIn(s, w)
                  \/ phase[w] = "sweep" /\ cwd[w] = "field"]_vars

\* A folder is out of the cleaner's reach (it has no key) only if the cleaner
\* took the session before it had expired.
OrphanWasUnexpired ==
    \A s \in folders : key[s] = "none" => s \in early

\* A fetch whose files have come completely waits for them only if another
\* handler changed the working directory of the process meanwhile.
WaitNeedsOverlap ==
    \A s \in Sessions :
        fetch[s] = "waiting" /\ placed[s] # "none" => s \in overlapped

\* Every session is reclaimed: its key is deleted, whichever passes of the
\* cleaner break off on a key that another one has deleted.
KeysReclaimed == <>[](\A s \in Sessions : key[s] = "none")

\* Every fetch is answered.  It holds where downloads raise, as they do with
\* the address download_file builds; a download that is not whole hangs.
FetchAnswered == <>[](\A s \in Sessions : fetch[s] \in {"idle", "ended"})

\* Whether a session has been opened, by the step its fetch stands at.
Stage ==
    [f \in FetchSteps |-> CASE f = "idle"      -> "new"
                            [] f = "activated" -> "opening"
                            [] OTHER           -> "opened"]

Life == INSTANCE SessionLife WITH
    stage <- [s \in Sessions |-> Stage[fetch[s]]],
    taken <- early

\* Whatever handlers, cleaners and crashes come between its steps, a session
\* goes through one life: it is opened once, it does not expire while it is
\* being opened, it is cleaned folder first, and it leaves nothing behind
\* unless it was taken too early, which needs another session.
ImplementsLife == Life!Spec

-----------------------------------------------------------------------------
(* What the documentation says and the code does not do.                   *)

\* get_expired_sessions "returns an array of expired keys"
\* (sync_user_cache.py:91).  The code returns unexpired ones as well.
ReturnsExpiredKeys ==
    \A w \in Workers :
        phase[w] = "folder" =>
            \A i \in index[w]..Len(sessions[w]) : key[sessions[w][i]] # "live"

\* "Now we scan the dirs and delete everything else that's not in the redis
\* cache" (sync_user_cache.py:121).  The code removes names relative to its
\* working directory: folders without a key stay.
SweepDeletesTheRest ==
    [][\A w \in Workers :
          phase[w] = "sweep" /\ phase'[w] = "rest" /\ crashes' = crashes =>
              \A s \in folders' : key[s] # "none"]_vars
=============================================================================
