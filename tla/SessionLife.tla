---------------------------- MODULE SessionLife ----------------------------
(***************************************************************************)
(* What becomes of a session of the sync service, as its user and an       *)
(* operator see it: its key in Redis and its folder, without processes,    *)
(* event loops, working directories, downloads and the lists and positions *)
(* of the cleaners.  SyncSessions implements this module.                  *)
(***************************************************************************)
CONSTANT Sessions

VARIABLES
    stage,        \* stage[s]: whether s has been opened
    key,          \* key[s]: none, live or expired
    folders,      \* the sessions that have a folder
    taken         \* the sessions that were cleaned before they had expired

vars == <<stage, key, folders, taken>>

Stages == {"new", "opening", "opened"}

TypeOK ==
    /\ stage \in [Sessions -> Stages]
    /\ key \in [Sessions -> {"none", "live", "expired"}]
    /\ folders \subseteq Sessions
    /\ taken \subseteq Sessions

Init ==
    /\ stage = [s \in Sessions |-> "new"]
    /\ key = [s \in Sessions |-> "none"]
    /\ folders = {}
    /\ taken = {}

\* A session gets its key, and then its folder, once.
Open(s) ==
    /\ stage[s] = "new"
    /\ stage' = [stage EXCEPT ![s] = "opening"]
    /\ key' = [key EXCEPT ![s] = "live"]
    /\ UNCHANGED <<folders, taken>>

MakeFolder(s) ==
    /\ stage[s] = "opening"
    /\ stage' = [stage EXCEPT ![s] = "opened"]
    /\ folders' = folders \cup {s}
    /\ UNCHANGED <<key, taken>>

\* Some sessions whose process has died never get a folder.
Abandon ==
    /\ UNCHANGED <<key, folders, taken>>
    /\ stage' \in [Sessions -> Stages]
    /\ \A s \in Sessions :
          stage'[s] # stage[s] => stage[s] = "opening" /\ stage'[s] = "opened"

Expire(s) ==
    /\ stage[s] = "opened"
    /\ key[s] = "live"
    /\ key' = [key EXCEPT ![s] = "expired"]
    /\ UNCHANGED <<stage, folders, taken>>

\* The folder of a session that has expired is removed; that of a session that
\* has no key any more is still there only if the session was taken.
RemoveFolder(s) ==
    /\ key[s] = "expired" \/ s \in taken
    /\ folders' = folders \ {s}
    /\ UNCHANGED <<stage, key, taken>>

\* An unexpired session is taken, which does not happen to one that is alone.
Take(s) ==
    /\ key[s] = "live"
    /\ \E t \in Sessions \ {s} : stage[t] # "new"
    /\ folders' = folders \ {s}
    /\ taken' = taken \cup {s}
    /\ UNCHANGED <<stage, key>>

\* All folders are removed at once, and the keys stay.
Sweep ==
    /\ folders' = {}
    /\ UNCHANGED <<stage, key, taken>>

\* A key is deleted when its session has expired and has no folder, so that
\* nothing is left behind, or when it was taken.
DeleteKey(s) ==
    /\ \/ key[s] = "expired" /\ s \notin folders
       \/ s \in taken
    /\ key' = [key EXCEPT ![s] = "none"]
    /\ UNCHANGED <<stage, folders, taken>>

Next ==
    \/ Abandon
    \/ Sweep
    \/ \E s \in Sessions : \/ Open(s) \/ MakeFolder(s) \/ Expire(s)
                           \/ RemoveFolder(s) \/ Take(s) \/ DeleteKey(s)

Spec == Init /\ [][Next]_vars
=============================================================================
