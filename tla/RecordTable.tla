---------------------------- MODULE RecordTable ----------------------------
(***************************************************************************)
(* What callers may take the routes that remove records of data_storage    *)
(* for, without transactions, row locks, the event loop or Sessions: a     *)
(* delete_all removes in one step all the records that there were when it  *)
(* began, and no later one; a delete changes nothing and fails, as the     *)
(* code has it, although it is meant to remove the record (README.md:7;    *)
(* OwnDeletesRemove of FileCatalogue); a call that is lost has done all of *)
(* its work or none.  FileCatalogue implements this module.                *)
(***************************************************************************)
EXTENDS Naturals

CONSTANTS
    Rows,         \* the ids of data_storage
    Deletes,      \* the calls of /delete/
    Wipes         \* the calls of /fetch/delete/all

VARIABLES
    record,       \* record[i]: absent, stored or deleted
    call,         \* call[c]: how far the call c is
    scope         \* scope[c]: the records that the delete_all c will remove

vars == <<record, call, scope>>

Calls == Deletes \cup Wipes

States == {"waiting", "running", "done", "answered", "refused", "lost"}

TypeOK ==
    /\ record \in [Rows -> {"absent", "stored", "deleted"}]
    /\ call \in [Calls -> States]
    /\ scope \in [Wipes -> SUBSET Rows]

Init ==
    /\ record = [i \in Rows |-> "absent"]
    /\ call = [c \in Calls |-> "waiting"]
    /\ scope = [c \in Wipes |-> {}]

Move(c, a, b) == call[c] = a /\ call' = [call EXCEPT ![c] = b]

\* Records come in the order of their ids, and never a second time.
Add(i) ==
    /\ record[i] = "absent"
    /\ \A j \in Rows : j < i => record[j] # "absent"
    /\ record' = [record EXCEPT ![i] = "stored"]
    /\ UNCHANGED <<call, scope>>

Refuse(c) ==
    /\ Move(c, "waiting", "refused")
    /\ UNCHANGED <<record, scope>>

Begin(c) ==
    /\ Move(c, "waiting", "running")
    /\ scope' = [scope EXCEPT ![c] = {i \in Rows : record[i] = "stored"}]
    /\ UNCHANGED record

RemoveAll(c) ==
    /\ Move(c, "running", "done")
    /\ record' = [i \in Rows |-> IF i \in scope[c] THEN "deleted"
                                                   ELSE record[i]]
    /\ UNCHANGED scope

Answer(c) ==
    /\ Move(c, "done", "answered")
    /\ UNCHANGED <<record, scope>>

\* Some of the calls that are not over are lost, when a process dies.
Lose ==
    /\ UNCHANGED <<record, scope>>
    /\ call' \in [Calls -> States]
    /\ \A c \in Calls :
          call'[c] # call[c] =>
              call[c] \in {"waiting", "running", "done"} /\ call'[c] = "lost"

Next ==
    \/ Lose
    \/ \E i \in Rows : Add(i)
    \/ \E c \in Deletes : Refuse(c)
    \/ \E c \in Wipes : Begin(c) \/ RemoveAll(c) \/ Answer(c)

Spec == Init /\ [][Next]_vars
=============================================================================
