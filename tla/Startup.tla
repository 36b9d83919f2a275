------------------------------- MODULE Startup -------------------------------
(***************************************************************************)
(* How the server comes up.  uvicorn starts several processes; each one    *)
(* imports nuclei_backend, and Nuclei() makes the tables that the database *)
(* does not have.  create_all first looks for the tables and then makes    *)
(* those it missed, in one transaction of PostgreSQL.  An exception ends   *)
(* the import and with it the process, and uvicorn (0.15) starts no other. *)
(***************************************************************************)
CONSTANT Workers     \* the server processes

VARIABLES
    boot,      \* boot[w]: how far process w has come
    tables,    \* the tables are in the database
    creator,   \* the process whose open transaction makes the tables, if any
    ready      \* PostgreSQL accepts connections

\* "unreachable", "duplicate", "killed": ends of a process that failed.
BootSteps == {"starting", "missing", "creating", "up",
              "unreachable", "duplicate", "killed"}

TypeOK ==
    /\ boot \in [Workers -> BootSteps]
    /\ tables \in BOOLEAN
    /\ creator \in Workers \cup {"nobody"}
    /\ ready \in BOOLEAN

\* A first deployment or a later one; docker-compose starts PostgreSQL first
\* but does not wait for it.
Init ==
    /\ boot = [w \in Workers |-> "starting"]
    /\ tables \in BOOLEAN
    /\ creator = "nobody"
    /\ ready \in BOOLEAN

Up(w) == boot[w] = "up"

Reach(w, step) == boot' = [boot EXCEPT ![w] = step]

\* A mutant: PostgreSQL does not tell a process that the tables exist.
SeesNone == FALSE

\* A mutant: a process takes tables that another one is making for made.
SeesUncommitted == tables \/ creator # "nobody"

\* What create_all sees of the tables (checkfirst).
SeesTables == tables

\* create_all connects and looks.
Check(w) ==
    /\ boot[w] = "starting"
    /\ Reach(w, IF ~ready THEN "unreachable"
                ELSE IF SeesTables THEN "up" ELSE "missing")
    /\ UNCHANGED <<tables, creator, ready>>

\* CREATE TABLE waits while another transaction makes the same table, and
\* fails if that one has been committed.
Create(w) ==
    /\ boot[w] = "missing"
    /\ creator = "nobody"
    /\ IF tables
       THEN Reach(w, "duplicate") /\ UNCHANGED creator
       ELSE Reach(w, "creating") /\ creator' = w
    /\ UNCHANGED <<tables, ready>>

\* COMMIT.  The second create_all finds everything it looks for.
CommitTables(w) ==
    /\ boot[w] = "creating"
    /\ Reach(w, "up")
    /\ tables' = TRUE
    /\ creator' = "nobody"
    /\ UNCHANGED ready

\* A mutant: the transaction of a process that died stays open.
Held(w) == creator

\* PostgreSQL rolls back the open transaction of a process that died.
Released(w) == IF creator = w THEN "nobody" ELSE creator

Kill(w) ==
    /\ boot[w] \in {"missing", "creating", "up"}
    /\ Reach(w, "killed")
    /\ creator' = Released(w)
    /\ UNCHANGED <<tables, ready>>

GetReady == ~ready /\ ready' = TRUE /\ UNCHANGED <<boot, tables, creator>>

Start(w) == Check(w) \/ Create(w) \/ CommitTables(w)

Next == GetReady \/ \E w \in Workers : Start(w) \/ Kill(w)

-----------------------------------------------------------------------------

\* Losing the race for the tables is harmless for the server as a whole: a
\* process that fails because they exist has been beaten by one that came up.
\* Whatever the others do, that one has committed them (it may be killed
\* later), so that never all of the processes go down over the race.
RaceHasWinner ==
    \A w \in Workers : boot[w] = "duplicate" =>
        tables /\ \E v \in Workers : boot[v] \in {"up", "killed"}

\* Whichever process dies with the transaction open, no start waits for ever.
StartEnds == \A w \in Workers : boot[w] = "starting" ~>
                                boot[w] \notin {"starting", "missing", "creating"}
=============================================================================
