---------------------------- MODULE Registration ----------------------------
(***************************************************************************)
(* POST /users/register.  A registration looks the user name up twice, in  *)
(* the route and in create_user, inserts the user in a first transaction   *)
(* and the second factor's secret (AuthData) in another.  Registrations    *)
(* run in threads, each with a Session of its own; only the unique columns *)
(* username and email of PostgreSQL keep them apart.  Any of its calls to  *)
(* the database may raise.  Accounts are never deleted.                    *)
(*                                                                         *)
(* Passwords and the secret itself (random, unique) are left out.          *)
(***************************************************************************)
EXTENDS Naturals

CONSTANTS
    Attempts,     \* the calls of /register
    Names,        \* user names
    Emails,       \* addresses as they are typed
    Malformed,    \* those of them that parseaddr cannot parse
    Workers,      \* the server processes
    NameOf,       \* NameOf[a]: the user name that attempt a asks for
    EmailOf,      \* EmailOf[a]: the address that attempt a gives
    WorkerOf      \* WorkerOf[a]: the process that serves attempt a

ASSUME RegistrationAssumption ==
    /\ Malformed \subseteq Emails
    /\ "false" \notin Emails
    /\ NameOf \in [Attempts -> Names]
    /\ EmailOf \in [Attempts -> Emails]
    /\ WorkerOf \in [Attempts -> Workers]

VARIABLES
    pc,       \* pc[a]: the next step of attempt a
    users,    \* the attempts whose row is in table users
    auth,     \* the attempts whose row is in table auth_data
    reply     \* reply[a]: what the client has been answered

vars == <<pc, users, auth, reply>>

-----------------------------------------------------------------------------

Steps == {"idle", "checking", "committing", "stored", "done"}

\* "exists": the route found the name; "refused": create_user found it, or
\* the database did; "failed": the database raised, which is a 500 of the
\* first lookup and a 400 of what follows; "lost": the process died and nothing
\* was answered.
Replies == {"none", "exists", "refused", "created", "failed", "lost"}

TypeOK ==
    /\ pc \in [Attempts -> Steps]
    /\ users \subseteq Attempts
    /\ auth \subseteq users
    /\ reply \in [Attempts -> Replies]

Init ==
    /\ pc = [a \in Attempts |-> "idle"]
    /\ users = {}
    /\ auth = {}
    /\ reply = [a \in Attempts |-> "none"]

\* check_email returns False for what it cannot parse, and the column of
\* strings stores that as 'false'.
StoredEmail(a) == IF EmailOf[a] \in Malformed THEN "false" ELSE EmailOf[a]

\* get_user_by_username
NameTaken(a) == \E u \in users : NameOf[u] = NameOf[a]

\* A mutant: the columns are not unique.
ViolatesNothing(a) == FALSE

\* A mutant: the database refuses addresses that parseaddr cannot parse.
ViolatesStrict(a) == NameTaken(a) \/ EmailOf[a] \in Malformed

\* The unique columns of table users.
Violates(a) == \/ NameTaken(a)
               \/ \E u \in users : StoredEmail(u) = StoredEmail(a)

Goto(a, step) == pc' = [pc EXCEPT ![a] = step]

\* A mutant: the reply of a failed registration is dropped.
AnswerNothing(a, what) == Goto(a, "done") /\ UNCHANGED reply

Answer(a, what) ==
    /\ Goto(a, "done")
    /\ reply' = [reply EXCEPT ![a] = what]

-----------------------------------------------------------------------------

\* The route looks the name up.
Lookup(a) ==
    /\ pc[a] = "idle"
    /\ IF NameTaken(a)
       THEN Answer(a, "exists")
       ELSE Goto(a, "checking") /\ UNCHANGED reply
    /\ UNCHANGED <<users, auth>>

\* create_user looks it up again; its HTTPException becomes a reply.
CheckAgain(a) ==
    /\ pc[a] = "checking"
    /\ IF NameTaken(a)
       THEN Answer(a, "refused")
       ELSE Goto(a, "committing") /\ UNCHANGED reply
    /\ UNCHANGED <<users, auth>>

\* db.commit of create_user: the row is in the table, or IntegrityError.
CommitUser(a) ==
    /\ pc[a] = "committing"
    /\ IF Violates(a)
       THEN Answer(a, "refused") /\ UNCHANGED users
       ELSE Goto(a, "stored") /\ users' = users \cup {a} /\ UNCHANGED reply
    /\ UNCHANGED auth

\* A mutant: the client is answered before the second commit.
CommitAuthLate(a) ==
    /\ pc[a] = "stored"
    /\ Answer(a, "created")
    /\ UNCHANGED <<users, auth>>

\* create_auth_data
CommitAuth(a) ==
    /\ pc[a] = "stored"
    /\ Answer(a, "created")
    /\ auth' = auth \cup {a}
    /\ UNCHANGED users

\* The database raises in what a does next, for no reason of a's own.  What a
\* has committed stays.  After its first commit these are the reload of the
\* user, the second commit, and the reload after that has taken effect.
Fail(a) ==
    /\ pc[a] # "done"
    /\ Answer(a, "failed")
    /\ \/ UNCHANGED auth
       \/ pc[a] = "stored" /\ auth' = auth \cup {a}
    /\ UNCHANGED users

\* A process dies: its registrations are not answered, open transactions are
\* rolled back, committed ones stay.
Crash(w) ==
    LET Lost == {a \in Attempts : WorkerOf[a] = w
                                  /\ pc[a] \notin {"idle", "done"}}
    IN
    /\ Lost # {}
    /\ pc' = [a \in Attempts |-> IF a \in Lost THEN "done" ELSE pc[a]]
    /\ reply' = [a \in Attempts |-> IF a \in Lost THEN "lost" ELSE reply[a]]
    /\ UNCHANGED <<users, auth>>

Proceed(a) == CheckAgain(a) \/ CommitUser(a) \/ CommitAuth(a)

Finished == /\ \A a \in Attempts : pc[a] = "done"
            /\ UNCHANGED vars

Next ==
    \/ \E a \in Attempts : Lookup(a) \/ Proceed(a) \/ Fail(a)
    \/ \E w \in Workers : Crash(w)
    \/ Finished

\* A request that has been received is served; nobody has to send one.
Fairness == \A a \in Attempts : WF_vars(Proceed(a))

Spec == Init /\ [][Next]_vars /\ Fairness

-----------------------------------------------------------------------------
(* Properties that hold.                                                   *)

\* However the two lookups of racing registrations interleave, no two accounts
\* share a user name or a stored address, and a client that is told that its
\* user was created has an account with both of its rows.
AccountsDistinct ==
    /\ \A u, v \in users :
          NameOf[u] = NameOf[v] \/ StoredEmail(u) = StoredEmail(v) => u = v
    /\ \A a \in Attempts : reply[a] = "created" => a \in users \cap auth

\* A registration is refused only on account of another account that has the
\* name, or the address as it is stored: two malformed addresses clash.
RefusalJustified ==
    \A a \in Attempts :
        reply[a] \in {"exists", "refused"} =>
            \E u \in users \ {a} : \/ NameOf[u] = NameOf[a]
                                   \/ StoredEmail(u) = StoredEmail(a)

\* Of the two transactions of a registration only the first may have happened
\* when its process died or the database raised, in no other case: an account
\* without auth_data is one whose client is still waiting, got no answer, or
\* got a 400 although the account is there.
HalfAccountOfFailure ==
    \A a \in users \ auth : pc[a] = "stored" \/ reply[a] \in {"failed", "lost"}

\* An account that was left without auth_data stays so: no other registration
\* for the name completes it or takes its place.  (The other route that would
\* add the row, setup_otp, raises before it does.)
HalfAccountStays ==
    [][\A a \in users \ auth : reply[a] \in {"failed", "lost"} =>
          /\ a \in users' \ auth'
          /\ \A b \in Attempts :
                NameOf[b] = NameOf[a] => b \notin users' \ users]_vars

\* Every registration that has passed the first lookup is answered, or lost
\* with its process.
RegistrationAnswered ==
    \A a \in Attempts : pc[a] = "checking" ~> reply[a] # "none"
=============================================================================
