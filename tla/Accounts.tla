------------------------------ MODULE Accounts ------------------------------
(***************************************************************************)
(* From the start of the server to the tokens of its users: processes come *)
(* up (Startup), accounts are registered (Registration), and clients log   *)
(* in with POST /users/token, are recognised by get_current_user and renew *)
(* their token with POST /users/token/refresh.                             *)
(*                                                                         *)
(* Tokens are signed and not stored: no process knows which ones exist.    *)
(* Clocks agree.  Time is counted in half seconds, as a token holds whole  *)
(* seconds and the two tests of its expiry round differently.              *)
(***************************************************************************)
EXTENDS Registration

CONSTANTS
    PasswordOf,   \* PasswordOf[a]: the password attempt a registers with
    Clients,      \* the attempts whose client logs in, with what a gave
    Week,         \* the seconds for which a token is issued
    MaxTime       \* bound: the half seconds that pass

ASSUME AccountsAssumption ==
    /\ Clients \subseteq Attempts
    /\ "nobody" \notin Attempts \cup Workers
    /\ Week \in Nat \ {0}
    /\ MaxTime \in Nat

VARIABLES
    boot, tables, creator, ready,   \* see Startup
    now,       \* the time
    token,     \* token[p]: the token of client p
    caller     \* caller[p]: the account for which a refresh of p proceeds

Boot == INSTANCE Startup

bootVars == <<boot, tables, creator, ready>>
loginVars == <<now, token, caller>>
accountVars == <<vars, bootVars, loginVars>>

-----------------------------------------------------------------------------

\* "issued" is history: a token has "sub" and "exp".
Tokens == [sub : Names, exp : Nat, issued : Nat]

NoToken == [sub |-> "nobody"]

AccountsTypeOK ==
    /\ TypeOK
    /\ Boot!TypeOK
    /\ now \in 0..MaxTime
    /\ token \in [Clients -> Tokens \cup {NoToken}]
    /\ caller \in [Clients -> Attempts \cup {"nobody"}]

AccountsInit ==
    /\ Init
    /\ Boot!Init
    /\ now = 0
    /\ token = [p \in Clients |-> NoToken]
    /\ caller = [p \in Clients |-> "nobody"]

\* A mutant: "exp" is only set when a lifetime is given, and none is.
CreateAccessTokenForEver(name) == [sub |-> name, issued |-> now]

\* datetime.utcnow() + expire_delta; the encoding drops the fraction.
CreateAccessToken(name) ==
    [sub |-> name, exp |-> (now + 2 * Week) \div 2, issued |-> now]

\* A mutant: the expiry is compared with fractions of a second.
DecodesExactly(t) == now <= 2 * t.exp

\* jwt.decode compares whole seconds.
Decodes(t) == now \div 2 <= t.exp

\* A mutant: whoever names an account is taken for its owner.
AuthenticateUserByName(p) == {u \in users : NameOf[u] = NameOf[p]}

\* The accounts that authenticate_user may return for what p sends.
AuthenticateUser(p) ==
    {u \in users : NameOf[u] = NameOf[p] /\ PasswordOf[u] = PasswordOf[p]}

\* The accounts that get_current_user may return.
GetCurrentUser(t) ==
    {u \in users : t # NoToken /\ Decodes(t) /\ NameOf[u] = t.sub}

\* What POST /token/check says of a token.
VerifyToken(t) ==
    CASE ~Decodes(t)      -> "invalid"
      [] 2 * t.exp >= now -> "expired"
      [] OTHER            -> "checked"

-----------------------------------------------------------------------------

\* A failed login is a 401 and changes nothing.
Login(p) ==
    /\ Boot!Up(WorkerOf[p])
    /\ \E u \in AuthenticateUser(p) :
          token' = [token EXCEPT ![p] = CreateAccessToken(NameOf[u])]
    /\ UNCHANGED <<vars, bootVars, now, caller>>

\* The dependency of /token/refresh, on the event loop.
BeginRefresh(p) ==
    /\ Boot!Up(WorkerOf[p])
    /\ caller[p] = "nobody"
    /\ \E u \in GetCurrentUser(token[p]) : caller' = [caller EXCEPT ![p] = u]
    /\ UNCHANGED <<vars, bootVars, now, token>>

\* The route itself, in a thread, however late.
Refresh(p) ==
    /\ caller[p] # "nobody"
    /\ token' = [token EXCEPT ![p] = CreateAccessToken(NameOf[caller[p]])]
    /\ caller' = [caller EXCEPT ![p] = "nobody"]
    /\ UNCHANGED <<vars, bootVars, now>>

\* A step of a registration.
Register(a) ==
    /\ Boot!Up(WorkerOf[a])
    /\ Lookup(a) \/ Proceed(a) \/ Fail(a)
    /\ UNCHANGED <<bootVars, loginVars>>

StartUp == /\ Boot!GetReady \/ \E w \in Workers : Boot!Start(w)
           /\ UNCHANGED <<vars, loginVars>>

\* A process dies, with every request it serves.
Die(w) ==
    /\ Boot!Kill(w)
    /\ IF \E a \in Attempts : WorkerOf[a] = w /\ pc[a] \notin {"idle", "done"}
       THEN Crash(w) ELSE UNCHANGED vars
    /\ caller' = [p \in Clients |-> IF WorkerOf[p] = w THEN "nobody"
                                                       ELSE caller[p]]
    /\ UNCHANGED <<now, token>>

Tick == /\ now < MaxTime
        /\ now' = now + 1
        /\ UNCHANGED <<vars, bootVars, token, caller>>

AccountsNext ==
    \/ StartUp
    \/ Tick
    \/ \E a \in Attempts : Register(a)
    \/ \E p \in Clients : Login(p) \/ BeginRefresh(p) \/ Refresh(p)
    \/ \E w \in Workers : Die(w)

\* PostgreSQL answers and threads run; nobody has to send a request.
AccountsFairness ==
    /\ \A w \in Workers : WF_accountVars(Boot!Start(w) /\ StartUp)
    /\ \A a \in Attempts : WF_accountVars(Proceed(a) /\ Register(a))

AccountsSpec ==
    AccountsInit /\ [][AccountsNext]_accountVars /\ AccountsFairness

-----------------------------------------------------------------------------
(* Properties that hold.                                                   *)

RaceHasWinner == Boot!RaceHasWinner
StartEnds == Boot!StartEnds

\* No request meets a database without tables: a process that serves has seen
\* them, or has made them, although each looked before any had made them.
ServedWithTables ==
    \A a \in Attempts : pc[a] # "idle" \/ Boot!Up(WorkerOf[a]) => tables

\* The account u is stored, and p knows its name and password.
Owns(p, u) ==
    u \in users /\ NameOf[u] = NameOf[p] /\ PasswordOf[u] = PasswordOf[p]

\* What a registration was answered tells whether its user can log in: after
\* success to the account it made and no other, after a refusal to no account,
\* be it of the same name, but another's with the very same credentials.  A
\* client told of a failure of the database knows nothing: the account may be
\* there, with or without its second row, or not.
AnswerForetellsLogin ==
    \A a \in Attempts :
        /\ reply[a] = "created" => AuthenticateUser(a) = {a}
        /\ reply[a] \in {"exists", "refused"} =>
              \A u \in AuthenticateUser(a) : u # a /\ Owns(a, u)

\* However registrations race and processes die, and although a refresh looks
\* at the account and issues the token in two steps, a token names an account
\* that is stored and whose password the client gave.
TokenOfOwner ==
    \A p \in Clients :
        /\ token[p] # NoToken =>
              \E u \in users : Owns(p, u) /\ NameOf[u] = token[p].sub
        /\ caller[p] # "nobody" => Owns(p, caller[p])

\* A token is good for the week it was issued for and for less than a second
\* more, whatever both roundings do.
LastsAWeek ==
    \A p \in Clients :
        token[p] # NoToken =>
            /\ now <= token[p].issued + 2 * Week => Decodes(token[p])
            /\ now >= token[p].issued + 2 * Week + 2 => ~Decodes(token[p])

-----------------------------------------------------------------------------
(* What the code says and does not do.                                     *)

\* /token/check answers "expired: ..." with status 401 (auth_routes.py:85) for
\* a token that has expired.  The code says so of every token that jwt.decode
\* has just accepted, but for the last second of its life.
ExpiredMeansExpired ==
    \A p \in Clients :
        token[p] # NoToken /\ VerifyToken(token[p]) = "expired" =>
            now > 2 * token[p].exp
=============================================================================
