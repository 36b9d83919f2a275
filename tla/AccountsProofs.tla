--------------------------- MODULE AccountsProofs ---------------------------
(***************************************************************************)
(* Theorems about Accounts, for every set of processes, attempts, clients  *)
(* and names, and every lifetime of tokens.  What is known of Registration *)
(* carries over, as a step of Accounts is one of Registration or leaves    *)
(* its variables alone.                                                    *)
(***************************************************************************)
EXTENDS Accounts, RegistrationProofs

\* The server as it comes up: only the process that makes the tables has a
\* transaction open, and whoever has missed tables that are there now was
\* overtaken by a process that has made them.
BootInv ==
    /\ Boot!TypeOK
    /\ \A w \in Workers :
          /\ boot[w] = "creating" <=> creator = w
          /\ boot[w] = "up" => tables
          /\ tables => boot[w] # "creating"
          /\ boot[w] \in {"missing", "duplicate"} /\ tables =>
                \E v \in Workers : boot[v] \in {"up", "killed"}
          /\ boot[w] = "duplicate" => tables

TokenInv ==
    /\ now \in Nat
    /\ token \in [Clients -> Tokens \cup {NoToken}]
    /\ caller \in [Clients -> Attempts \cup {"nobody"}]
    /\ \A p \in Clients : token[p] # NoToken =>
          /\ token[p].exp = (token[p].issued + 2 * Week) \div 2
          /\ \E u \in users : Owns(p, u) /\ NameOf[u] = token[p].sub
    /\ \A p \in Clients : caller[p] # "nobody" => Owns(p, caller[p])

AccountsInv ==
    /\ RegistrationInv
    /\ BootInv
    /\ TokenInv
    /\ \A a \in Attempts : pc[a] # "idle" => tables

-----------------------------------------------------------------------------

LEMMA BootStep ==
    ASSUME AccountsAssumption, BootInv,
           \/ Boot!GetReady
           \/ \E w \in Workers : Boot!Start(w) \/ Boot!Kill(w)
    PROVE  BootInv' /\ (tables => tables')
<1> USE DEF BootInv, Boot!TypeOK, Boot!BootSteps, Boot!Reach,
            AccountsAssumption
<1>1. CASE Boot!GetReady
  BY <1>1 DEF Boot!GetReady
<1>2. ASSUME NEW w \in Workers, Boot!Start(w) \/ Boot!Kill(w)
      PROVE  BootInv' /\ (tables => tables')
  <2>1. CASE Boot!Check(w)
    BY <2>1 DEF Boot!Check, Boot!SeesTables
  <2>2. CASE Boot!Create(w)
    BY <2>2 DEF Boot!Create
  <2>3. CASE Boot!CommitTables(w)
    BY <2>3 DEF Boot!CommitTables
  <2>4. CASE Boot!Kill(w)
    BY <2>4 DEF Boot!Kill, Boot!Released
  <2> QED
    BY <1>2, <2>1, <2>2, <2>3, <2>4 DEF Boot!Start
<1> QED
  BY <1>1, <1>2

\* A step of Accounts registers nobody, or as Registration does.
LEMMA StepRegisters == AccountsNext => [Next]_vars
<1> SUFFICES ASSUME AccountsNext PROVE [Next]_vars
  OBVIOUS
<1>1. CASE StartUp \/ Tick
  BY <1>1 DEF StartUp, Tick
<1>2. ASSUME NEW a \in Attempts, Register(a) PROVE [Next]_vars
  BY <1>2 DEF Register, Next
<1>3. ASSUME NEW p \in Clients, Login(p) \/ BeginRefresh(p) \/ Refresh(p)
      PROVE  [Next]_vars
  BY <1>3 DEF Login, BeginRefresh, Refresh
<1>4. ASSUME NEW w \in Workers, Die(w) PROVE [Next]_vars
  BY <1>4 DEF Die, Next
<1> QED
  BY <1>1, <1>2, <1>3, <1>4 DEF AccountsNext

\* No step of a registration takes an account away.
LEMMA UsersStay == [Next]_vars => users \subseteq users'
BY DEF Next, vars, Lookup, Proceed, CheckAgain, CommitUser, CommitAuth, Fail,
       Crash, Finished, Goto, Answer

\* A new token is one of the account it names.
LEMMA NewToken ==
    ASSUME AccountsAssumption, RegistrationAssumption, TokenInv, TypeOK,
           NEW p \in Clients, NEW u \in users, Owns(p, u),
           token' = [token EXCEPT ![p] = CreateAccessToken(NameOf[u])],
           UNCHANGED <<users, now>>,
           \/ caller' = caller
           \/ caller' = [caller EXCEPT ![p] = "nobody"]
    PROVE  TokenInv'
<1>1. CreateAccessToken(NameOf[u]) \in Tokens
  <2>1. (now + 2 * Week) \div 2 \in Nat
    BY DEF TokenInv, AccountsAssumption
  <2> QED
    BY <2>1 DEF CreateAccessToken, Tokens, TokenInv, TypeOK,
                RegistrationAssumption
<1>2. token'[p] = CreateAccessToken(NameOf[u])
  BY DEF TokenInv
<1>3. token' \in [Clients -> Tokens \cup {NoToken}]
  BY <1>1 DEF TokenInv
<1>4. /\ token'[p].exp = (token'[p].issued + 2 * Week) \div 2
      /\ token'[p].sub = NameOf[u]
  BY <1>2 DEF CreateAccessToken
<1>5. \A q \in Clients \ {p} : token'[q] = token[q]
  BY DEF TokenInv
<1>6. caller' \in [Clients -> Attempts \cup {"nobody"}]
      /\ \A q \in Clients : caller'[q] # "nobody" => caller'[q] = caller[q]
  BY DEF TokenInv
<1> QED
  BY <1>3, <1>4, <1>5, <1>6 DEF TokenInv, Owns

LEMMA TokenStep ==
    ASSUME AccountsAssumption, RegistrationAssumption, AccountsInv,
           AccountsNext
    PROVE  TokenInv'
<1> USE DEF AccountsInv, RegistrationInv
<1>1. users \subseteq users'
  BY StepRegisters, UsersStay
<1>2. ASSUME now' \in Nat, token' = token,
             caller' \in [Clients -> Attempts \cup {"nobody"}],
             \A p \in Clients : caller'[p] \in {"nobody", caller[p]}
      PROVE  TokenInv'
  BY <1>1, <1>2 DEF TokenInv, Owns
<1>3. CASE StartUp \/ \E a \in Attempts : Register(a)
  BY <1>2, <1>3 DEF StartUp, Register, loginVars, TokenInv
<1>4. CASE Tick
  BY <1>2, <1>4 DEF Tick, TokenInv
<1>5. ASSUME NEW p \in Clients, Login(p) PROVE TokenInv'
  <2>1. PICK u \in AuthenticateUser(p) :
             token' = [token EXCEPT ![p] = CreateAccessToken(NameOf[u])]
    BY <1>5 DEF Login
  <2>2. u \in users /\ Owns(p, u)
    BY <2>1 DEF AuthenticateUser, Owns
  <2> QED
    BY <1>5, <2>1, <2>2, NewToken DEF Login, vars
<1>6. ASSUME NEW p \in Clients, BeginRefresh(p) PROVE TokenInv'
  <2>1. PICK u \in GetCurrentUser(token[p]) :
             caller' = [caller EXCEPT ![p] = u]
    BY <1>6 DEF BeginRefresh
  <2>2. u \in users /\ token[p] # NoToken /\ NameOf[u] = token[p].sub
    BY <2>1 DEF GetCurrentUser
  <2>3. PICK v \in users : Owns(p, v) /\ NameOf[v] = token[p].sub
    BY <2>2 DEF TokenInv
  <2>4. u = v
    BY <2>2, <2>3 DEF Rows
  <2>5. u \in Attempts /\ Owns(p, u)
    BY <2>3, <2>4 DEF TypeOK
  <2> QED
    BY <1>6, <2>1, <2>5 DEF BeginRefresh, TokenInv, Owns, vars
<1>7. ASSUME NEW p \in Clients, Refresh(p) PROVE TokenInv'
  <2>1. caller[p] \in users /\ Owns(p, caller[p])
    BY <1>7 DEF Refresh, TokenInv, Owns
  <2> QED
    BY <1>7, <2>1, NewToken DEF Refresh, vars
<1>8. ASSUME NEW w \in Workers, Die(w) PROVE TokenInv'
  BY <1>2, <1>8 DEF Die, TokenInv
<1> QED
  BY <1>3, <1>4, <1>5, <1>6, <1>7, <1>8 DEF AccountsNext

-----------------------------------------------------------------------------

LEMMA AccountsInvStep ==
    ASSUME AccountsAssumption, RegistrationAssumption, AccountsInv,
           [AccountsNext]_accountVars
    PROVE  AccountsInv'
<1>1. CASE UNCHANGED accountVars
  BY <1>1 DEF accountVars, vars, bootVars, loginVars, AccountsInv,
              RegistrationInv, TypeOK, Rows, Told, RefusalJustified,
              StoredEmail, BootInv, Boot!TypeOK, TokenInv, Owns
<1>2. CASE AccountsNext
  <2>1. RegistrationInv' /\ TokenInv'
    BY <1>2, StepRegisters, InvStep, TokenStep DEF AccountsInv
  <2>2. BootInv' /\ (tables => tables')
    <3>1. CASE UNCHANGED bootVars
      BY <3>1 DEF bootVars, AccountsInv, BootInv, Boot!TypeOK
    <3>2. CASE StartUp
      BY <3>2, BootStep DEF StartUp, AccountsInv
    <3>3. ASSUME NEW w \in Workers, Die(w) PROVE BootInv' /\ (tables => tables')
      BY <3>3, BootStep DEF Die, AccountsInv
    <3> QED
      BY <1>2, <3>1, <3>2, <3>3
         DEF AccountsNext, Tick, Register, Login, BeginRefresh, Refresh
  <2>3. ASSUME NEW a \in Attempts, pc'[a] # "idle" PROVE tables'
    <3>1. CASE pc[a] # "idle"
      BY <2>2, <3>1 DEF AccountsInv
    <3>2. CASE pc[a] = "idle"
      <4>1. PICK b \in Attempts : Boot!Up(WorkerOf[b])
        BY <1>2, <2>3, <3>2
           DEF AccountsNext, StartUp, Tick, Register, Login, BeginRefresh,
               Refresh, Die, Crash, vars, AccountsInv, RegistrationInv, TypeOK
      <4>2. WorkerOf[b] \in Workers
        BY DEF RegistrationAssumption
      <4> QED
        BY <2>2, <4>1, <4>2 DEF AccountsInv, BootInv, Boot!Up
    <3> QED
      BY <3>1, <3>2
  <2> QED
    BY <2>1, <2>2, <2>3 DEF AccountsInv
<1> QED
  BY <1>1, <1>2

THEOREM AccountsInvHolds == AccountsSpec => []AccountsInv
<1>1. AccountsInit => AccountsInv
  <2> SUFFICES ASSUME AccountsInit PROVE AccountsInv
    OBVIOUS
  <2>1. RegistrationInv
    BY DEF AccountsInit, Init, RegistrationInv, TypeOK, Rows, Told,
           RefusalJustified, Steps, Replies
  <2>2. BootInv
    BY AccountsAssumption
       DEF AccountsInit, Boot!Init, BootInv, Boot!TypeOK, Boot!BootSteps,
           AccountsAssumption
  <2>3. TokenInv
    BY DEF AccountsInit, TokenInv
  <2> QED
    BY <2>1, <2>2, <2>3 DEF AccountsInit, Init, AccountsInv
<1> QED
  BY <1>1, AccountsInvStep, AccountsAssumption, RegistrationAssumption, PTL
     DEF AccountsSpec

\* The server with its start and its tokens implements Registration: it keeps
\* every invariant of that.
THEOREM RegistersAsSpecified == AccountsSpec => Init /\ [][Next]_vars
<1>1. [AccountsNext]_accountVars => [Next]_vars
  BY StepRegisters DEF accountVars, vars
<1> QED
  BY <1>1, PTL DEF AccountsSpec, AccountsInit

\* Type correctness.
THEOREM AccountsTypeCorrect == AccountsSpec => []AccountsTypeOK
<1> DEFINE Early == now \in 0..MaxTime
<1>1. AccountsInit => Early
  BY AccountsAssumption DEF AccountsInit, AccountsAssumption
<1>2. Early /\ [AccountsNext]_accountVars => Early'
  BY AccountsAssumption
     DEF AccountsNext, accountVars, loginVars, AccountsAssumption, StartUp,
         Tick, Register, Login, BeginRefresh, Refresh, Die
<1>3. AccountsInv /\ Early => AccountsTypeOK
  BY DEF AccountsInv, RegistrationInv, BootInv, TokenInv, AccountsTypeOK
<1> QED
  BY <1>1, <1>2, <1>3, AccountsInvHolds, PTL DEF AccountsSpec

\* What a registration was answered tells who can log in: RegistrationInv
\* says that success is reported for complete accounts only, that who is
\* refused has no account, and that a name has one.
THEOREM LoginsForetold == AccountsSpec => []AnswerForetellsLogin
<1>1. AccountsInv => AnswerForetellsLogin
  <2> SUFFICES ASSUME AccountsInv, NEW a \in Attempts
               PROVE  /\ reply[a] = "created" => AuthenticateUser(a) = {a}
                      /\ reply[a] \in {"exists", "refused"} =>
                            \A u \in AuthenticateUser(a) : u # a /\ Owns(a, u)
    BY DEF AnswerForetellsLogin
  <2> USE DEF AccountsInv, RegistrationInv, TypeOK, Rows, Told
  <2>1. ASSUME reply[a] = "created" PROVE AuthenticateUser(a) = {a}
    BY <2>1 DEF AuthenticateUser
  <2>2. ASSUME reply[a] \in {"exists", "refused"},
               NEW u \in AuthenticateUser(a)
        PROVE  u # a /\ Owns(a, u)
    <3>1. pc[a] = "done" /\ a \notin users
      BY <2>2
    <3> QED
      BY <3>1 DEF AuthenticateUser, Owns
  <2> QED
    BY <2>1, <2>2
<1> QED
  BY <1>1, AccountsInvHolds, PTL

\* What holds of registrations alone holds of the server as a whole.
THEOREM RegistrationsKept ==
    AccountsSpec => /\ []AccountsDistinct
                    /\ []RefusalJustified
                    /\ []HalfAccountOfFailure
                    /\ HalfAccountStays
<1>1. AccountsInv => RegistrationInv
  BY DEF AccountsInv
<1>2. RegistrationInv => /\ AccountsDistinct
                         /\ RefusalJustified
                         /\ HalfAccountOfFailure
  BY DEF RegistrationInv, TypeOK, Rows, Told, AccountsDistinct,
         HalfAccountOfFailure
<1> QED
  BY <1>1, <1>2, HalfStep, AccountsInvHolds, RegistersAsSpecified, PTL
     DEF HalfAccountStays

\* A process that fails because others made the tables was beaten by one that
\* came up.
THEOREM WinnerOfTheRace == AccountsSpec => []RaceHasWinner
<1>1. AccountsInv => RaceHasWinner
  BY DEF AccountsInv, BootInv, RaceHasWinner, Boot!RaceHasWinner
<1> QED
  BY <1>1, AccountsInvHolds, PTL

\* No request meets a database without tables.
THEOREM TablesWhenServed == AccountsSpec => []ServedWithTables
<1>1. AccountsInv => ServedWithTables
  BY RegistrationAssumption
     DEF AccountsInv, BootInv, ServedWithTables, Boot!Up, RegistrationAssumption
<1> QED
  BY <1>1, AccountsInvHolds, PTL

\* A token names an account whose password its client gave.
THEOREM TokensOfOwners == AccountsSpec => []TokenOfOwner
<1>1. AccountsInv => TokenOfOwner
  BY DEF AccountsInv, TokenInv, TokenOfOwner
<1> QED
  BY <1>1, AccountsInvHolds, PTL

\* A token is good for its week and less than a second more.
THEOREM TokensLastAWeek == AccountsSpec => []LastsAWeek
<1>1. AccountsInv => LastsAWeek
  <2> SUFFICES ASSUME AccountsInv, NEW p \in Clients, token[p] # NoToken
               PROVE  /\ now <= token[p].issued + 2 * Week => Decodes(token[p])
                      /\ now >= token[p].issued + 2 * Week + 2
                            => ~Decodes(token[p])
    BY DEF LastsAWeek
  <2> DEFINE i == token[p].issued
             e == token[p].exp
  <2>1. i \in Nat /\ e = (i + 2 * Week) \div 2 /\ now \in Nat /\ Week \in Nat
    BY AccountsAssumption DEF AccountsInv, TokenInv, Tokens, AccountsAssumption
  <2> HIDE DEF i, e
  <2>2. /\ now <= i + 2 * Week => now \div 2 <= e
        /\ now >= i + 2 * Week + 2 => ~(now \div 2 <= e)
    BY <2>1
  <2> QED
    BY <2>2 DEF i, e, Decodes
<1> QED
  BY <1>1, AccountsInvHolds, PTL
=============================================================================
