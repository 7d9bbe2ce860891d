---------------------------- MODULE AccountsProofs ----------------------------
(***************************************************************************)
(* Proofs about Accounts for every set of requests, spellings, passwords   *)
(* and settings, every token lifetime and every kind of fault.             *)
(***************************************************************************)
EXTENDS Accounts, TLAPS

-----------------------------------------------------------------------------
(* The inductive invariant                                                 *)

\* A row is what its request asked for, and its request is past the insert
RowsInv ==
    \A u \in users :
      /\ stage[u.id] \in {"inserted", "created", "lost"}
      /\ u.email = Lower[asked[u.id].email]
      /\ u.password = asked[u.id].password

\* The unique column
UniqueEmail == \A u, v \in users : u.email = v.email => u = v

\* Until a backup is restored the row of a request stays
InsertedIsThere ==
    ~restored =>
      \A r \in Requests : stage[r] \in {"inserted", "created"} =>
        \E u \in users : u.id = r

\* A token was earned with the password of the request that made its row
TokensInv ==
    \A t \in tokens :
      t.password = asked[t.sub].password /\ t.exp <= clock + Lifetime

IInv == TypeOK /\ RowsInv /\ UniqueEmail /\ InsertedIsThere /\ TokensInv

-----------------------------------------------------------------------------
(* What the steps hand out                                                 *)

\* The row a request inserts is a user with a known address
LEMMA NewUserType ==
    ASSUME TypeOK, NEW r \in Requests
    PROVE  NewUser(r) \in User
<1>1. asked[r] \in Body
  BY DEF TypeOK
<1>2. asked[r].email \in Spellings /\ asked[r].password \in Passwords
  BY <1>1 DEF Body
<1>3. Lower[asked[r].email] \in Addresses
  BY <1>2 DEF Addresses
<1>4. IsAdmin(asked[r].email) \in BOOLEAN
  BY DEF IsAdmin
<1> QED
  BY <1>2, <1>3, <1>4 DEF NewUser, User

\* A token made for a row of the table names the request that made the row, and
\* runs out one lifetime from now
LEMMA TokenMade ==
    ASSUME TypeOK, NEW u \in users, NEW p \in Passwords
    PROVE  /\ CreateToken(u, p) \in Token
           /\ CreateToken(u, p).sub = u.id
           /\ CreateToken(u, p).password = p
           /\ CreateToken(u, p).exp = clock + Lifetime
<1>1. u.id \in Requests
  BY DEF TypeOK, User
<1>2. settings.secret \in Secrets
  BY DEF TypeOK
<1>3. clock + Lifetime \in 0 .. MaxTime + Lifetime
  BY TimeAssumption DEF TypeOK
<1> QED
  BY <1>1, <1>2, <1>3 DEF CreateToken, Token

-----------------------------------------------------------------------------
(* Invariance                                                              *)

\* No account, no token, no handler
THEOREM Initially == Init => IInv
<1> SUFFICES ASSUME Init PROVE IInv
  OBVIOUS
<1>1. clock \in 0 .. MaxTime
  BY TimeAssumption DEF Init
<1>2. stage \in [Requests -> Stage]
  BY DEF Init, Stage
<1>3. TypeOK
  BY <1>1, <1>2 DEF Init, TypeOK
<1> QED
  BY <1>3 DEF Init, IInv, RowsInv, UniqueEmail, InsertedIsThere, TokensInv

\* A step that changes only how far a handler got, and not past the insert
LEMMA StageOnly ==
    ASSUME IInv, NEW r \in Requests, stage[r] \in {"new", "hashing"},
           NEW to \in {"hashing", "conflict", "broken"},
           stage' = [stage EXCEPT ![r] = to],
           UNCHANGED <<settings, users, asked, tokens, clock, restored>>
    PROVE  IInv'
<1>1. TypeOK'
  BY DEF IInv, TypeOK, Stage
<1>2. RowsInv'
  <2>1. \A u \in users : u.id \in Requests /\ u.id # r
    BY DEF IInv, TypeOK, RowsInv, User
  <2> QED
    BY <2>1 DEF IInv, TypeOK, RowsInv
<1>3. InsertedIsThere'
  BY DEF IInv, TypeOK, InsertedIsThere
<1> QED
  BY <1>1, <1>2, <1>3 DEF IInv, UniqueEmail, TokensInv

\* The insert, whatever other requests did since the look-up
LEMMA InsertKeeps ==
    ASSUME IInv, NEW r \in Requests, Insert(r)
    PROVE  IInv'
<1> USE DEF Insert
<1>0. /\ \A u \in users : u.id \in Requests /\ u.id # r
      /\ NewUser(r).id = r
      /\ NewUser(r).email = Lower[asked[r].email]
      /\ NewUser(r).password = asked[r].password
  BY DEF IInv, TypeOK, RowsInv, User, NewUser
<1>1. TypeOK'
  BY NewUserType DEF IInv, TypeOK, Stage
<1>2. RowsInv'
  BY <1>0 DEF IInv, TypeOK, RowsInv
<1>3. UniqueEmail'
  BY <1>0 DEF IInv, UniqueEmail, Taken
<1>4. InsertedIsThere'
  BY <1>0 DEF IInv, TypeOK, InsertedIsThere
<1> QED
  BY <1>1, <1>2, <1>3, <1>4 DEF IInv, TokensInv

\* A token for a row, with the password of that row
LEMMA TokenKeeps ==
    ASSUME IInv, NEW u \in users, NEW p \in Passwords, u.password = p,
           tokens' = tokens \cup {CreateToken(u, p)},
           UNCHANGED <<asked, clock>>
    PROVE  tokens' \subseteq Token /\ TokensInv'
<1>1. CreateToken(u, p).password = asked[CreateToken(u, p).sub].password
  BY TokenMade DEF IInv, RowsInv
<1>2. CreateToken(u, p).exp <= clock + Lifetime
  BY TokenMade, TimeAssumption DEF IInv, TypeOK
<1> QED
  BY <1>1, <1>2, TokenMade DEF IInv, TypeOK, TokensInv

\* Every step keeps the invariant
THEOREM StepKeeps == IInv /\ [Next]_vars => IInv'
<1> SUFFICES ASSUME IInv, [Next]_vars PROVE IInv'
  OBVIOUS
<1>1. ASSUME NEW r \in Requests, RegisterCheck(r) PROVE IInv'
  BY <1>1, StageOnly DEF RegisterCheck
<1>2. ASSUME NEW r \in Requests, HashFails(r) PROVE IInv'
  BY <1>2, StageOnly DEF HashFails
<1>3. ASSUME NEW r \in Requests, Insert(r) PROVE IInv'
  BY <1>3, InsertKeeps
<1>4. ASSUME NEW r \in Requests, InsertFails(r) PROVE IInv'
  BY <1>4, StageOnly DEF InsertFails
<1>5. ASSUME NEW r \in Requests, RegisterAnswer(r) PROVE IInv'
  <2> USE <1>5 DEF RegisterAnswer
  <2>1. PICK u \in users : u.id = r /\ tokens' = tokens \cup {CreateToken(u, asked[r].password)}
    OBVIOUS
  <2>2. u.password = asked[r].password /\ asked[r].password \in Passwords
    BY <2>1 DEF IInv, RowsInv, TypeOK, Body
  <2>3. tokens' \subseteq Token /\ TokensInv'
    BY <2>1, <2>2, TokenKeeps
  <2>4. TypeOK'
    BY <2>3 DEF IInv, TypeOK, Stage
  <2>5. RowsInv' /\ InsertedIsThere'
    BY DEF IInv, TypeOK, User, RowsInv, InsertedIsThere
  <2> QED
    BY <2>3, <2>4, <2>5 DEF IInv, UniqueEmail
<1>6. ASSUME NEW e \in Spellings, NEW p \in Passwords, Login(e, p) PROVE IInv'
  <2> USE <1>6 DEF Login
  <2>1. PICK u \in users : u.password = p /\ tokens' = tokens \cup {CreateToken(u, p)}
    OBVIOUS
  <2>2. tokens' \subseteq Token /\ TokensInv'
    BY <2>1, TokenKeeps
  <2> QED
    BY <2>2 DEF IInv, TypeOK, RowsInv, UniqueEmail, InsertedIsThere
<1>7. CASE Tick
  <2>1. TypeOK' /\ TokensInv'
    BY <1>7, TimeAssumption DEF Tick, IInv, TypeOK, TokensInv, Token
  <2> QED
    BY <2>1, <1>7 DEF Tick, IInv, RowsInv, UniqueEmail, InsertedIsThere
<1>8. CASE Restart
  <2> USE <1>8 DEF Restart
  <2>1. users' \subseteq users
    OBVIOUS
  <2>2. TypeOK'
    BY <2>1 DEF IInv, TypeOK, Stage
  <2>3. RowsInv'
    BY <2>1 DEF IInv, TypeOK, User, RowsInv
  <2>4. InsertedIsThere'
    BY DEF IInv, TypeOK, InsertedIsThere
  <2> QED
    BY <2>1, <2>2, <2>3, <2>4 DEF IInv, UniqueEmail, TokensInv
<1>9. CASE UNCHANGED vars
  BY <1>9 DEF vars, IInv, TypeOK, RowsInv, UniqueEmail, InsertedIsThere, TokensInv
<1> QED
  BY <1>1, <1>2, <1>3, <1>4, <1>5, <1>6, <1>7, <1>8, <1>9 DEF Next, Register

\* The inductive invariant holds in every behaviour
THEOREM Invariance == Spec => []IInv
<1> QED
  BY Initially, StepKeeps, PTL DEF Spec

-----------------------------------------------------------------------------
(* What the runs check on two requests                                     *)

\* Every variable has its type
THEOREM AccountsTyped == Spec => []TypeOK
<1>1. IInv => TypeOK
  BY DEF IInv
<1> QED
  BY <1>1, Invariance, PTL

\* Whoever is told 201 has the account with the password sent
THEOREM CreatedIsKept == Spec => []CreatedIsThere
<1>1. IInv => CreatedIsThere
  BY DEF IInv, InsertedIsThere, RowsInv, CreatedIsThere
<1> QED
  BY <1>1, Invariance, PTL

\* One account, and one 201, for an address: the check of register decides
\* nothing, the unique column everything
THEOREM AddressesAreUnique == Spec => []OneAccount
<1>1. IInv => OneAccount
  <2> SUFFICES ASSUME IInv PROVE OneAccount
    OBVIOUS
  <2>1. ASSUME ~restored, NEW r \in Requests, NEW s \in Requests,
               stage[r] = "created", stage[s] = "created", r # s
        PROVE  Lower[asked[r].email] # Lower[asked[s].email]
    <3>1. PICK u \in users : u.id = r
      BY <2>1 DEF IInv, InsertedIsThere
    <3>2. PICK v \in users : v.id = s
      BY <2>1 DEF IInv, InsertedIsThere
    <3> QED
      BY <2>1, <3>1, <3>2 DEF IInv, RowsInv, UniqueEmail
  <2> QED
    BY <2>1 DEF IInv, UniqueEmail, OneAccount
<1> QED
  BY <1>1, Invariance, PTL

\* A token opens the account whose password earned it, and for one lifetime
THEOREM TokensAreEarned == Spec => []AccessWasEarned
<1>1. IInv => AccessWasEarned
  <2> SUFFICES ASSUME IInv, NEW t \in tokens, NEW u \in users, Opens(t, u)
               PROVE  t.password = u.password /\ t.exp - clock \in 1 .. Lifetime
    BY DEF AccessWasEarned
  <2>1. t.password = u.password
    BY DEF Opens, IInv, RowsInv, TokensInv
  <2>2. t.exp \in Int /\ clock \in Int
    BY TimeAssumption DEF IInv, TypeOK, Token
  <2> QED
    BY <2>1, <2>2, TimeAssumption DEF Opens, Decodes, IInv, TokensInv
<1> QED
  BY <1>1, Invariance, PTL

\* Rights come from the list of the inserting process and never change
THEOREM RightsNeverChange == Spec => RightsAreKept
<1> DEFINE Kept ==
      /\ \A u \in users' \ users : u.admin <=> u.email \in settings.admins
      /\ ~restored' => users \subseteq users'
      /\ \A u \in users, v \in users' : u.id = v.id => u = v
<1>1. ASSUME IInv PROVE \A u, v \in users : u.id = v.id => u = v
  BY <1>1 DEF IInv, RowsInv, UniqueEmail
<1>2. ASSUME IInv, NEW r \in Requests, Insert(r) PROVE Kept
  <2>1. \A u \in users : u.id # r
    BY <1>2 DEF Insert, IInv, RowsInv
  <2>2. /\ NewUser(r).id = r
        /\ NewUser(r).admin = (NewUser(r).email \in settings.admins)
    BY DEF NewUser, IsAdmin
  <2> QED
    BY <1>1, <1>2, <2>1, <2>2 DEF Insert
<1>3. ASSUME IInv, UNCHANGED users PROVE Kept
  BY <1>1, <1>3
<1>4. ASSUME IInv, Restart PROVE Kept
  BY <1>1, <1>4 DEF Restart, IInv, TypeOK
<1>5. IInv /\ [Next]_vars => [Kept]_vars
  BY <1>2, <1>3, <1>4
     DEF Next, Register, RegisterCheck, HashFails, InsertFails, RegisterAnswer, Login, Tick, vars
<1> QED
  BY <1>5, Invariance, PTL DEF Spec, RightsAreKept
=============================================================================
