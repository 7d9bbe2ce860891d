------------------------------- MODULE Accounts -------------------------------
(***************************************************************************)
(* Accounts and tokens (src/webapp/backend/app/auth.py): register, login   *)
(* and the dependency that turns a bearer token into a user.               *)
(*                                                                         *)
(* The handlers are plain functions, so they run on worker threads, each   *)
(* with a session of its own.  register looks for the address, then hashes *)
(* the password, which takes long, and only then inserts: two registrations *)
(* may both pass the look-up.  Rows outlive the process; its settings, read *)
(* once (lru_cache), do not, and a token carries everything it stands for. *)
(***************************************************************************)
EXTENDS Integers

CONSTANTS
    Requests,   \* requests to register, each the uuid of the row it may insert
    Spellings,  \* e-mail addresses as they are typed
    Lower,      \* Lower[e]: str.lower of a spelling, the address it stands for
    Passwords,  \* passwords that Credentials lets through: 8 to 128 characters
    Long,       \* those of more than 72 bytes, which bcrypt refuses
    AdminLists, \* admin_emails a process may be started with
    Secrets,    \* jwt_secret a process may be started with
    Lifetime,   \* jwt_expiry_minutes
    MaxTime,    \* bound of the clock
    Faults      \* which faults may occur: "db", "crash", "restore"

ASSUME LowerAssumption ==
    /\ Lower \in [Spellings -> Spellings]
    /\ \A e \in Spellings : Lower[Lower[e]] = Lower[e]
ASSUME LongAssumption == Long \subseteq Passwords
ASSUME SettingsAssumption ==
    /\ AdminLists \subseteq SUBSET Spellings
    /\ \A list \in AdminLists : \A e \in list : Lower[e] = e
ASSUME TimeAssumption == Lifetime \in Nat /\ MaxTime \in Nat

VARIABLES
    settings,   \* [admins, secret]: what get_settings returns in this process
    users,      \* the committed rows of the users table
    asked,      \* [Requests -> [email, password]]: the bodies (history)
    stage,      \* [Requests -> Stage]: how far register got
    tokens,     \* the tokens handed out, with the password that earned them
    clock,      \* minutes
    restored    \* a backup was restored (history)

vars == <<settings, users, asked, stage, tokens, clock, restored>>

-----------------------------------------------------------------------------
(* The data                                                                *)

Addresses == {Lower[e] : e \in Spellings}
Body == [email : Spellings, password : Passwords]

\* password_hash verifies the one password it was made of
User == [id : Requests, email : Addresses, password : Passwords, admin : BOOLEAN]

\* "new" did not arrive, "hashing" is past the look-up, "inserted" past the
\* commit, and the others are answered; "lost" died with the process
Stage == {"new", "hashing", "inserted", "created", "conflict", "broken", "lost"}

\* password is not in the token: it is what the holder showed to get it
Token == [sub : Requests, secret : Secrets, exp : 0 .. MaxTime + Lifetime,
          password : Passwords]

\* Mutant: admin_emails is compared with the address as it was typed
AdminAsTyped(email) == email \in settings.admins

IsAdmin(email) == Lower[email] \in settings.admins

\* db.scalar(select(User).where(User.email == ...))
Taken(address) == \E u \in users : u.email = address

\* create_token
CreateToken(u, password) ==
    [sub |-> u.id, secret |-> settings.secret, exp |-> clock + Lifetime,
     password |-> password]

Init ==
    /\ settings \in [admins : AdminLists, secret : Secrets]
    /\ users = {}
    /\ asked \in [Requests -> Body]
    /\ stage = [r \in Requests |-> "new"]
    /\ tokens = {}
    /\ clock = 0
    /\ restored = FALSE

-----------------------------------------------------------------------------
(* register                                                                *)

\* The look-up, and 409 when the address has an account
RegisterCheck(r) ==
    /\ stage[r] = "new"
    /\ stage' = [stage EXCEPT ![r] =
                    IF Taken(Lower[asked[r].email]) THEN "conflict" ELSE "hashing"]
    /\ UNCHANGED <<settings, users, asked, tokens, clock, restored>>

\* hash_password raises: 500
HashFails(r) ==
    /\ stage[r] = "hashing"
    /\ asked[r].password \in Long
    /\ stage' = [stage EXCEPT ![r] = "broken"]
    /\ UNCHANGED <<settings, users, asked, tokens, clock, restored>>

\* Mutant: the address is stored as it was typed
NewUserAsTyped(r) ==
    [id |-> r, email |-> asked[r].email, password |-> asked[r].password,
     admin |-> IsAdmin(asked[r].email)]

\* The row the request inserts
NewUser(r) ==
    [id |-> r, email |-> Lower[asked[r].email], password |-> asked[r].password,
     admin |-> IsAdmin(asked[r].email)]

\* Mutant: the column is not unique
InsertAnyway(r) ==
    /\ stage[r] = "hashing"
    /\ asked[r].password \notin Long
    /\ users' = users \cup {NewUser(r)}
    /\ stage' = [stage EXCEPT ![r] = "inserted"]
    /\ UNCHANGED <<settings, asked, tokens, clock, restored>>

\* Mutant: the row that is there is overwritten
InsertOrReplace(r) ==
    /\ stage[r] = "hashing"
    /\ asked[r].password \notin Long
    /\ users' = {u \in users : u.email # Lower[asked[r].email]} \cup {NewUser(r)}
    /\ stage' = [stage EXCEPT ![r] = "inserted"]
    /\ UNCHANGED <<settings, asked, tokens, clock, restored>>

\* hash_password, add and commit; users.email is unique
Insert(r) ==
    /\ stage[r] = "hashing"
    /\ asked[r].password \notin Long
    /\ ~Taken(Lower[asked[r].email])
    /\ users' = users \cup {NewUser(r)}
    /\ stage' = [stage EXCEPT ![r] = "inserted"]
    /\ UNCHANGED <<settings, asked, tokens, clock, restored>>

\* The commit raises, for the unique column or for the database: 500
InsertFails(r) ==
    /\ stage[r] = "hashing"
    /\ asked[r].password \notin Long
    /\ Taken(Lower[asked[r].email]) \/ "db" \in Faults
    /\ stage' = [stage EXCEPT ![r] = "broken"]
    /\ UNCHANGED <<settings, users, asked, tokens, clock, restored>>

\* 201 and a token; expire_on_commit is off, so the row is not read again
RegisterAnswer(r) ==
    /\ stage[r] = "inserted"
    /\ \E u \in users :
          /\ u.id = r
          /\ tokens' = tokens \cup {CreateToken(u, asked[r].password)}
    /\ stage' = [stage EXCEPT ![r] = "created"]
    /\ UNCHANGED <<settings, users, asked, clock, restored>>

-----------------------------------------------------------------------------
(* login and get_current_user                                              *)

\* Mutant: the password is not compared
LoginUnverified(email, password) ==
    /\ \E u \in users :
          /\ u.email = Lower[email]
          /\ tokens' = tokens \cup {CreateToken(u, password)}
    /\ UNCHANGED <<settings, users, asked, stage, clock, restored>>

\* 200 and a token; a wrong password, an unknown address (401) or a password
\* bcrypt refuses (500) leaves everything as it is.  Nothing edits a row, so the
\* row that was read is still the row when the token is made
Login(email, password) ==
    /\ \E u \in users :
          /\ u.email = Lower[email]
          /\ u.password = password
          /\ tokens' = tokens \cup {CreateToken(u, password)}
    /\ UNCHANGED <<settings, users, asked, stage, clock, restored>>

\* jwt.decode accepts the token: signed with this secret, and not expired
Decodes(t) == t.secret = settings.secret /\ clock < t.exp

\* get_current_user lets the bearer of t in as u; require_admin reads u.admin
Opens(t, u) == Decodes(t) /\ u.id = t.sub

-----------------------------------------------------------------------------
(* What happens around them                                                *)

Tick ==
    /\ clock < MaxTime
    /\ clock' = clock + 1
    /\ UNCHANGED <<settings, users, asked, stage, tokens, restored>>

\* The process dies and is started, perhaps with other settings; the handlers
\* are gone.  "restore": on a database that was brought back from a backup
Restart ==
    /\ "crash" \in Faults
    /\ settings' \in [admins : AdminLists, secret : Secrets]
    /\ stage' = [r \in Requests |->
                    IF stage[r] \in {"hashing", "inserted"} THEN "lost" ELSE stage[r]]
    /\ \/ UNCHANGED <<users, restored>>
       \/ "restore" \in Faults /\ users' \in SUBSET users /\ restored' = TRUE
    /\ UNCHANGED <<asked, tokens, clock>>

Register(r) ==
    RegisterCheck(r) \/ HashFails(r) \/ Insert(r) \/ InsertFails(r) \/ RegisterAnswer(r)

Next ==
    \/ \E r \in Requests : Register(r)
    \/ \E e \in Spellings, p \in Passwords : Login(e, p)
    \/ Tick
    \/ Restart

Spec == Init /\ [][Next]_vars

-----------------------------------------------------------------------------
(* Properties                                                              *)

\* Every variable has its type
TypeOK ==
    /\ settings \in [admins : AdminLists, secret : Secrets]
    /\ users \subseteq User
    /\ asked \in [Requests -> Body]
    /\ stage \in [Requests -> Stage]
    /\ tokens \subseteq Token
    /\ clock \in 0 .. MaxTime
    /\ restored \in BOOLEAN

\* However two registrations interleave, an address has one account: the check
\* of register is made long before the insert, and only the column decides.  Of
\* the requests answered 201 one alone holds the address, unless a backup was
\* restored in between
OneAccount ==
    /\ \A u, v \in users : u.email = v.email => u = v
    /\ ~restored =>
         \A r, s \in Requests :
           stage[r] = "created" /\ stage[s] = "created" /\ r # s
             => Lower[asked[r].email] # Lower[asked[s].email]

\* The client was told 201: the account is there, with the client's own password,
\* whatever other registrations of the address did meanwhile
CreatedIsThere ==
    ~restored =>
      \A r \in Requests : stage[r] = "created" =>
        \E u \in users : /\ u.id = r
                         /\ u.email = Lower[asked[r].email]
                         /\ u.password = asked[r].password

\* Whoever a token admits once showed the password of the account it opens, and
\* the token has not run out: also after restarts, changed settings, and a
\* restored database in which the address was registered again by someone else
AccessWasEarned ==
    \A t \in tokens : \A u \in users :
      Opens(t, u) => t.password = u.password /\ t.exp - clock \in 1 .. Lifetime

\* Rights are decided by the list of the process that inserts the row, however
\* the address is spelt, and by nothing afterwards: a changed list changes no
\* account
RightsAreKept ==
    [][/\ \A u \in users' \ users : u.admin <=> u.email \in settings.admins
       /\ ~restored' => users \subseteq users'
       /\ \A u \in users, v \in users' : u.id = v.id => u = v]_vars
=============================================================================
