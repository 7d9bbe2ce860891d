------------------------------- MODULE Collector -------------------------------
(***************************************************************************)
(* One run after another of a Python collector (pg_collect.py and          *)
(* mysql_collect.py of src/collector/) that writes the same --out file:    *)
(* main and collect, statement by statement.  The database server and what *)
(* its account may read are external.                                      *)
(***************************************************************************)
EXTENDS Naturals, Sequences

CONSTANTS
    Troubles,   \* what may go wrong: "statement", "disk", "kill"
    Denials,    \* the sets of reads that an account may be refused
    None        \* no file, no exit code yet

\* What a collector reads that a server may refuse it, for want of a privilege
\* or because it is another version's: the trial of the statistics (of
\* pg_stat_statements, of setup_consumers), setup_instruments, the statements
\* themselves, the sys views on scans and on indexes, and who waits for a lock
\* (sys.innodb_lock_waits; INNODB_LOCK_WAITS and INNODB_TRX in MariaDB)
Reads == {"trial", "instruments", "statements", "scans", "unused", "locks"}

VARIABLES
    server,     \* the server this run talks to, None between two runs
    at,         \* the statement the run is at, or "idle"
    caps,       \* the capabilities found so far
    notes,      \* the notes on missing ones
    out,        \* the --out file
    code        \* the exit code of the last command, None while it runs

vars == <<server, at, caps, notes, out, code>>

\* stats: there are statement statistics; they are off: no extension,
\* performance_schema = OFF; or only their consumer is disabled.  sys: the
\* account sees a sys schema.  readOnly: the session really is
Kinds ==
    [engine : {"postgres"}, stats : {"on", "off"}, sys : {FALSE}]
    \cup [engine : {"mariadb"}, stats : {"on", "off", "disabled"}, sys : {FALSE}]
    \cup [engine : {"mysql"}, stats : {"on", "off", "disabled"}, sys : BOOLEAN]
Servers == [kind : Kinds, readOnly : BOOLEAN, denied : Denials]

IsPg == server.kind.engine = "postgres"
Readable(read) == read \notin server.denied

\* What a run does, one statement after another
PgSteps ==
    <<"connect", "verify", "check", "meta", "queries", "tables", "indexes", "sessions",
      "lock_waits", "connections", "settings", "delta">>
MySteps ==
    <<"connect", "verify", "check", "meta", "queries", "tables", "indexes", "sessions",
      "lock_waits", "delta">>

Steps == IF IsPg THEN PgSteps ELSE MySteps
After(step) == Steps[1 + CHOOSE n \in 1..Len(Steps) - 1 : Steps[n] = step]

\* The statements that stand in no try: what they read is there, or they raise
Works(step) ==
    CASE step = "queries" -> Readable("statements")
      [] step = "tables" -> server.kind.sys => Readable("scans")
      [] step = "indexes" -> server.kind.sys => Readable("unused")
      [] step = "lock_waits" ->
           IsPg \/ (Readable("locks") /\ (server.kind.engine = "mysql" => server.kind.sys))
      [] OTHER -> TRUE

\* The notes that say why there is no query_stats
WhyNoQueries == {"not installed", "not readable", "off", "disabled"}

\* A snapshot file: whole or torn, of this run or of an earlier one, with the
\* statements or with a note that says why not
File(whole) ==
    [whole |-> whole, fresh |-> TRUE, queries |-> "query_stats" \in caps,
     noted |-> notes \cap WhyNoQueries # {}]
Aged(file) == IF file = None THEN None ELSE [file EXCEPT !.fresh = FALSE]

Init ==
    /\ server = None
    /\ at = "idle"
    /\ caps = {}
    /\ notes = {}
    /\ out = None
    /\ code = 0

Begin ==
    /\ at = "idle"
    /\ server' \in Servers
    /\ at' = "connect"
    /\ caps' = {}
    /\ notes' = {}
    /\ out' = Aged(out)
    /\ code' = None

GoOn ==
    /\ at' = After(at)
    /\ UNCHANGED <<server, caps, notes, out, code>>

\* The process ends, and its memory with it
Exit(status) ==
    /\ at' = "idle"
    /\ code' = status
    /\ server' = None
    /\ caps' = {}
    /\ notes' = {}

Fail == Exit(1) /\ UNCHANGED out

\* The session is read-only, or nothing is read from it
Verify ==
    /\ at = "verify"
    /\ IF server.readOnly THEN GoOn ELSE Fail

\* Mutant: no note when the account cannot read the statistics
PgCheckSilent(readable) ==
    /\ caps' = IF server.kind.stats = "on" /\ readable THEN {"query_stats"} ELSE {}
    /\ notes' = IF server.kind.stats = "off" THEN {"not installed"} ELSE {}

\* Details the statistics have or lack, such as I/O times, are left out
PgCheck(readable) ==
    /\ caps' = IF server.kind.stats = "on" /\ readable THEN {"query_stats"} ELSE {}
    /\ notes' = IF server.kind.stats = "off" THEN {"not installed"}
                ELSE IF readable THEN {} ELSE {"not readable"}

\* Where the account cannot read performance_schema the sys schema is not
\* looked at any more
MyCheck(readable) ==
    IF server.kind.stats # "off" /\ ~readable
    THEN caps' = {} /\ notes' = {"not readable"}
    ELSE /\ caps' = (IF server.kind.stats = "on" THEN {"query_stats"} ELSE {})
                    \cup (IF server.kind.sys THEN {"sys_schema"} ELSE {})
         /\ notes' = ({server.kind.stats} \ {"on"})
                     \cup (IF server.kind.sys THEN {} ELSE {"no advisor views"})

\* After the trial of MySQL and MariaDB, and outside its try, the disabled
\* instruments are counted
InstrumentsRaise(readable) ==
    ~IsPg /\ server.kind.stats # "off" /\ readable /\ ~Readable("instruments")

\* check_capabilities; the trial may also fail for another reason, which is then
\* taken for a refusal
Check ==
    /\ at = "check"
    /\ \E readable \in {Readable("trial")} \cup (IF "statement" \in Troubles THEN {FALSE} ELSE {}) :
         IF InstrumentsRaise(readable)
         THEN Fail
         ELSE /\ IF IsPg THEN PgCheck(readable) ELSE MyCheck(readable)
              /\ at' = After(at)
              /\ UNCHANGED <<server, out, code>>

\* Statements are only asked for their statistics where there are some
Wanted(step) == step = "queries" => "query_stats" \in caps

Read ==
    /\ at \notin {"idle", "verify", "check", "delta", "dump"}
    /\ IF Wanted(at) /\ ~Works(at) THEN Fail ELSE GoOn

\* Any exception of collect ends the run: a refused connection, a statement that
\* takes more than five seconds
StatementFails ==
    /\ "statement" \in Troubles
    /\ at \notin {"idle", "delta", "dump"}
    /\ Fail

\* --delta-of: the previous snapshot cannot be read or does not fit
DeltaFails ==
    /\ at = "delta"
    /\ Fail

\* With or without --delta-of: open(..., "w") truncates the file
Open ==
    /\ at = "delta"
    /\ at' = "dump"
    /\ out' = File(FALSE)
    /\ UNCHANGED <<server, caps, notes, code>>

Dump ==
    /\ at = "dump"
    /\ out' = File(TRUE)
    /\ Exit(0)

DumpFails ==
    /\ "disk" \in Troubles
    /\ at = "dump"
    /\ Fail

Killed ==
    /\ "kill" \in Troubles
    /\ at # "idle"
    /\ Fail

Collect == Verify \/ Check \/ Read \/ StatementFails \/ DeltaFails \/ Open \/ Dump \/ DumpFails

Next == Begin \/ Collect \/ Killed

Spec == Init /\ [][Next]_vars

-----------------------------------------------------------------------------
(* Properties                                                              *)

\* "Misconfigured performance_schema is a degraded run with exact fix steps,
\* never a crash": where the session is read-only, no statement times out and
\* the disk works, a run without --delta-of ends with a snapshot
DegradedNotCrashed ==
    [][at # "idle" /\ at # "delta" /\ server.readOnly => code' # 1]_vars

\* What the account must be able to read for that, whatever else it lacks: the
\* trial of the statistics alone is asked in a try
Answered ==
    /\ ~IsPg /\ server.kind.stats # "off" /\ Readable("trial") => Readable("instruments")
    /\ server.kind.stats = "on" /\ Readable("trial") => Readable("statements")
    /\ server.kind.sys => Readable("scans") /\ Readable("unused")
    /\ ~IsPg => Readable("locks") /\ (server.kind.engine = "mysql" => server.kind.sys)
=============================================================================
