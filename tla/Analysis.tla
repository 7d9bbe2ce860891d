-------------------------------- MODULE Analysis --------------------------------
(***************************************************************************)
(* Audits of one server over time: what the collector captures gets worse, *)
(* gets lost, or a developer follows the advice of R-I1; run_all and       *)
(* compute_score judge it.  The server and the developer are external.     *)
(*                                                                         *)
(* Three things that get worse are left out, because the engine does not   *)
(* promise to see them: a slower statement takes share from the others in  *)
(* R-Q1, a larger max_connections is more headroom for R-C1 and more       *)
(* memory for R-CFG, and a growing MySQL table dilutes its fragmentation.  *)
(***************************************************************************)
EXTENDS Rules, HealthScore

CONSTANTS
    Snapshots,      \* the snapshots the server may begin with
    Levels,         \* bound: Levels[field]: the values a measurement may rise to
    Scale,          \* bound: Scale[name]: the values a setting may be given
    NewNames,       \* names the developer may give to an index
    MaxChanges,     \* bound: how often the server changes
    MaxCounted      \* bound: findings of an audit that is counted one by one

ASSUME AnalysisAssumption ==
    /\ \A s \in Snapshots : SnapshotOk(s)
    /\ \A field \in DOMAIN Levels :
         Levels[field] \subseteq IF field = "dead_tuple_ratio" THEN 0..100 ELSE Nat
    /\ \A name \in DOMAIN Scale : Scale[name] \subseteq SettingValues(name) \ {None}
    /\ NewNames \subseteq Nat
    /\ MaxChanges \in Nat /\ MaxCounted \in Nat

VARIABLES
    snapshot,       \* what the collector captures now
    changes,        \* how often it has changed
    audited         \* this snapshot has been audited

vars == <<snapshot, changes, audited, scoreVars>>

Init ==
    /\ snapshot \in Snapshots
    /\ changes = 0
    /\ audited = FALSE
    /\ left = {}
    /\ raw = NoPoints

IsPostgres == snapshot.meta.engine = "postgres"

\* The old report is put away
Change(s) ==
    /\ left = {}
    /\ changes < MaxChanges
    /\ changes' = changes + 1
    /\ snapshot' = s
    /\ audited' = FALSE
    /\ raw' = NoPoints
    /\ UNCHANGED left

Replaced(S, old, new) == (S \ {old}) \cup {new}
Raised(r, field) ==
    IF field \notin DOMAIN Levels \/ r[field] = None THEN {}
    ELSE {[r EXCEPT ![field] = v] : v \in {v \in Levels[field] : v > r[field]}}

-----------------------------------------------------------------------------
(* The server gets worse                                                   *)

TableMeasures ==
    {"dead_tuple_ratio", "seq_scans", "growth_30d_pct", "data_free_bytes"}
    \cup (IF IsPostgres THEN {"size_bytes"} ELSE {})

TableWorsens ==
    \E t \in snapshot.tables :
      \E worse \in {[t EXCEPT !.last_autovacuum = None]}
                   \cup UNION {Raised(t, field) : field \in TableMeasures} :
        Change([snapshot EXCEPT !.tables = Replaced(@, t, worse)])

IndexWorsens ==
    \E i \in snapshot.indexes :
      \E worse \in IF IsPostgres THEN {[i EXCEPT !.scans = 0]}
                   ELSE {[i EXCEPT !.is_unused_candidate = TRUE],
                         [i EXCEPT !.is_duplicate_candidate = TRUE]} :
        Change([snapshot EXCEPT !.indexes = Replaced(@, i, worse)])

CallsRise ==
    \E q \in snapshot.queries : \E worse \in Raised(q, "calls_per_day") :
        Change([snapshot EXCEPT !.queries = Replaced(@, q, worse)])

LockWaitsGrow ==
    \E lw \in snapshot.lock_waits : \E worse \in Raised(lw, "wait_ms") :
        Change([snapshot EXCEPT !.lock_waits = Replaced(@, lw, worse)])

ConnectionsGrow ==
    /\ snapshot.connections # None
    /\ \E worse \in Raised(snapshot.connections, "current") :
         Change([snapshot EXCEPT !.connections =
                   IF worse.peak = None THEN worse
                   ELSE [worse EXCEPT !.peak = Max({@, worse.current})]])

DatabaseGrows ==
    \E worse \in Raised(snapshot.meta, "db_size_bytes") :
        Change([snapshot EXCEPT !.meta = worse])

\* What a worse value is: less memory, time or durability, more memory than there
\* is, later or no maintenance, less to see, and events that nobody wants
Looser(name, old, new) ==
    CASE name \in {"shared_buffers", "innodb_buffer_pool_size", "innodb_log_file_size",
                   "checkpoint_completion_target"} -> new < old
      [] name \in {"work_mem", "autovacuum_vacuum_scale_factor", "random_page_cost",
                   "Innodb_buffer_pool_reads", "Opened_tables", "Threads_created"} -> new > old
      [] name = "wal_buffers" -> new > 0 /\ (new < old \/ old = -1)
      [] name = "effective_cache_size" -> new = T.pg_effective_cache_size_default
      [] name \in {"sync_binlog", "innodb_flush_log_at_trx_commit"} -> old = 1
      [] name = "max_heap_table_size" -> old = Value(snapshot, "tmp_table_size")
      [] name \in {"autovacuum", "track_io_timing"} -> new = "off"
      [] name \in {"slow_query_log", "performance_schema"} -> new = "OFF"
      [] name = "query_cache_type" -> new = "ON"
      [] OTHER -> FALSE

SettingLoosens ==
    \E name \in DOMAIN snapshot.settings \cap DOMAIN Scale : \E new \in Scale[name] :
      LET old == snapshot.settings[name].value IN
        /\ old \notin {None, new} /\ Looser(name, old, new)
        /\ Change([snapshot EXCEPT !.settings[name].value = new])

Worsen ==
    \/ TableWorsens \/ IndexWorsens \/ CallsRise \/ LockWaitsGrow
    \/ ConnectionsGrow \/ DatabaseGrows \/ SettingLoosens

-----------------------------------------------------------------------------
(* The collector captures less                                             *)

\* pg_stat_statements or the statement digests are not there
LoseQueries == Change([snapshot EXCEPT !.queries = {}])

WithoutDelta(q) == [q EXCEPT !.calls_per_day = None, !.delta_low_confidence = None]

\* There is no previous snapshot to diff against
LoseDelta ==
    Change([snapshot EXCEPT
              !.queries = {WithoutDelta(q) : q \in @},
              !.tables = {[t EXCEPT !.growth_30d_pct = None] : t \in @}])

\* MariaDB, or no sys schema
LoseAdvisorViews ==
    /\ ~IsPostgres
    /\ Change([snapshot EXCEPT !.indexes =
                 {[i EXCEPT !.is_unused_candidate = FALSE, !.is_duplicate_candidate = FALSE] : i \in @}])

\* The queries of the collectors have limits, of 200 statements as of tables; and
\* a server whose statement store is full evicts any
LoseStatement == \E q \in snapshot.queries : Change([snapshot EXCEPT !.queries = @ \ {q}])

LoseRow ==
    \/ LoseStatement
    \/ \E t \in snapshot.tables : Change([snapshot EXCEPT !.tables = @ \ {t}])
    \/ \E i \in snapshot.indexes : Change([snapshot EXCEPT !.indexes = @ \ {i}])

\* A server of another version does not have the setting
LoseSetting ==
    \E name \in DOMAIN snapshot.settings :
        Change([snapshot EXCEPT !.settings = [n \in DOMAIN @ \ {name} |-> @[n]]])

LosePeak ==
    /\ snapshot.connections # None
    /\ Change([snapshot EXCEPT !.connections.peak = None])

Lose ==
    \/ LoseQueries \/ LoseDelta \/ LoseAdvisorViews \/ LoseRow
    \/ LoseSetting \/ LosePeak \/ Change([snapshot EXCEPT !.lock_waits = {}])

-----------------------------------------------------------------------------
(* The developer and the engine                                            *)

\* An index on the candidate columns of R-I1, in any order
NewIndex(t, name, columns) ==
    [table |-> <<t.schema_name, t.name>>, name |-> name, columns |-> columns,
     size_bytes |-> 0, scans |-> 0, is_primary |-> FALSE, is_unique |-> FALSE,
     is_duplicate_candidate |-> FALSE, is_unused_candidate |-> FALSE]

CreateIndex(t) ==
    /\ IsPostgres
    /\ t \in CandidateTables(snapshot)
    /\ \E name \in NewNames \ {i.name : i \in snapshot.indexes} :
         \E columns \in SetToSeqs(FilterColumns(snapshot, t.name)) :
           Change([snapshot EXCEPT !.indexes = @ \cup {NewIndex(t, name, columns)}])

Audit ==
    /\ ~audited
    /\ Cardinality(RunAll(snapshot)) <= MaxCounted
    /\ audited' = TRUE
    /\ Score(RunAll(snapshot))
    /\ UNCHANGED <<snapshot, changes>>

CountOne ==
    /\ \E f \in left : Count(f)
    /\ UNCHANGED <<snapshot, changes, audited>>

Next ==
    \/ Worsen \/ Lose
    \/ \E t \in snapshot.tables : CreateIndex(t)
    \/ Audit \/ CountOne

Spec == Init /\ [][Next]_vars

-----------------------------------------------------------------------------
(* Properties                                                              *)

\* Every variable has its type
TypeOK ==
    /\ SnapshotOk(snapshot)
    /\ changes \in 0..MaxChanges
    /\ audited \in BOOLEAN
    /\ left \subseteq IF audited THEN RunAll(snapshot) ELSE {}
    /\ \A f \in left : IsFinding(f)
    /\ raw \in [Categories -> Nat]

\* "The score is always within [5, 100]", and one noisy category "can never zero
\* the score alone"
ScoreInRange ==
    /\ ScoreOf(raw) \in Floor..100
    /\ \A c \in Categories :
         (\A d \in Categories \ {c} : raw[d] = 0) => ScoreOf(raw) >= 70

\* "Adding a finding never raises the score"
MoreIsNotBetter ==
    [][CountOne => ScoreOf(raw') <= ScoreOf(raw)]_vars

\* A server that gets worse, in one measurement or one setting, never gets a
\* higher score, although a finding of one rule may take the place of another's
\* and the categories are capped
WorseIsNotBetter ==
    [][Worsen => Rubric(RunAll(snapshot)') <= Rubric(RunAll(snapshot))]_vars

Named(findings) == {<<f.rule, f.object>> : f \in findings}

\* "Fields not available on one engine are nullable; rules ... skip gracefully":
\* what the collector could not capture brings about no finding that claims high
\* confidence, but for one rule and one loss: R-Q1 does not skip where statements
\* are missing, and takes its shares of the time of those that are captured
MissingIsModest ==
    [][Lose => \A f \in RunAll(snapshot)' :
                 f.confidence = "high" =>
                   \/ <<f.rule, f.object>> \in Named(RunAll(snapshot))
                   \/ LoseStatement /\ f.rule = "R-Q1"]_vars

\* An index created as R-I1 advises is not redundant for R-I3, nor does it make
\* another one so, and it leaves R-I1 fewer columns to ask for
AdviceHolds ==
    [][\A t \in snapshot.tables : CreateIndex(t) =>
         /\ DuplicateIndex(snapshot)' \subseteq DuplicateIndex(snapshot)
         /\ FilterColumns(snapshot, t.name)' \subseteq FilterColumns(snapshot, t.name)
         /\ FilterColumns(snapshot, t.name)' # FilterColumns(snapshot, t.name)]_vars
=============================================================================
