--------------------------------- MODULE Rules ---------------------------------
(***************************************************************************)
(* The rule engine (src/engine/): run_all as a function of one snapshot.   *)
(*                                                                         *)
(* A snapshot is a record with the field names of src/engine/models.py;    *)
(* fields no rule reads are left out, a field that may be null holds None. *)
(* Sizes are in kB, times in ms, shares and ratios in percent and          *)
(* fractional settings in hundredths.  Of a statement only what the rules  *)
(* read from its text is kept: its kind, its FROM table and the columns it *)
(* compares by equality.  A finding is its rule, category, severity,       *)
(* object and confidence; evidence, wording and impact are left out.       *)
(* Lists are sets of rows with a key: the catalog names tables and indexes *)
(* once, a statement or a lock wait that is listed twice has a row number. *)
(***************************************************************************)
EXTENDS Integers, FiniteSetsExt, SequencesExt

CONSTANT None   \* null, or no such row

\* The values of settings that checks ask for
CheckedWords == {"off", "OFF", "0", "ON", "1", "DEMAND", "2"}

\* Null is no number and no word (the checked words are named for the provers,
\* which do not know that a literal is in STRING)
ASSUME NullAssumption == None \notin Int \cup STRING \cup BOOLEAN \cup CheckedWords

-----------------------------------------------------------------------------
(* The snapshot                                                            *)

Engines == {"postgres", "mysql", "mariadb"}
Nullable(S) == {None} \cup S

SnapshotMeta == [engine : Engines, db_size_bytes : Nullable(Nat)]

QueryStat ==
    [row : Nat, query_digest : STRING, kind : {"select", "dml", "other"},
     from : Nullable(STRING), filters : SUBSET STRING,
     calls : Nat, total_time_ms : Nat, mean_time_ms : Nat, rows_returned : Nat,
     rows_examined : Nullable(Nat), full_scan_flag : Nullable(BOOLEAN),
     calls_per_day : Nullable(Nat), delta_low_confidence : Nullable(BOOLEAN)]

TableStat ==
    [schema_name : STRING, name : STRING, size_bytes : Nat,
     seq_scans : Nullable(Nat), dead_tuple_ratio : Nullable(0..100),
     last_autovacuum : Nullable(Nat), data_free_bytes : Nullable(Nat),
     growth_30d_pct : Nullable(Int)]

\* table is <<schema, name>>; columns is what _index_columns reads from the
\* definition; names are numbered in their order as strings
IndexStat ==
    [table : STRING \X STRING, name : Nat, columns : Seq(STRING),
     size_bytes : Nullable(Nat), scans : Nullable(Nat),
     is_primary : BOOLEAN, is_unique : BOOLEAN,
     is_duplicate_candidate : BOOLEAN, is_unused_candidate : BOOLEAN]

LockWait == [row : Nat, blocked_digest : STRING, wait_ms : Nat]

ConnectionInfo == [current : Nat, peak : Nullable(Nat), max_limit : Nat]

\* Null is no object
ASSUME NoConnectionsAssumption == None \notin ConnectionInfo

\* [names -> [value, unit]].  A value is a word or a number, as its setting has
\* it, and None where a number is needed and float() refuses the text; counters
\* and max_connections are never negative
Words == {"autovacuum", "track_io_timing", "query_cache_type", "slow_query_log",
          "performance_schema"}
Counts == {"max_connections", "Innodb_buffer_pool_reads", "Innodb_buffer_pool_read_requests",
           "Opened_tables", "Uptime", "Threads_created", "Connections"}
SettingValues(name) ==
    IF name \in Words THEN STRING ELSE Nullable(IF name \in Counts THEN Nat ELSE Int)

SettingsOk(settings) ==
    \A name \in DOMAIN settings :
        DOMAIN settings[name] = {"value", "unit"} /\ settings[name].value \in SettingValues(name)

\* The lists of a snapshot: finitely many rows, and one for each key
QueriesOk(queries) ==
    /\ IsFiniteSet(queries)
    /\ \A q \in queries : q \in QueryStat /\ IsFiniteSet(q.filters)
    /\ \A q, r \in queries : q.row = r.row => q = r

TablesOk(tables) ==
    /\ IsFiniteSet(tables) /\ tables \subseteq TableStat
    /\ \A t, u \in tables : t.schema_name = u.schema_name /\ t.name = u.name => t = u

IndexesOk(indexes) ==
    /\ IsFiniteSet(indexes) /\ indexes \subseteq IndexStat
    /\ \A i, j \in indexes : i.table = j.table /\ i.name = j.name => i = j

LockWaitsOk(lock_waits) ==
    /\ IsFiniteSet(lock_waits) /\ lock_waits \subseteq LockWait
    /\ \A lw, other \in lock_waits : lw.row = other.row => lw = other

SnapshotOk(s) ==
    /\ DOMAIN s =
         {"meta", "queries", "tables", "indexes", "lock_waits", "connections", "settings"}
    /\ s.meta \in SnapshotMeta
    /\ QueriesOk(s.queries) /\ TablesOk(s.tables)
    /\ IndexesOk(s.indexes) /\ LockWaitsOk(s.lock_waits)
    /\ s.connections \in Nullable(ConnectionInfo)
    /\ SettingsOk(s.settings)

-----------------------------------------------------------------------------
(* Findings and thresholds                                                 *)

Finding(rule, category, severity, object, confidence) ==
    [rule |-> rule, category |-> category, severity |-> severity,
     object |-> object, confidence |-> confidence]

MB == 1024
GB == 1024 * MB

T == [q1_pct_of_db_time |-> 20, q1_critical_pct |-> 40,
      q2_mean_ms |-> 1000, q2_high_calls |-> 10000, q2_medium_calls |-> 100,
      q3_calls_per_day |-> 50000, q3_high_calls_per_day |-> 500000,
      i1_min_table_size_bytes |-> 100 * MB, i1_high_table_size_bytes |-> GB,
      i1_min_seq_scans |-> 500, i1_scan_selectivity |-> 100, i1_min_calls |-> 10,
      i2_min_size_bytes |-> 20 * MB, i2_medium_size_bytes |-> 100 * MB,
      l1_wait_ms |-> 5000, c1_high_pct |-> 80, c1_critical_pct |-> 90,
      g1_growth_30d_pct |-> 25, g1_min_size_bytes |-> 500 * MB,
      m1_dead_tuple_ratio |-> 20, m1_min_size_bytes |-> 100 * MB,
      m2_dead_tuple_ratio |-> 5, m2_min_size_bytes |-> 100 * MB,
      m3_dead_tuple_ratio |-> 10, m3_min_size_bytes |-> 500 * MB,
      m4_fragmentation_ratio |-> 30, m4_min_size_bytes |-> 500 * MB,
      pg_shared_buffers_db_fraction |-> 10, pg_shared_buffers_cap_bytes |-> 2 * GB,
      pg_workmem_product_bytes |-> 16 * GB, pg_effective_cache_size_default |-> 524288,
      pg_autovac_scale_factor_max |-> 15, pg_autovac_scale_table_bytes |-> 5 * GB,
      pg_max_connections_high |-> 500, pg_checkpoint_target_min |-> 90,
      my_buffer_pool_db_fraction |-> 50, my_buffer_pool_hit_ratio_min |-> 99,
      my_log_file_min_bytes |-> 64 * MB, my_opened_tables_per_sec |-> 1,
      my_min_uptime_s |-> 3600, my_thread_created_ratio |-> 10,
      my_min_connections_sample |-> 1000, my_max_connections_high |-> 1000]

\* A nullable number that is missing or below a limit
Below(x, limit) == x = None \/ x < limit

\* x / y >= pct %, and the like, without fractions
AtLeast(x, y, pct) == 100 * x >= pct * y
LessThan(x, y, pct) == 100 * x < pct * y

-----------------------------------------------------------------------------
(* Query rules                                                             *)

QueryObject(q) == <<"query", q.query_digest, q.row>>

TotalTime(s) == MapThenSumSet(LAMBDA q : q.total_time_ms, s.queries)

\* R-Q1.  The share is of the captured statements, at most the top 200
HighTotalTimeQuery(s) ==
    LET total == TotalTime(s) IN
    {Finding("R-Q1", "queries",
             IF AtLeast(q.total_time_ms, total, T.q1_critical_pct) THEN "CRITICAL" ELSE "HIGH",
             QueryObject(q), "high") :
       q \in {q \in s.queries :
                total > 0 /\ AtLeast(q.total_time_ms, total, T.q1_pct_of_db_time)}}

\* R-Q2
SlowMeanTimeQuery(s) ==
    {Finding("R-Q2", "queries",
             IF q.calls >= T.q2_high_calls THEN "HIGH"
             ELSE IF q.calls >= T.q2_medium_calls THEN "MEDIUM" ELSE "LOW",
             QueryObject(q), "high") :
       q \in {q \in s.queries : q.mean_time_ms >= T.q2_mean_ms}}

Rate(q) == IF q.calls_per_day # None THEN q.calls_per_day ELSE q.calls

\* Mutant: the counter since the last reset is as good as a measured rate
RateConfidenceHigh(q) == IF q.delta_low_confidence = TRUE THEN "low" ELSE "high"

RateConfidence(q) ==
    IF q.calls_per_day # None /\ q.delta_low_confidence # TRUE THEN "high" ELSE "low"

\* R-Q3.  Transaction control and SET are no workload
HighFrequencyQuery(s) ==
    {Finding("R-Q3", "queries",
             IF Rate(q) >= T.q3_high_calls_per_day THEN "HIGH" ELSE "MEDIUM",
             QueryObject(q), RateConfidence(q)) :
       q \in {q \in s.queries : q.kind # "other" /\ Rate(q) >= T.q3_calls_per_day}}

-----------------------------------------------------------------------------
(* Index rules                                                             *)

\* Columns that begin an index of a table with that name, whatever its schema
IndexedLeading(s, name) ==
    {Head(i.columns) : i \in {i \in s.indexes : i.table[2] = name /\ i.columns # <<>>}}

\* Mutant: columns that begin an index are candidates too
FilterColumnsAll(s, name) == UNION {q.filters : q \in {q \in s.queries : q.from = name}}

\* _filter_columns_for
FilterColumns(s, name) ==
    (UNION {q.filters : q \in {q \in s.queries : q.from = name}}) \ IndexedLeading(s, name)

TableObject(t) == <<"table", t.schema_name, t.name>>

MissingIndex(t) ==
    Finding("R-I1", "indexes",
            IF t.size_bytes >= T.i1_high_table_size_bytes THEN "HIGH" ELSE "MEDIUM",
            TableObject(t), "medium")

\* R-I1 on PostgreSQL: tables read in full, and columns that lead no index
CandidateTables(s) ==
    {t \in s.tables :
        /\ ~Below(t.seq_scans, T.i1_min_seq_scans)
        /\ t.size_bytes >= T.i1_min_table_size_bytes
        /\ FilterColumns(s, t.name) # {}}

\* A SELECT without a usable index that reads many rows for each it returns
ScansInFull(q) ==
    /\ q.full_scan_flag = TRUE
    /\ q.calls >= T.i1_min_calls
    /\ q.rows_examined \notin {None, 0}
    /\ q.kind = "select"
    /\ q.rows_examined >= T.i1_scan_selectivity * Max({q.rows_returned, 1})
    /\ q.filters # {}

\* R-I1 on MySQL: one finding for each table, by the statements that scan it
ScannedTables(s) ==
    {t \in s.tables :
        /\ t.size_bytes >= T.i1_min_table_size_bytes
        /\ \E q \in s.queries : ScansInFull(q) /\ q.from = t.name}

MissingIndexCandidate(s) ==
    {MissingIndex(t) :
       t \in IF s.meta.engine = "postgres" THEN CandidateTables(s) ELSE ScannedTables(s)}

IndexObject(i) == <<i.table[1], i.table[2], i.name>>

\* R-I2
UnusedIndex(s) ==
    {Finding("R-I2", "indexes",
             IF s.meta.engine = "postgres" /\ ~Below(i.size_bytes, T.i2_medium_size_bytes)
             THEN "MEDIUM" ELSE "LOW",
             IndexObject(i), "medium") :
       i \in {i \in s.indexes :
                /\ ~i.is_primary /\ ~i.is_unique
                /\ IF s.meta.engine = "postgres"
                   THEN i.scans \in {None, 0} /\ ~Below(i.size_bytes, T.i2_min_size_bytes)
                   ELSE i.is_unused_candidate}}

\* _pg_duplicates: b's columns begin with a's.  On exact ties the unique index is
\* kept, then the one whose name comes first
CoveredBy(a, b) ==
    /\ a.table = b.table
    /\ a.columns # <<>>
    /\ ~a.is_primary
    /\ a.name # b.name
    /\ IsPrefix(a.columns, b.columns)
    /\ a.columns = b.columns =>
          /\ a.is_unique => b.is_unique
          /\ a.is_unique = b.is_unique => b.name < a.name

\* R-I3
DuplicateIndex(s) ==
    {Finding("R-I3", "indexes", "MEDIUM", IndexObject(i), "high") :
       i \in {i \in s.indexes :
                IF s.meta.engine = "postgres" THEN \E b \in s.indexes : CoveredBy(i, b)
                ELSE i.is_duplicate_candidate}}

-----------------------------------------------------------------------------
(* Operational rules                                                       *)

\* R-L1
LockWaitChain(s) ==
    {Finding("R-L1", "ops", "HIGH", <<"lock", lw.blocked_digest, lw.row>>, "high") :
       lw \in {lw \in s.lock_waits : lw.wait_ms >= T.l1_wait_ms}}

\* R-C1: the peak where the engine tracks it
Observed(c) == IF c.peak # None THEN c.peak ELSE c.current

ConnectionHeadroom(s) ==
    {Finding("R-C1", "ops",
             IF AtLeast(Observed(c), c.max_limit, T.c1_critical_pct) THEN "CRITICAL" ELSE "HIGH",
             <<"server", "connections">>, IF c.peak # None THEN "high" ELSE "medium") :
       c \in {c \in {s.connections} \ {None} :
                c.max_limit > 0 /\ AtLeast(Observed(c), c.max_limit, T.c1_high_pct)}}

\* R-G1: known for a delta snapshot only
TableGrowthRisk(s) ==
    {Finding("R-G1", "ops", "MEDIUM", TableObject(t), "medium") :
       t \in {t \in s.tables :
                ~Below(t.growth_30d_pct, T.g1_growth_30d_pct) /\ t.size_bytes >= T.g1_min_size_bytes}}

-----------------------------------------------------------------------------
(* Maintenance rules                                                       *)

\* Mutant: what is far over the limit is left to a rule that does not come
DeadInBand(s, ratio, size) ==
    {t \in s.tables : /\ ~Below(t.dead_tuple_ratio, ratio) /\ Below(t.dead_tuple_ratio, 2 * ratio)
                      /\ t.size_bytes >= size}

DeadIn(s, ratio, size) ==
    {t \in s.tables : ~Below(t.dead_tuple_ratio, ratio) /\ t.size_bytes >= size}

\* R-M1
VacuumLag(s) ==
    {Finding("R-M1", "maintenance",
             IF t.dead_tuple_ratio >= 2 * T.m1_dead_tuple_ratio THEN "HIGH" ELSE "MEDIUM",
             TableObject(t), "high") :
       t \in DeadIn(s, T.m1_dead_tuple_ratio, T.m1_min_size_bytes)}

\* A setting as text or as a number
Value(s, name) == IF name \in DOMAIN s.settings THEN s.settings[name].value ELSE None

\* R-M2: disabled, or null for a table: autovacuum has never processed it
AutovacuumNotRunning(s) ==
    (IF Value(s, "autovacuum") = "off"
     THEN {Finding("R-M2", "maintenance", "HIGH", <<"setting", "autovacuum">>, "high")} ELSE {})
    \cup
    {Finding("R-M2", "maintenance", "MEDIUM", TableObject(t), "high") :
       t \in {t \in DeadIn(s, T.m2_dead_tuple_ratio, T.m2_min_size_bytes) :
                t.last_autovacuum = None}}

\* R-M3
BloatEstimate(s) ==
    {Finding("R-M3", "maintenance", "LOW", TableObject(t), "low") :
       t \in DeadIn(s, T.m3_dead_tuple_ratio, T.m3_min_size_bytes)}

\* R-M4
InnodbFragmentation(s) ==
    {Finding("R-M4", "maintenance", "MEDIUM", TableObject(t), "medium") :
       t \in {t \in s.tables :
                /\ t.data_free_bytes \notin {None, 0}
                /\ t.size_bytes >= T.m4_min_size_bytes
                /\ AtLeast(t.data_free_bytes, t.size_bytes, T.m4_fragmentation_ratio)}}

-----------------------------------------------------------------------------
(* PostgreSQL configuration checks (R-CFG-PG)                              *)

UnitKB ==
    [unit \in {"kB", "8kB", "MB", "GB", "16MB"} |->
       CASE unit = "kB" -> 1 [] unit = "8kB" -> 8 [] unit = "MB" -> MB
         [] unit = "GB" -> GB [] unit = "16MB" -> 16 * MB]

\* Ctx.bytes, in kB: no unit, or another one, means bytes
Bytes(s, name) ==
    LET value == Value(s, name) IN
    IF value = None THEN None
    ELSE LET unit == s.settings[name].unit IN
         IF unit \in DOMAIN UnitKB THEN value * UnitKB[unit] ELSE value \div 1024

Is(s, name, words) == Value(s, name) \in words
Missing(s, names) == \E name \in names : Value(s, name) = None
HasTableLargerThan(s, size) == \E t \in s.tables : t.size_bytes >= size

SmallSharedBuffers(s) ==
    LET sb == Bytes(s, "shared_buffers") db == s.meta.db_size_bytes IN
    /\ sb # None /\ db # None
    /\ LessThan(sb, db, T.pg_shared_buffers_db_fraction)
    /\ sb <= T.pg_shared_buffers_cap_bytes

WorkMemProduct(s) ==
    /\ ~Missing(s, {"work_mem", "max_connections"})
    /\ Bytes(s, "work_mem") * Value(s, "max_connections") > T.pg_workmem_product_bytes

DefaultEffectiveCacheSize(s) ==
    Value(s, "effective_cache_size") = T.pg_effective_cache_size_default

AutovacScale(s) ==
    /\ ~Below(Value(s, "autovacuum_vacuum_scale_factor"), T.pg_autovac_scale_factor_max + 1)
    /\ HasTableLargerThan(s, T.pg_autovac_scale_table_bytes)

\* -1 means auto-tuned
SmallWalBuffers(s) ==
    ~Below(Value(s, "wal_buffers"), 1) /\ Bytes(s, "wal_buffers") < MB

HastyCheckpoints(s) ==
    /\ ~Missing(s, {"checkpoint_completion_target"})
    /\ Value(s, "checkpoint_completion_target") < T.pg_checkpoint_target_min

PgChecks(s) ==
    {<<"shared_buffers", "LOW", SmallSharedBuffers(s)>>,
     <<"work_mem", "MEDIUM", WorkMemProduct(s)>>,
     <<"effective_cache_size", "INFO", DefaultEffectiveCacheSize(s)>>,
     <<"autovacuum", "HIGH", Is(s, "autovacuum", {"off"})>>,
     <<"autovacuum_vacuum_scale_factor", "MEDIUM", AutovacScale(s)>>,
     <<"wal_buffers", "LOW", SmallWalBuffers(s)>>,
     <<"random_page_cost", "INFO", ~Below(Value(s, "random_page_cost"), 400)>>,
     <<"max_connections", "LOW",
       ~Below(Value(s, "max_connections"), T.pg_max_connections_high)>>,
     <<"checkpoint_completion_target", "INFO", HastyCheckpoints(s)>>,
     <<"track_io_timing", "INFO", Is(s, "track_io_timing", {"off"})>>}

\* Mutant: a category the score does not know
ConfigFindingsOther(rule, checks) ==
    {Finding(rule, "configuration", c[2], <<"setting", c[1]>>, "high") : c \in {c \in checks : c[3]}}

ConfigFindings(rule, checks) ==
    {Finding(rule, "config", c[2], <<"setting", c[1]>>, "high") : c \in {c \in checks : c[3]}}

-----------------------------------------------------------------------------
(* MySQL and MariaDB configuration checks (R-CFG-MY).  Sizes are in kB.    *)

\* Evidence of a low hit ratio is needed, a small pool is not enough
SmallBufferPool(s) ==
    LET pool == Value(s, "innodb_buffer_pool_size")
        reads == Value(s, "Innodb_buffer_pool_reads")
        requests == Value(s, "Innodb_buffer_pool_read_requests") IN
    /\ pool # None /\ s.meta.db_size_bytes # None /\ requests \notin {None, 0}
    /\ LessThan(pool, s.meta.db_size_bytes, T.my_buffer_pool_db_fraction)
    /\ LessThan(requests - (IF reads = None THEN 0 ELSE reads), requests,
                T.my_buffer_pool_hit_ratio_min)

SmallLogFile(s) ==
    /\ ~Missing(s, {"innodb_log_file_size"})
    /\ Value(s, "innodb_log_file_size") < T.my_log_file_min_bytes

TmpTableMismatch(s) ==
    /\ ~Missing(s, {"tmp_table_size", "max_heap_table_size"})
    /\ Value(s, "tmp_table_size") # Value(s, "max_heap_table_size")

TablesReopened(s) ==
    /\ ~Missing(s, {"Opened_tables"})
    /\ ~Below(Value(s, "Uptime"), T.my_min_uptime_s)
    /\ Value(s, "Opened_tables") > T.my_opened_tables_per_sec * Value(s, "Uptime")

ThreadsCreated(s) ==
    /\ ~Missing(s, {"Threads_created"})
    /\ ~Below(Value(s, "Connections"), T.my_min_connections_sample)
    /\ 100 * Value(s, "Threads_created") > T.my_thread_created_ratio * Value(s, "Connections")

DurabilityTradeoff(s) ==
    \E name \in {"sync_binlog", "innodb_flush_log_at_trx_commit"} :
        Value(s, name) \notin {None, 1}

QueryCache(s) ==
    /\ Is(s, "query_cache_type", {"ON", "1", "DEMAND", "2"})
    /\ Value(s, "query_cache_size") \notin {None, 0}

MyChecks(s) ==
    {<<"innodb_buffer_pool_size", "HIGH", SmallBufferPool(s)>>,
     <<"innodb_log_file_size", "LOW", SmallLogFile(s)>>,
     <<"tmp_table_size", "LOW", TmpTableMismatch(s)>>,
     <<"table_open_cache", "MEDIUM", TablesReopened(s)>>,
     <<"thread_cache_size", "LOW", ThreadsCreated(s)>>,
     <<"max_connections", "INFO",
       ~Below(Value(s, "max_connections"), T.my_max_connections_high)>>,
     <<"sync_binlog_and_innodb_flush_log_at_trx_commit", "INFO", DurabilityTradeoff(s)>>,
     <<"query_cache_type", "MEDIUM", QueryCache(s)>>,
     <<"slow_query_log", "INFO", Is(s, "slow_query_log", {"OFF", "0"})>>,
     <<"performance_schema", "LOW", Is(s, "performance_schema", {"OFF", "0"})>>}

-----------------------------------------------------------------------------
(* run_all                                                                 *)

EveryEngine(s) ==
    HighTotalTimeQuery(s) \cup SlowMeanTimeQuery(s) \cup HighFrequencyQuery(s)
    \cup MissingIndexCandidate(s) \cup UnusedIndex(s) \cup DuplicateIndex(s)
    \cup LockWaitChain(s) \cup ConnectionHeadroom(s) \cup TableGrowthRisk(s)

PgOnly(s) ==
    VacuumLag(s) \cup AutovacuumNotRunning(s) \cup BloatEstimate(s)
    \cup ConfigFindings("R-CFG-PG", PgChecks(s))

MySQLOnly(s) == InnodbFragmentation(s) \cup ConfigFindings("R-CFG-MY", MyChecks(s))

RunAll(s) ==
    EveryEngine(s) \cup (IF s.meta.engine = "postgres" THEN PgOnly(s) ELSE MySQLOnly(s))
=============================================================================
