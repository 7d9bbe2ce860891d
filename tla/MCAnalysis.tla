------------------------------ MODULE MCAnalysis ------------------------------
(***************************************************************************)
(* Instances of Analysis: a healthy and a troubled server of each engine,  *)
(* with a table of each size class, and measurements on both sides of      *)
(* every threshold.                                                        *)
(***************************************************************************)
EXTENDS Analysis, TLC

\* One below each threshold, and each threshold
MCLevels ==
    [dead_tuple_ratio |-> {4, 5, 10, 20, 40}, seq_scans |-> {500},
     growth_30d_pct |-> {25}, data_free_bytes |-> {0, 180 * MB, 3 * GB},
     size_bytes |-> {100 * MB, 500 * MB, GB, 5 * GB},
     calls_per_day |-> {50000, 500000}, wait_ms |-> {5000},
     current |-> {79, 80, 90}, db_size_bytes |-> {10 * GB, 30 * GB}]

\* The best value of a setting and the worst
Values ==
    [shared_buffers |-> <<262144, 16384>>, work_mem |-> <<4096, 262144>>,
     effective_cache_size |-> <<1572864, 524288>>, autovacuum |-> <<"on", "off">>,
     autovacuum_vacuum_scale_factor |-> <<15, 20>>, wal_buffers |-> <<-1, 64>>,
     random_page_cost |-> <<110, 400>>, checkpoint_completion_target |-> <<90, 50>>,
     track_io_timing |-> <<"on", "off">>,
     innodb_buffer_pool_size |-> <<8 * GB, 128 * MB>>,
     Innodb_buffer_pool_reads |-> <<10, 11>>,
     innodb_log_file_size |-> <<64 * MB, 48 * MB>>, max_heap_table_size |-> <<16 * MB, 32 * MB>>,
     Opened_tables |-> <<3600, 3601>>, Threads_created |-> <<100, 101>>,
     sync_binlog |-> <<1, 0>>, innodb_flush_log_at_trx_commit |-> <<1, 2>>,
     query_cache_type |-> <<"OFF", "ON">>, slow_query_log |-> <<"ON", "OFF">>,
     performance_schema |-> <<"ON", "OFF">>]

MCScale == [name \in DOMAIN Values |-> {Values[name][1], Values[name][2]}]

Units ==
    [shared_buffers |-> "8kB", work_mem |-> "kB", effective_cache_size |-> "8kB",
     wal_buffers |-> "8kB"]

PgSettings ==
    {"shared_buffers", "work_mem", "effective_cache_size", "autovacuum",
     "autovacuum_vacuum_scale_factor", "wal_buffers", "random_page_cost",
     "checkpoint_completion_target", "track_io_timing"}

\* The best or the worst value of every setting, and the rest of the settings
SettingsOf(names, worst, others) ==
    [name \in names |->
       [value |-> IF worst THEN Values[name][2] ELSE Values[name][1],
        unit |-> IF name \in DOMAIN Units THEN Units[name] ELSE None]] @@ others

Plain(value) == [value |-> value, unit |-> None]
PgOthers(connections) == "max_connections" :> Plain(connections)
MyOthers(connections) ==
    ("max_connections" :> Plain(connections)) @@ ("Uptime" :> Plain(3600))
    @@ ("Connections" :> Plain(1000)) @@ ("tmp_table_size" :> Plain(16 * MB))
    @@ ("Innodb_buffer_pool_read_requests" :> Plain(1000))
    @@ ("query_cache_size" :> Plain(1024))

Query(row, digest, kind, from, filters, calls, total, mean) ==
    [row |-> row, query_digest |-> digest, kind |-> kind, from |-> from, filters |-> filters,
     calls |-> calls, total_time_ms |-> total, mean_time_ms |-> mean, rows_returned |-> calls,
     rows_examined |-> None, full_scan_flag |-> None,
     calls_per_day |-> 100, delta_low_confidence |-> FALSE]

Scanning(q) == [q EXCEPT !.rows_examined = 100 * q.calls, !.full_scan_flag = TRUE]

Table(name, size) ==
    [schema_name |-> "public", name |-> name, size_bytes |-> size, seq_scans |-> None,
     dead_tuple_ratio |-> None, last_autovacuum |-> None, data_free_bytes |-> None,
     growth_30d_pct |-> 24]
PgTable(name, size, dead) ==
    [Table(name, size) EXCEPT !.dead_tuple_ratio = dead, !.last_autovacuum = 1, !.seq_scans = 499]
MyTable(name, size, free) == [Table(name, size) EXCEPT !.data_free_bytes = free]

Index(name, columns, unique, unused) ==
    [table |-> <<"public", "orders">>, name |-> name, columns |-> columns,
     size_bytes |-> None, scans |-> None, is_primary |-> name = 1, is_unique |-> unique,
     is_duplicate_candidate |-> FALSE, is_unused_candidate |-> unused]
PgIndex(name, columns, unique, size, scans) ==
    [Index(name, columns, unique, FALSE) EXCEPT !.size_bytes = size, !.scans = scans]

\* Total times are in seconds here: rules compare them with each other only.  In
\* Busy q3 has less than 20 % of them, and without q2 just 20 %
Busy == {Query(1, "q1", "select", "orders", {"customer", "status"}, 99999, 200, 2),
         Query(2, "q2", "dml", "orders", {"id"}, 100, 49, 490),
         Query(3, "q3", "other", None, {}, 50000, 50, 1)}
Slow == {Query(1, "q1", "select", "orders", {"customer", "status"}, 60000, 60000, 1000),
         Query(2, "q2", "select", "items", {"order"}, 100, 40000, 400000),
         Query(4, "q4", "dml", "items", {"id"}, 9, 9, 999)}

HealthyPg ==
    [meta |-> [engine |-> "postgres", db_size_bytes |-> 20 * GB],
     queries |-> Busy,
     tables |-> {PgTable("orders", 100 * MB - 1, 0), PgTable("items", GB, 4)},
     indexes |-> {PgIndex(1, <<"id">>, TRUE, 40 * MB, 9), PgIndex(2, <<"customer", "day">>, FALSE, 40 * MB, 9),
                  PgIndex(3, <<"day">>, FALSE, 100 * MB, 9), PgIndex(4, <<"day">>, TRUE, 40 * MB, 9)},
     lock_waits |-> {[row |-> 1, blocked_digest |-> "q2", wait_ms |-> 4999]},
     connections |-> [current |-> 10, peak |-> None, max_limit |-> 100],
     settings |-> SettingsOf(PgSettings, FALSE, PgOthers(100))]

\* Several rules fire for every category
TroubledPg ==
    [HealthyPg EXCEPT
       !.queries = Slow,
       !.tables = {PgTable("orders", 5 * GB, 20), [PgTable("items", GB, 10) EXCEPT !.seq_scans = 500]},
       !.connections.current = 80,
       !.settings = SettingsOf({"autovacuum"}, TRUE, PgOthers(500))]

HealthyMy ==
    [meta |-> [engine |-> "mysql", db_size_bytes |-> 16 * GB],
     queries |-> {Scanning(q) : q \in Busy},
     tables |-> {MyTable("orders", 100 * MB - 1, 0), MyTable("items", 10 * GB, 100 * MB)},
     indexes |-> {Index(1, <<"id">>, TRUE, FALSE), Index(2, <<"day">>, FALSE, FALSE)},
     lock_waits |-> {[row |-> 1, blocked_digest |-> "q2", wait_ms |-> 4999]},
     connections |-> [current |-> 10, peak |-> 70, max_limit |-> 100],
     settings |-> SettingsOf(DOMAIN Values \ PgSettings, FALSE, MyOthers(151))]

TroubledMy ==
    [HealthyMy EXCEPT
       !.meta.engine = "mariadb",
       !.queries = {Scanning(q) : q \in Slow},
       !.tables = {MyTable("orders", GB, 200 * MB), MyTable("items", 600 * MB, 180 * MB)},
       !.connections.peak = 90,
       !.settings = SettingsOf({"sync_binlog"}, TRUE, MyOthers(1000))]

MCSnapshots == {HealthyPg, TroubledPg, HealthyMy, TroubledMy}

\* Before, between and after the names that are there
MCNewNames == {0, 5}
=============================================================================
