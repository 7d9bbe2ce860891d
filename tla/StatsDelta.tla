----------------------------- MODULE StatsDelta -----------------------------
(***************************************************************************)
(* Rates from two snapshots: the statement counters of a database server,  *)
(* the collectors that read the top of them                                *)
(* (src/collector/pg_collect.py, mysql_collect.py) and apply_delta         *)
(* (src/collector/delta.py).                                               *)
(*                                                                         *)
(* A rate is counted over the whole interval: calls_per_day times days,    *)
(* before it is rounded.  The growth of tables, which have no counters     *)
(* that reset, is left out.                                                *)
(***************************************************************************)
EXTENDS Naturals, Integers, FiniteSets, Functions

CONSTANTS
    Rows,       \* rows of the statistics view: a statement run by one user
    Digests,    \* the values of query_digest
    DigestOf,   \* DigestOf[r]: the query_digest of row r
    Top,        \* TOP_QUERIES
    Times,      \* bound: the times one execution may take
    MaxCalls,   \* bound: executions of a statement
    None        \* no snapshot, no report

ASSUME RowsAssumption ==
    IsFiniteSet(Rows) /\ DigestOf \in [Rows -> Digests] /\ None \notin Rows
ASSUME NumbersAssumption ==
    Top \in Nat \ {0} /\ MaxCalls \in Nat /\ Times \subseteq Nat \ {0}

VARIABLES
    counters,   \* [Rows -> Work]: what the server has counted
    prev,       \* the snapshot of --delta-of: [Rows in it -> Work]
    older,      \* the clock has moved on since prev was taken
    report,     \* the queries of the snapshot just enriched, if one was
    done,       \* [Rows -> Work]: history, what really ran since prev
    forgotten   \* history, the rows that were reset or evicted since prev

vars == <<counters, prev, older, report, done, forgotten>>

Work == [calls : Nat, time : Nat]
NoWork == [calls |-> 0, time |-> 0]
Rate == [calls : Int, time : Int, low : BOOLEAN]
\* f holds a value of S for some of the rows
Holds(f, S) == \E rows \in SUBSET Rows : f \in [rows -> S]

-----------------------------------------------------------------------------
(* The collectors                                                          *)

\* A row exists once its statement has run
Present == {r \in Rows : counters[r].calls > 0}

\* Mutant: the LIMIT is forgotten
TopRowsAll(rows) == rows = Present

\* ORDER BY total time DESC LIMIT TOP_QUERIES, ties in any order
TopRows(rows) ==
    /\ rows \subseteq Present
    /\ Cardinality(rows) <= Top
    /\ rows # Present => Cardinality(rows) = Top
    /\ \A r \in rows, q \in Present \ rows : counters[r].time >= counters[q].time

-----------------------------------------------------------------------------
(* apply_delta                                                             *)

\* Mutant: a reset is looked for in the calls alone
RateByCalls(now, before) ==
    IF now.calls < before.calls
    THEN [calls |-> now.calls, time |-> now.time, low |-> TRUE]
    ELSE [calls |-> now.calls - before.calls, time |-> now.time - before.time, low |-> FALSE]

\* Mutant: a statement that did not run is taken for a reset one
RateOfIdle(now, before) ==
    IF now.calls <= before.calls \/ now.time <= before.time
    THEN [calls |-> now.calls, time |-> now.time, low |-> TRUE]
    ELSE [calls |-> now.calls - before.calls, time |-> now.time - before.time, low |-> FALSE]

\* A counter that is lower than before was reset: it is counted from zero
RateOf(now, before) ==
    IF now.calls < before.calls \/ now.time < before.time
    THEN [calls |-> now.calls, time |-> now.time, low |-> TRUE]
    ELSE [calls |-> now.calls - before.calls, time |-> now.time - before.time, low |-> FALSE]

\* A statement that prev does not have is counted from zero too
RateOfNew(now) == [calls |-> now.calls, time |-> now.time, low |-> TRUE]

\* The last row of prev with the digest, which is one with the least time
Last(d, r) ==
    /\ r \in DOMAIN prev /\ DigestOf[r] = d
    /\ \A q \in DOMAIN prev : DigestOf[q] = d => prev[r].time <= prev[q].time

\* prev_queries: one row of prev for each digest
PrevQueries(base) ==
    \A d \in Digests :
        \/ base[d] # None /\ Last(d, base[d])
        \/ base[d] = None /\ \A r \in DOMAIN prev : DigestOf[r] # d

-----------------------------------------------------------------------------
(* The server, its statements and the two collections                      *)

Init ==
    /\ counters = [r \in Rows |-> NoWork]
    /\ prev = None
    /\ older = FALSE
    /\ report = None
    /\ done = [r \in Rows |-> NoWork]
    /\ forgotten = {}

Plus(w, t) == [calls |-> w.calls + 1, time |-> w.time + t]

\* A statement runs and is counted
Run(r, t) ==
    /\ counters[r].calls < MaxCalls /\ done[r].calls < MaxCalls
    /\ counters' = [counters EXCEPT ![r] = Plus(counters[r], t)]
    /\ done' = [done EXCEPT ![r] = Plus(done[r], t)]
    /\ report' = None
    /\ UNCHANGED <<prev, older, forgotten>>

\* The statistics are reset, a crash loses them, or some rows are evicted
Forget(rows) ==
    /\ counters' = [r \in Rows |-> IF r \in rows THEN NoWork ELSE counters[r]]
    /\ forgotten' = forgotten \cup rows
    /\ report' = None
    /\ UNCHANGED <<prev, older, done>>

Tick ==
    /\ older' = TRUE
    /\ report' = None
    /\ UNCHANGED <<counters, prev, done, forgotten>>

\* A collection without --delta-of, kept for the next one
Collect ==
    /\ \E rows \in SUBSET Rows : TopRows(rows) /\ prev' = Restrict(counters, rows)
    /\ older' = FALSE
    /\ done' = [r \in Rows |-> NoWork]
    /\ forgotten' = {}
    /\ report' = None
    /\ UNCHANGED counters

\* A collection with --delta-of prev.  An interval of nothing raises ValueError
\* and writes no snapshot
CollectDelta ==
    /\ prev # None
    /\ older
    /\ \E rows \in SUBSET Rows, base \in [Digests -> Rows \cup {None}] :
         /\ TopRows(rows)
         /\ PrevQueries(base)
         /\ report' = [r \in rows |->
                IF base[DigestOf[r]] = None THEN RateOfNew(counters[r])
                ELSE RateOf(counters[r], prev[base[DigestOf[r]]])]
    /\ UNCHANGED <<counters, prev, older, done, forgotten>>

Next ==
    \/ \E r \in Rows, t \in Times : Run(r, t)
    \/ \E rows \in SUBSET Rows : Forget(rows)
    \/ Tick \/ Collect \/ CollectDelta

Spec == Init /\ [][Next]_vars

-----------------------------------------------------------------------------
(* Properties                                                              *)

\* Every variable has its type, and a snapshot holds no more than TOP_QUERIES rows
TypeOK ==
    /\ counters \in [Rows -> Work]
    /\ prev # None => Holds(prev, Work) /\ Cardinality(DOMAIN prev) <= Top
    /\ older \in BOOLEAN
    /\ report # None => prev # None /\ Holds(report, Rate)
    /\ done \in [Rows -> Work]
    /\ forgotten \in SUBSET Rows

\* No other row of the view has the same digest
Sole(r) == \A q \in Rows : DigestOf[q] = DigestOf[r] => q = r

\* "Resets flagged, not miscalculated": the rate of a statement that prev has is
\* never negative and never more than really ran in the interval, however often
\* its counters were reset, and also when they have since grown past their old
\* values, so that the reset goes unseen
NeverOverstated ==
    report # None =>
        \A r \in DOMAIN report \cap DOMAIN prev : Sole(r) =>
            /\ report[r].calls \in 0..done[r].calls
            /\ report[r].time \in 0..done[r].time

\* "True when a counter reset was detected": low confidence is never a false
\* alarm, and a rate without it is what really ran unless a reset went unseen
FlagsHonest ==
    report # None =>
        \A r \in DOMAIN report : Sole(r) =>
            IF report[r].low THEN r \notin DOMAIN prev \/ r \in forgotten
            ELSE /\ r \in DOMAIN prev
                 /\ r \notin forgotten =>
                      /\ report[r].calls = done[r].calls
                      /\ report[r].time = done[r].time
=============================================================================
