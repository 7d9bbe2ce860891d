----------------------------- MODULE AnalysisProofs -----------------------------
(***************************************************************************)
(* Proofs about Analysis for any snapshots, changes and bounds: what the   *)
(* rules find fits the rubric of the score and has a key, the score stays  *)
(* in its range and never rises with a finding more or a server that gets  *)
(* worse, less captured makes no confident finding, and the advice of R-I1 *)
(* is no redundant index.                                                  *)
(***************************************************************************)
EXTENDS Analysis, FiniteSetTheorems, TLAPS

-----------------------------------------------------------------------------
(* Sums over finite sets                                                   *)

\* Of some subsets of a finite set, one contains none of the others
LEMMA SmallestSet ==
    ASSUME NEW S, IsFiniteSet(S), NEW Bad \in SUBSET SUBSET S, Bad # {}
    PROVE  \E A \in Bad : \A B \in SUBSET A : B # A => B \notin Bad
<1>1. IsWellFoundedOn(StrictSubsetOrdering(S), SUBSET S)
  BY FS_StrictSubsetOrderingWellFounded, FS_FiniteSubsetsOfFinite
<1>2. PICK A \in Bad : \A B \in Bad : ~ (<<B, A>> \in StrictSubsetOrdering(S))
  BY <1>1, WFMin, Zenon
<1> QED
  BY <1>2 DEF StrictSubsetOrdering

\* h gives every subset of S its sum of the values w
Additive(h, w, S) ==
    /\ h \in [SUBSET S -> Nat]
    /\ h[{}] = 0
    /\ \A A \in SUBSET S : \A x \in A : h[A] = w[x] + h[A \ {x}]

\* pick chooses an element of every set that has one, and g adds up the values of
\* the elements in the order in which pick takes them out
Chooses(pick, S) == \A A \in SUBSET S : A # {} => pick[A] \in A
Folds(g, w, pick, S) ==
    \A A \in SUBSET S : g[A] = IF A = {} THEN 0 ELSE w[pick[A]] + g[A \ {pick[A]}]

\* Every finite set has sums: those of a set without one element give those of
\* the set
LEMMA SumsExist ==
    ASSUME NEW S, IsFiniteSet(S), NEW w \in [S -> Nat]
    PROVE  \E h : Additive(h, w, S)
<1> DEFINE Bad == {A \in SUBSET S : ~ \E h : Additive(h, w, A)}
<1> SUFFICES ASSUME Bad # {} PROVE FALSE
  OBVIOUS
<1>1. PICK A \in Bad : \A B \in SUBSET A : B # A => B \notin Bad
  <2>1. Bad \in SUBSET SUBSET S
    OBVIOUS
  <2> HIDE DEF Bad
  <2> QED
    BY <2>1, SmallestSet
<1>2. A # {}
  <2> SUFFICES ASSUME A = {} PROVE \E h : Additive(h, w, A)
    BY <1>1
  <2>1. Additive([B \in SUBSET A |-> 0], w, A)
    BY DEF Additive
  <2> QED
    BY <2>1
<1>3. PICK x \in A : TRUE
  BY <1>2
<1>4. PICK g : Additive(g, w, A \ {x})
  BY <1>1, <1>3
<1> DEFINE h == [B \in SUBSET A |-> IF x \in B THEN w[x] + g[B \ {x}] ELSE g[B]]
<1>5. w[x] \in Nat /\ \A B \in SUBSET (A \ {x}) : g[B] \in Nat
  BY <1>1, <1>4 DEF Additive
<1>6. \A B \in SUBSET A : B \ {x} \in SUBSET (A \ {x}) /\ (x \notin B => B \in SUBSET (A \ {x}))
  OBVIOUS
<1>7. h \in [SUBSET A -> Nat] /\ h[{}] = 0
  BY <1>4, <1>5, <1>6 DEF Additive
<1>8. ASSUME NEW B \in SUBSET A, NEW y \in B PROVE h[B] = w[y] + h[B \ {y}]
  <2>1. CASE y = x
    BY <2>1
  <2>2. CASE y # x /\ x \in B
    <3>1. h[B] = w[x] + g[B \ {x}] /\ h[B \ {y}] = w[x] + g[(B \ {y}) \ {x}]
      BY <2>2
    <3>2. (B \ {x}) \ {y} = (B \ {y}) \ {x}
      OBVIOUS
    <3>3. g[B \ {x}] = w[y] + g[(B \ {x}) \ {y}]
      BY <1>4, <1>6, <2>2 DEF Additive
    <3>4. w[y] \in Nat /\ g[(B \ {x}) \ {y}] \in Nat
      BY <1>1, <1>5
    <3>5. w[x] \in Nat
      BY <1>5
    <3> DEFINE a == w[x]
               b == w[y]
               c == g[(B \ {x}) \ {y}]
    <3>6. h[B] = a + (b + c) /\ h[B \ {y}] = a + c
      BY <3>1, <3>2, <3>3
    <3>7. a \in Nat /\ b \in Nat /\ c \in Nat
      BY <3>4, <3>5
    <3> HIDE DEF a, c
    <3> QED
      BY <3>6, <3>7
  <2>3. CASE x \notin B
    BY <1>4, <1>6, <2>3 DEF Additive
  <2> QED
    BY <2>1, <2>2, <2>3
<1>9. Additive(h, w, A)
  BY <1>7, <1>8 DEF Additive
<1> QED
  BY <1>1, <1>9

\* Sums do not depend on the order: a fold that takes out an element of its choice
\* until none is left gives the same sum
LEMMA FoldIsSum ==
    ASSUME NEW S, IsFiniteSet(S), NEW w \in [S -> Nat], NEW h, Additive(h, w, S),
           NEW pick, Chooses(pick, S), NEW g, Folds(g, w, pick, S)
    PROVE  g[S] = h[S]
<1> DEFINE Bad == {A \in SUBSET S : g[A] # h[A]}
<1>1. Bad = {}
  <2> SUFFICES ASSUME Bad # {} PROVE FALSE
    OBVIOUS
  <2>1. PICK A \in Bad : \A B \in SUBSET A : B # A => B \notin Bad
    <3>1. Bad \in SUBSET SUBSET S
      OBVIOUS
    <3> HIDE DEF Bad
    <3> QED
      BY <3>1, SmallestSet
  <2>2. A # {}
    BY <2>1 DEF Additive, Folds
  <2>3. pick[A] \in A /\ A \ {pick[A]} \in SUBSET A /\ A \ {pick[A]} # A
    BY <2>1, <2>2 DEF Chooses
  <2>4. g[A \ {pick[A]}] = h[A \ {pick[A]}]
    BY <2>1, <2>3
  <2>5. h[A] = w[pick[A]] + h[A \ {pick[A]}]
    BY <2>1, <2>3 DEF Additive
  <2>6. g[A] = w[pick[A]] + g[A \ {pick[A]}]
    BY <2>1, <2>2 DEF Folds
  <2> QED
    BY <2>1, <2>4, <2>5, <2>6
<1> QED
  BY <1>1

\* Sums are such folds
LEMMA SumIsFold ==
    ASSUME NEW S, NEW w \in [S -> Nat], NEW h, Additive(h, w, S), NEW pick, Chooses(pick, S)
    PROVE  h = [A \in SUBSET S |-> h[A]] /\ Folds(h, w, pick, S)
BY DEF Additive, Chooses, Folds

\* A part is no more than the whole
LEMMA SumsGrow ==
    ASSUME NEW S, IsFiniteSet(S), NEW w \in [S -> Nat], NEW h, Additive(h, w, S),
           NEW A \in SUBSET S
    PROVE  h[A] <= h[S]
<1> DEFINE Bad == {B \in SUBSET S : A \subseteq B /\ ~ (h[A] <= h[B])}
<1>1. Bad = {}
  <2> SUFFICES ASSUME Bad # {} PROVE FALSE
    OBVIOUS
  <2>1. PICK B \in Bad : \A C \in SUBSET B : C # B => C \notin Bad
    <3>1. Bad \in SUBSET SUBSET S
      OBVIOUS
    <3> HIDE DEF Bad
    <3> QED
      BY <3>1, SmallestSet
  <2>2. h[A] \in Nat /\ h[B] \in Nat
    BY <2>1 DEF Additive
  <2>3. B # A
    BY <2>1, <2>2
  <2>4. PICK x \in B : x \notin A
    BY <2>1, <2>3
  <2>5. B \ {x} \in SUBSET S /\ A \subseteq B \ {x} /\ B \ {x} \in SUBSET B /\ B \ {x} # B
    BY <2>1, <2>4
  <2>6. h[A] <= h[B \ {x}]
    BY <2>1, <2>5
  <2>7. h[B] = w[x] + h[B \ {x}] /\ w[x] \in Nat /\ h[B \ {x}] \in Nat
    BY <2>1, <2>4, <2>5 DEF Additive
  <2>8. ~ (h[A] <= h[B])
    BY <2>1
  <2> HIDE DEF Bad
  <2> QED
    BY <2>2, <2>6, <2>7, <2>8
<1> QED
  BY <1>1

\* The sum over S is no more than the sum over R, if every element of S has one of
\* its own in R with a value that is no less
LEMMA SumsCompare ==
    ASSUME NEW S, IsFiniteSet(S), NEW w \in [S -> Nat], NEW g, Additive(g, w, S),
           NEW R, IsFiniteSet(R), NEW v \in [R -> Nat], NEW h, Additive(h, v, R),
           NEW m \in [S -> R], \A x, y \in S : m[x] = m[y] => x = y,
           \A x \in S : w[x] <= v[m[x]]
    PROVE  g[S] <= h[R]
<1> DEFINE Image(A) == {m[x] : x \in A}
           Bad == {A \in SUBSET S : ~ (g[A] <= h[Image(A)])}
<1>1. Bad = {}
  <2> SUFFICES ASSUME Bad # {} PROVE FALSE
    OBVIOUS
  <2>1. PICK A \in Bad : \A B \in SUBSET A : B # A => B \notin Bad
    <3>1. Bad \in SUBSET SUBSET S
      OBVIOUS
    <3> HIDE DEF Bad
    <3> QED
      BY <3>1, SmallestSet
  <2>2. A # {}
    <3> SUFFICES ASSUME A = {} PROVE FALSE
      OBVIOUS
    <3>1. Image(A) = {}
      OBVIOUS
    <3>2. g[A] = 0 /\ h[Image(A)] = 0
      BY <3>1 DEF Additive
    <3>3. ~ (g[A] <= h[Image(A)])
      BY <2>1
    <3> QED
      BY <3>2, <3>3
  <2>3. PICK x \in A : TRUE
    BY <2>2
  <2>4. A \in SUBSET S /\ x \in S /\ A \ {x} \in SUBSET A /\ A \ {x} # A
    BY <2>1, <2>3
  <2>5. Image(A \ {x}) = Image(A) \ {m[x]}
    BY <2>4
  <2>6. m[x] \in Image(A) /\ Image(A) \in SUBSET R /\ Image(A) \ {m[x]} \in SUBSET R
    BY <2>3, <2>4
  <2>7. g[A \ {x}] <= h[Image(A \ {x})]
    BY <2>1, <2>4
  <2>8. ~ (g[A] <= h[Image(A)])
    BY <2>1
  <2> HIDE DEF Image, Bad
  <2>9. g[A] = w[x] + g[A \ {x}] /\ g[A \ {x}] \in Nat
    BY <2>3, <2>4 DEF Additive
  <2>10. h[Image(A)] = v[m[x]] + h[Image(A) \ {m[x]}] /\ h[Image(A) \ {m[x]}] \in Nat
    BY <2>6 DEF Additive
  <2>11. w[x] \in Nat /\ v[m[x]] \in Nat /\ w[x] <= v[m[x]]
    BY <2>4
  <2>12. h[Image(A \ {x})] = h[Image(A) \ {m[x]}]
    BY <2>5
  <2> QED
    BY <2>7, <2>8, <2>9, <2>10, <2>11, <2>12
<1>2. g[S] <= h[Image(S)]
  BY <1>1
<1>3. Image(S) \in SUBSET R
  OBVIOUS
<1>4. h[Image(S)] <= h[R]
  <2> HIDE DEF Image
  <2> QED
    BY <1>3, SumsGrow
<1>5. g[S] \in Nat /\ h[Image(S)] \in Nat /\ h[R] \in Nat
  BY <1>3 DEF Additive
<1> QED
  BY <1>2, <1>4, <1>5

\* The captured time of R-Q1 is such a sum
LEMMA TotalIsSum ==
    ASSUME NEW s, QueriesOk(s.queries)
    PROVE  \E h : /\ Additive(h, [q \in s.queries |-> q.total_time_ms], s.queries)
                  /\ TotalTime(s) = h[s.queries]
<1> DEFINE w == [q \in s.queries |-> q.total_time_ms]
           First(A) == CHOOSE q \in A : TRUE
           pick == [A \in SUBSET s.queries |-> First(A)]
           Fold(g) == g = [A \in SUBSET s.queries |->
                             IF A = {} THEN 0 ELSE First(A).total_time_ms + g[A \ {First(A)}]]
<1>1. TotalTime(s) = (CHOOSE g : Fold(g))[s.queries]
  BY Zenon DEF TotalTime, MapThenSumSet, MapThenFoldSet
<1>2. IsFiniteSet(s.queries) /\ w \in [s.queries -> Nat]
  BY DEF QueriesOk, QueryStat
<1>3. \A A \in SUBSET s.queries : A # {} => First(A) \in A
  OBVIOUS
<1> HIDE DEF First
<1>4. Chooses(pick, s.queries)
  BY <1>3 DEF Chooses
<1>5. ASSUME NEW g, NEW A \in SUBSET s.queries, A # {}
      PROVE  w[pick[A]] + g[A \ {pick[A]}] = First(A).total_time_ms + g[A \ {First(A)}]
  BY <1>3, <1>5
<1> HIDE DEF w, pick
<1>6. PICK h : Additive(h, w, s.queries)
  BY <1>2, SumsExist
<1>7. h = [A \in SUBSET s.queries |-> h[A]] /\ Folds(h, w, pick, s.queries)
  BY <1>2, <1>4, <1>6, SumIsFold
<1>8. Fold(h)
  <2>1. ASSUME NEW A \in SUBSET s.queries
        PROVE  h[A] = IF A = {} THEN 0 ELSE First(A).total_time_ms + h[A \ {First(A)}]
    BY <1>5, <1>7 DEF Folds
  <2> QED
    BY <1>7, <2>1
<1> DEFINE g == CHOOSE k : Fold(k)
<1>9. Fold(g)
  BY <1>8, Zenon
<1>10. TotalTime(s) = g[s.queries]
  BY <1>1
<1> HIDE DEF g
<1>11. Folds(g, w, pick, s.queries)
  <2> SUFFICES ASSUME NEW A \in SUBSET s.queries
               PROVE  g[A] = IF A = {} THEN 0 ELSE w[pick[A]] + g[A \ {pick[A]}]
    BY DEF Folds
  <2>1. g[A] = IF A = {} THEN 0 ELSE First(A).total_time_ms + g[A \ {First(A)}]
    BY <1>9
  <2> QED
    BY <1>5, <2>1
<1>12. g[s.queries] = h[s.queries]
  BY <1>2, <1>4, <1>6, <1>11, FoldIsSum
<1> QED
  BY <1>6, <1>10, <1>12 DEF w

-----------------------------------------------------------------------------
(* The rules                                                               *)

\* The findings of each rule fit the rubric: the query rules
LEMMA QueryFindings ==
    ASSUME NEW s
    PROVE  \A f \in HighTotalTimeQuery(s) \cup SlowMeanTimeQuery(s) \cup HighFrequencyQuery(s) :
              IsFinding(f)
<1>1. ASSUME NEW f \in HighTotalTimeQuery(s) PROVE IsFinding(f)
  BY <1>1 DEF HighTotalTimeQuery, Finding, IsFinding, Categories, Severities
<1>2. ASSUME NEW f \in SlowMeanTimeQuery(s) PROVE IsFinding(f)
  BY <1>2 DEF SlowMeanTimeQuery, Finding, IsFinding, Categories, Severities
<1>3. ASSUME NEW f \in HighFrequencyQuery(s) PROVE IsFinding(f)
  BY <1>3 DEF HighFrequencyQuery, Finding, IsFinding, Categories, Severities
<1> QED
  BY <1>1, <1>2, <1>3

\* The index rules
LEMMA IndexFindings ==
    ASSUME NEW s
    PROVE  \A f \in MissingIndexCandidate(s) \cup UnusedIndex(s) \cup DuplicateIndex(s) :
              IsFinding(f)
<1>1. ASSUME NEW f \in MissingIndexCandidate(s) PROVE IsFinding(f)
  BY <1>1 DEF MissingIndexCandidate, MissingIndex, Finding, IsFinding, Categories, Severities
<1>2. ASSUME NEW f \in UnusedIndex(s) PROVE IsFinding(f)
  BY <1>2 DEF UnusedIndex, Finding, IsFinding, Categories, Severities
<1>3. ASSUME NEW f \in DuplicateIndex(s) PROVE IsFinding(f)
  BY <1>3 DEF DuplicateIndex, Finding, IsFinding, Categories, Severities
<1> QED
  BY <1>1, <1>2, <1>3

\* The operational rules
LEMMA OpsFindings ==
    ASSUME NEW s
    PROVE  \A f \in LockWaitChain(s) \cup ConnectionHeadroom(s) \cup TableGrowthRisk(s) :
              IsFinding(f)
<1>1. ASSUME NEW f \in LockWaitChain(s) PROVE IsFinding(f)
  BY <1>1 DEF LockWaitChain, Finding, IsFinding, Categories, Severities
<1>2. ASSUME NEW f \in ConnectionHeadroom(s) PROVE IsFinding(f)
  BY <1>2 DEF ConnectionHeadroom, Finding, IsFinding, Categories, Severities
<1>3. ASSUME NEW f \in TableGrowthRisk(s) PROVE IsFinding(f)
  BY <1>3 DEF TableGrowthRisk, Finding, IsFinding, Categories, Severities
<1> QED
  BY <1>1, <1>2, <1>3

\* The maintenance rules
LEMMA MaintenanceFindings ==
    ASSUME NEW s
    PROVE  \A f \in VacuumLag(s) \cup AutovacuumNotRunning(s) \cup BloatEstimate(s)
                    \cup InnodbFragmentation(s) : IsFinding(f)
<1>1. ASSUME NEW f \in VacuumLag(s) PROVE IsFinding(f)
  BY <1>1 DEF VacuumLag, Finding, IsFinding, Categories, Severities
<1>2. ASSUME NEW f \in AutovacuumNotRunning(s) PROVE IsFinding(f)
  BY <1>2 DEF AutovacuumNotRunning, Finding, IsFinding, Categories, Severities
<1>3. ASSUME NEW f \in BloatEstimate(s) PROVE IsFinding(f)
  BY <1>3 DEF BloatEstimate, Finding, IsFinding, Categories, Severities
<1>4. ASSUME NEW f \in InnodbFragmentation(s) PROVE IsFinding(f)
  BY <1>4 DEF InnodbFragmentation, Finding, IsFinding, Categories, Severities
<1> QED
  BY <1>1, <1>2, <1>3, <1>4

\* A table of checks that names a severity of the rubric for each of them
LEMMA CheckedFindings ==
    ASSUME NEW rule, NEW checks, \A c \in checks : c[2] \in Severities
    PROVE  \A f \in ConfigFindings(rule, checks) : IsFinding(f)
BY DEF ConfigFindings, Finding, IsFinding, Categories

\* The checks of R-CFG-PG name severities of the rubric
LEMMA PgSeverities == ASSUME NEW s PROVE \A c \in PgChecks(s) : c[2] \in Severities
<1> DEFINE a == <<"shared_buffers", "LOW", SmallSharedBuffers(s)>>
           b == <<"work_mem", "MEDIUM", WorkMemProduct(s)>>
           c == <<"effective_cache_size", "INFO", DefaultEffectiveCacheSize(s)>>
           d == <<"autovacuum", "HIGH", Is(s, "autovacuum", {"off"})>>
           e == <<"autovacuum_vacuum_scale_factor", "MEDIUM", AutovacScale(s)>>
           g == <<"wal_buffers", "LOW", SmallWalBuffers(s)>>
           h == <<"random_page_cost", "INFO", ~Below(Value(s, "random_page_cost"), 400)>>
           i == <<"max_connections", "LOW",
                  ~Below(Value(s, "max_connections"), T.pg_max_connections_high)>>
           j == <<"checkpoint_completion_target", "INFO", HastyCheckpoints(s)>>
           k == <<"track_io_timing", "INFO", Is(s, "track_io_timing", {"off"})>>
<1>1. PgChecks(s) = {a, b, c, d, e, g, h, i, j, k}
  BY DEF PgChecks
<1>2. /\ a[2] \in Severities /\ b[2] \in Severities /\ c[2] \in Severities
      /\ d[2] \in Severities /\ e[2] \in Severities /\ g[2] \in Severities
      /\ h[2] \in Severities /\ i[2] \in Severities /\ j[2] \in Severities
      /\ k[2] \in Severities
  BY DEF Severities
<1> HIDE DEF a, b, c, d, e, g, h, i, j, k
<1> QED
  BY <1>1, <1>2

\* Those of R-CFG-MY too
LEMMA MySeverities == ASSUME NEW s PROVE \A c \in MyChecks(s) : c[2] \in Severities
<1> DEFINE a == <<"innodb_buffer_pool_size", "HIGH", SmallBufferPool(s)>>
           b == <<"innodb_log_file_size", "LOW", SmallLogFile(s)>>
           c == <<"tmp_table_size", "LOW", TmpTableMismatch(s)>>
           d == <<"table_open_cache", "MEDIUM", TablesReopened(s)>>
           e == <<"thread_cache_size", "LOW", ThreadsCreated(s)>>
           g == <<"max_connections", "INFO",
                  ~Below(Value(s, "max_connections"), T.my_max_connections_high)>>
           h == <<"sync_binlog_and_innodb_flush_log_at_trx_commit", "INFO",
                  DurabilityTradeoff(s)>>
           i == <<"query_cache_type", "MEDIUM", QueryCache(s)>>
           j == <<"slow_query_log", "INFO", Is(s, "slow_query_log", {"OFF", "0"})>>
           k == <<"performance_schema", "LOW", Is(s, "performance_schema", {"OFF", "0"})>>
<1>1. MyChecks(s) = {a, b, c, d, e, g, h, i, j, k}
  BY DEF MyChecks
<1>2. /\ a[2] \in Severities /\ b[2] \in Severities /\ c[2] \in Severities
      /\ d[2] \in Severities /\ e[2] \in Severities /\ g[2] \in Severities
      /\ h[2] \in Severities /\ i[2] \in Severities /\ j[2] \in Severities
      /\ k[2] \in Severities
  BY DEF Severities
<1> HIDE DEF a, b, c, d, e, g, h, i, j, k
<1> QED
  BY <1>1, <1>2

\* Every finding of run_all has a category with a cap and a severity with points,
\* for whatever snapshot: the score leaves none of them out
THEOREM EveryFindingCounts == ASSUME NEW s PROVE \A f \in RunAll(s) : IsFinding(f)
<1>1. \A f \in EveryEngine(s) : IsFinding(f)
  BY QueryFindings, IndexFindings, OpsFindings DEF EveryEngine
<1>2. \A f \in PgOnly(s) : IsFinding(f)
  BY MaintenanceFindings, CheckedFindings, PgSeverities DEF PgOnly
<1>3. \A f \in MySQLOnly(s) : IsFinding(f)
  BY MaintenanceFindings, CheckedFindings, MySeverities DEF MySQLOnly
<1> QED
  BY <1>1, <1>2, <1>3 DEF RunAll

\* Where one list of columns begins another, both begin with the same column
LEMMA SameHead ==
    ASSUME NEW c \in Seq(STRING), NEW d \in Seq(STRING), c # <<>>, IsPrefix(c, d)
    PROVE  d # <<>> /\ Head(d) = Head(c)
<1>1. Len(c) \in Nat \ {0} /\ Len(d) \in Nat
  OBVIOUS
<1>2. Len(c) <= Len(d) /\ SubSeq(c, 1, Len(c)) = SubSeq(d, 1, Len(c))
  BY DEF IsPrefix
<1>3. SubSeq(c, 1, Len(c))[1] = c[1] /\ SubSeq(d, 1, Len(c))[1] = d[1]
  BY <1>1, <1>2
<1> QED
  BY <1>1, <1>2, <1>3

\* An index that begins with a column R-I1 asks for is redundant to none of that
\* table, and none is to it: R-I3 reports after it what it reported before, for
\* whatever other indexes there are, and R-I1 does not ask for that column again
THEOREM AdviceIsNotRedundant ==
    ASSUME NEW s, NEW t, NEW name, NEW columns \in Seq(STRING), NEW more,
           s.meta.engine = "postgres", more.meta = s.meta, more.queries = s.queries,
           \A i \in s.indexes : i.columns \in Seq(STRING),
           columns # <<>>, Head(columns) \in FilterColumns(s, t.name),
           more.indexes = s.indexes \cup {NewIndex(t, name, columns)}
    PROVE  /\ DuplicateIndex(more) = DuplicateIndex(s)
           /\ Head(columns) \notin FilterColumns(more, t.name)
<1> DEFINE new == NewIndex(t, name, columns)
<1>1. /\ new.columns = columns /\ new.table[2] = t.name
      /\ new.name = name
  BY DEF NewIndex
<1>2. Head(columns) \in IndexedLeading(more, t.name)
  <2>1. new \in more.indexes
    OBVIOUS
  <2> HIDE DEF new
  <2> QED
    BY <1>1, <2>1 DEF IndexedLeading
<1>3. ASSUME NEW i \in s.indexes, i.table = new.table, i.columns # <<>>
      PROVE  Head(i.columns) # Head(columns)
  BY <1>1, <1>3 DEF FilterColumns, IndexedLeading
<1>4. ASSUME NEW i \in s.indexes PROVE ~CoveredBy(i, new) /\ ~CoveredBy(new, i)
  <2>1. CASE CoveredBy(i, new)
    BY <1>1, <1>3, <2>1, SameHead DEF CoveredBy
  <2>2. CASE CoveredBy(new, i)
    <3>1. i.table = new.table /\ IsPrefix(columns, i.columns)
      BY <1>1, <2>2 DEF CoveredBy
    <3> QED
      BY <1>3, <3>1, SameHead
  <2> QED
    BY <2>1, <2>2
<1>5. ~CoveredBy(new, new)
  BY DEF CoveredBy
<1> HIDE DEF new
<1>6. \A i \in more.indexes : (\E b \in more.indexes : CoveredBy(i, b)) <=>
                               i \in s.indexes /\ \E b \in s.indexes : CoveredBy(i, b)
  BY <1>4, <1>5 DEF new
<1>7. {i \in more.indexes : \E b \in more.indexes : CoveredBy(i, b)}
      = {i \in s.indexes : \E b \in s.indexes : CoveredBy(i, b)}
  BY <1>6
<1>8. DuplicateIndex(more) = DuplicateIndex(s)
  BY <1>7 DEF DuplicateIndex
<1>9. FilterColumns(more, t.name) \cap IndexedLeading(more, t.name) = {}
  BY DEF FilterColumns
<1> QED
  BY <1>2, <1>8, <1>9

-----------------------------------------------------------------------------
(* The score                                                               *)

Points == [Categories -> Nat]

\* A category never costs more than its cap
LEMMA CappedInRange ==
    ASSUME NEW points \in Points, NEW c \in Categories
    PROVE  /\ Capped(points, c) \in 0..Cap[c]
           /\ points[c] = 0 => Capped(points, c) = 0
<1>1. Cap[c] \in Nat /\ points[c] \in Nat
  BY DEF Points, Cap, Categories
<1> QED
  BY <1>1 DEF Capped

\* The score, and what one category alone can take from it
LEMMA ScoreBounds ==
    ASSUME NEW points \in Points
    PROVE  /\ ScoreOf(points) \in Floor..100
           /\ \A c \in Categories :
                (\A d \in Categories \ {c} : points[d] = 0) => ScoreOf(points) >= 70
<1> DEFINE q == Capped(points, "queries")
           i == Capped(points, "indexes")
           o == Capped(points, "ops")
           g == Capped(points, "config")
           m == Capped(points, "maintenance")
           r == Capped(points, "other")
<1>1. /\ q \in 0..30 /\ i \in 0..25 /\ o \in 0..25
      /\ g \in 0..20 /\ m \in 0..15 /\ r \in 0..10
  BY CappedInRange DEF Categories, Cap
<1>2. Deducted(points) = q + i + o + g + m + r
  BY DEF Deducted
<1>3. ASSUME NEW c \in Categories, \A d \in Categories \ {c} : points[d] = 0
      PROVE  Deducted(points) <= 30
  <2>1. \A d \in Categories : d # c => Capped(points, d) = 0
    BY <1>3, CappedInRange
  <2>2. c \in {"queries", "indexes", "ops", "config", "maintenance", "other"}
    BY DEF Categories
  <2>3. /\ c # "queries" => q = 0
        /\ c # "indexes" => i = 0
        /\ c # "ops" => o = 0
        /\ c # "config" => g = 0
        /\ c # "maintenance" => m = 0
        /\ c # "other" => r = 0
    BY <2>1 DEF Categories
  <2> HIDE DEF q, i, o, g, m, r
  <2> QED
    BY <1>1, <1>2, <2>2, <2>3
<1> HIDE DEF q, i, o, g, m, r
<1>4. Deducted(points) \in Nat
  BY <1>1, <1>2
<1> QED
  BY <1>3, <1>4 DEF ScoreOf, Floor

\* More points, in whatever categories, never raise the score
LEMMA ScoreIsMonotone ==
    ASSUME NEW points \in Points, NEW more \in Points,
           \A c \in Categories : points[c] <= more[c]
    PROVE  ScoreOf(more) <= ScoreOf(points)
<1>1. ASSUME NEW c \in Categories
      PROVE  /\ Capped(points, c) <= Capped(more, c)
             /\ Capped(more, c) \in Nat /\ Capped(points, c) \in Nat
  <2>1. Cap[c] \in Nat /\ more[c] \in Nat /\ points[c] \in Nat
    BY DEF Cap, Categories, Points
  <2> QED
    BY <2>1 DEF Capped
<1>2. Deducted(points) <= Deducted(more) /\ Deducted(more) \in Nat /\ Deducted(points) \in Nat
  <2> {"queries", "indexes", "ops", "config", "maintenance", "other"} \subseteq Categories
    BY DEF Categories
  <2> QED
    BY <1>1 DEF Deducted
<1> QED
  BY <1>2 DEF ScoreOf, Floor

\* A finding that counts costs a natural number of points
LEMMA DeductionIsNat == ASSUME NEW f, IsFinding(f) PROVE Deduction[f.severity] \in Nat
BY DEF IsFinding, Severities, Deduction

\* The points of a set of findings are a sum
LEMMA PointsAreSum ==
    ASSUME NEW S, IsFiniteSet(S), \A f \in S : IsFinding(f)
    PROVE  \E h : /\ Additive(h, [f \in S |-> Deduction[f.severity]], S)
                  /\ AllPoints(S) = h[S]
<1> DEFINE w == [f \in S |-> Deduction[f.severity]]
           First(A) == CHOOSE f \in A : TRUE
           pick == [A \in SUBSET S |-> First(A)]
           Fold(g) == g = [A \in SUBSET S |->
                             IF A = {} THEN 0 ELSE Deduction[First(A).severity] + g[A \ {First(A)}]]
<1>1. AllPoints(S) = (CHOOSE g : Fold(g))[S]
  BY Zenon DEF AllPoints, MapThenSumSet, MapThenFoldSet
<1>2. w \in [S -> Nat]
  BY DeductionIsNat
<1>3. \A A \in SUBSET S : A # {} => First(A) \in A
  OBVIOUS
<1> HIDE DEF First
<1>4. Chooses(pick, S)
  BY <1>3 DEF Chooses
<1>5. ASSUME NEW g, NEW A \in SUBSET S, A # {}
      PROVE  w[pick[A]] + g[A \ {pick[A]}]
             = Deduction[First(A).severity] + g[A \ {First(A)}]
  BY <1>3, <1>5
<1> HIDE DEF w, pick
<1>6. PICK h : Additive(h, w, S)
  BY <1>2, SumsExist
<1>7. h = [A \in SUBSET S |-> h[A]] /\ Folds(h, w, pick, S)
  BY <1>2, <1>4, <1>6, SumIsFold
<1>8. Fold(h)
  <2>1. ASSUME NEW A \in SUBSET S
        PROVE  h[A] = IF A = {} THEN 0
                      ELSE Deduction[First(A).severity] + h[A \ {First(A)}]
    BY <1>5, <1>7 DEF Folds
  <2> QED
    BY <1>7, <2>1
<1> DEFINE g == CHOOSE k : Fold(k)
<1>9. Fold(g)
  BY <1>8, Zenon
<1>10. AllPoints(S) = g[S]
  BY <1>1
<1> HIDE DEF g
<1>11. Folds(g, w, pick, S)
  <2> SUFFICES ASSUME NEW A \in SUBSET S
               PROVE  g[A] = IF A = {} THEN 0 ELSE w[pick[A]] + g[A \ {pick[A]}]
    BY DEF Folds
  <2>1. g[A] = IF A = {} THEN 0 ELSE Deduction[First(A).severity] + g[A \ {First(A)}]
    BY <1>9
  <2> QED
    BY <1>5, <2>1
<1>12. g[S] = h[S]
  BY <1>2, <1>4, <1>6, <1>11, FoldIsSum
<1> QED
  BY <1>6, <1>10, <1>12 DEF w

\* Findings that stay, or grow more severe, among others: m maps each of them to
\* the finding that it becomes
LEMMA RubricIsMonotone ==
    ASSUME NEW S, IsFiniteSet(S), \A f \in S : IsFinding(f),
           NEW R, IsFiniteSet(R), \A f \in R : IsFinding(f),
           NEW m \in [S -> R], \A f, g \in S : m[f] = m[g] => f = g,
           \A f \in S : /\ m[f].category = f.category
                        /\ Deduction[f.severity] <= Deduction[m[f].severity]
    PROVE  Rubric(R) <= Rubric(S)
<1> DEFINE In(F, c) == {f \in F : f.category = c}
           points == [c \in Categories |-> AllPoints(In(S, c))]
           more == [c \in Categories |-> AllPoints(In(R, c))]
<1>1. ASSUME NEW c \in Categories
      PROVE  /\ AllPoints(In(S, c)) <= AllPoints(In(R, c))
             /\ AllPoints(In(S, c)) \in Nat /\ AllPoints(In(R, c)) \in Nat
  <2> DEFINE s == In(S, c)
             r == In(R, c)
             w == [f \in s |-> Deduction[f.severity]]
             v == [f \in r |-> Deduction[f.severity]]
             n == [f \in s |-> m[f]]
  <2>1. IsFiniteSet(s) /\ IsFiniteSet(r)
    <3>1. s \in SUBSET S /\ r \in SUBSET R
      OBVIOUS
    <3> HIDE DEF s, r
    <3> QED
      BY <3>1, FS_Subset
  <2>2. (\A f \in s : IsFinding(f)) /\ (\A f \in r : IsFinding(f))
    OBVIOUS
  <2>3. n \in [s -> r] /\ \A f, g \in s : n[f] = n[g] => f = g
    OBVIOUS
  <2>4. \A f \in s : w[f] <= v[n[f]]
    BY <2>3
  <2>5. w \in [s -> Nat] /\ v \in [r -> Nat]
    BY <2>2, DeductionIsNat
  <2>6. /\ \E g : Additive(g, w, s) /\ AllPoints(s) = g[s]
        /\ \E h : Additive(h, v, r) /\ AllPoints(r) = h[r]
    <3> HIDE DEF s, r
    <3> QED
      BY <2>1, <2>2, PointsAreSum
  <2> HIDE DEF s, r, w, v, n
  <2>7. PICK g : Additive(g, w, s) /\ AllPoints(s) = g[s]
    BY <2>6
  <2>8. PICK h : Additive(h, v, r) /\ AllPoints(r) = h[r]
    BY <2>6
  <2>9. g[s] <= h[r]
    BY <2>1, <2>3, <2>4, <2>5, <2>7, <2>8, SumsCompare
  <2>10. g[s] \in Nat /\ h[r] \in Nat
    <3>1. g \in [SUBSET s -> Nat] /\ h \in [SUBSET r -> Nat]
      BY <2>7, <2>8 DEF Additive
    <3> QED
      BY <3>1
  <2> QED
    BY <2>7, <2>8, <2>9, <2>10 DEF s, r
<1>2. Rubric(S) = ScoreOf(points) /\ Rubric(R) = ScoreOf(more)
  BY DEF Rubric
<1> HIDE DEF In
<1>3. /\ points \in Points /\ more \in Points
      /\ \A c \in Categories : points[c] <= more[c]
  BY <1>1 DEF Points
<1> HIDE DEF points, more
<1> QED
  BY <1>2, <1>3, ScoreIsMonotone

-----------------------------------------------------------------------------
(* Types                                                                   *)

\* The image of a finite set is finite
LEMMA ImageIsFinite ==
    ASSUME NEW S, IsFiniteSet(S), NEW f, DOMAIN f = S
    PROVE  IsFiniteSet({f[x] : x \in S})
<1> DEFINE g == [x \in S |-> f[x]]
<1>1. g \in Surjection(S, {f[x] : x \in S})
  BY DEF Surjection
<1> QED
  BY <1>1, FS_Surjection

\* The maximum of two numbers is one of them, and neither is larger
LEMMA LargerOfTwo ==
    ASSUME NEW m \in Nat, NEW n \in Nat
    PROVE  Max({m, n}) \in Nat /\ Max({m, n}) >= m /\ Max({m, n}) >= n
<1>1. \E x \in {m, n} : \A y \in {m, n} : x >= y
  OBVIOUS
<1> QED
  BY <1>1, Zenon DEF Max

\* One row in the place of another
LEMMA ReplacedIsFinite ==
    ASSUME NEW S, IsFiniteSet(S), NEW old, NEW new
    PROVE  IsFiniteSet(Replaced(S, old, new))
BY FS_AddElement, FS_RemoveElement DEF Replaced

\* What it means that a measurement rises
LEMMA RaisedValue ==
    ASSUME NEW r, NEW field, NEW worse \in Raised(r, field)
    PROVE  \E v \in IF field = "dead_tuple_ratio" THEN 0..100 ELSE Nat :
             r[field] # None /\ v > r[field] /\ worse = [r EXCEPT ![field] = v]
BY AnalysisAssumption DEF Raised

\* A list stays well-formed with another row for the same key: statements
LEMMA QueriesReplaced ==
    ASSUME NEW S, QueriesOk(S), NEW old \in S, NEW new \in QueryStat,
           new.row = old.row, new.filters = old.filters
    PROVE  QueriesOk(Replaced(S, old, new))
BY ReplacedIsFinite DEF QueriesOk, Replaced

\* Tables
LEMMA TablesReplaced ==
    ASSUME NEW S, TablesOk(S), NEW old \in S, NEW new \in TableStat,
           new.schema_name = old.schema_name, new.name = old.name
    PROVE  TablesOk(Replaced(S, old, new))
BY ReplacedIsFinite DEF TablesOk, Replaced

\* Indexes
LEMMA IndexesReplaced ==
    ASSUME NEW S, IndexesOk(S), NEW old \in S, NEW new \in IndexStat,
           new.table = old.table, new.name = old.name
    PROVE  IndexesOk(Replaced(S, old, new))
BY ReplacedIsFinite DEF IndexesOk, Replaced

\* Lock waits
LEMMA LockWaitsReplaced ==
    ASSUME NEW S, LockWaitsOk(S), NEW old \in S, NEW new \in LockWait, new.row = old.row
    PROVE  LockWaitsOk(Replaced(S, old, new))
BY ReplacedIsFinite DEF LockWaitsOk, Replaced

\* A table that got worse is the table that it was
LEMMA WorseTable ==
    ASSUME NEW t \in TableStat,
           NEW worse \in {[t EXCEPT !.last_autovacuum = None]}
                         \cup UNION {Raised(t, field) : field \in TableMeasures}
    PROVE  worse \in TableStat /\ worse.schema_name = t.schema_name /\ worse.name = t.name
<1>1. CASE worse = [t EXCEPT !.last_autovacuum = None]
  BY <1>1 DEF TableStat, Nullable
<1>2. ASSUME NEW field \in TableMeasures, worse \in Raised(t, field)
      PROVE  worse \in TableStat /\ worse.schema_name = t.schema_name /\ worse.name = t.name
  <2>1. field \in {"dead_tuple_ratio", "seq_scans", "growth_30d_pct", "data_free_bytes",
                   "size_bytes"}
    BY DEF TableMeasures
  <2>2. PICK v \in IF field = "dead_tuple_ratio" THEN 0..100 ELSE Nat :
           worse = [t EXCEPT ![field] = v]
    BY <1>2, RaisedValue
  <2> QED
    BY <2>1, <2>2 DEF TableStat, Nullable
<1> QED
  BY <1>1, <1>2

\* Every step of the server and of the developer leads to a snapshot
LEMMA WorsenSnapshot == SnapshotOk(snapshot) /\ Worsen => SnapshotOk(snapshot)'
<1> SUFFICES ASSUME SnapshotOk(snapshot), Worsen PROVE SnapshotOk(snapshot')
  OBVIOUS
<1> USE DEF SnapshotOk
<1>1. CASE TableWorsens
  <2>1. PICK t \in snapshot.tables :
          \E worse \in {[t EXCEPT !.last_autovacuum = None]}
                       \cup UNION {Raised(t, field) : field \in TableMeasures} :
            snapshot' = [snapshot EXCEPT !.tables = Replaced(@, t, worse)]
    BY <1>1 DEF TableWorsens, Change
  <2>2. t \in TableStat
    BY DEF TablesOk
  <2>3. PICK worse \in TableStat :
          /\ worse.schema_name = t.schema_name /\ worse.name = t.name
          /\ snapshot' = [snapshot EXCEPT !.tables = Replaced(@, t, worse)]
    BY <2>1, <2>2, WorseTable
  <2>4. TablesOk(Replaced(snapshot.tables, t, worse))
    BY <2>3, TablesReplaced
  <2> QED
    BY <2>3, <2>4
<1>2. CASE IndexWorsens
  <2>1. PICK i \in snapshot.indexes :
          \E worse \in {[i EXCEPT !.scans = 0], [i EXCEPT !.is_unused_candidate = TRUE],
                        [i EXCEPT !.is_duplicate_candidate = TRUE]} :
            snapshot' = [snapshot EXCEPT !.indexes = Replaced(@, i, worse)]
    BY <1>2 DEF IndexWorsens, Change
  <2>2. PICK worse \in IndexStat :
          /\ worse.table = i.table /\ worse.name = i.name
          /\ snapshot' = [snapshot EXCEPT !.indexes = Replaced(@, i, worse)]
    BY <2>1 DEF IndexesOk, IndexStat, Nullable
  <2>3. IndexesOk(Replaced(snapshot.indexes, i, worse))
    BY <2>2, IndexesReplaced
  <2> QED
    BY <2>2, <2>3
<1>3. CASE CallsRise
  <2>1. PICK q \in snapshot.queries : \E worse \in Raised(q, "calls_per_day") :
            snapshot' = [snapshot EXCEPT !.queries = Replaced(@, q, worse)]
    BY <1>3 DEF CallsRise, Change
  <2>2. PICK v \in Nat :
          snapshot' = [snapshot EXCEPT !.queries = Replaced(@, q, [q EXCEPT !.calls_per_day = v])]
    BY <2>1, RaisedValue
  <2>3. [q EXCEPT !.calls_per_day = v] \in QueryStat
    BY DEF QueriesOk, QueryStat, Nullable
  <2>4. QueriesOk(Replaced(snapshot.queries, q, [q EXCEPT !.calls_per_day = v]))
    BY <2>3, QueriesReplaced DEF QueriesOk, QueryStat
  <2> QED
    BY <2>2, <2>4
<1>4. CASE LockWaitsGrow
  <2>1. PICK lw \in snapshot.lock_waits : \E worse \in Raised(lw, "wait_ms") :
            snapshot' = [snapshot EXCEPT !.lock_waits = Replaced(@, lw, worse)]
    BY <1>4 DEF LockWaitsGrow, Change
  <2>2. PICK v \in Nat :
          snapshot' = [snapshot EXCEPT !.lock_waits = Replaced(@, lw, [lw EXCEPT !.wait_ms = v])]
    BY <2>1, RaisedValue
  <2>3. [lw EXCEPT !.wait_ms = v] \in LockWait
    BY DEF LockWaitsOk, LockWait
  <2>4. LockWaitsOk(Replaced(snapshot.lock_waits, lw, [lw EXCEPT !.wait_ms = v]))
    BY <2>3, LockWaitsReplaced DEF LockWaitsOk, LockWait
  <2> QED
    BY <2>2, <2>4
<1>5. CASE ConnectionsGrow
  <2>1. PICK worse \in Raised(snapshot.connections, "current") :
          snapshot' = [snapshot EXCEPT !.connections =
                         IF worse.peak = None THEN worse
                         ELSE [worse EXCEPT !.peak = Max({@, worse.current})]]
    BY <1>5 DEF ConnectionsGrow, Change
  <2>2. snapshot.connections \in ConnectionInfo
    BY <1>5 DEF ConnectionsGrow, Nullable
  <2>3. worse \in ConnectionInfo
    <3>1. PICK v \in Nat : worse = [snapshot.connections EXCEPT !.current = v]
      BY RaisedValue
    <3> QED
      BY <2>2, <3>1 DEF ConnectionInfo
  <2>4. worse.peak # None => [worse EXCEPT !.peak = Max({@, worse.current})] \in ConnectionInfo
    <3> SUFFICES ASSUME worse.peak # None
                 PROVE  Max({worse.peak, worse.current}) \in Nat
      BY <2>3 DEF ConnectionInfo, Nullable
    <3>1. worse.peak \in Nat /\ worse.current \in Nat
      BY <2>3 DEF ConnectionInfo, Nullable
    <3> QED
      BY <3>1, LargerOfTwo
  <2> QED
    BY <2>1, <2>3, <2>4 DEF Nullable
<1>6. CASE DatabaseGrows
  <2>1. PICK worse \in Raised(snapshot.meta, "db_size_bytes") :
          snapshot' = [snapshot EXCEPT !.meta = worse]
    BY <1>6 DEF DatabaseGrows, Change
  <2>2. PICK v \in Nat : worse = [snapshot.meta EXCEPT !.db_size_bytes = v]
    BY RaisedValue
  <2> QED
    BY <2>1, <2>2 DEF SnapshotMeta, Nullable
<1>7. CASE SettingLoosens
  <2>1. PICK name \in DOMAIN snapshot.settings \cap DOMAIN Scale : \E new \in Scale[name] :
          snapshot' = [snapshot EXCEPT !.settings[name].value = new]
    BY <1>7 DEF SettingLoosens, Change
  <2>2. PICK new \in SettingValues(name) :
          snapshot' = [snapshot EXCEPT !.settings[name].value = new]
    BY <2>1, AnalysisAssumption
  <2> QED
    BY <2>2 DEF SettingsOk
<1> QED
  BY <1>1, <1>2, <1>3, <1>4, <1>5, <1>6, <1>7 DEF Worsen

\* What is left of a snapshot is a snapshot
LEMMA LoseSnapshot == SnapshotOk(snapshot) /\ Lose => SnapshotOk(snapshot)'
<1> SUFFICES ASSUME SnapshotOk(snapshot), Lose PROVE SnapshotOk(snapshot')
  OBVIOUS
<1> USE DEF SnapshotOk
<1>1. CASE LoseQueries
  BY <1>1, FS_EmptySet DEF LoseQueries, Change, QueriesOk
<1>2. CASE LoseDelta
  <2> DEFINE queries == {WithoutDelta(q) : q \in snapshot.queries}
             tables == {[t EXCEPT !.growth_30d_pct = None] : t \in snapshot.tables}
             f == [q \in snapshot.queries |-> WithoutDelta(q)]
             g == [t \in snapshot.tables |-> [t EXCEPT !.growth_30d_pct = None]]
  <2>1. /\ queries = {f[q] : q \in snapshot.queries} /\ DOMAIN f = snapshot.queries
        /\ tables = {g[t] : t \in snapshot.tables} /\ DOMAIN g = snapshot.tables
    OBVIOUS
  <2> HIDE DEF queries, tables, f, g
  <2>2. IsFiniteSet(queries) /\ IsFiniteSet(tables)
    <3>1. IsFiniteSet(snapshot.queries) /\ IsFiniteSet(snapshot.tables)
      BY DEF QueriesOk, TablesOk
    <3> QED
      BY <2>1, <3>1, ImageIsFinite
  <2>3. \A q \in snapshot.queries :
          /\ WithoutDelta(q) \in QueryStat
          /\ WithoutDelta(q).row = q.row /\ WithoutDelta(q).filters = q.filters
    <3> TAKE q \in snapshot.queries
    <3>1. q \in QueryStat
      BY DEF QueriesOk
    <3> QED
      BY <3>1 DEF QueryStat, Nullable, WithoutDelta
  <2>4. \A t \in snapshot.tables :
          LET u == [t EXCEPT !.growth_30d_pct = None] IN
            u \in TableStat /\ u.schema_name = t.schema_name /\ u.name = t.name
    BY DEF TablesOk, TableStat, Nullable
  <2>5. ASSUME NEW q \in queries, NEW r \in queries, q.row = r.row PROVE q = r
    <3>1. PICK a \in snapshot.queries, b \in snapshot.queries :
            q = WithoutDelta(a) /\ r = WithoutDelta(b)
      BY DEF queries
    <3> QED
      BY <2>3, <2>5, <3>1 DEF QueriesOk
  <2>6. ASSUME NEW t \in tables, NEW u \in tables,
               t.schema_name = u.schema_name, t.name = u.name
        PROVE  t = u
    <3>1. PICK a \in snapshot.tables, b \in snapshot.tables :
            t = [a EXCEPT !.growth_30d_pct = None] /\ u = [b EXCEPT !.growth_30d_pct = None]
      BY DEF tables
    <3>2. a = b
      BY <2>4, <2>6, <3>1 DEF TablesOk
    <3> QED
      BY <3>1, <3>2
  <2>7. \A q \in queries : q \in QueryStat /\ IsFiniteSet(q.filters)
    BY <2>3 DEF QueriesOk, queries
  <2>8. QueriesOk(queries)
    BY <2>2, <2>5, <2>7 DEF QueriesOk
  <2>9. TablesOk(tables)
    <3>1. tables \subseteq TableStat
      BY <2>4 DEF tables
    <3> QED
      BY <2>2, <2>6, <3>1 DEF TablesOk
  <2> QED
    BY <1>2, <2>8, <2>9 DEF LoseDelta, Change, queries, tables
<1>3. CASE LoseAdvisorViews
  <2> DEFINE Plain(i) == [i EXCEPT !.is_unused_candidate = FALSE, !.is_duplicate_candidate = FALSE]
             indexes == {Plain(i) : i \in snapshot.indexes}
             f == [i \in snapshot.indexes |-> Plain(i)]
  <2>1. indexes = {f[i] : i \in snapshot.indexes} /\ DOMAIN f = snapshot.indexes
    OBVIOUS
  <2> HIDE DEF indexes, f
  <2>2. IsFiniteSet(indexes)
    <3>1. IsFiniteSet(snapshot.indexes)
      BY DEF IndexesOk
    <3> QED
      BY <2>1, <3>1, ImageIsFinite
  <2>3. \A i \in snapshot.indexes :
          Plain(i) \in IndexStat /\ Plain(i).table = i.table /\ Plain(i).name = i.name
    BY DEF IndexesOk, IndexStat
  <2> HIDE DEF Plain
  <2>4. indexes \subseteq IndexStat
    BY <2>3 DEF indexes
  <2>5. ASSUME NEW i \in indexes, NEW j \in indexes, i.table = j.table, i.name = j.name
        PROVE  i = j
    <3>1. PICK a \in snapshot.indexes, b \in snapshot.indexes : i = Plain(a) /\ j = Plain(b)
      BY DEF indexes
    <3>2. a = b
      BY <2>3, <2>5, <3>1 DEF IndexesOk
    <3> QED
      BY <3>1, <3>2
  <2>6. IndexesOk(indexes)
    BY <2>2, <2>4, <2>5 DEF IndexesOk
  <2> QED
    BY <1>3, <2>6 DEF LoseAdvisorViews, Change, indexes, Plain
<1>4. CASE LoseRow
  <2>1. ASSUME NEW t PROVE TablesOk(snapshot.tables \ {t})
    BY FS_RemoveElement DEF TablesOk
  <2>5. ASSUME NEW q PROVE QueriesOk(snapshot.queries \ {q})
    BY FS_RemoveElement DEF QueriesOk
  <2>6. CASE LoseStatement
    BY <2>5, <2>6 DEF LoseStatement, Change
  <2>2. ASSUME NEW i PROVE IndexesOk(snapshot.indexes \ {i})
    BY FS_RemoveElement DEF IndexesOk
  <2>3. CASE \E t \in snapshot.tables : Change([snapshot EXCEPT !.tables = @ \ {t}])
    BY <2>1, <2>3 DEF Change
  <2>4. CASE \E i \in snapshot.indexes : Change([snapshot EXCEPT !.indexes = @ \ {i}])
    BY <2>2, <2>4 DEF Change
  <2> QED
    BY <1>4, <2>3, <2>4, <2>6 DEF LoseRow
<1>5. CASE LoseSetting
  BY <1>5 DEF LoseSetting, Change, SettingsOk
<1>6. CASE LosePeak
  <2>1. [snapshot.connections EXCEPT !.peak = None] \in ConnectionInfo
    BY <1>6 DEF LosePeak, ConnectionInfo, Nullable
  <2> QED
    BY <1>6, <2>1 DEF LosePeak, Change, Nullable
<1>7. CASE Change([snapshot EXCEPT !.lock_waits = {}])
  BY <1>7, FS_EmptySet DEF Change, LockWaitsOk
<1> QED
  BY <1>1, <1>2, <1>3, <1>4, <1>5, <1>6, <1>7 DEF Lose

\* What the candidate columns of a table are
LEMMA CandidateColumns ==
    ASSUME NEW s, QueriesOk(s.queries), NEW name
    PROVE  FilterColumns(s, name) \subseteq STRING /\ IsFiniteSet(FilterColumns(s, name))
<1> DEFINE chosen == {q \in s.queries : q.from = name}
           sets == {q.filters : q \in chosen}
           f == [q \in chosen |-> q.filters]
<1>1. IsFiniteSet(chosen)
  BY FS_Subset DEF QueriesOk
<1>2. IsFiniteSet(sets)
  <2>1. sets = {f[q] : q \in chosen} /\ DOMAIN f = chosen
    OBVIOUS
  <2> HIDE DEF sets, chosen, f
  <2> QED
    BY <1>1, <2>1, ImageIsFinite
<1>3. \A filters \in sets : IsFiniteSet(filters) /\ filters \subseteq STRING
  BY DEF QueriesOk, QueryStat
<1>4. IsFiniteSet(UNION sets)
  BY <1>2, <1>3, FS_UNION
<1>5. FilterColumns(s, name) \in SUBSET UNION sets
  BY DEF FilterColumns
<1> QED
  BY <1>3, <1>4, <1>5, FS_Subset

\* The columns of the index that a developer creates
LEMMA ChosenColumns ==
    ASSUME NEW R, NEW S \in SUBSET R, IsFiniteSet(S), S # {}, NEW columns \in SetToSeqs(S)
    PROVE  columns \in Seq(R) /\ columns # <<>> /\ Head(columns) \in S
<1>1. Cardinality(S) \in Nat \ {0}
  BY FS_CardinalityType, FS_EmptySet
<1>2. columns \in [1..Cardinality(S) -> S]
  BY DEF SetToSeqs
<1>3. columns \in [1..Cardinality(S) -> R]
  BY <1>2
<1>4. columns \in Seq(R) /\ Len(columns) = Cardinality(S)
  BY <1>1, <1>3
<1> QED
  BY <1>1, <1>2, <1>4

\* A snapshot with a new index on the columns of R-I1 is a snapshot
LEMMA CreatedSnapshot ==
    ASSUME SnapshotOk(snapshot), NEW t, CreateIndex(t)
    PROVE  SnapshotOk(snapshot')
<1>1. PICK name \in NewNames \ {i.name : i \in snapshot.indexes},
           columns \in SetToSeqs(FilterColumns(snapshot, t.name)) :
        snapshot' = [snapshot EXCEPT !.indexes = @ \cup {NewIndex(t, name, columns)}]
  BY DEF CreateIndex, Change
<1>2. t \in TableStat /\ FilterColumns(snapshot, t.name) # {}
  BY DEF CreateIndex, CandidateTables, SnapshotOk, TablesOk
<1>3. columns \in Seq(STRING)
  BY <1>2, CandidateColumns, ChosenColumns DEF SnapshotOk
<1>4. NewIndex(t, name, columns) \in IndexStat
  BY <1>2, <1>3, AnalysisAssumption DEF NewIndex, IndexStat, TableStat, Nullable
<1>5. IndexesOk(snapshot.indexes \cup {NewIndex(t, name, columns)})
  <2>1. IndexesOk(snapshot.indexes)
    BY DEF SnapshotOk
  <2>2. NewIndex(t, name, columns).name \notin {i.name : i \in snapshot.indexes}
    BY DEF NewIndex
  <2> QED
    BY <1>4, <2>1, <2>2, FS_AddElement DEF IndexesOk
<1> QED
  BY <1>1, <1>5 DEF SnapshotOk

-----------------------------------------------------------------------------
(* Audits                                                                  *)

\* A step that changes the snapshot puts the report away
LEMMA SnapshotChanges ==
    ASSUME Worsen \/ Lose \/ (\E t \in snapshot.tables : CreateIndex(t))
    PROVE  \E s : Change(s)
BY DEF Worsen, TableWorsens, IndexWorsens, CallsRise, LockWaitsGrow, ConnectionsGrow,
       DatabaseGrows, SettingLoosens, Lose, LoseQueries, LoseDelta, LoseAdvisorViews,
       LoseRow, LoseStatement, LoseSetting, LosePeak, CreateIndex

\* Counting a finding adds its deduction to its category
LEMMA CountedPoints ==
    ASSUME TypeOK, NEW f \in left, Count(f)
    PROVE  \E n \in Nat : raw' = [raw EXCEPT ![f.category] = @ + n] /\ f.category \in Categories
<1>1. f.category \in Categories /\ Deduction[f.severity] \in Nat
  BY DEF TypeOK, IsFinding, Severities, Deduction
<1> QED
  BY <1>1 DEF Count

\* Every variable has its type at first
LEMMA InitTypeOK == Init => TypeOK
<1> SUFFICES ASSUME Init PROVE TypeOK
  OBVIOUS
<1>1. SnapshotOk(snapshot) /\ changes \in 0..MaxChanges
  BY AnalysisAssumption DEF Init
<1>2. left = {} /\ audited = FALSE /\ raw \in [Categories -> Nat]
  BY DEF Init, NoPoints
<1> QED
  BY <1>1, <1>2 DEF TypeOK

\* Every step keeps the types
LEMMA NextTypeOK == TypeOK /\ [Next]_vars => TypeOK'
<1> SUFFICES ASSUME TypeOK, [Next]_vars PROVE TypeOK'
  OBVIOUS
<1>1. CASE Audit
  <2>1. RunAll(snapshot)' = RunAll(snapshot)
    BY <1>1 DEF Audit
  <2> QED
    BY <1>1, <2>1, EveryFindingCounts DEF Audit, Score, NoPoints, TypeOK
<1>2. CASE CountOne
  <2>1. PICK f \in left : Count(f)
    BY <1>2 DEF CountOne, Count
  <2>2. raw' \in [Categories -> Nat]
    BY <2>1, CountedPoints DEF TypeOK
  <2>3. RunAll(snapshot)' = RunAll(snapshot)
    BY <1>2 DEF CountOne
  <2> QED
    BY <1>2, <2>1, <2>2, <2>3 DEF CountOne, Count, TypeOK
<1>3. CASE Worsen \/ Lose \/ (\E t \in snapshot.tables : CreateIndex(t))
  <2>1. PICK s : Change(s)
    BY <1>3, SnapshotChanges
  <2>2. SnapshotOk(snapshot')
    BY <1>3, WorsenSnapshot, LoseSnapshot, CreatedSnapshot DEF TypeOK
  <2>3. changes' \in 0..MaxChanges /\ audited' = FALSE /\ left' = {} /\ raw' = NoPoints
    BY <2>1, AnalysisAssumption DEF Change, TypeOK
  <2> QED
    BY <2>2, <2>3 DEF TypeOK, NoPoints
<1>4. CASE UNCHANGED vars
  <2>1. RunAll(snapshot)' = RunAll(snapshot)
    BY <1>4 DEF vars
  <2> QED
    BY <1>4, <2>1 DEF vars, scoreVars, TypeOK
<1> QED
  BY <1>1, <1>2, <1>3, <1>4 DEF Next

\* In every reachable state each variable has its type: whatever gets worse, is
\* lost or created leaves a snapshot of the collector's kind, and what is left to
\* count are findings of run_all for it
THEOREM TypeCorrect == Spec => []TypeOK
<1> QED
  BY InitTypeOK, NextTypeOK, PTL DEF Spec

\* The score is between the floor and 100 while findings are counted, and one
\* category alone never takes more than 30 points, whatever it reports
THEOREM ScoreStaysInRange == Spec => []ScoreInRange
<1>1. TypeOK => ScoreInRange
  BY ScoreBounds DEF TypeOK, ScoreInRange, Points
<1> QED
  BY <1>1, TypeCorrect, PTL

\* A finding more never raises the score, whatever was counted before it
THEOREM FindingsNeverHelp == Spec => MoreIsNotBetter
<1>1. TypeOK /\ [Next]_vars => [CountOne => ScoreOf(raw') <= ScoreOf(raw)]_vars
  <2> SUFFICES ASSUME TypeOK, CountOne PROVE ScoreOf(raw') <= ScoreOf(raw)
    OBVIOUS
  <2>1. PICK f \in left : Count(f)
    BY DEF CountOne, Count
  <2>2. PICK n \in Nat : raw' = [raw EXCEPT ![f.category] = @ + n] /\ f.category \in Categories
    BY <2>1, CountedPoints
  <2> QED
    <3>1. raw \in Points /\ raw' \in Points /\ \A c \in Categories : raw[c] <= raw'[c]
      BY <2>2 DEF TypeOK, Points
    <3> QED
      BY <3>1, ScoreIsMonotone
<1> QED
  BY <1>1, TypeCorrect, PTL DEF Spec, MoreIsNotBetter

\* Whoever creates the index that R-I1 asks for, with its candidate columns in any
\* order, hears nothing new from R-I3 and is asked for fewer columns next time
THEOREM AdviceIsGood == Spec => AdviceHolds
<1>1. TypeOK /\ [Next]_vars =>
        [\A t \in snapshot.tables : CreateIndex(t) =>
           /\ DuplicateIndex(snapshot)' \subseteq DuplicateIndex(snapshot)
           /\ FilterColumns(snapshot, t.name)' \subseteq FilterColumns(snapshot, t.name)
           /\ FilterColumns(snapshot, t.name)' # FilterColumns(snapshot, t.name)]_vars
  <2> SUFFICES ASSUME TypeOK, NEW t \in snapshot.tables, CreateIndex(t)
               PROVE  /\ DuplicateIndex(snapshot') \subseteq DuplicateIndex(snapshot)
                      /\ FilterColumns(snapshot', t.name) \subseteq FilterColumns(snapshot, t.name)
                      /\ FilterColumns(snapshot', t.name) # FilterColumns(snapshot, t.name)
    OBVIOUS
  <2>1. PICK name \in NewNames \ {i.name : i \in snapshot.indexes},
             columns \in SetToSeqs(FilterColumns(snapshot, t.name)) :
          snapshot' = [snapshot EXCEPT !.indexes = @ \cup {NewIndex(t, name, columns)}]
    BY DEF CreateIndex, Change
  <2>2. FilterColumns(snapshot, t.name) # {} /\ snapshot.meta.engine = "postgres"
    BY DEF CreateIndex, CandidateTables, IsPostgres
  <2>3. columns \in Seq(STRING) /\ columns # <<>> /\ Head(columns) \in FilterColumns(snapshot, t.name)
    BY <2>2, CandidateColumns, ChosenColumns DEF TypeOK, SnapshotOk
  <2>4. /\ snapshot'.meta = snapshot.meta /\ snapshot'.queries = snapshot.queries
        /\ snapshot'.indexes = snapshot.indexes \cup {NewIndex(t, name, columns)}
    BY <2>1 DEF TypeOK, SnapshotOk
  <2>5. \A i \in snapshot.indexes : i.columns \in Seq(STRING)
    BY DEF TypeOK, SnapshotOk, IndexesOk, IndexStat
  <2>6. /\ DuplicateIndex(snapshot') = DuplicateIndex(snapshot)
        /\ Head(columns) \notin FilterColumns(snapshot', t.name)
    BY <2>2, <2>3, <2>4, <2>5, AdviceIsNotRedundant
  <2>7. FilterColumns(snapshot', t.name) \subseteq FilterColumns(snapshot, t.name)
    BY <2>4 DEF FilterColumns, IndexedLeading
  <2> QED
    BY <2>3, <2>6, <2>7
<1> QED
  BY <1>1, TypeCorrect, PTL DEF Spec, AdviceHolds

-----------------------------------------------------------------------------
(* Less is captured                                                        *)

\* The captured time is no less if every statement is still there, with no less
\* time, perhaps among others
LEMMA TotalsCompare ==
    ASSUME NEW s, QueriesOk(s.queries), NEW r, QueriesOk(r.queries),
           \A q \in s.queries : \E p \in r.queries :
             p.row = q.row /\ q.total_time_ms <= p.total_time_ms
    PROVE  TotalTime(s) <= TotalTime(r)
<1> DEFINE w == [q \in s.queries |-> q.total_time_ms]
           v == [q \in r.queries |-> q.total_time_ms]
           m == [q \in s.queries |->
                   CHOOSE p \in r.queries : p.row = q.row /\ q.total_time_ms <= p.total_time_ms]
<1>1. PICK g : Additive(g, w, s.queries) /\ TotalTime(s) = g[s.queries]
  BY TotalIsSum
<1>2. PICK h : Additive(h, v, r.queries) /\ TotalTime(r) = h[r.queries]
  BY TotalIsSum
<1>3. w \in [s.queries -> Nat] /\ v \in [r.queries -> Nat]
  BY DEF QueriesOk, QueryStat
<1>4. \A q \in s.queries :
        m[q] \in r.queries /\ m[q].row = q.row /\ q.total_time_ms <= m[q].total_time_ms
  OBVIOUS
<1>5. m \in [s.queries -> r.queries] /\ \A q \in s.queries : w[q] <= v[m[q]]
  BY <1>4
<1> HIDE DEF m, w, v
<1>6. \A p, q \in s.queries : m[p] = m[q] => p = q
  BY <1>4 DEF QueriesOk
<1>7. IsFiniteSet(s.queries) /\ IsFiniteSet(r.queries)
  BY DEF QueriesOk
<1>8. g[s.queries] <= h[r.queries]
  BY <1>1, <1>2, <1>3, <1>5, <1>6, <1>7, SumsCompare
<1> QED
  BY <1>1, <1>2, <1>8

\* The captured time is a natural number
LEMMA TotalIsNat == ASSUME NEW s, QueriesOk(s.queries) PROVE TotalTime(s) \in Nat
<1>1. PICK h : /\ Additive(h, [q \in s.queries |-> q.total_time_ms], s.queries)
               /\ TotalTime(s) = h[s.queries]
  BY TotalIsSum
<1>2. h \in [SUBSET s.queries -> Nat]
  BY <1>1 DEF Additive
<1> QED
  BY <1>1, <1>2

\* The fields of a finding
LEMMA FindingFields ==
    ASSUME NEW rule, NEW category, NEW severity, NEW object, NEW confidence
    PROVE  LET f == Finding(rule, category, severity, object, confidence) IN
             /\ f.rule = rule /\ f.category = category /\ f.severity = severity
             /\ f.object = object /\ f.confidence = confidence
BY DEF Finding

\* What is captured less: every row that is left is there, perhaps without its
\* optional fields; a setting that is left has its value
CapturedQueries(queries, all) ==
    \A q \in queries : \E p \in all : q = p \/ q = WithoutDelta(p)

\* The statements are all there, or none of them is
AllOrNone(queries, all) ==
    queries = {} \/ \A p \in all : p \in queries \/ WithoutDelta(p) \in queries

CapturedTables(tables, all) ==
    \A t \in tables : \E u \in all : t = u \/ t = [u EXCEPT !.growth_30d_pct = None]

CapturedIndexes(indexes, all) ==
    \A i \in indexes : \E j \in all :
      i = j \/ i = [j EXCEPT !.is_unused_candidate = FALSE, !.is_duplicate_candidate = FALSE]

CapturedConnections(connections, all) ==
    \/ connections = all
    \/ all # None /\ connections = [all EXCEPT !.peak = None]

CapturedSettings(settings, all) ==
    /\ DOMAIN settings \subseteq DOMAIN all
    /\ \A name \in DOMAIN settings : settings[name] = all[name]

\* r is s with less captured
Captured(r, s) ==
    /\ r.meta = s.meta
    /\ CapturedQueries(r.queries, s.queries)
    /\ CapturedTables(r.tables, s.tables)
    /\ CapturedIndexes(r.indexes, s.indexes)
    /\ r.lock_waits \subseteq s.lock_waits
    /\ CapturedConnections(r.connections, s.connections)
    /\ CapturedSettings(r.settings, s.settings)

\* What the collector loses is captured less; some of the statements it only loses
\* to a limit or an eviction
LEMMA LosingIsCaptured ==
    ASSUME SnapshotOk(snapshot), Lose
    PROVE  /\ Captured(snapshot', snapshot)
           /\ LoseStatement \/ AllOrNone(snapshot'.queries, snapshot.queries)
<1> DEFINE s == snapshot
           r == snapshot'
<1>a. ASSUME NEW rows
      PROVE  /\ CapturedQueries(rows, rows) /\ CapturedTables(rows, rows)
             /\ CapturedIndexes(rows, rows) /\ CapturedConnections(rows, rows)
             /\ CapturedSettings(rows, rows) /\ AllOrNone(rows, rows)
  <2>1. CapturedQueries(rows, rows) /\ AllOrNone(rows, rows)
    BY DEF CapturedQueries, AllOrNone
  <2>2. CapturedTables(rows, rows)
    BY DEF CapturedTables
  <2>3. CapturedIndexes(rows, rows)
    BY DEF CapturedIndexes
  <2>4. CapturedConnections(rows, rows)
    BY DEF CapturedConnections
  <2>5. CapturedSettings(rows, rows)
    BY DEF CapturedSettings
  <2> QED
    BY <2>1, <2>2, <2>3, <2>4, <2>5
<1>1. CASE LoseQueries
  <2>1. /\ r.queries = {}
        /\ r.meta = s.meta /\ r.tables = s.tables /\ r.indexes = s.indexes
        /\ r.lock_waits = s.lock_waits /\ r.connections = s.connections
        /\ r.settings = s.settings
    BY <1>1 DEF LoseQueries, Change, SnapshotOk
  <2> QED
    BY <1>a, <2>1 DEF Captured, CapturedQueries, AllOrNone
<1>2. CASE LoseDelta
  <2>1. /\ r.queries = {WithoutDelta(q) : q \in s.queries}
        /\ r.tables = {[t EXCEPT !.growth_30d_pct = None] : t \in s.tables}
        /\ r.meta = s.meta /\ r.indexes = s.indexes /\ r.lock_waits = s.lock_waits
        /\ r.connections = s.connections /\ r.settings = s.settings
    BY <1>2 DEF LoseDelta, Change, SnapshotOk
  <2> QED
    BY <1>a, <2>1 DEF Captured, CapturedQueries, CapturedTables, AllOrNone
<1>3. CASE LoseAdvisorViews
  <2>1. /\ r.indexes = {[i EXCEPT !.is_unused_candidate = FALSE,
                                 !.is_duplicate_candidate = FALSE] : i \in s.indexes}
        /\ r.meta = s.meta /\ r.queries = s.queries /\ r.tables = s.tables
        /\ r.lock_waits = s.lock_waits /\ r.connections = s.connections
        /\ r.settings = s.settings
    BY <1>3 DEF LoseAdvisorViews, Change, SnapshotOk
  <2> QED
    BY <1>a, <2>1 DEF Captured, CapturedIndexes
<1>4. ASSUME NEW t, Change([snapshot EXCEPT !.tables = @ \ {t}]) PROVE Captured(r, s) /\ AllOrNone(r.queries, s.queries)
  <2>1. /\ r.tables = s.tables \ {t}
        /\ r.meta = s.meta /\ r.queries = s.queries /\ r.indexes = s.indexes
        /\ r.lock_waits = s.lock_waits /\ r.connections = s.connections
        /\ r.settings = s.settings
    BY <1>4 DEF Change, SnapshotOk
  <2> QED
    BY <1>a, <2>1 DEF Captured, CapturedTables
<1>5. ASSUME NEW i, Change([snapshot EXCEPT !.indexes = @ \ {i}]) PROVE Captured(r, s) /\ AllOrNone(r.queries, s.queries)
  <2>1. /\ r.indexes = s.indexes \ {i}
        /\ r.meta = s.meta /\ r.queries = s.queries /\ r.tables = s.tables
        /\ r.lock_waits = s.lock_waits /\ r.connections = s.connections
        /\ r.settings = s.settings
    BY <1>5 DEF Change, SnapshotOk
  <2> QED
    BY <1>a, <2>1 DEF Captured, CapturedIndexes
<1>6. CASE LoseSetting
  <2>1. /\ \E name : r.settings = [n \in DOMAIN s.settings \ {name} |-> s.settings[n]]
        /\ r.meta = s.meta /\ r.queries = s.queries /\ r.tables = s.tables
        /\ r.indexes = s.indexes /\ r.lock_waits = s.lock_waits
        /\ r.connections = s.connections
    BY <1>6 DEF LoseSetting, Change, SnapshotOk
  <2> QED
    BY <1>a, <2>1 DEF Captured, CapturedSettings
<1>7. CASE LosePeak
  <2>1. /\ s.connections # None /\ r.connections = [s.connections EXCEPT !.peak = None]
        /\ r.meta = s.meta /\ r.queries = s.queries /\ r.tables = s.tables
        /\ r.indexes = s.indexes /\ r.lock_waits = s.lock_waits /\ r.settings = s.settings
    BY <1>7 DEF LosePeak, Change, SnapshotOk
  <2> QED
    BY <1>a, <2>1 DEF Captured, CapturedConnections
<1>8. CASE Change([snapshot EXCEPT !.lock_waits = {}])
  <2>1. /\ r.lock_waits = {}
        /\ r.meta = s.meta /\ r.queries = s.queries /\ r.tables = s.tables
        /\ r.indexes = s.indexes /\ r.connections = s.connections
        /\ r.settings = s.settings
    BY <1>8 DEF Change, SnapshotOk
  <2> QED
    BY <1>a, <2>1 DEF Captured
<1>9. CASE LoseStatement
  <2>1. /\ \E q : r.queries = s.queries \ {q}
        /\ r.meta = s.meta /\ r.tables = s.tables /\ r.indexes = s.indexes
        /\ r.lock_waits = s.lock_waits /\ r.connections = s.connections
        /\ r.settings = s.settings
    BY <1>9 DEF LoseStatement, Change, SnapshotOk
  <2> QED
    BY <1>9, <1>a, <2>1 DEF Captured, CapturedQueries
<1> QED
  BY <1>1, <1>2, <1>3, <1>4, <1>5, <1>6, <1>7, <1>8, <1>9 DEF Lose, LoseRow

\* Confident findings were there before
Confirmed(found, before) ==
    \A f \in found : f.confidence = "high" =>
      \E g \in before : g.rule = f.rule /\ g.object = f.object

\* The sum over the captured statements is the same, or there are none: without
\* them R-Q1 is silent, and the shares of the others do not move
LEMMA ConfirmedQueries ==
    ASSUME NEW s, SnapshotOk(s), NEW r, SnapshotOk(r), Captured(r, s)
    PROVE  /\ AllOrNone(r.queries, s.queries) =>
                Confirmed(HighTotalTimeQuery(r), HighTotalTimeQuery(s))
           /\ Confirmed(SlowMeanTimeQuery(r), SlowMeanTimeQuery(s))
           /\ Confirmed(HighFrequencyQuery(r), HighFrequencyQuery(s))
<1> QueriesOk(s.queries) /\ QueriesOk(r.queries)
  BY DEF SnapshotOk
<1>1. ASSUME NEW q \in QueryStat
      PROVE  /\ WithoutDelta(q).row = q.row /\ WithoutDelta(q).query_digest = q.query_digest
             /\ WithoutDelta(q).calls = q.calls /\ WithoutDelta(q).kind = q.kind
             /\ WithoutDelta(q).total_time_ms = q.total_time_ms
             /\ WithoutDelta(q).mean_time_ms = q.mean_time_ms
             /\ WithoutDelta(q).calls_per_day = None
  BY DEF WithoutDelta, QueryStat
<1>2. ASSUME NEW q \in r.queries
      PROVE  \E p \in s.queries :
               /\ p.row = q.row /\ QueryObject(p) = QueryObject(q)
               /\ p.total_time_ms = q.total_time_ms /\ p.mean_time_ms = q.mean_time_ms
               /\ q.calls_per_day = None \/ p = q
  <2>1. PICK p \in s.queries : q = p \/ q = WithoutDelta(p)
    BY DEF Captured, CapturedQueries
  <2>2. p \in QueryStat
    BY DEF QueriesOk
  <2> QED
    BY <1>1, <2>1, <2>2 DEF QueryObject
<1>3. AllOrNone(r.queries, s.queries) /\ r.queries # {} => TotalTime(r) = TotalTime(s)
  <2> SUFFICES ASSUME AllOrNone(r.queries, s.queries), r.queries # {}
               PROVE  TotalTime(r) = TotalTime(s)
    OBVIOUS
  <2>1. \A q \in r.queries : q.total_time_ms <= q.total_time_ms
    BY DEF QueriesOk, QueryStat
  <2>2. \A q \in r.queries : \E p \in s.queries :
          p.row = q.row /\ q.total_time_ms <= p.total_time_ms
    BY <1>2, <2>1
  <2>3. \A p \in s.queries : \E q \in r.queries :
          q.row = p.row /\ p.total_time_ms <= q.total_time_ms
    <3> SUFFICES ASSUME NEW p \in s.queries
                 PROVE  \E q \in r.queries : q.row = p.row /\ p.total_time_ms <= q.total_time_ms
      OBVIOUS
    <3>1. p \in QueryStat /\ p.total_time_ms <= p.total_time_ms
      BY DEF QueriesOk, QueryStat
    <3>2. p \in r.queries \/ WithoutDelta(p) \in r.queries
      BY DEF AllOrNone
    <3> QED
      BY <1>1, <3>1, <3>2
  <2>4. TotalTime(r) <= TotalTime(s) /\ TotalTime(s) <= TotalTime(r)
    BY <2>2, <2>3, TotalsCompare
  <2> QED
    BY <2>4, TotalIsNat
<1>4. ASSUME AllOrNone(r.queries, s.queries), NEW f \in HighTotalTimeQuery(r)
      PROVE  \E g \in HighTotalTimeQuery(s) : g.rule = f.rule /\ g.object = f.object
  <2>1. PICK q \in r.queries :
          /\ f.rule = "R-Q1" /\ f.object = QueryObject(q)
          /\ TotalTime(r) > 0 /\ AtLeast(q.total_time_ms, TotalTime(r), T.q1_pct_of_db_time)
    BY <1>4, FindingFields DEF HighTotalTimeQuery
  <2>2. TotalTime(r) = TotalTime(s)
    BY <1>3, <1>4
  <2>3. PICK p \in s.queries :
          QueryObject(p) = QueryObject(q) /\ p.total_time_ms = q.total_time_ms
    BY <1>2
  <2>4. \E g \in HighTotalTimeQuery(s) : g.rule = "R-Q1" /\ g.object = QueryObject(p)
    BY <2>1, <2>2, <2>3, FindingFields DEF HighTotalTimeQuery
  <2> QED
    BY <2>1, <2>3, <2>4
<1>5. ASSUME NEW f \in SlowMeanTimeQuery(r)
      PROVE  \E g \in SlowMeanTimeQuery(s) : g.rule = f.rule /\ g.object = f.object
  <2>1. PICK q \in r.queries :
          f.rule = "R-Q2" /\ f.object = QueryObject(q) /\ q.mean_time_ms >= T.q2_mean_ms
    BY <1>5, FindingFields DEF SlowMeanTimeQuery
  <2>2. PICK p \in s.queries :
          QueryObject(p) = QueryObject(q) /\ p.mean_time_ms = q.mean_time_ms
    BY <1>2
  <2>3. \E g \in SlowMeanTimeQuery(s) : g.rule = "R-Q2" /\ g.object = QueryObject(p)
    BY <2>1, <2>2, FindingFields DEF SlowMeanTimeQuery
  <2> QED
    BY <2>1, <2>2, <2>3
<1>6. ASSUME NEW f \in HighFrequencyQuery(r), f.confidence = "high"
      PROVE  \E g \in HighFrequencyQuery(s) : g.rule = f.rule /\ g.object = f.object
  <2>1. PICK q \in r.queries :
          /\ f.rule = "R-Q3" /\ f.object = QueryObject(q) /\ f.confidence = RateConfidence(q)
          /\ q.kind # "other" /\ Rate(q) >= T.q3_calls_per_day
    BY <1>6, FindingFields DEF HighFrequencyQuery
  <2>2. q.calls_per_day # None
    BY <1>6, <2>1 DEF RateConfidence
  <2>3. q \in s.queries
    BY <1>2, <2>2
  <2>4. \E g \in HighFrequencyQuery(s) : g.rule = "R-Q3" /\ g.object = QueryObject(q)
    BY <2>1, <2>3, FindingFields DEF HighFrequencyQuery
  <2> QED
    BY <2>1, <2>4
<1> QED
  BY <1>4, <1>5, <1>6 DEF Confirmed

\* Null is no value of a setting
LEMMA NullIsNoValue ==
    /\ \A x \in Int : x # None
    /\ \A word \in CheckedWords : word # None
BY NullAssumption

\* An index is redundant by the ones that are left, or by an advisor's word that
\* was there before; a lock wait is one that was there
LEMMA ConfirmedIndexesAndOps ==
    ASSUME NEW s, SnapshotOk(s), NEW r, Captured(r, s)
    PROVE  /\ Confirmed(DuplicateIndex(r), DuplicateIndex(s))
           /\ Confirmed(LockWaitChain(r), LockWaitChain(s))
           /\ Confirmed(ConnectionHeadroom(r), ConnectionHeadroom(s))
<1>1. ASSUME NEW i \in r.indexes
      PROVE  \E j \in s.indexes :
               /\ i.table = j.table /\ i.name = j.name /\ i.columns = j.columns
               /\ i.is_primary = j.is_primary /\ i.is_unique = j.is_unique
               /\ i.is_duplicate_candidate = TRUE => j.is_duplicate_candidate = TRUE
  <2>1. PICK j \in s.indexes :
          i = j \/ i = [j EXCEPT !.is_unused_candidate = FALSE, !.is_duplicate_candidate = FALSE]
    BY DEF Captured, CapturedIndexes
  <2>2. j \in IndexStat
    BY DEF SnapshotOk, IndexesOk
  <2> QED
    BY <2>1, <2>2 DEF IndexStat
<1>2. \A i \in r.indexes : i.is_duplicate_candidate \in BOOLEAN
  <2> SUFFICES ASSUME NEW i \in r.indexes PROVE i.is_duplicate_candidate \in BOOLEAN
    OBVIOUS
  <2>1. PICK j \in s.indexes :
          i = j \/ i = [j EXCEPT !.is_unused_candidate = FALSE, !.is_duplicate_candidate = FALSE]
    BY DEF Captured, CapturedIndexes
  <2>2. j \in IndexStat
    BY DEF SnapshotOk, IndexesOk
  <2> QED
    BY <2>1, <2>2 DEF IndexStat
<1>3. ASSUME NEW f \in DuplicateIndex(r)
      PROVE  \E g \in DuplicateIndex(s) : g.rule = f.rule /\ g.object = f.object
  <2>1. PICK i \in r.indexes :
          /\ f.rule = "R-I3" /\ f.object = IndexObject(i)
          /\ IF r.meta.engine = "postgres" THEN \E b \in r.indexes : CoveredBy(i, b)
             ELSE i.is_duplicate_candidate
    BY <1>3, FindingFields DEF DuplicateIndex
  <2>2. PICK j \in s.indexes :
          /\ i.table = j.table /\ i.name = j.name /\ i.columns = j.columns
          /\ i.is_primary = j.is_primary /\ i.is_unique = j.is_unique
          /\ i.is_duplicate_candidate = TRUE => j.is_duplicate_candidate = TRUE
    BY <1>1
  <2>3. IndexObject(j) = IndexObject(i)
    BY <2>2 DEF IndexObject
  <2>4. IF s.meta.engine = "postgres" THEN \E b \in s.indexes : CoveredBy(j, b)
        ELSE j.is_duplicate_candidate
    <3>1. CASE s.meta.engine = "postgres"
      <4>1. PICK b \in r.indexes : CoveredBy(i, b)
        BY <2>1, <3>1 DEF Captured
      <4>2. PICK c \in s.indexes :
              /\ b.table = c.table /\ b.name = c.name /\ b.columns = c.columns
              /\ b.is_primary = c.is_primary /\ b.is_unique = c.is_unique
        BY <1>1
      <4>3. CoveredBy(j, c)
        BY <2>2, <4>1, <4>2 DEF CoveredBy
      <4> QED
        BY <3>1, <4>3
    <3>2. CASE s.meta.engine # "postgres"
      BY <1>2, <2>1, <2>2, <3>2 DEF Captured
    <3> QED
      BY <3>1, <3>2
  <2>5. \E g \in DuplicateIndex(s) : g.rule = "R-I3" /\ g.object = IndexObject(j)
    <3>1. Finding("R-I3", "indexes", "MEDIUM", IndexObject(j), "high") \in DuplicateIndex(s)
      BY <2>4 DEF DuplicateIndex
    <3> QED
      BY <3>1, FindingFields
  <2> QED
    BY <2>1, <2>3, <2>5
<1>4. LockWaitChain(r) \subseteq LockWaitChain(s)
  BY DEF LockWaitChain, Captured
<1>5. ASSUME NEW f \in ConnectionHeadroom(r), f.confidence = "high"
      PROVE  f \in ConnectionHeadroom(s)
  <2>1. r.connections.peak # None /\ r.connections # None
    BY <1>5, FindingFields DEF ConnectionHeadroom
  <2>2. r.connections = s.connections
    <3> SUFFICES ASSUME s.connections # None, r.connections = [s.connections EXCEPT !.peak = None]
                 PROVE  FALSE
      BY DEF Captured, CapturedConnections
    <3>1. s.connections \in ConnectionInfo
      BY DEF SnapshotOk, Nullable
    <3> QED
      BY <2>1, <3>1 DEF ConnectionInfo
  <2> QED
    BY <1>5, <2>2 DEF ConnectionHeadroom
<1> QED
  BY <1>3, <1>4, <1>5 DEF Confirmed

\* The tables that are left are tables that were there
LEMMA ConfirmedMaintenance ==
    ASSUME NEW s, SnapshotOk(s), NEW r, Captured(r, s)
    PROVE  /\ Confirmed(VacuumLag(r), VacuumLag(s))
           /\ Confirmed(AutovacuumNotRunning(r), AutovacuumNotRunning(s))
<1>1. ASSUME NEW t \in r.tables
      PROVE  \E u \in s.tables :
               /\ TableObject(t) = TableObject(u) /\ t.size_bytes = u.size_bytes
               /\ t.dead_tuple_ratio = u.dead_tuple_ratio
               /\ t.last_autovacuum = u.last_autovacuum
  <2>1. PICK u \in s.tables : t = u \/ t = [u EXCEPT !.growth_30d_pct = None]
    BY DEF Captured, CapturedTables
  <2>2. u \in TableStat
    BY DEF SnapshotOk, TablesOk
  <2>3. /\ t.schema_name = u.schema_name /\ t.name = u.name /\ t.size_bytes = u.size_bytes
        /\ t.dead_tuple_ratio = u.dead_tuple_ratio /\ t.last_autovacuum = u.last_autovacuum
    BY <2>1, <2>2 DEF TableStat
  <2> QED
    BY <2>3 DEF TableObject
<1>2. ASSUME NEW ratio, NEW size, NEW t \in DeadIn(r, ratio, size)
      PROVE  \E u \in DeadIn(s, ratio, size) :
               TableObject(t) = TableObject(u) /\ t.last_autovacuum = u.last_autovacuum
  BY <1>1 DEF DeadIn, Below
<1>3. ASSUME NEW f \in VacuumLag(r)
      PROVE  \E g \in VacuumLag(s) : g.rule = f.rule /\ g.object = f.object
  <2>1. PICK t \in DeadIn(r, T.m1_dead_tuple_ratio, T.m1_min_size_bytes) :
          f.rule = "R-M1" /\ f.object = TableObject(t)
    BY <1>3, FindingFields DEF VacuumLag
  <2>2. PICK u \in DeadIn(s, T.m1_dead_tuple_ratio, T.m1_min_size_bytes) :
          TableObject(t) = TableObject(u)
    BY <1>2
  <2>3. \E g \in VacuumLag(s) : g.rule = "R-M1" /\ g.object = TableObject(u)
    <3>1. PICK severity :
            Finding("R-M1", "maintenance", severity, TableObject(u), "high") \in VacuumLag(s)
      BY DEF VacuumLag
    <3> QED
      BY <3>1, FindingFields
  <2> QED
    BY <2>1, <2>2, <2>3
<1>4. Value(r, "autovacuum") = "off" => Value(s, "autovacuum") = "off"
  <2> SUFFICES ASSUME Value(r, "autovacuum") = "off" PROVE Value(s, "autovacuum") = "off"
    OBVIOUS
  <2>1. "off" # None
    BY NullIsNoValue DEF CheckedWords
  <2>2. "autovacuum" \in DOMAIN r.settings
    BY <2>1 DEF Value
  <2>3. "autovacuum" \in DOMAIN s.settings /\ r.settings["autovacuum"] = s.settings["autovacuum"]
    BY <2>2 DEF Captured, CapturedSettings
  <2> QED
    BY <2>2, <2>3 DEF Value
<1>5. ASSUME NEW f \in AutovacuumNotRunning(r)
      PROVE  \E g \in AutovacuumNotRunning(s) : g.rule = f.rule /\ g.object = f.object
  <2>1. CASE Value(r, "autovacuum") = "off"
             /\ f = Finding("R-M2", "maintenance", "HIGH", <<"setting", "autovacuum">>, "high")
    BY <1>4, <2>1 DEF AutovacuumNotRunning
  <2>2. ASSUME NEW t \in DeadIn(r, T.m2_dead_tuple_ratio, T.m2_min_size_bytes),
               t.last_autovacuum = None, f.rule = "R-M2", f.object = TableObject(t)
        PROVE  \E g \in AutovacuumNotRunning(s) : g.rule = f.rule /\ g.object = f.object
    <3>1. PICK u \in DeadIn(s, T.m2_dead_tuple_ratio, T.m2_min_size_bytes) :
            TableObject(t) = TableObject(u) /\ t.last_autovacuum = u.last_autovacuum
      BY <1>2
    <3>2. \E g \in AutovacuumNotRunning(s) : g.rule = "R-M2" /\ g.object = TableObject(u)
      BY <2>2, <3>1, FindingFields DEF AutovacuumNotRunning
    <3> QED
      BY <2>2, <3>1, <3>2
  <2> QED
    BY <1>5, <2>1, <2>2, FindingFields DEF AutovacuumNotRunning
<1> QED
  BY <1>3, <1>5 DEF Confirmed

\* A finding of a configuration check
Setting(rule, name, severity) ==
    Finding(rule, "config", severity, <<"setting", name>>, "high")

\* The row c of a table of checks makes the finding f
Fires(c, rule, f) == c[3] /\ f = Setting(rule, c[1], c[2])

\* When a row of a table of checks makes a finding
LEMMA FiredCheck ==
    ASSUME NEW name, NEW severity, NEW fires, NEW rule, NEW f
    PROVE  Fires(<<name, severity, fires>>, rule, f) <=> fires /\ f = Setting(rule, name, severity)
BY DEF Fires

\* A table has ten rows
LEMMA OneOfTenFires ==
    ASSUME NEW a, NEW b, NEW c, NEW d, NEW e, NEW g, NEW h, NEW i, NEW j, NEW k, NEW rule, NEW f
    PROVE  (\E x \in {a, b, c, d, e, g, h, i, j, k} : Fires(x, rule, f)) <=>
              \/ Fires(a, rule, f) \/ Fires(b, rule, f) \/ Fires(c, rule, f) \/ Fires(d, rule, f)
              \/ Fires(e, rule, f) \/ Fires(g, rule, f) \/ Fires(h, rule, f) \/ Fires(i, rule, f)
              \/ Fires(j, rule, f) \/ Fires(k, rule, f)
BY SMT

\* A finding of a table of checks comes from one of its rows
LEMMA FiredChecks ==
    ASSUME NEW rule, NEW checks, NEW f
    PROVE  f \in ConfigFindings(rule, checks) <=> \E c \in checks : Fires(c, rule, f)
BY Zenon DEF ConfigFindings, Setting, Fires

\* What R-CFG-PG finds: one disjunct for each check of its table
PgFired(s, f) ==
    \/ /\ SmallSharedBuffers(s)
       /\ f = Setting("R-CFG-PG", "shared_buffers", "LOW")
    \/ /\ WorkMemProduct(s)
       /\ f = Setting("R-CFG-PG", "work_mem", "MEDIUM")
    \/ /\ DefaultEffectiveCacheSize(s)
       /\ f = Setting("R-CFG-PG", "effective_cache_size", "INFO")
    \/ /\ Is(s, "autovacuum", {"off"})
       /\ f = Setting("R-CFG-PG", "autovacuum", "HIGH")
    \/ /\ AutovacScale(s)
       /\ f = Setting("R-CFG-PG", "autovacuum_vacuum_scale_factor", "MEDIUM")
    \/ /\ SmallWalBuffers(s)
       /\ f = Setting("R-CFG-PG", "wal_buffers", "LOW")
    \/ /\ ~Below(Value(s, "random_page_cost"), 400)
       /\ f = Setting("R-CFG-PG", "random_page_cost", "INFO")
    \/ /\ ~Below(Value(s, "max_connections"), T.pg_max_connections_high)
       /\ f = Setting("R-CFG-PG", "max_connections", "LOW")
    \/ /\ HastyCheckpoints(s)
       /\ f = Setting("R-CFG-PG", "checkpoint_completion_target", "INFO")
    \/ /\ Is(s, "track_io_timing", {"off"})
       /\ f = Setting("R-CFG-PG", "track_io_timing", "INFO")

\* PgFired is what R-CFG-PG finds
LEMMA PgFindings ==
    ASSUME NEW s, NEW f
    PROVE  f \in ConfigFindings("R-CFG-PG", PgChecks(s)) <=> PgFired(s, f)
<1> DEFINE a == <<"shared_buffers", "LOW", SmallSharedBuffers(s)>>
           b == <<"work_mem", "MEDIUM", WorkMemProduct(s)>>
           c == <<"effective_cache_size", "INFO", DefaultEffectiveCacheSize(s)>>
           d == <<"autovacuum", "HIGH", Is(s, "autovacuum", {"off"})>>
           e == <<"autovacuum_vacuum_scale_factor", "MEDIUM", AutovacScale(s)>>
           g == <<"wal_buffers", "LOW", SmallWalBuffers(s)>>
           h == <<"random_page_cost", "INFO", ~Below(Value(s, "random_page_cost"), 400)>>
           i == <<"max_connections", "LOW",
                  ~Below(Value(s, "max_connections"), T.pg_max_connections_high)>>
           j == <<"checkpoint_completion_target", "INFO", HastyCheckpoints(s)>>
           k == <<"track_io_timing", "INFO", Is(s, "track_io_timing", {"off"})>>
           Fired(x) == Fires(x, "R-CFG-PG", f)
<1>1. PgChecks(s) = {a, b, c, d, e, g, h, i, j, k}
  BY DEF PgChecks
<1>2. Fired(a) <=>
        /\ SmallSharedBuffers(s)
        /\ f = Setting("R-CFG-PG", "shared_buffers", "LOW")
  BY FiredCheck
<1>3. Fired(b) <=>
        /\ WorkMemProduct(s)
        /\ f = Setting("R-CFG-PG", "work_mem", "MEDIUM")
  BY FiredCheck
<1>4. Fired(c) <=>
        /\ DefaultEffectiveCacheSize(s)
        /\ f = Setting("R-CFG-PG", "effective_cache_size", "INFO")
  BY FiredCheck
<1>5. Fired(d) <=>
        /\ Is(s, "autovacuum", {"off"})
        /\ f = Setting("R-CFG-PG", "autovacuum", "HIGH")
  BY FiredCheck
<1>6. Fired(e) <=>
        /\ AutovacScale(s)
        /\ f = Setting("R-CFG-PG", "autovacuum_vacuum_scale_factor", "MEDIUM")
  BY FiredCheck
<1>7. Fired(g) <=>
        /\ SmallWalBuffers(s)
        /\ f = Setting("R-CFG-PG", "wal_buffers", "LOW")
  BY FiredCheck
<1>8. Fired(h) <=>
        /\ ~Below(Value(s, "random_page_cost"), 400)
        /\ f = Setting("R-CFG-PG", "random_page_cost", "INFO")
  BY FiredCheck
<1>9. Fired(i) <=>
        /\ ~Below(Value(s, "max_connections"), T.pg_max_connections_high)
        /\ f = Setting("R-CFG-PG", "max_connections", "LOW")
  BY FiredCheck
<1>10. Fired(j) <=>
        /\ HastyCheckpoints(s)
        /\ f = Setting("R-CFG-PG", "checkpoint_completion_target", "INFO")
  BY FiredCheck
<1>11. Fired(k) <=>
        /\ Is(s, "track_io_timing", {"off"})
        /\ f = Setting("R-CFG-PG", "track_io_timing", "INFO")
  BY FiredCheck
<1> HIDE DEF a, b, c, d, e, g, h, i, j, k
<1>12. f \in ConfigFindings("R-CFG-PG", PgChecks(s)) <=>
        \/ Fired(a) \/ Fired(b) \/ Fired(c) \/ Fired(d) \/ Fired(e)
        \/ Fired(g) \/ Fired(h) \/ Fired(i) \/ Fired(j) \/ Fired(k)
  BY <1>1, FiredChecks, OneOfTenFires
<1> HIDE DEF Fired
<1> QED
  BY <1>2, <1>3, <1>4, <1>5, <1>6, <1>7, <1>8, <1>9, <1>10, <1>11, <1>12 DEF PgFired

\* What R-CFG-MY finds
MyFired(s, f) ==
    \/ /\ SmallBufferPool(s)
       /\ f = Setting("R-CFG-MY", "innodb_buffer_pool_size", "HIGH")
    \/ /\ SmallLogFile(s)
       /\ f = Setting("R-CFG-MY", "innodb_log_file_size", "LOW")
    \/ /\ TmpTableMismatch(s)
       /\ f = Setting("R-CFG-MY", "tmp_table_size", "LOW")
    \/ /\ TablesReopened(s)
       /\ f = Setting("R-CFG-MY", "table_open_cache", "MEDIUM")
    \/ /\ ThreadsCreated(s)
       /\ f = Setting("R-CFG-MY", "thread_cache_size", "LOW")
    \/ /\ ~Below(Value(s, "max_connections"), T.my_max_connections_high)
       /\ f = Setting("R-CFG-MY", "max_connections", "INFO")
    \/ /\ DurabilityTradeoff(s)
       /\ f = Setting("R-CFG-MY", "sync_binlog_and_innodb_flush_log_at_trx_commit", "INFO")
    \/ /\ QueryCache(s)
       /\ f = Setting("R-CFG-MY", "query_cache_type", "MEDIUM")
    \/ /\ Is(s, "slow_query_log", {"OFF", "0"})
       /\ f = Setting("R-CFG-MY", "slow_query_log", "INFO")
    \/ /\ Is(s, "performance_schema", {"OFF", "0"})
       /\ f = Setting("R-CFG-MY", "performance_schema", "LOW")

\* MyFired is what R-CFG-MY finds
LEMMA MyFindings ==
    ASSUME NEW s, NEW f
    PROVE  f \in ConfigFindings("R-CFG-MY", MyChecks(s)) <=> MyFired(s, f)
<1> DEFINE a == <<"innodb_buffer_pool_size", "HIGH", SmallBufferPool(s)>>
           b == <<"innodb_log_file_size", "LOW", SmallLogFile(s)>>
           c == <<"tmp_table_size", "LOW", TmpTableMismatch(s)>>
           d == <<"table_open_cache", "MEDIUM", TablesReopened(s)>>
           e == <<"thread_cache_size", "LOW", ThreadsCreated(s)>>
           g == <<"max_connections", "INFO",
                  ~Below(Value(s, "max_connections"), T.my_max_connections_high)>>
           h == <<"sync_binlog_and_innodb_flush_log_at_trx_commit", "INFO",
                  DurabilityTradeoff(s)>>
           i == <<"query_cache_type", "MEDIUM", QueryCache(s)>>
           j == <<"slow_query_log", "INFO", Is(s, "slow_query_log", {"OFF", "0"})>>
           k == <<"performance_schema", "LOW", Is(s, "performance_schema", {"OFF", "0"})>>
           Fired(x) == Fires(x, "R-CFG-MY", f)
<1>1. MyChecks(s) = {a, b, c, d, e, g, h, i, j, k}
  BY DEF MyChecks
<1>2. Fired(a) <=>
        /\ SmallBufferPool(s)
        /\ f = Setting("R-CFG-MY", "innodb_buffer_pool_size", "HIGH")
  BY FiredCheck
<1>3. Fired(b) <=>
        /\ SmallLogFile(s)
        /\ f = Setting("R-CFG-MY", "innodb_log_file_size", "LOW")
  BY FiredCheck
<1>4. Fired(c) <=>
        /\ TmpTableMismatch(s)
        /\ f = Setting("R-CFG-MY", "tmp_table_size", "LOW")
  BY FiredCheck
<1>5. Fired(d) <=>
        /\ TablesReopened(s)
        /\ f = Setting("R-CFG-MY", "table_open_cache", "MEDIUM")
  BY FiredCheck
<1>6. Fired(e) <=>
        /\ ThreadsCreated(s)
        /\ f = Setting("R-CFG-MY", "thread_cache_size", "LOW")
  BY FiredCheck
<1>7. Fired(g) <=>
        /\ ~Below(Value(s, "max_connections"), T.my_max_connections_high)
        /\ f = Setting("R-CFG-MY", "max_connections", "INFO")
  BY FiredCheck
<1>8. Fired(h) <=>
        /\ DurabilityTradeoff(s)
        /\ f = Setting("R-CFG-MY", "sync_binlog_and_innodb_flush_log_at_trx_commit", "INFO")
  BY FiredCheck
<1>9. Fired(i) <=>
        /\ QueryCache(s)
        /\ f = Setting("R-CFG-MY", "query_cache_type", "MEDIUM")
  BY FiredCheck
<1>10. Fired(j) <=>
        /\ Is(s, "slow_query_log", {"OFF", "0"})
        /\ f = Setting("R-CFG-MY", "slow_query_log", "INFO")
  BY FiredCheck
<1>11. Fired(k) <=>
        /\ Is(s, "performance_schema", {"OFF", "0"})
        /\ f = Setting("R-CFG-MY", "performance_schema", "LOW")
  BY FiredCheck
<1> HIDE DEF a, b, c, d, e, g, h, i, j, k
<1>12. f \in ConfigFindings("R-CFG-MY", MyChecks(s)) <=>
        \/ Fired(a) \/ Fired(b) \/ Fired(c) \/ Fired(d) \/ Fired(e)
        \/ Fired(g) \/ Fired(h) \/ Fired(i) \/ Fired(j) \/ Fired(k)
  BY <1>1, FiredChecks, OneOfTenFires
<1> HIDE DEF Fired
<1> QED
  BY <1>2, <1>3, <1>4, <1>5, <1>6, <1>7, <1>8, <1>9, <1>10, <1>11, <1>12 DEF MyFired

\* A setting that is left has its value and its size
LEMMA KeptValues ==
    ASSUME NEW s, NEW r, Captured(r, s), NEW name, Value(r, name) # None
    PROVE  Value(r, name) = Value(s, name) /\ Bytes(r, name) = Bytes(s, name)
<1>1. name \in DOMAIN r.settings
  BY DEF Value
<1>2. name \in DOMAIN s.settings /\ r.settings[name] = s.settings[name]
  BY <1>1 DEF Captured, CapturedSettings
<1>3. Value(r, name) = Value(s, name)
  BY <1>1, <1>2 DEF Value
<1> QED
  BY <1>2, <1>3 DEF Bytes

\* A large table that is left was there before
LEMMA KeptTables ==
    ASSUME NEW s, SnapshotOk(s), NEW r, Captured(r, s), NEW size, HasTableLargerThan(r, size)
    PROVE  HasTableLargerThan(s, size)
<1>1. PICK t \in r.tables : t.size_bytes >= size
  BY DEF HasTableLargerThan
<1>2. PICK u \in s.tables : t = u \/ t = [u EXCEPT !.growth_30d_pct = None]
  BY DEF Captured, CapturedTables
<1>3. u \in TableStat
  BY DEF SnapshotOk, TablesOk
<1>4. t.size_bytes = u.size_bytes
  BY <1>2, <1>3 DEF TableStat
<1> QED
  BY <1>1, <1>4 DEF HasTableLargerThan

\* Every check needs the values that it compares, or is silent; of a buffer pool
\* whose reads are not known it says nothing, since they count as none
LEMMA ConfirmedChecks ==
    ASSUME NEW s, SnapshotOk(s), NEW r, SnapshotOk(r), Captured(r, s)
    PROVE  /\ Confirmed(ConfigFindings("R-CFG-PG", PgChecks(r)),
                        ConfigFindings("R-CFG-PG", PgChecks(s)))
           /\ Confirmed(ConfigFindings("R-CFG-MY", MyChecks(r)),
                        ConfigFindings("R-CFG-MY", MyChecks(s)))
<1>1. ASSUME NEW name PROVE Value(r, name) = None \/ Value(r, name) = Value(s, name)
  BY KeptValues
<1>2. r.meta = s.meta
  BY DEF Captured
<1>3. ASSUME NEW name, NEW limit, ~Below(Value(r, name), limit)
      PROVE  ~Below(Value(s, name), limit)
  BY <1>1, <1>3 DEF Below
<1>4. ASSUME NEW name, NEW words \in SUBSET CheckedWords, Is(r, name, words)
      PROVE  Is(s, name, words)
  BY <1>1, <1>4, NullIsNoValue DEF Is
<1>5. {"off"} \subseteq CheckedWords /\ {"OFF", "0"} \subseteq CheckedWords
      /\ {"ON", "1", "DEMAND", "2"} \subseteq CheckedWords
  BY DEF CheckedWords
<1>6. SmallSharedBuffers(r) => SmallSharedBuffers(s)
  <2> SUFFICES ASSUME SmallSharedBuffers(r) PROVE SmallSharedBuffers(s)
    OBVIOUS
  <2>1. Value(r, "shared_buffers") # None
    BY DEF SmallSharedBuffers, Bytes
  <2> QED
    BY <1>2, <2>1, KeptValues DEF SmallSharedBuffers
<1>7. WorkMemProduct(r) => WorkMemProduct(s)
  <2> SUFFICES ASSUME WorkMemProduct(r) PROVE WorkMemProduct(s)
    OBVIOUS
  <2>1. Value(r, "work_mem") # None /\ Value(r, "max_connections") # None
    BY DEF WorkMemProduct, Missing
  <2>2. /\ Value(s, "work_mem") = Value(r, "work_mem")
        /\ Bytes(s, "work_mem") = Bytes(r, "work_mem")
        /\ Value(s, "max_connections") = Value(r, "max_connections")
    BY <2>1, KeptValues
  <2> QED
    BY <2>1, <2>2 DEF WorkMemProduct, Missing
<1>8. DefaultEffectiveCacheSize(r) => DefaultEffectiveCacheSize(s)
  BY <1>1, NullIsNoValue DEF DefaultEffectiveCacheSize, T
<1>9. AutovacScale(r) => AutovacScale(s)
  BY <1>3, KeptTables DEF AutovacScale
<1>10. SmallWalBuffers(r) => SmallWalBuffers(s)
  <2> SUFFICES ASSUME SmallWalBuffers(r) PROVE SmallWalBuffers(s)
    OBVIOUS
  <2>1. Value(r, "wal_buffers") # None
    BY DEF SmallWalBuffers, Below
  <2> QED
    BY <2>1, KeptValues DEF SmallWalBuffers
<1>11. HastyCheckpoints(r) => HastyCheckpoints(s)
  <2> SUFFICES ASSUME HastyCheckpoints(r) PROVE HastyCheckpoints(s)
    OBVIOUS
  <2>1. Value(r, "checkpoint_completion_target") # None
    BY DEF HastyCheckpoints, Missing
  <2> QED
    BY <1>1, <2>1 DEF HastyCheckpoints, Missing
<1>12. SmallBufferPool(r) => SmallBufferPool(s)
  <2> DEFINE requests == Value(r, "Innodb_buffer_pool_read_requests")
             reads == Value(r, "Innodb_buffer_pool_reads")
  <2> SUFFICES ASSUME SmallBufferPool(r) PROVE SmallBufferPool(s)
    OBVIOUS
  <2>1. requests \notin {None, 0} /\ Value(r, "innodb_buffer_pool_size") # None
    BY DEF SmallBufferPool
  <2>2. requests \in Nat
    <3>1. requests \in Nullable(Nat)
      BY <2>1 DEF Value, SnapshotOk, SettingsOk, SettingValues, Counts, Words
    <3> QED
      BY <2>1, <3>1 DEF Nullable
  <2>3. reads # None
    <3> SUFFICES ASSUME reads = None PROVE FALSE
      OBVIOUS
    <3>1. LessThan(requests - 0, requests, 99)
      BY DEF SmallBufferPool, T
    <3> HIDE DEF requests
    <3> QED
      BY <2>1, <2>2, <3>1 DEF LessThan
  <2>4. /\ Value(s, "Innodb_buffer_pool_read_requests") = requests
        /\ Value(s, "Innodb_buffer_pool_reads") = reads
        /\ Value(s, "innodb_buffer_pool_size") = Value(r, "innodb_buffer_pool_size")
    BY <1>1, <2>1, <2>3
  <2> QED
    BY <1>2, <2>4 DEF SmallBufferPool
<1>13. SmallLogFile(r) => SmallLogFile(s)
  <2> SUFFICES ASSUME SmallLogFile(r) PROVE SmallLogFile(s)
    OBVIOUS
  <2>1. Value(r, "innodb_log_file_size") # None
    BY DEF SmallLogFile, Missing
  <2> QED
    BY <1>1, <2>1 DEF SmallLogFile, Missing
<1>14. TmpTableMismatch(r) => TmpTableMismatch(s)
  <2> SUFFICES ASSUME TmpTableMismatch(r) PROVE TmpTableMismatch(s)
    OBVIOUS
  <2>1. Value(r, "tmp_table_size") # None /\ Value(r, "max_heap_table_size") # None
    BY DEF TmpTableMismatch, Missing
  <2> QED
    BY <1>1, <2>1 DEF TmpTableMismatch, Missing
<1>15. TablesReopened(r) => TablesReopened(s)
  <2> SUFFICES ASSUME TablesReopened(r) PROVE TablesReopened(s)
    OBVIOUS
  <2>1. Value(r, "Opened_tables") # None /\ Value(r, "Uptime") # None
    BY DEF TablesReopened, Missing, Below
  <2> QED
    BY <1>1, <2>1 DEF TablesReopened, Missing
<1>16. ThreadsCreated(r) => ThreadsCreated(s)
  <2> SUFFICES ASSUME ThreadsCreated(r) PROVE ThreadsCreated(s)
    OBVIOUS
  <2>1. Value(r, "Threads_created") # None /\ Value(r, "Connections") # None
    BY DEF ThreadsCreated, Missing, Below
  <2> QED
    BY <1>1, <2>1 DEF ThreadsCreated, Missing
<1>17. DurabilityTradeoff(r) => DurabilityTradeoff(s)
  BY <1>1 DEF DurabilityTradeoff
<1>18. QueryCache(r) => QueryCache(s)
  BY <1>1, <1>4, <1>5 DEF QueryCache
<1>19. /\ Is(r, "autovacuum", {"off"}) => Is(s, "autovacuum", {"off"})
       /\ Is(r, "track_io_timing", {"off"}) => Is(s, "track_io_timing", {"off"})
       /\ ~Below(Value(r, "random_page_cost"), 400) => ~Below(Value(s, "random_page_cost"), 400)
       /\ ~Below(Value(r, "max_connections"), T.pg_max_connections_high)
          => ~Below(Value(s, "max_connections"), T.pg_max_connections_high)
  BY <1>3, <1>4, <1>5
<1>20. ASSUME NEW f \in ConfigFindings("R-CFG-PG", PgChecks(r))
       PROVE  f \in ConfigFindings("R-CFG-PG", PgChecks(s))
  <2>1. PgFired(r, f)
    BY <1>20, PgFindings
  <2>2. PgFired(s, f)
    BY <1>6, <1>7, <1>8, <1>9, <1>10, <1>11, <1>19, <2>1 DEF PgFired
  <2> QED
    BY <2>2, PgFindings
<1>21. /\ Is(r, "slow_query_log", {"OFF", "0"}) => Is(s, "slow_query_log", {"OFF", "0"})
       /\ Is(r, "performance_schema", {"OFF", "0"}) => Is(s, "performance_schema", {"OFF", "0"})
       /\ ~Below(Value(r, "max_connections"), T.my_max_connections_high)
          => ~Below(Value(s, "max_connections"), T.my_max_connections_high)
  BY <1>3, <1>4, <1>5
<1>22. ASSUME NEW f \in ConfigFindings("R-CFG-MY", MyChecks(r))
       PROVE  f \in ConfigFindings("R-CFG-MY", MyChecks(s))
  <2>1. MyFired(r, f)
    BY <1>22, MyFindings
  <2>2. MyFired(s, f)
    BY <1>12, <1>13, <1>14, <1>15, <1>16, <1>17, <1>18, <1>21, <2>1, Zenon DEF MyFired
  <2> QED
    BY <2>2, MyFindings
<1> QED
  BY <1>20, <1>22 DEF Confirmed

\* What the collector could not capture brings about no finding that claims high
\* confidence, but R-Q1 where a part of the statements is missing
THEOREM SilenceIsModest == Spec => MissingIsModest
<1>1. TypeOK /\ [Next]_vars =>
        [Lose => \A f \in RunAll(snapshot)' :
           f.confidence = "high" =>
             \/ <<f.rule, f.object>> \in Named(RunAll(snapshot))
             \/ LoseStatement /\ f.rule = "R-Q1"]_vars
  <2> SUFFICES ASSUME TypeOK, Lose, NEW f \in RunAll(snapshot'), f.confidence = "high",
                      ~(LoseStatement /\ f.rule = "R-Q1")
               PROVE  <<f.rule, f.object>> \in Named(RunAll(snapshot))
    OBVIOUS
  <2> DEFINE s == snapshot
             r == snapshot'
  <2>1. SnapshotOk(s) /\ SnapshotOk(r) /\ Captured(r, s)
    BY LoseSnapshot, LosingIsCaptured DEF TypeOK
  <2>2. AllOrNone(r.queries, s.queries) \/ f.rule # "R-Q1"
    BY LosingIsCaptured DEF TypeOK
  <2> HIDE DEF s, r
  <2>3. ASSUME f \in EveryEngine(r)
        PROVE  \E g \in EveryEngine(s) : g.rule = f.rule /\ g.object = f.object
    <3>1. ASSUME NEW g \in MissingIndexCandidate(r) \cup UnusedIndex(r) \cup TableGrowthRisk(r)
          PROVE  g.confidence = "medium"
      BY <3>1, FindingFields DEF MissingIndexCandidate, MissingIndex, UnusedIndex, TableGrowthRisk
    <3>2. f \in HighTotalTimeQuery(r) => f.rule = "R-Q1"
      BY FindingFields DEF HighTotalTimeQuery
    <3>3. CASE f \in HighTotalTimeQuery(r)
      <4>1. Confirmed(HighTotalTimeQuery(r), HighTotalTimeQuery(s))
        BY <2>1, <2>2, <3>2, <3>3, ConfirmedQueries
      <4> QED
        BY <3>3, <4>1 DEF EveryEngine, Confirmed
    <3>4. CASE f \notin HighTotalTimeQuery(r)
      BY <2>1, <2>3, <3>1, <3>4, ConfirmedQueries, ConfirmedIndexesAndOps DEF EveryEngine, Confirmed
    <3> QED
      BY <3>3, <3>4
  <2>4. Confirmed(PgOnly(r), PgOnly(s))
    <3>1. \A g \in BloatEstimate(r) : g.confidence = "low"
      BY FindingFields DEF BloatEstimate
    <3> QED
      BY <2>1, <3>1, ConfirmedMaintenance, ConfirmedChecks DEF PgOnly, Confirmed
  <2>5. Confirmed(MySQLOnly(r), MySQLOnly(s))
    <3>1. \A g \in InnodbFragmentation(r) : g.confidence = "medium"
      BY FindingFields DEF InnodbFragmentation
    <3> QED
      BY <2>1, <3>1, ConfirmedChecks DEF MySQLOnly, Confirmed
  <2>6. r.meta = s.meta
    BY <2>1 DEF Captured
  <2>7. f \in RunAll(r)
    BY DEF r
  <2>8. \E g \in RunAll(s) : g.rule = f.rule /\ g.object = f.object
    <3>1. f \in EveryEngine(r) \/ f \in PgOnly(r) \/ f \in MySQLOnly(r)
      BY <2>7 DEF RunAll
    <3> QED
      BY <2>3, <2>4, <2>5, <2>6, <2>7, <3>1 DEF RunAll, Confirmed
  <2> QED
    BY <2>8 DEF Named, s
<1> QED
  BY <1>1, TypeCorrect, PTL DEF Spec, MissingIsModest

-----------------------------------------------------------------------------
(* One finding for each rule and object                                    *)

\* Finitely many findings of a rule, one for each object
Keyed(findings, rule) ==
    /\ IsFiniteSet(findings)
    /\ \A f \in findings : f.rule = rule
    /\ \A f, g \in findings : f.object = g.object => f = g

\* A rule that makes a finding of a row, with the key of the row as its object
LEMMA RowsMakeKeys ==
    ASSUME NEW rows, IsFiniteSet(rows), NEW rule, NEW k, DOMAIN k = rows,
           \A x \in rows : k[x].rule = rule,
           \A x, y \in rows : k[x].object = k[y].object => x = y,
           NEW findings, \A f \in findings : \E x \in rows : f = k[x]
    PROVE  Keyed(findings, rule)
<1>1. IsFiniteSet({k[x] : x \in rows})
  BY ImageIsFinite
<1>2. findings \in SUBSET {k[x] : x \in rows}
  OBVIOUS
<1>3. IsFiniteSet(findings)
  BY <1>1, <1>2, FS_Subset
<1> QED
  BY <1>3 DEF Keyed

\* Objects name their rows: statements
LEMMA QueryKeys ==
    ASSUME NEW s, SnapshotOk(s), NEW p \in s.queries, NEW q \in s.queries,
           QueryObject(p) = QueryObject(q)
    PROVE  p = q
BY DEF SnapshotOk, QueriesOk, QueryObject

\* Tables
LEMMA TableKeys ==
    ASSUME NEW s, SnapshotOk(s), NEW t \in s.tables, NEW u \in s.tables,
           TableObject(t) = TableObject(u)
    PROVE  t = u
BY DEF SnapshotOk, TablesOk, TableObject

\* Indexes
LEMMA IndexKeys ==
    ASSUME NEW s, SnapshotOk(s), NEW i \in s.indexes, NEW j \in s.indexes,
           IndexObject(i) = IndexObject(j)
    PROVE  i = j
<1>1. i \in IndexStat /\ j \in IndexStat
  BY DEF SnapshotOk, IndexesOk
<1>2. i.table = <<i.table[1], i.table[2]>> /\ j.table = <<j.table[1], j.table[2]>>
  BY <1>1 DEF IndexStat
<1>3. i.table = j.table /\ i.name = j.name
  BY <1>2 DEF IndexObject
<1> QED
  BY <1>3 DEF SnapshotOk, IndexesOk

\* Each rule makes finitely many findings, one for each object.  R-Q1
LEMMA KeyedQ1 == ASSUME NEW s, SnapshotOk(s) PROVE Keyed(HighTotalTimeQuery(s), "R-Q1")
<1> DEFINE k == [q \in s.queries |-> 
                  Finding("R-Q1", "queries",
                          IF AtLeast(q.total_time_ms, TotalTime(s), T.q1_critical_pct)
                          THEN "CRITICAL" ELSE "HIGH",
                          QueryObject(q), "high")]
<1>1. \A f \in HighTotalTimeQuery(s) : \E q \in s.queries : f = k[q]
  BY DEF HighTotalTimeQuery
<1>2. \A q \in s.queries : k[q].rule = "R-Q1" /\ k[q].object = QueryObject(q)
  BY FindingFields
<1>3. DOMAIN k = s.queries /\ IsFiniteSet(s.queries)
  BY DEF SnapshotOk, QueriesOk
<1> HIDE DEF k
<1>4. \A x, y \in s.queries : k[x].object = k[y].object => x = y
  BY <1>2, QueryKeys
<1> QED
  BY <1>1, <1>2, <1>3, <1>4, RowsMakeKeys

\* R-Q2
LEMMA KeyedQ2 == ASSUME NEW s, SnapshotOk(s) PROVE Keyed(SlowMeanTimeQuery(s), "R-Q2")
<1> DEFINE k == [q \in s.queries |-> 
                  Finding("R-Q2", "queries",
                          IF q.calls >= T.q2_high_calls THEN "HIGH"
                          ELSE IF q.calls >= T.q2_medium_calls THEN "MEDIUM" ELSE "LOW",
                          QueryObject(q), "high")]
<1>1. \A f \in SlowMeanTimeQuery(s) : \E q \in s.queries : f = k[q]
  BY DEF SlowMeanTimeQuery
<1>2. \A q \in s.queries : k[q].rule = "R-Q2" /\ k[q].object = QueryObject(q)
  BY FindingFields
<1>3. DOMAIN k = s.queries /\ IsFiniteSet(s.queries)
  BY DEF SnapshotOk, QueriesOk
<1> HIDE DEF k
<1>4. \A x, y \in s.queries : k[x].object = k[y].object => x = y
  BY <1>2, QueryKeys
<1> QED
  BY <1>1, <1>2, <1>3, <1>4, RowsMakeKeys

\* R-Q3
LEMMA KeyedQ3 == ASSUME NEW s, SnapshotOk(s) PROVE Keyed(HighFrequencyQuery(s), "R-Q3")
<1> DEFINE k == [q \in s.queries |-> 
                  Finding("R-Q3", "queries",
                          IF Rate(q) >= T.q3_high_calls_per_day THEN "HIGH" ELSE "MEDIUM",
                          QueryObject(q), RateConfidence(q))]
<1>1. \A f \in HighFrequencyQuery(s) : \E q \in s.queries : f = k[q]
  BY DEF HighFrequencyQuery
<1>2. \A q \in s.queries : k[q].rule = "R-Q3" /\ k[q].object = QueryObject(q)
  BY FindingFields
<1>3. DOMAIN k = s.queries /\ IsFiniteSet(s.queries)
  BY DEF SnapshotOk, QueriesOk
<1> HIDE DEF k
<1>4. \A x, y \in s.queries : k[x].object = k[y].object => x = y
  BY <1>2, QueryKeys
<1> QED
  BY <1>1, <1>2, <1>3, <1>4, RowsMakeKeys

\* R-I1
LEMMA KeyedI1 == ASSUME NEW s, SnapshotOk(s) PROVE Keyed(MissingIndexCandidate(s), "R-I1")
<1> DEFINE k == [t \in s.tables |-> MissingIndex(t)]
<1>1. \A f \in MissingIndexCandidate(s) : \E t \in s.tables : f = k[t]
  BY DEF MissingIndexCandidate, CandidateTables, ScannedTables
<1>2. \A t \in s.tables : k[t].rule = "R-I1" /\ k[t].object = TableObject(t)
  BY FindingFields DEF MissingIndex
<1>3. DOMAIN k = s.tables /\ IsFiniteSet(s.tables)
  BY DEF SnapshotOk, TablesOk
<1> HIDE DEF k
<1>4. \A x, y \in s.tables : k[x].object = k[y].object => x = y
  BY <1>2, TableKeys
<1> QED
  BY <1>1, <1>2, <1>3, <1>4, RowsMakeKeys

\* R-I2
LEMMA KeyedI2 == ASSUME NEW s, SnapshotOk(s) PROVE Keyed(UnusedIndex(s), "R-I2")
<1> DEFINE k == [i \in s.indexes |-> 
                  Finding("R-I2", "indexes",
                          IF s.meta.engine = "postgres" /\ ~Below(i.size_bytes, T.i2_medium_size_bytes)
                          THEN "MEDIUM" ELSE "LOW",
                          IndexObject(i), "medium")]
<1>1. \A f \in UnusedIndex(s) : \E i \in s.indexes : f = k[i]
  BY DEF UnusedIndex
<1>2. \A i \in s.indexes : k[i].rule = "R-I2" /\ k[i].object = IndexObject(i)
  BY FindingFields
<1>3. DOMAIN k = s.indexes /\ IsFiniteSet(s.indexes)
  BY DEF SnapshotOk, IndexesOk
<1> HIDE DEF k
<1>4. \A x, y \in s.indexes : k[x].object = k[y].object => x = y
  BY <1>2, IndexKeys
<1> QED
  BY <1>1, <1>2, <1>3, <1>4, RowsMakeKeys

\* R-I3
LEMMA KeyedI3 == ASSUME NEW s, SnapshotOk(s) PROVE Keyed(DuplicateIndex(s), "R-I3")
<1> DEFINE k == [i \in s.indexes |-> 
                  Finding("R-I3", "indexes", "MEDIUM", IndexObject(i), "high")]
<1>1. \A f \in DuplicateIndex(s) : \E i \in s.indexes : f = k[i]
  BY DEF DuplicateIndex
<1>2. \A i \in s.indexes : k[i].rule = "R-I3" /\ k[i].object = IndexObject(i)
  BY FindingFields
<1>3. DOMAIN k = s.indexes /\ IsFiniteSet(s.indexes)
  BY DEF SnapshotOk, IndexesOk
<1> HIDE DEF k
<1>4. \A x, y \in s.indexes : k[x].object = k[y].object => x = y
  BY <1>2, IndexKeys
<1> QED
  BY <1>1, <1>2, <1>3, <1>4, RowsMakeKeys

\* R-L1
LEMMA KeyedL1 == ASSUME NEW s, SnapshotOk(s) PROVE Keyed(LockWaitChain(s), "R-L1")
<1> DEFINE k == [lw \in s.lock_waits |->
                  Finding("R-L1", "ops", "HIGH", <<"lock", lw.blocked_digest, lw.row>>, "high")]
<1>1. \A f \in LockWaitChain(s) : \E lw \in s.lock_waits : f = k[lw]
  BY DEF LockWaitChain
<1>2. \A lw \in s.lock_waits :
        k[lw].rule = "R-L1" /\ k[lw].object = <<"lock", lw.blocked_digest, lw.row>>
  BY FindingFields
<1>3. DOMAIN k = s.lock_waits /\ IsFiniteSet(s.lock_waits)
  BY DEF SnapshotOk, LockWaitsOk
<1> HIDE DEF k
<1>4. \A x, y \in s.lock_waits : k[x].object = k[y].object => x = y
  BY <1>2 DEF SnapshotOk, LockWaitsOk
<1> QED
  BY <1>1, <1>2, <1>3, <1>4, RowsMakeKeys

\* R-C1
LEMMA KeyedC1 == ASSUME NEW s PROVE Keyed(ConnectionHeadroom(s), "R-C1")
<1> DEFINE rows == {s.connections}
           k == [c \in rows |->
                  Finding("R-C1", "ops",
                          IF AtLeast(Observed(c), c.max_limit, T.c1_critical_pct)
                          THEN "CRITICAL" ELSE "HIGH",
                          <<"server", "connections">>, IF c.peak # None THEN "high" ELSE "medium")]
<1>1. \A f \in ConnectionHeadroom(s) : \E c \in rows : f = k[c]
  BY DEF ConnectionHeadroom
<1>2. \A c \in rows : k[c].rule = "R-C1"
  BY FindingFields
<1>3. DOMAIN k = rows /\ IsFiniteSet(rows)
  BY FS_Singleton
<1>4. \A x, y \in rows : x = y
  OBVIOUS
<1> HIDE DEF k, rows
<1> QED
  BY <1>1, <1>2, <1>3, <1>4, RowsMakeKeys

\* R-G1
LEMMA KeyedG1 == ASSUME NEW s, SnapshotOk(s) PROVE Keyed(TableGrowthRisk(s), "R-G1")
<1> DEFINE k == [t \in s.tables |-> 
                  Finding("R-G1", "ops", "MEDIUM", TableObject(t), "medium")]
<1>1. \A f \in TableGrowthRisk(s) : \E t \in s.tables : f = k[t]
  BY DEF TableGrowthRisk
<1>2. \A t \in s.tables : k[t].rule = "R-G1" /\ k[t].object = TableObject(t)
  BY FindingFields
<1>3. DOMAIN k = s.tables /\ IsFiniteSet(s.tables)
  BY DEF SnapshotOk, TablesOk
<1> HIDE DEF k
<1>4. \A x, y \in s.tables : k[x].object = k[y].object => x = y
  BY <1>2, TableKeys
<1> QED
  BY <1>1, <1>2, <1>3, <1>4, RowsMakeKeys

\* R-M1
LEMMA KeyedM1 == ASSUME NEW s, SnapshotOk(s) PROVE Keyed(VacuumLag(s), "R-M1")
<1> DEFINE k == [t \in s.tables |-> 
                  Finding("R-M1", "maintenance",
                          IF t.dead_tuple_ratio >= 2 * T.m1_dead_tuple_ratio THEN "HIGH" ELSE "MEDIUM",
                          TableObject(t), "high")]
<1>1. \A f \in VacuumLag(s) : \E t \in s.tables : f = k[t]
  BY DEF VacuumLag, DeadIn
<1>2. \A t \in s.tables : k[t].rule = "R-M1" /\ k[t].object = TableObject(t)
  BY FindingFields
<1>3. DOMAIN k = s.tables /\ IsFiniteSet(s.tables)
  BY DEF SnapshotOk, TablesOk
<1> HIDE DEF k
<1>4. \A x, y \in s.tables : k[x].object = k[y].object => x = y
  BY <1>2, TableKeys
<1> QED
  BY <1>1, <1>2, <1>3, <1>4, RowsMakeKeys

\* R-M3
LEMMA KeyedM3 == ASSUME NEW s, SnapshotOk(s) PROVE Keyed(BloatEstimate(s), "R-M3")
<1> DEFINE k == [t \in s.tables |-> 
                  Finding("R-M3", "maintenance", "LOW", TableObject(t), "low")]
<1>1. \A f \in BloatEstimate(s) : \E t \in s.tables : f = k[t]
  BY DEF BloatEstimate, DeadIn
<1>2. \A t \in s.tables : k[t].rule = "R-M3" /\ k[t].object = TableObject(t)
  BY FindingFields
<1>3. DOMAIN k = s.tables /\ IsFiniteSet(s.tables)
  BY DEF SnapshotOk, TablesOk
<1> HIDE DEF k
<1>4. \A x, y \in s.tables : k[x].object = k[y].object => x = y
  BY <1>2, TableKeys
<1> QED
  BY <1>1, <1>2, <1>3, <1>4, RowsMakeKeys

\* R-M4
LEMMA KeyedM4 == ASSUME NEW s, SnapshotOk(s) PROVE Keyed(InnodbFragmentation(s), "R-M4")
<1> DEFINE k == [t \in s.tables |-> 
                  Finding("R-M4", "maintenance", "MEDIUM", TableObject(t), "medium")]
<1>1. \A f \in InnodbFragmentation(s) : \E t \in s.tables : f = k[t]
  BY DEF InnodbFragmentation
<1>2. \A t \in s.tables : k[t].rule = "R-M4" /\ k[t].object = TableObject(t)
  BY FindingFields
<1>3. DOMAIN k = s.tables /\ IsFiniteSet(s.tables)
  BY DEF SnapshotOk, TablesOk
<1> HIDE DEF k
<1>4. \A x, y \in s.tables : k[x].object = k[y].object => x = y
  BY <1>2, TableKeys
<1> QED
  BY <1>1, <1>2, <1>3, <1>4, RowsMakeKeys

\* Two sets of findings of one rule, for different objects
LEMMA KeyedUnion ==
    ASSUME NEW rule, NEW A, Keyed(A, rule), NEW B, Keyed(B, rule),
           \A f \in A, g \in B : f.object # g.object
    PROVE  Keyed(A \cup B, rule)
BY FS_Union DEF Keyed

\* R-M2: a setting, and tables
LEMMA KeyedM2 == ASSUME NEW s, SnapshotOk(s) PROVE Keyed(AutovacuumNotRunning(s), "R-M2")
<1> DEFINE off == Finding("R-M2", "maintenance", "HIGH", <<"setting", "autovacuum">>, "high")
           A == IF Value(s, "autovacuum") = "off" THEN {off} ELSE {}
           B == {Finding("R-M2", "maintenance", "MEDIUM", TableObject(t), "high") :
                   t \in {t \in DeadIn(s, T.m2_dead_tuple_ratio, T.m2_min_size_bytes) :
                            t.last_autovacuum = None}}
           k == [t \in s.tables |-> Finding("R-M2", "maintenance", "MEDIUM", TableObject(t), "high")]
<1>1. AutovacuumNotRunning(s) = A \cup B
  BY DEF AutovacuumNotRunning
<1>2. off.rule = "R-M2" /\ off.object = <<"setting", "autovacuum">>
  BY FindingFields
<1>3. Keyed(A, "R-M2")
  <2>1. IsFiniteSet(A) /\ \A f \in A : f = off
    BY FS_EmptySet, FS_Singleton
  <2> HIDE DEF A, off
  <2> QED
    BY <1>2, <2>1 DEF Keyed
<1>4. \A f \in B : \E t \in s.tables : f = k[t]
  BY DEF DeadIn
<1>5. \A t \in s.tables : k[t].rule = "R-M2" /\ k[t].object = TableObject(t)
  BY FindingFields
<1>6. DOMAIN k = s.tables /\ IsFiniteSet(s.tables)
  BY DEF SnapshotOk, TablesOk
<1>7. \A f \in A : f.object[1] = "setting"
  BY <1>2
<1> HIDE DEF k, A, B
<1>8. \A x, y \in s.tables : k[x].object = k[y].object => x = y
  BY <1>5, TableKeys
<1>9. Keyed(B, "R-M2")
  BY <1>4, <1>5, <1>6, <1>8, RowsMakeKeys
<1>10. \A f \in B : f.object[1] = "table"
  BY <1>4, <1>5 DEF TableObject
<1>11. \A f \in A, g \in B : f.object # g.object
  BY <1>7, <1>10
<1> QED
  BY <1>1, <1>3, <1>9, <1>11, KeyedUnion

\* Sets of ten
LEMMA TenIsFinite ==
    ASSUME NEW a, NEW b, NEW c, NEW d, NEW e, NEW f, NEW g, NEW h, NEW i, NEW j
    PROVE  IsFiniteSet({a, b, c, d, e, f, g, h, i, j})
<1>1. IsFiniteSet({a})
  BY FS_Singleton
<1>2. \A S, x : IsFiniteSet(S) => IsFiniteSet(S \cup {x})
  BY FS_AddElement
<1>3. IsFiniteSet({a, b})
  <2>1. {a, b} = {a} \cup {b}
    OBVIOUS
  <2> QED
    BY <1>1, <1>2, <2>1
<1>4. IsFiniteSet({a, b, c})
  <2>1. {a, b, c} = {a, b} \cup {c}
    OBVIOUS
  <2> QED
    BY <1>3, <1>2, <2>1
<1>5. IsFiniteSet({a, b, c, d})
  <2>1. {a, b, c, d} = {a, b, c} \cup {d}
    OBVIOUS
  <2> QED
    BY <1>4, <1>2, <2>1
<1>6. IsFiniteSet({a, b, c, d, e})
  <2>1. {a, b, c, d, e} = {a, b, c, d} \cup {e}
    OBVIOUS
  <2> QED
    BY <1>5, <1>2, <2>1
<1>7. IsFiniteSet({a, b, c, d, e, f})
  <2>1. {a, b, c, d, e, f} = {a, b, c, d, e} \cup {f}
    OBVIOUS
  <2> QED
    BY <1>6, <1>2, <2>1
<1>8. IsFiniteSet({a, b, c, d, e, f, g})
  <2>1. {a, b, c, d, e, f, g} = {a, b, c, d, e, f} \cup {g}
    OBVIOUS
  <2> QED
    BY <1>7, <1>2, <2>1
<1>9. IsFiniteSet({a, b, c, d, e, f, g, h})
  <2>1. {a, b, c, d, e, f, g, h} = {a, b, c, d, e, f, g} \cup {h}
    OBVIOUS
  <2> QED
    BY <1>8, <1>2, <2>1
<1>10. IsFiniteSet({a, b, c, d, e, f, g, h, i})
  <2>1. {a, b, c, d, e, f, g, h, i} = {a, b, c, d, e, f, g, h} \cup {i}
    OBVIOUS
  <2> QED
    BY <1>9, <1>2, <2>1
<1>11. IsFiniteSet({a, b, c, d, e, f, g, h, i, j})
  <2>1. {a, b, c, d, e, f, g, h, i, j} = {a, b, c, d, e, f, g, h, i} \cup {j}
    OBVIOUS
  <2> QED
    BY <1>10, <1>2, <2>1
<1> QED
  BY <1>11

\* R-CFG-PG
LEMMA KeyedPg == ASSUME NEW s PROVE Keyed(ConfigFindings("R-CFG-PG", PgChecks(s)), "R-CFG-PG")
<1> DEFINE rows == {<<"shared_buffers", "LOW">>,
                    <<"work_mem", "MEDIUM">>,
                    <<"effective_cache_size", "INFO">>,
                    <<"autovacuum", "HIGH">>,
                    <<"autovacuum_vacuum_scale_factor", "MEDIUM">>,
                    <<"wal_buffers", "LOW">>,
                    <<"random_page_cost", "INFO">>,
                    <<"max_connections", "LOW">>,
                    <<"checkpoint_completion_target", "INFO">>,
                    <<"track_io_timing", "INFO">>}
           k == [c \in rows |-> Setting("R-CFG-PG", c[1], c[2])]
<1>1. \A f \in ConfigFindings("R-CFG-PG", PgChecks(s)) : \E c \in rows : f = k[c]
  <2> SUFFICES ASSUME NEW f, PgFired(s, f) PROVE \E c \in rows : f = k[c]
    BY PgFindings
  <2> QED
    BY DEF PgFired
<1>2. \A c \in rows : k[c].rule = "R-CFG-PG" /\ k[c].object = <<"setting", c[1]>>
  BY FindingFields DEF Setting
<1>3. DOMAIN k = rows /\ IsFiniteSet(rows)
  BY TenIsFinite
<1>4. \A x, y \in rows : x[1] = y[1] => x = y
  OBVIOUS
<1> HIDE DEF k, rows
<1>5. \A x, y \in rows : k[x].object = k[y].object => x = y
  BY <1>2, <1>4
<1> QED
  BY <1>1, <1>2, <1>3, <1>5, RowsMakeKeys

\* R-CFG-MY
LEMMA KeyedMy == ASSUME NEW s PROVE Keyed(ConfigFindings("R-CFG-MY", MyChecks(s)), "R-CFG-MY")
<1> DEFINE rows == {<<"innodb_buffer_pool_size", "HIGH">>,
                    <<"innodb_log_file_size", "LOW">>,
                    <<"tmp_table_size", "LOW">>,
                    <<"table_open_cache", "MEDIUM">>,
                    <<"thread_cache_size", "LOW">>,
                    <<"max_connections", "INFO">>,
                    <<"sync_binlog_and_innodb_flush_log_at_trx_commit", "INFO">>,
                    <<"query_cache_type", "MEDIUM">>,
                    <<"slow_query_log", "INFO">>,
                    <<"performance_schema", "LOW">>}
           k == [c \in rows |-> Setting("R-CFG-MY", c[1], c[2])]
<1>1. \A f \in ConfigFindings("R-CFG-MY", MyChecks(s)) : \E c \in rows : f = k[c]
  <2> SUFFICES ASSUME NEW f, MyFired(s, f) PROVE \E c \in rows : f = k[c]
    BY MyFindings
  <2> QED
    BY DEF MyFired
<1>2. \A c \in rows : k[c].rule = "R-CFG-MY" /\ k[c].object = <<"setting", c[1]>>
  BY FindingFields DEF Setting
<1>3. DOMAIN k = rows /\ IsFiniteSet(rows)
  BY TenIsFinite
<1>4. \A x, y \in rows : x[1] = y[1] => x = y
  OBVIOUS
<1> HIDE DEF k, rows
<1>5. \A x, y \in rows : k[x].object = k[y].object => x = y
  BY <1>2, <1>4
<1> QED
  BY <1>1, <1>2, <1>3, <1>5, RowsMakeKeys

\* In what run_all finds, rule and object name the finding: no two findings of a
\* snapshot are about the same thing
THEOREM FindingsHaveKeys ==
    ASSUME NEW s, SnapshotOk(s)
    PROVE  /\ IsFiniteSet(RunAll(s))
           /\ \A f, g \in RunAll(s) : f.rule = g.rule /\ f.object = g.object => f = g
<1>1. /\ Keyed(HighTotalTimeQuery(s), "R-Q1") /\ Keyed(SlowMeanTimeQuery(s), "R-Q2")
      /\ Keyed(HighFrequencyQuery(s), "R-Q3") /\ Keyed(MissingIndexCandidate(s), "R-I1")
      /\ Keyed(UnusedIndex(s), "R-I2") /\ Keyed(DuplicateIndex(s), "R-I3")
      /\ Keyed(LockWaitChain(s), "R-L1") /\ Keyed(ConnectionHeadroom(s), "R-C1")
      /\ Keyed(TableGrowthRisk(s), "R-G1")
  BY KeyedQ1, KeyedQ2, KeyedQ3, KeyedI1, KeyedI2, KeyedI3, KeyedL1, KeyedC1, KeyedG1
<1>2. /\ Keyed(VacuumLag(s), "R-M1") /\ Keyed(AutovacuumNotRunning(s), "R-M2")
      /\ Keyed(BloatEstimate(s), "R-M3") /\ Keyed(InnodbFragmentation(s), "R-M4")
      /\ Keyed(ConfigFindings("R-CFG-PG", PgChecks(s)), "R-CFG-PG")
      /\ Keyed(ConfigFindings("R-CFG-MY", MyChecks(s)), "R-CFG-MY")
  BY KeyedM1, KeyedM2, KeyedM3, KeyedM4, KeyedPg, KeyedMy
<1>3. IsFiniteSet(EveryEngine(s))
  BY <1>1, FS_Union DEF EveryEngine, Keyed
<1>4. IsFiniteSet(PgOnly(s)) /\ IsFiniteSet(MySQLOnly(s))
  BY <1>2, FS_Union DEF PgOnly, MySQLOnly, Keyed
<1>5. IsFiniteSet(RunAll(s))
  BY <1>3, <1>4, FS_Union DEF RunAll
<1>6. \A f, g \in EveryEngine(s) : f.rule = g.rule /\ f.object = g.object => f = g
  BY <1>1 DEF EveryEngine, Keyed
<1>7. \A f \in EveryEngine(s) :
        f.rule \in {"R-Q1", "R-Q2", "R-Q3", "R-I1", "R-I2", "R-I3", "R-L1", "R-C1", "R-G1"}
  BY <1>1 DEF EveryEngine, Keyed
<1>8. \A f, g \in PgOnly(s) : f.rule = g.rule /\ f.object = g.object => f = g
  BY <1>2 DEF PgOnly, Keyed
<1>9. \A f, g \in MySQLOnly(s) : f.rule = g.rule /\ f.object = g.object => f = g
  BY <1>2 DEF MySQLOnly, Keyed
<1>10. \A f \in PgOnly(s) \cup MySQLOnly(s) :
         f.rule \in {"R-M1", "R-M2", "R-M3", "R-M4", "R-CFG-PG", "R-CFG-MY"}
  BY <1>2 DEF PgOnly, MySQLOnly, Keyed
<1> QED
  BY <1>5, <1>6, <1>7, <1>8, <1>9, <1>10 DEF RunAll

-----------------------------------------------------------------------------
(* Worse is no better                                                      *)

\* A measurement that rose, or stayed
NoLess(new, old) == old # None => new # None /\ new >= old

\* What may be different of a row of a worse server
WorseStatement(q, p) ==
    /\ q.row = p.row /\ q.query_digest = p.query_digest /\ q.kind = p.kind
    /\ q.from = p.from /\ q.filters = p.filters /\ q.calls = p.calls
    /\ q.total_time_ms = p.total_time_ms /\ q.mean_time_ms = p.mean_time_ms
    /\ q.rows_returned = p.rows_returned /\ q.rows_examined = p.rows_examined
    /\ q.full_scan_flag = p.full_scan_flag /\ Rate(q) >= Rate(p)

WorseTableRow(u, t, engine) ==
    /\ u.schema_name = t.schema_name /\ u.name = t.name
    /\ u.size_bytes = t.size_bytes \/ (engine = "postgres" /\ u.size_bytes >= t.size_bytes)
    /\ NoLess(u.seq_scans, t.seq_scans) /\ NoLess(u.dead_tuple_ratio, t.dead_tuple_ratio)
    /\ NoLess(u.data_free_bytes, t.data_free_bytes)
    /\ NoLess(u.growth_30d_pct, t.growth_30d_pct)
    /\ u.last_autovacuum \in {t.last_autovacuum, None}

WorseIndexRow(j, i) ==
    /\ j.table = i.table /\ j.name = i.name /\ j.columns = i.columns
    /\ j.size_bytes = i.size_bytes /\ j.is_primary = i.is_primary /\ j.is_unique = i.is_unique
    /\ j.scans \in {i.scans, 0}
    /\ i.is_unused_candidate = TRUE => j.is_unused_candidate = TRUE
    /\ i.is_duplicate_candidate = TRUE => j.is_duplicate_candidate = TRUE

\* Lists of the same rows
WorseQueries(new, old) ==
    /\ \A p \in old : \E q \in new : WorseStatement(q, p)
    /\ \A q \in new : \E p \in old : WorseStatement(q, p)
WorseTables(new, old, engine) == \A t \in old : \E u \in new : WorseTableRow(u, t, engine)
WorseIndexes(new, old) ==
    /\ \A i \in old : \E j \in new : WorseIndexRow(j, i)
    /\ \A j \in new : \E i \in old : WorseIndexRow(j, i)
WorseLockWaits(new, old) ==
    \A lw \in old : \E other \in new :
      /\ other.row = lw.row /\ other.blocked_digest = lw.blocked_digest
      /\ other.wait_ms >= lw.wait_ms
WorseConnections(new, old) ==
    \/ new = old
    \/ /\ new # None /\ old # None
       /\ new.max_limit = old.max_limit /\ Observed(new) >= Observed(old)

\* r is s on a server that is as bad or worse, whatever its settings
AsBad(r, s) ==
    /\ r.meta.engine = s.meta.engine
    /\ NoLess(r.meta.db_size_bytes, s.meta.db_size_bytes)
    /\ WorseQueries(r.queries, s.queries)
    /\ WorseTables(r.tables, s.tables, s.meta.engine)
    /\ WorseIndexes(r.indexes, s.indexes)
    /\ WorseLockWaits(r.lock_waits, s.lock_waits)
    /\ WorseConnections(r.connections, s.connections)

\* Every row is as bad as it is
LEMMA AsBadAsItIs ==
    ASSUME NEW s, SnapshotOk(s)
    PROVE  /\ NoLess(s.meta.db_size_bytes, s.meta.db_size_bytes)
           /\ WorseQueries(s.queries, s.queries)
           /\ WorseTables(s.tables, s.tables, s.meta.engine)
           /\ WorseIndexes(s.indexes, s.indexes)
           /\ WorseLockWaits(s.lock_waits, s.lock_waits)
           /\ WorseConnections(s.connections, s.connections)
           /\ \A q \in s.queries : WorseStatement(q, q)
           /\ \A t \in s.tables : WorseTableRow(t, t, s.meta.engine)
           /\ \A i \in s.indexes : WorseIndexRow(i, i)
<1>1. NoLess(s.meta.db_size_bytes, s.meta.db_size_bytes)
  BY DEF NoLess, SnapshotOk, SnapshotMeta, Nullable
<1>2. \A q \in s.queries : WorseStatement(q, q)
  BY DEF SnapshotOk, QueriesOk, QueryStat, Nullable, WorseStatement, Rate
<1>3. \A t \in s.tables : WorseTableRow(t, t, s.meta.engine)
  BY DEF SnapshotOk, TablesOk, TableStat, Nullable, WorseTableRow, NoLess
<1>4. \A i \in s.indexes : WorseIndexRow(i, i)
  BY DEF WorseIndexRow
<1>5. WorseLockWaits(s.lock_waits, s.lock_waits)
  BY DEF SnapshotOk, LockWaitsOk, LockWait, WorseLockWaits
<1>6. WorseConnections(s.connections, s.connections)
  BY DEF WorseConnections
<1>7. WorseQueries(s.queries, s.queries)
  BY <1>2 DEF WorseQueries
<1>8. WorseTables(s.tables, s.tables, s.meta.engine)
  BY <1>3 DEF WorseTables
<1>9. WorseIndexes(s.indexes, s.indexes)
  BY <1>4 DEF WorseIndexes
<1> QED
  BY <1>1, <1>2, <1>3, <1>4, <1>5, <1>6, <1>7, <1>8, <1>9

\* A table that got worse
LEMMA WorseTableIsWorse ==
    ASSUME NEW t \in TableStat,
           NEW worse \in {[t EXCEPT !.last_autovacuum = None]}
                         \cup UNION {Raised(t, field) : field \in TableMeasures}
    PROVE  WorseTableRow(worse, t, snapshot.meta.engine)
<1>1. CASE worse = [t EXCEPT !.last_autovacuum = None]
  BY <1>1 DEF TableStat, Nullable, WorseTableRow, NoLess
<1>2. ASSUME NEW field \in TableMeasures, worse \in Raised(t, field)
      PROVE  WorseTableRow(worse, t, snapshot.meta.engine)
  <2>1. /\ field \in {"dead_tuple_ratio", "seq_scans", "growth_30d_pct", "data_free_bytes",
                      "size_bytes"}
        /\ field = "size_bytes" => snapshot.meta.engine = "postgres"
    BY DEF TableMeasures, IsPostgres
  <2>2. PICK v \in IF field = "dead_tuple_ratio" THEN 0..100 ELSE Nat :
           t[field] # None /\ v > t[field] /\ worse = [t EXCEPT ![field] = v]
    BY <1>2, RaisedValue
  <2>3. v # None
    BY <2>2, NullIsNoValue
  <2>4. CASE field = "size_bytes"
    BY <2>1, <2>2, <2>4 DEF TableStat, Nullable, WorseTableRow, NoLess
  <2>5. CASE field \in {"dead_tuple_ratio", "seq_scans", "growth_30d_pct", "data_free_bytes"}
    BY <2>2, <2>3, <2>5 DEF TableStat, Nullable, WorseTableRow, NoLess
  <2> QED
    BY <2>1, <2>4, <2>5
<1> QED
  BY <1>1, <1>2

\* One worse row among the others
LEMMA WorseRow ==
    ASSUME NEW s, SnapshotOk(s)
    PROVE  /\ \A p \in s.queries : \A q : WorseStatement(q, p) =>
                WorseQueries(Replaced(s.queries, p, q), s.queries)
           /\ \A t \in s.tables : \A u : WorseTableRow(u, t, s.meta.engine) =>
                WorseTables(Replaced(s.tables, t, u), s.tables, s.meta.engine)
           /\ \A i \in s.indexes : \A j : WorseIndexRow(j, i) =>
                WorseIndexes(Replaced(s.indexes, i, j), s.indexes)
<1>1. ASSUME NEW p \in s.queries, NEW q, WorseStatement(q, p)
      PROVE  WorseQueries(Replaced(s.queries, p, q), s.queries)
  BY <1>1, AsBadAsItIs DEF WorseQueries, Replaced
<1>2. ASSUME NEW t \in s.tables, NEW u, WorseTableRow(u, t, s.meta.engine)
      PROVE  WorseTables(Replaced(s.tables, t, u), s.tables, s.meta.engine)
  BY <1>2, AsBadAsItIs DEF WorseTables, Replaced
<1>3. ASSUME NEW i \in s.indexes, NEW j, WorseIndexRow(j, i)
      PROVE  WorseIndexes(Replaced(s.indexes, i, j), s.indexes)
  BY <1>3, AsBadAsItIs DEF WorseIndexes, Replaced
<1> QED
  BY <1>1, <1>2, <1>3

\* A server that got worse, in a measurement or in a setting, is as bad as it was
LEMMA WorseIsAsBad ==
    ASSUME SnapshotOk(snapshot), Worsen
    PROVE  AsBad(snapshot', snapshot)
<1> DEFINE s == snapshot
           r == snapshot'
<1>1. CASE TableWorsens
  <2>1. PICK t \in s.tables :
          \E worse \in {[t EXCEPT !.last_autovacuum = None]}
                       \cup UNION {Raised(t, field) : field \in TableMeasures} :
            r = [snapshot EXCEPT !.tables = Replaced(@, t, worse)]
    BY <1>1 DEF TableWorsens, Change
  <2>2. t \in TableStat
    BY DEF SnapshotOk, TablesOk
  <2>3. PICK worse : /\ WorseTableRow(worse, t, s.meta.engine)
                     /\ r = [snapshot EXCEPT !.tables = Replaced(@, t, worse)]
    BY <2>1, <2>2, WorseTableIsWorse
  <2>4. /\ r.tables = Replaced(s.tables, t, worse)
        /\ r.meta = s.meta /\ r.queries = s.queries /\ r.indexes = s.indexes
        /\ r.lock_waits = s.lock_waits /\ r.connections = s.connections
    BY <2>3 DEF SnapshotOk
  <2>5. WorseTables(r.tables, s.tables, s.meta.engine)
    BY <2>3, <2>4, WorseRow
  <2> QED
    BY <2>4, <2>5, AsBadAsItIs DEF AsBad
<1>2. CASE IndexWorsens
  <2>1. PICK i \in s.indexes :
          \E worse \in {[i EXCEPT !.scans = 0], [i EXCEPT !.is_unused_candidate = TRUE],
                        [i EXCEPT !.is_duplicate_candidate = TRUE]} :
            r = [snapshot EXCEPT !.indexes = Replaced(@, i, worse)]
    BY <1>2 DEF IndexWorsens, Change
  <2>2. i \in IndexStat
    BY DEF SnapshotOk, IndexesOk
  <2>3. PICK worse : /\ WorseIndexRow(worse, i)
                     /\ r = [snapshot EXCEPT !.indexes = Replaced(@, i, worse)]
    BY <2>1, <2>2 DEF IndexStat, WorseIndexRow
  <2>4. /\ r.indexes = Replaced(s.indexes, i, worse)
        /\ r.meta = s.meta /\ r.queries = s.queries /\ r.tables = s.tables
        /\ r.lock_waits = s.lock_waits /\ r.connections = s.connections
    BY <2>3 DEF SnapshotOk
  <2>5. WorseIndexes(r.indexes, s.indexes)
    BY <2>3, <2>4, WorseRow
  <2> QED
    BY <2>4, <2>5, AsBadAsItIs DEF AsBad
<1>3. CASE CallsRise
  <2>1. PICK q \in s.queries : \E worse \in Raised(q, "calls_per_day") :
            r = [snapshot EXCEPT !.queries = Replaced(@, q, worse)]
    BY <1>3 DEF CallsRise, Change
  <2>2. PICK v \in Nat :
          /\ q.calls_per_day # None /\ v > q.calls_per_day
          /\ r = [snapshot EXCEPT !.queries = Replaced(@, q, [q EXCEPT !.calls_per_day = v])]
    BY <2>1, RaisedValue
  <2>3. q \in QueryStat /\ v # None
    BY NullIsNoValue DEF SnapshotOk, QueriesOk
  <2>4. WorseStatement([q EXCEPT !.calls_per_day = v], q)
    BY <2>2, <2>3 DEF QueryStat, Nullable, WorseStatement, Rate
  <2>5. /\ r.queries = Replaced(s.queries, q, [q EXCEPT !.calls_per_day = v])
        /\ r.meta = s.meta /\ r.tables = s.tables /\ r.indexes = s.indexes
        /\ r.lock_waits = s.lock_waits /\ r.connections = s.connections
    BY <2>2 DEF SnapshotOk
  <2>6. WorseQueries(r.queries, s.queries)
    BY <2>4, <2>5, WorseRow
  <2> QED
    BY <2>5, <2>6, AsBadAsItIs DEF AsBad
<1>4. CASE LockWaitsGrow
  <2>1. PICK lw \in s.lock_waits : \E worse \in Raised(lw, "wait_ms") :
            r = [snapshot EXCEPT !.lock_waits = Replaced(@, lw, worse)]
    BY <1>4 DEF LockWaitsGrow, Change
  <2>2. PICK v \in Nat :
          /\ v > lw.wait_ms
          /\ r = [snapshot EXCEPT !.lock_waits = Replaced(@, lw, [lw EXCEPT !.wait_ms = v])]
    BY <2>1, RaisedValue
  <2>3. /\ r.lock_waits = Replaced(s.lock_waits, lw, [lw EXCEPT !.wait_ms = v])
        /\ r.meta = s.meta /\ r.queries = s.queries /\ r.tables = s.tables
        /\ r.indexes = s.indexes /\ r.connections = s.connections
    BY <2>2 DEF SnapshotOk
  <2>4. \A other \in s.lock_waits : other \in LockWait
    BY DEF SnapshotOk, LockWaitsOk
  <2>5. \A old \in s.lock_waits : \E new \in r.lock_waits :
          new.row = old.row /\ new.blocked_digest = old.blocked_digest /\ new.wait_ms >= old.wait_ms
    <3> TAKE old \in s.lock_waits
    <3> DEFINE grown == [lw EXCEPT !.wait_ms = v]
    <3>1. CASE old = lw
      <4>1. grown \in r.lock_waits
        BY <2>3 DEF Replaced
      <4>2. grown.row = lw.row /\ grown.blocked_digest = lw.blocked_digest /\ grown.wait_ms = v
        BY <2>4 DEF LockWait
      <4>3. v >= lw.wait_ms
        BY <2>2, <2>4 DEF LockWait
      <4> HIDE DEF grown
      <4> QED
        BY <3>1, <4>1, <4>2, <4>3
    <3>2. CASE old # lw
      <4>1. old \in r.lock_waits
        BY <2>3, <3>2 DEF Replaced
      <4>2. old.wait_ms \in Nat
        BY <2>4 DEF LockWait
      <4> QED
        BY <4>1, <4>2
    <3> QED
      BY <3>1, <3>2
  <2>6. WorseLockWaits(r.lock_waits, s.lock_waits)
    BY <2>5 DEF WorseLockWaits
  <2> QED
    BY <2>3, <2>6, AsBadAsItIs DEF AsBad
<1>5. CASE ConnectionsGrow
  <2>1. PICK worse \in Raised(s.connections, "current") :
          r = [snapshot EXCEPT !.connections =
                 IF worse.peak = None THEN worse
                 ELSE [worse EXCEPT !.peak = Max({@, worse.current})]]
    BY <1>5 DEF ConnectionsGrow, Change
  <2>2. s.connections \in ConnectionInfo
    BY <1>5 DEF ConnectionsGrow, SnapshotOk, Nullable
  <2>3. PICK v \in Nat : /\ v > s.connections.current
                         /\ worse = [s.connections EXCEPT !.current = v]
    BY <2>1, RaisedValue
  <2>4. /\ worse \in ConnectionInfo /\ worse.max_limit = s.connections.max_limit
        /\ worse.peak = s.connections.peak /\ worse.current >= s.connections.current
    BY <2>2, <2>3 DEF ConnectionInfo
  <2>5. /\ r.connections = IF worse.peak = None THEN worse
                           ELSE [worse EXCEPT !.peak = Max({@, worse.current})]
        /\ r.meta = s.meta /\ r.queries = s.queries /\ r.tables = s.tables
        /\ r.indexes = s.indexes /\ r.lock_waits = s.lock_waits
    BY <2>1 DEF SnapshotOk
  <2>6. r.connections # None
    <3>1. CASE worse.peak = None
      BY <2>4, <2>5, <3>1, NoConnectionsAssumption
    <3>2. CASE worse.peak # None
      <4>1. Max({worse.peak, worse.current}) \in Nat
        BY <2>4, <3>2, LargerOfTwo DEF ConnectionInfo, Nullable
      <4>2. r.connections \in ConnectionInfo
        BY <2>4, <2>5, <3>2, <4>1 DEF ConnectionInfo, Nullable
      <4> QED
        BY <4>2, NoConnectionsAssumption
    <3> QED
      BY <3>1, <3>2
  <2>7. WorseConnections(r.connections, s.connections)
    <3>1. CASE worse.peak = None
      BY <1>5, <2>4, <2>5, <2>6, <3>1 DEF WorseConnections, ConnectionsGrow, Observed
    <3>2. CASE worse.peak # None
      <4>1. worse.peak \in Nat /\ worse.current \in Nat
        BY <2>4, <3>2 DEF ConnectionInfo, Nullable
      <4>2. /\ Max({worse.peak, worse.current}) \in Nat
            /\ Max({worse.peak, worse.current}) >= worse.peak
        BY <4>1, LargerOfTwo
      <4>3. Max({worse.peak, worse.current}) # None
        BY <4>2, NullIsNoValue
      <4>4. /\ r.connections.peak = Max({worse.peak, worse.current})
            /\ r.connections.max_limit = s.connections.max_limit
        BY <2>4, <2>5, <3>2 DEF ConnectionInfo
      <4> QED
        BY <1>5, <2>4, <2>6, <3>2, <4>2, <4>3, <4>4 DEF WorseConnections, ConnectionsGrow, Observed
    <3> QED
      BY <3>1, <3>2
  <2> QED
    BY <2>5, <2>7, AsBadAsItIs DEF AsBad
<1>6. CASE DatabaseGrows
  <2>1. PICK worse \in Raised(s.meta, "db_size_bytes") : r = [snapshot EXCEPT !.meta = worse]
    BY <1>6 DEF DatabaseGrows, Change
  <2>2. PICK v \in Nat : /\ v > s.meta.db_size_bytes
                         /\ worse = [s.meta EXCEPT !.db_size_bytes = v]
    BY <2>1, RaisedValue
  <2>3. r.meta = worse /\ r.queries = s.queries /\ r.tables = s.tables /\ r.indexes = s.indexes
      /\ r.lock_waits = s.lock_waits /\ r.connections = s.connections
    BY <2>1 DEF SnapshotOk
  <2>4. /\ worse.engine = s.meta.engine
        /\ NoLess(worse.db_size_bytes, s.meta.db_size_bytes)
    BY <2>2, NullIsNoValue DEF SnapshotOk, SnapshotMeta, NoLess, Nullable
  <2> QED
    BY <2>3, <2>4, AsBadAsItIs DEF AsBad
<1>7. CASE SettingLoosens
  <2>1. /\ r.meta = s.meta /\ r.queries = s.queries /\ r.tables = s.tables
        /\ r.indexes = s.indexes /\ r.lock_waits = s.lock_waits
        /\ r.connections = s.connections
    BY <1>7 DEF SettingLoosens, Change, SnapshotOk
  <2> QED
    BY <2>1, AsBadAsItIs DEF AsBad
<1> QED
  BY <1>1, <1>2, <1>3, <1>4, <1>5, <1>6, <1>7 DEF Worsen

-----------------------------------------------------------------------------
(* Every finding of a server has one of a worse server to outdo it         *)

\* g is about the same as f, and costs no less
Outdoes(g, f) ==
    /\ g.rule = f.rule /\ g.object = f.object /\ g.category = f.category
    /\ Deduction[f.severity] <= Deduction[g.severity]

Outdone(F, G) == \A f \in F : \E g \in G : Outdoes(g, f)

\* A finding outdoes itself, and one that is less severe
LEMMA SeverityOutdoes ==
    ASSUME NEW rule, NEW category, NEW object, NEW confidence, NEW other,
           NEW new \in Severities, NEW old \in Severities, Deduction[old] <= Deduction[new]
    PROVE  Outdoes(Finding(rule, category, new, object, confidence),
                   Finding(rule, category, old, object, other))
BY FindingFields DEF Outdoes

\* The order of the severities, by the points they cost
LEMMA SeverityIsNoWorse ==
    /\ \A severity \in Severities : Deduction[severity] <= Deduction[severity]
    /\ Deduction["HIGH"] <= Deduction["CRITICAL"]
    /\ Deduction["MEDIUM"] <= Deduction["HIGH"]
    /\ {"CRITICAL", "HIGH", "MEDIUM", "LOW", "INFO"} = Severities
BY DEF Deduction, Severities

\* A finding that is still made is not outdone by less
LEMMA StaysFound ==
    ASSUME NEW rule, NEW category, NEW severity \in Severities, NEW object, NEW confidence,
           NEW G, Finding(rule, category, severity, object, confidence) \in G
    PROVE  \E g \in G : Outdoes(g, Finding(rule, category, severity, object, confidence))
BY SeverityOutdoes, SeverityIsNoWorse

\* Sets of findings are outdone part by part
LEMMA OutdoneTogether ==
    ASSUME NEW A, NEW B, NEW C, NEW D, Outdone(A, B), Outdone(C, D)
    PROVE  Outdone(A \cup C, B \cup D)
BY DEF Outdone

\* R-Q1: the time of all statements is the same
LEMMA WorseQ1 ==
    ASSUME NEW s, SnapshotOk(s), NEW r, SnapshotOk(r), AsBad(r, s)
    PROVE  Outdone(HighTotalTimeQuery(s), HighTotalTimeQuery(r))
<1> DEFINE Severe(time, total) ==
             IF AtLeast(time, total, T.q1_critical_pct) THEN "CRITICAL" ELSE "HIGH"
<1>1. TotalTime(r) = TotalTime(s)
  <2>1. /\ \A p \in s.queries : \E q \in r.queries :
             q.row = p.row /\ p.total_time_ms <= q.total_time_ms
        /\ \A q \in r.queries : \E p \in s.queries :
             p.row = q.row /\ q.total_time_ms <= p.total_time_ms
    BY DEF AsBad, WorseQueries, WorseStatement, SnapshotOk, QueriesOk, QueryStat
  <2>2. QueriesOk(s.queries) /\ QueriesOk(r.queries)
    BY DEF SnapshotOk
  <2>3. TotalTime(s) <= TotalTime(r) /\ TotalTime(r) <= TotalTime(s)
    BY <2>1, <2>2, TotalsCompare
  <2>4. TotalTime(s) \in Nat /\ TotalTime(r) \in Nat
    BY <2>2, TotalIsNat
  <2> QED
    BY <2>3, <2>4
<1>2. ASSUME NEW f \in HighTotalTimeQuery(s)
      PROVE  \E g \in HighTotalTimeQuery(r) : Outdoes(g, f)
  <2>1. PICK p \in s.queries :
          /\ TotalTime(s) > 0 /\ AtLeast(p.total_time_ms, TotalTime(s), T.q1_pct_of_db_time)
          /\ f = Finding("R-Q1", "queries", Severe(p.total_time_ms, TotalTime(s)),
                         QueryObject(p), "high")
    BY <1>2 DEF HighTotalTimeQuery
  <2>2. PICK q \in r.queries : WorseStatement(q, p)
    BY DEF AsBad, WorseQueries
  <2>3. q.total_time_ms = p.total_time_ms /\ QueryObject(q) = QueryObject(p)
    BY <2>2 DEF WorseStatement, QueryObject
  <2>4. f \in HighTotalTimeQuery(r)
    BY <1>1, <2>1, <2>3 DEF HighTotalTimeQuery
  <2>5. Severe(p.total_time_ms, TotalTime(s)) \in Severities
    BY DEF Severities
  <2> HIDE DEF Severe
  <2> QED
    BY <2>1, <2>4, <2>5, StaysFound
<1> QED
  BY <1>2 DEF Outdone

\* R-Q2
LEMMA WorseQ2 ==
    ASSUME NEW s, SnapshotOk(s), NEW r, SnapshotOk(r), AsBad(r, s)
    PROVE  Outdone(SlowMeanTimeQuery(s), SlowMeanTimeQuery(r))
<1> DEFINE Severe(calls) == IF calls >= T.q2_high_calls THEN "HIGH"
                            ELSE IF calls >= T.q2_medium_calls THEN "MEDIUM" ELSE "LOW"
<1>1. ASSUME NEW f \in SlowMeanTimeQuery(s)
      PROVE  \E g \in SlowMeanTimeQuery(r) : Outdoes(g, f)
  <2>1. PICK p \in s.queries :
          /\ p.mean_time_ms >= T.q2_mean_ms
          /\ f = Finding("R-Q2", "queries", Severe(p.calls), QueryObject(p), "high")
    BY <1>1 DEF SlowMeanTimeQuery
  <2>2. PICK q \in r.queries : WorseStatement(q, p)
    BY DEF AsBad, WorseQueries
  <2>3. q.mean_time_ms = p.mean_time_ms /\ q.calls = p.calls /\ QueryObject(q) = QueryObject(p)
    BY <2>2 DEF WorseStatement, QueryObject
  <2>4. f \in SlowMeanTimeQuery(r)
    BY <2>1, <2>3 DEF SlowMeanTimeQuery
  <2>5. Severe(p.calls) \in Severities
    BY DEF Severities
  <2> HIDE DEF Severe
  <2> QED
    BY <2>1, <2>4, <2>5, StaysFound
<1> QED
  BY <1>1 DEF Outdone

\* R-Q3: the rate is no lower
LEMMA WorseQ3 ==
    ASSUME NEW s, SnapshotOk(s), NEW r, SnapshotOk(r), AsBad(r, s)
    PROVE  Outdone(HighFrequencyQuery(s), HighFrequencyQuery(r))
<1> DEFINE Severe(rate) == IF rate >= T.q3_high_calls_per_day THEN "HIGH" ELSE "MEDIUM"
<1>1. ASSUME NEW f \in HighFrequencyQuery(s)
      PROVE  \E g \in HighFrequencyQuery(r) : Outdoes(g, f)
  <2>1. PICK p \in s.queries :
          /\ p.kind # "other" /\ Rate(p) >= T.q3_calls_per_day
          /\ f = Finding("R-Q3", "queries", Severe(Rate(p)), QueryObject(p), RateConfidence(p))
    BY <1>1 DEF HighFrequencyQuery
  <2>2. PICK q \in r.queries : WorseStatement(q, p)
    BY DEF AsBad, WorseQueries
  <2>3. q.kind = p.kind /\ Rate(q) >= Rate(p) /\ QueryObject(q) = QueryObject(p)
    BY <2>2 DEF WorseStatement, QueryObject
  <2>4. Rate(p) \in Nat /\ Rate(q) \in Nat
    BY DEF SnapshotOk, QueriesOk, QueryStat, Nullable, Rate
  <2>5. Rate(q) >= T.q3_calls_per_day
    BY <2>1, <2>3, <2>4 DEF T
  <2>6. Finding("R-Q3", "queries", Severe(Rate(q)), QueryObject(p), RateConfidence(q))
          \in HighFrequencyQuery(r)
    BY <2>1, <2>3, <2>5 DEF HighFrequencyQuery
  <2>7. Rate(p) >= T.q3_high_calls_per_day => Rate(q) >= T.q3_high_calls_per_day
    BY <2>3, <2>4 DEF T
  <2>8. /\ Severe(Rate(p)) \in Severities /\ Severe(Rate(q)) \in Severities
        /\ Deduction[Severe(Rate(p))] <= Deduction[Severe(Rate(q))]
    BY <2>7, SeverityIsNoWorse
  <2> HIDE DEF Severe
  <2> QED
    BY <2>1, <2>6, <2>8, SeverityOutdoes
<1> QED
  BY <1>1 DEF Outdone

\* R-I1: the columns that statements compare are the same, and those that begin
\* an index too
LEMMA WorseI1 ==
    ASSUME NEW s, SnapshotOk(s), NEW r, SnapshotOk(r), AsBad(r, s)
    PROVE  Outdone(MissingIndexCandidate(s), MissingIndexCandidate(r))
<1> DEFINE Severe(size) == IF size >= T.i1_high_table_size_bytes THEN "HIGH" ELSE "MEDIUM"
<1>1. r.meta.engine = s.meta.engine
  BY DEF AsBad
<1>2. ASSUME NEW name PROVE FilterColumns(s, name) \subseteq FilterColumns(r, name)
  <2>1. \A p \in s.queries : \E q \in r.queries : q.from = p.from /\ q.filters = p.filters
    BY DEF AsBad, WorseQueries, WorseStatement
  <2>2. \A j \in r.indexes : \E i \in s.indexes : j.table = i.table /\ j.columns = i.columns
    BY DEF AsBad, WorseIndexes, WorseIndexRow
  <2>3. IndexedLeading(r, name) \subseteq IndexedLeading(s, name)
    BY <2>2 DEF IndexedLeading
  <2> QED
    BY <2>1, <2>3 DEF FilterColumns
<1>3. ASSUME NEW t \in s.tables, NEW u \in r.tables, WorseTableRow(u, t, s.meta.engine)
      PROVE  /\ TableObject(u) = TableObject(t) /\ u.name = t.name
             /\ Severe(t.size_bytes) \in Severities /\ Severe(u.size_bytes) \in Severities
             /\ Deduction[Severe(t.size_bytes)] <= Deduction[Severe(u.size_bytes)]
             /\ t.size_bytes >= T.i1_min_table_size_bytes
                => u.size_bytes >= T.i1_min_table_size_bytes
             /\ ~Below(t.seq_scans, T.i1_min_seq_scans) => ~Below(u.seq_scans, T.i1_min_seq_scans)
  <2>1. t \in TableStat /\ u \in TableStat
    BY DEF SnapshotOk, TablesOk
  <2>2. /\ t.size_bytes >= T.i1_min_table_size_bytes => u.size_bytes >= T.i1_min_table_size_bytes
        /\ t.size_bytes >= T.i1_high_table_size_bytes => u.size_bytes >= T.i1_high_table_size_bytes
    BY <1>3, <2>1 DEF WorseTableRow, TableStat, T, MB, GB
  <2>3. ~Below(t.seq_scans, T.i1_min_seq_scans) => ~Below(u.seq_scans, T.i1_min_seq_scans)
    BY <1>3, <2>1, NullIsNoValue DEF WorseTableRow, NoLess, TableStat, Nullable, Below, T
  <2>4. TableObject(u) = TableObject(t) /\ u.name = t.name
    BY <1>3 DEF WorseTableRow, TableObject
  <2> QED
    BY <2>2, <2>3, <2>4, SeverityIsNoWorse
<1>4. ASSUME NEW t \in s.tables, NEW u \in r.tables, WorseTableRow(u, t, s.meta.engine),
             MissingIndex(u) \in MissingIndexCandidate(r)
      PROVE  \E g \in MissingIndexCandidate(r) : Outdoes(g, MissingIndex(t))
  <2>1. Outdoes(Finding("R-I1", "indexes", Severe(u.size_bytes), TableObject(t), "medium"),
                Finding("R-I1", "indexes", Severe(t.size_bytes), TableObject(t), "medium"))
    <3>1. /\ Severe(t.size_bytes) \in Severities /\ Severe(u.size_bytes) \in Severities
          /\ Deduction[Severe(t.size_bytes)] <= Deduction[Severe(u.size_bytes)]
      BY <1>3, <1>4
    <3> HIDE DEF Severe
    <3> QED
      BY <3>1, SeverityOutdoes
  <2>2. TableObject(u) = TableObject(t)
    BY <1>3, <1>4
  <2> QED
    BY <1>4, <2>1, <2>2 DEF MissingIndex
<1>5. ASSUME NEW f \in MissingIndexCandidate(s)
      PROVE  \E g \in MissingIndexCandidate(r) : Outdoes(g, f)
  <2>1. CASE s.meta.engine = "postgres"
    <3>1. PICK t \in s.tables : t \in CandidateTables(s) /\ f = MissingIndex(t)
      BY <1>5, <2>1 DEF MissingIndexCandidate, CandidateTables
    <3>2. PICK u \in r.tables : WorseTableRow(u, t, s.meta.engine)
      BY DEF AsBad, WorseTables
    <3>3. FilterColumns(r, u.name) # {}
      <4>1. FilterColumns(s, t.name) # {} /\ u.name = t.name
        BY <1>3, <3>1, <3>2 DEF CandidateTables
      <4> QED
        BY <1>2, <4>1
    <3>4. u \in CandidateTables(r)
      BY <1>3, <3>1, <3>2, <3>3 DEF CandidateTables
    <3>5. MissingIndex(u) \in MissingIndexCandidate(r)
      BY <1>1, <2>1, <3>4 DEF MissingIndexCandidate
    <3> QED
      BY <1>4, <3>1, <3>2, <3>5
  <2>2. CASE s.meta.engine # "postgres"
    <3>1. PICK t \in s.tables : t \in ScannedTables(s) /\ f = MissingIndex(t)
      BY <1>5, <2>2 DEF MissingIndexCandidate, ScannedTables
    <3>2. PICK u \in r.tables : WorseTableRow(u, t, s.meta.engine)
      BY DEF AsBad, WorseTables
    <3>3. PICK p \in s.queries : ScansInFull(p) /\ p.from = t.name
      BY <3>1 DEF ScannedTables
    <3>4. PICK q \in r.queries : WorseStatement(q, p)
      BY DEF AsBad, WorseQueries
    <3>5. ScansInFull(q) /\ q.from = t.name
      BY <3>3, <3>4 DEF WorseStatement, ScansInFull
    <3>6. u \in ScannedTables(r)
      BY <1>3, <3>1, <3>2, <3>5 DEF ScannedTables
    <3>7. MissingIndex(u) \in MissingIndexCandidate(r)
      BY <1>1, <2>2, <3>6 DEF MissingIndexCandidate
    <3> QED
      BY <1>4, <3>1, <3>2, <3>7
  <2> QED
    BY <2>1, <2>2
<1> QED
  BY <1>5 DEF Outdone

\* R-I2
LEMMA WorseI2 ==
    ASSUME NEW s, SnapshotOk(s), NEW r, SnapshotOk(r), AsBad(r, s)
    PROVE  Outdone(UnusedIndex(s), UnusedIndex(r))
<1> DEFINE Severe(size) ==
             IF s.meta.engine = "postgres" /\ ~Below(size, T.i2_medium_size_bytes)
             THEN "MEDIUM" ELSE "LOW"
<1>1. r.meta.engine = s.meta.engine
  BY DEF AsBad
<1>2. ASSUME NEW f \in UnusedIndex(s)
      PROVE  \E g \in UnusedIndex(r) : Outdoes(g, f)
  <2>1. PICK i \in s.indexes :
          /\ ~i.is_primary /\ ~i.is_unique
          /\ IF s.meta.engine = "postgres"
             THEN i.scans \in {None, 0} /\ ~Below(i.size_bytes, T.i2_min_size_bytes)
             ELSE i.is_unused_candidate
          /\ f = Finding("R-I2", "indexes", Severe(i.size_bytes), IndexObject(i), "medium")
    BY <1>2 DEF UnusedIndex
  <2>2. PICK j \in r.indexes : WorseIndexRow(j, i)
    BY DEF AsBad, WorseIndexes
  <2>3. i.is_unused_candidate \in BOOLEAN /\ j.is_unused_candidate \in BOOLEAN
    BY DEF SnapshotOk, IndexesOk, IndexStat
  <2>4. /\ j.is_primary = i.is_primary /\ j.is_unique = i.is_unique
        /\ j.size_bytes = i.size_bytes /\ j.scans \in {i.scans, 0}
        /\ i.is_unused_candidate => j.is_unused_candidate
        /\ IndexObject(j) = IndexObject(i)
    BY <2>2, <2>3 DEF WorseIndexRow, IndexObject
  <2>5. IF r.meta.engine = "postgres"
        THEN j.scans \in {None, 0} /\ ~Below(j.size_bytes, T.i2_min_size_bytes)
        ELSE j.is_unused_candidate
    BY <1>1, <2>1, <2>4
  <2>6. f \in UnusedIndex(r)
    BY <1>1, <2>1, <2>4, <2>5 DEF UnusedIndex
  <2>7. Severe(i.size_bytes) \in Severities
    BY DEF Severities
  <2> HIDE DEF Severe
  <2> QED
    BY <2>1, <2>6, <2>7, StaysFound
<1> QED
  BY <1>2 DEF Outdone

\* R-I3
LEMMA WorseI3 ==
    ASSUME NEW s, SnapshotOk(s), NEW r, SnapshotOk(r), AsBad(r, s)
    PROVE  Outdone(DuplicateIndex(s), DuplicateIndex(r))
<1>1. r.meta.engine = s.meta.engine
  BY DEF AsBad
<1>2. ASSUME NEW f \in DuplicateIndex(s)
      PROVE  \E g \in DuplicateIndex(r) : Outdoes(g, f)
  <2>1. PICK i \in s.indexes :
          /\ IF s.meta.engine = "postgres" THEN \E b \in s.indexes : CoveredBy(i, b)
             ELSE i.is_duplicate_candidate
          /\ f = Finding("R-I3", "indexes", "MEDIUM", IndexObject(i), "high")
    BY <1>2 DEF DuplicateIndex
  <2>2. PICK j \in r.indexes : WorseIndexRow(j, i)
    BY DEF AsBad, WorseIndexes
  <2>3. i.is_duplicate_candidate \in BOOLEAN /\ j.is_duplicate_candidate \in BOOLEAN
    BY DEF SnapshotOk, IndexesOk, IndexStat
  <2>4. IndexObject(j) = IndexObject(i)
        /\ (i.is_duplicate_candidate => j.is_duplicate_candidate)
    BY <2>2, <2>3 DEF WorseIndexRow, IndexObject
  <2>5. IF r.meta.engine = "postgres" THEN \E b \in r.indexes : CoveredBy(j, b)
        ELSE j.is_duplicate_candidate
    <3>1. CASE s.meta.engine = "postgres"
      <4>1. PICK b \in s.indexes : CoveredBy(i, b)
        BY <2>1, <3>1
      <4>2. PICK c \in r.indexes : WorseIndexRow(c, b)
        BY DEF AsBad, WorseIndexes
      <4>3. CoveredBy(j, c)
        BY <2>2, <4>1, <4>2 DEF WorseIndexRow, CoveredBy
      <4> QED
        BY <1>1, <3>1, <4>3
    <3>2. CASE s.meta.engine # "postgres"
      BY <1>1, <2>1, <2>4, <3>2
    <3> QED
      BY <3>1, <3>2
  <2>6. f \in DuplicateIndex(r)
    BY <2>1, <2>4, <2>5 DEF DuplicateIndex
  <2>7. "MEDIUM" \in Severities
    BY DEF Severities
  <2> QED
    BY <2>1, <2>6, <2>7, StaysFound
<1> QED
  BY <1>2 DEF Outdone

\* R-L1
LEMMA WorseL1 ==
    ASSUME NEW s, SnapshotOk(s), NEW r, SnapshotOk(r), AsBad(r, s)
    PROVE  Outdone(LockWaitChain(s), LockWaitChain(r))
<1>1. ASSUME NEW f \in LockWaitChain(s)
      PROVE  \E g \in LockWaitChain(r) : Outdoes(g, f)
  <2>1. PICK lw \in s.lock_waits :
          /\ lw.wait_ms >= T.l1_wait_ms
          /\ f = Finding("R-L1", "ops", "HIGH", <<"lock", lw.blocked_digest, lw.row>>, "high")
    BY <1>1 DEF LockWaitChain
  <2>2. PICK other \in r.lock_waits :
          /\ other.row = lw.row /\ other.blocked_digest = lw.blocked_digest
          /\ other.wait_ms >= lw.wait_ms
    BY DEF AsBad, WorseLockWaits
  <2>3. other.wait_ms \in Nat /\ lw.wait_ms \in Nat
    BY DEF SnapshotOk, LockWaitsOk, LockWait
  <2>4. other.wait_ms >= T.l1_wait_ms
    BY <2>1, <2>2, <2>3 DEF T
  <2>5. f \in LockWaitChain(r)
    BY <2>1, <2>2, <2>4 DEF LockWaitChain
  <2>6. "HIGH" \in Severities
    BY DEF Severities
  <2> QED
    BY <2>1, <2>5, <2>6, StaysFound
<1> QED
  BY <1>1 DEF Outdone

\* R-C1
LEMMA WorseC1 ==
    ASSUME NEW s, SnapshotOk(s), NEW r, SnapshotOk(r), AsBad(r, s)
    PROVE  Outdone(ConnectionHeadroom(s), ConnectionHeadroom(r))
<1> DEFINE Severe(c) ==
             IF AtLeast(Observed(c), c.max_limit, T.c1_critical_pct) THEN "CRITICAL" ELSE "HIGH"
           Confidence(c) == IF c.peak # None THEN "high" ELSE "medium"
<1>1. ASSUME NEW f \in ConnectionHeadroom(s)
      PROVE  \E g \in ConnectionHeadroom(r) : Outdoes(g, f)
  <2> DEFINE c == s.connections
             d == r.connections
  <2>1. /\ c # None /\ c.max_limit > 0 /\ AtLeast(Observed(c), c.max_limit, T.c1_high_pct)
        /\ f = Finding("R-C1", "ops", Severe(c), <<"server", "connections">>, Confidence(c))
    BY <1>1 DEF ConnectionHeadroom
  <2>2. d # None /\ d.max_limit = c.max_limit /\ (d = c \/ Observed(d) >= Observed(c))
    BY <2>1 DEF AsBad, WorseConnections
  <2>3. c \in ConnectionInfo /\ d \in ConnectionInfo
    BY <2>1, <2>2 DEF SnapshotOk, Nullable
  <2>4. /\ Observed(c) \in Nat /\ Observed(d) \in Nat /\ c.max_limit \in Nat
        /\ Observed(d) >= Observed(c)
    BY <2>2, <2>3 DEF ConnectionInfo, Nullable, Observed
  <2>5. /\ AtLeast(Observed(c), c.max_limit, T.c1_high_pct)
           => AtLeast(Observed(d), d.max_limit, T.c1_high_pct)
        /\ AtLeast(Observed(c), c.max_limit, T.c1_critical_pct)
           => AtLeast(Observed(d), d.max_limit, T.c1_critical_pct)
    BY <2>2, <2>4 DEF AtLeast, T
  <2>6. Finding("R-C1", "ops", Severe(d), <<"server", "connections">>, Confidence(d))
          \in ConnectionHeadroom(r)
    BY <2>1, <2>2, <2>5 DEF ConnectionHeadroom
  <2>7. /\ Severe(c) \in Severities /\ Severe(d) \in Severities
        /\ Deduction[Severe(c)] <= Deduction[Severe(d)]
    BY <2>5, SeverityIsNoWorse
  <2> HIDE DEF Severe, Confidence, c, d
  <2> QED
    BY <2>1, <2>6, <2>7, SeverityOutdoes
<1> QED
  BY <1>1 DEF Outdone

\* R-G1 and maintenance: a size, a ratio or a growth that was over its limit still is
LEMMA WorseG1 ==
    ASSUME NEW s, SnapshotOk(s), NEW r, SnapshotOk(r), AsBad(r, s)
    PROVE  Outdone(TableGrowthRisk(s), TableGrowthRisk(r))
<1>1. ASSUME NEW f \in TableGrowthRisk(s)
      PROVE  \E g \in TableGrowthRisk(r) : Outdoes(g, f)
  <2>1. PICK t \in s.tables :
          /\ ~Below(t.growth_30d_pct, T.g1_growth_30d_pct) /\ t.size_bytes >= T.g1_min_size_bytes
          /\ f = Finding("R-G1", "ops", "MEDIUM", TableObject(t), "medium")
    BY <1>1 DEF TableGrowthRisk
  <2>2. PICK u \in r.tables : WorseTableRow(u, t, s.meta.engine)
    BY DEF AsBad, WorseTables
  <2>3. t \in TableStat /\ u \in TableStat
    BY DEF SnapshotOk, TablesOk
  <2>4. ~Below(u.growth_30d_pct, T.g1_growth_30d_pct)
    BY <2>1, <2>2, <2>3 DEF WorseTableRow, NoLess, TableStat, Nullable, Below, T
  <2>5. u.size_bytes >= T.g1_min_size_bytes
    BY <2>1, <2>2, <2>3 DEF WorseTableRow, TableStat, T, MB
  <2>6. TableObject(u) = TableObject(t)
    BY <2>2 DEF WorseTableRow, TableObject
  <2>7. f \in TableGrowthRisk(r)
    BY <2>1, <2>4, <2>5, <2>6 DEF TableGrowthRisk
  <2>8. "MEDIUM" \in Severities
    BY DEF Severities
  <2> QED
    BY <2>1, <2>7, <2>8, StaysFound
<1> QED
  BY <1>1 DEF Outdone

\* A table with too many dead rows still has them
LEMMA WorseDead ==
    ASSUME NEW s, SnapshotOk(s), NEW r, SnapshotOk(r), NEW ratio \in Nat, NEW size \in Nat,
           NEW t \in DeadIn(s, ratio, size), NEW u \in r.tables, WorseTableRow(u, t, s.meta.engine)
    PROVE  /\ u \in DeadIn(r, ratio, size) /\ TableObject(u) = TableObject(t)
           /\ t \in TableStat /\ u \in TableStat
           /\ t.dead_tuple_ratio \in Nat /\ u.dead_tuple_ratio \in Nat
           /\ u.dead_tuple_ratio >= t.dead_tuple_ratio
<1>1. t \in TableStat /\ u \in TableStat /\ t \in s.tables
  BY DEF SnapshotOk, TablesOk, DeadIn
<1>2. t.dead_tuple_ratio # None /\ t.dead_tuple_ratio >= ratio /\ t.size_bytes >= size
  BY <1>1 DEF DeadIn, Below, TableStat, Nullable
<1>3. /\ t.dead_tuple_ratio \in Nat /\ u.dead_tuple_ratio \in Nat
      /\ u.dead_tuple_ratio # None /\ u.dead_tuple_ratio >= t.dead_tuple_ratio
  BY <1>1, <1>2 DEF WorseTableRow, NoLess, TableStat, Nullable
<1>4. u.size_bytes >= size
  BY <1>1, <1>2 DEF WorseTableRow, TableStat
<1>5. TableObject(u) = TableObject(t)
  BY DEF WorseTableRow, TableObject
<1>6. u \in DeadIn(r, ratio, size)
  BY <1>2, <1>3, <1>4 DEF DeadIn, Below
<1> QED
  BY <1>1, <1>3, <1>5, <1>6

\* R-M1 to R-M3, where autovacuum that was off is off
LEMMA WorseMaintenance ==
    ASSUME NEW s, SnapshotOk(s), NEW r, SnapshotOk(r), AsBad(r, s),
           Value(s, "autovacuum") = "off" => Value(r, "autovacuum") = "off"
    PROVE  /\ Outdone(VacuumLag(s), VacuumLag(r))
           /\ Outdone(AutovacuumNotRunning(s), AutovacuumNotRunning(r))
           /\ Outdone(BloatEstimate(s), BloatEstimate(r))
<1> DEFINE Severe(ratio) == IF ratio >= 2 * T.m1_dead_tuple_ratio THEN "HIGH" ELSE "MEDIUM"
<1>1. /\ T.m1_dead_tuple_ratio \in Nat /\ T.m1_min_size_bytes \in Nat
      /\ T.m2_dead_tuple_ratio \in Nat /\ T.m2_min_size_bytes \in Nat
      /\ T.m3_dead_tuple_ratio \in Nat /\ T.m3_min_size_bytes \in Nat
  BY DEF T, MB
<1>2. \A t \in s.tables : \E u \in r.tables : WorseTableRow(u, t, s.meta.engine)
  BY DEF AsBad, WorseTables
<1>3. "HIGH" \in Severities /\ "MEDIUM" \in Severities /\ "LOW" \in Severities
  BY DEF Severities
<1>4. ASSUME NEW f \in VacuumLag(s)
      PROVE  \E g \in VacuumLag(r) : Outdoes(g, f)
  <2>1. PICK t \in DeadIn(s, T.m1_dead_tuple_ratio, T.m1_min_size_bytes) :
          f = Finding("R-M1", "maintenance", Severe(t.dead_tuple_ratio), TableObject(t), "high")
    BY <1>4 DEF VacuumLag
  <2>2. PICK u \in r.tables : WorseTableRow(u, t, s.meta.engine)
    BY <1>2 DEF DeadIn
  <2>3. /\ u \in DeadIn(r, T.m1_dead_tuple_ratio, T.m1_min_size_bytes)
        /\ TableObject(u) = TableObject(t)
        /\ t.dead_tuple_ratio \in Nat /\ u.dead_tuple_ratio \in Nat
        /\ u.dead_tuple_ratio >= t.dead_tuple_ratio
    BY <1>1, <2>2, WorseDead
  <2>4. Finding("R-M1", "maintenance", Severe(u.dead_tuple_ratio), TableObject(t), "high")
          \in VacuumLag(r)
    BY <2>3 DEF VacuumLag
  <2>5. /\ Severe(t.dead_tuple_ratio) \in Severities /\ Severe(u.dead_tuple_ratio) \in Severities
        /\ Deduction[Severe(t.dead_tuple_ratio)] <= Deduction[Severe(u.dead_tuple_ratio)]
    <3>1. t.dead_tuple_ratio >= 2 * T.m1_dead_tuple_ratio
          => u.dead_tuple_ratio >= 2 * T.m1_dead_tuple_ratio
      BY <2>3 DEF T
    <3> QED
      BY <3>1, SeverityIsNoWorse
  <2> HIDE DEF Severe
  <2> QED
    BY <2>1, <2>4, <2>5, SeverityOutdoes
<1>5. ASSUME NEW f \in AutovacuumNotRunning(s)
      PROVE  \E g \in AutovacuumNotRunning(r) : Outdoes(g, f)
  <2> DEFINE Found(severity, object) == Finding("R-M2", "maintenance", severity, object, "high")
  <2>1. CASE /\ Value(s, "autovacuum") = "off"
             /\ f = Found("HIGH", <<"setting", "autovacuum">>)
    <3>1. f \in AutovacuumNotRunning(r)
      BY <2>1 DEF AutovacuumNotRunning
    <3> QED
      BY <1>3, <2>1, <3>1, StaysFound
  <2>2. ASSUME NEW t \in DeadIn(s, T.m2_dead_tuple_ratio, T.m2_min_size_bytes),
               t.last_autovacuum = None, f = Found("MEDIUM", TableObject(t))
        PROVE  \E g \in AutovacuumNotRunning(r) : Outdoes(g, f)
    <3>1. PICK u \in r.tables : WorseTableRow(u, t, s.meta.engine)
      BY <1>2 DEF DeadIn
    <3>2. /\ u \in DeadIn(r, T.m2_dead_tuple_ratio, T.m2_min_size_bytes)
          /\ TableObject(u) = TableObject(t)
      BY <1>1, <3>1, WorseDead
    <3>3. u.last_autovacuum = None
      BY <2>2, <3>1 DEF WorseTableRow
    <3>4. f \in AutovacuumNotRunning(r)
      BY <2>2, <3>2, <3>3 DEF AutovacuumNotRunning
    <3> QED
      BY <1>3, <2>2, <3>4, StaysFound
  <2> QED
    BY <1>5, <2>1, <2>2 DEF AutovacuumNotRunning
<1>6. ASSUME NEW f \in BloatEstimate(s)
      PROVE  \E g \in BloatEstimate(r) : Outdoes(g, f)
  <2>1. PICK t \in DeadIn(s, T.m3_dead_tuple_ratio, T.m3_min_size_bytes) :
          f = Finding("R-M3", "maintenance", "LOW", TableObject(t), "low")
    BY <1>6 DEF BloatEstimate
  <2>2. PICK u \in r.tables : WorseTableRow(u, t, s.meta.engine)
    BY <1>2 DEF DeadIn
  <2>3. /\ u \in DeadIn(r, T.m3_dead_tuple_ratio, T.m3_min_size_bytes)
        /\ TableObject(u) = TableObject(t)
    BY <1>1, <2>2, WorseDead
  <2>4. f \in BloatEstimate(r)
    BY <2>1, <2>3 DEF BloatEstimate
  <2> QED
    BY <1>3, <2>1, <2>4, StaysFound
<1> QED
  BY <1>4, <1>5, <1>6 DEF Outdone

\* R-M4: the size of a MySQL table has not grown
LEMMA WorseM4 ==
    ASSUME NEW s, SnapshotOk(s), NEW r, SnapshotOk(r), AsBad(r, s), s.meta.engine # "postgres"
    PROVE  Outdone(InnodbFragmentation(s), InnodbFragmentation(r))
<1>1. ASSUME NEW f \in InnodbFragmentation(s)
      PROVE  \E g \in InnodbFragmentation(r) : Outdoes(g, f)
  <2>1. PICK t \in s.tables :
          /\ t.data_free_bytes \notin {None, 0} /\ t.size_bytes >= T.m4_min_size_bytes
          /\ AtLeast(t.data_free_bytes, t.size_bytes, T.m4_fragmentation_ratio)
          /\ f = Finding("R-M4", "maintenance", "MEDIUM", TableObject(t), "medium")
    BY <1>1 DEF InnodbFragmentation
  <2>2. PICK u \in r.tables : WorseTableRow(u, t, s.meta.engine)
    BY DEF AsBad, WorseTables
  <2>3. t \in TableStat /\ u \in TableStat
    BY DEF SnapshotOk, TablesOk
  <2>4. u.size_bytes = t.size_bytes
    BY <2>2 DEF WorseTableRow
  <2>5. /\ t.data_free_bytes \in Nat /\ u.data_free_bytes \in Nat
        /\ u.data_free_bytes \notin {None, 0} /\ u.data_free_bytes >= t.data_free_bytes
    BY <2>1, <2>2, <2>3 DEF WorseTableRow, NoLess, TableStat, Nullable
  <2>6. AtLeast(u.data_free_bytes, u.size_bytes, T.m4_fragmentation_ratio)
    BY <2>1, <2>3, <2>4, <2>5 DEF AtLeast, TableStat, T
  <2>7. TableObject(u) = TableObject(t)
    BY <2>2 DEF WorseTableRow, TableObject
  <2>8. f \in InnodbFragmentation(r)
    BY <2>1, <2>4, <2>5, <2>6, <2>7 DEF InnodbFragmentation
  <2>9. "MEDIUM" \in Severities
    BY DEF Severities
  <2> QED
    BY <2>1, <2>8, <2>9, StaysFound
<1> QED
  BY <1>1 DEF Outdone

-----------------------------------------------------------------------------
(* Settings of a worse server                                              *)

\* r has the settings of s but for one, which has a new value in the same unit
Loosened(r, s, name, new) ==
    /\ name \in DOMAIN s.settings /\ s.settings[name].value # None /\ new # None
    /\ DOMAIN r.settings = DOMAIN s.settings
    /\ r.settings[name].value = new /\ r.settings[name].unit = s.settings[name].unit
    /\ \A other \in DOMAIN s.settings : other # name => r.settings[other] = s.settings[other]

\* A setting that loosens is another value for one setting
LEMMA LoosenedSetting ==
    ASSUME SnapshotOk(snapshot), SettingLoosens
    PROVE  /\ \E name, new : /\ Loosened(snapshot', snapshot, name, new)
                             /\ Looser(name, Value(snapshot, name), new)
           /\ snapshot'.meta = snapshot.meta /\ snapshot'.tables = snapshot.tables
<1>1. PICK name, new :
        /\ name \in DOMAIN snapshot.settings \cap DOMAIN Scale /\ new \in Scale[name]
        /\ snapshot.settings[name].value # None
        /\ Looser(name, snapshot.settings[name].value, new)
        /\ snapshot' = [snapshot EXCEPT !.settings[name].value = new]
  BY DEF SettingLoosens, Change
<1>2. new # None
  BY <1>1, AnalysisAssumption
<1>3. /\ snapshot'.settings = [snapshot.settings EXCEPT ![name] = [@ EXCEPT !.value = new]]
      /\ snapshot'.meta = snapshot.meta /\ snapshot'.tables = snapshot.tables
  BY <1>1 DEF SnapshotOk
<1>4. DOMAIN snapshot.settings[name] = {"value", "unit"}
  BY <1>1 DEF SnapshotOk, SettingsOk
<1>5. Loosened(snapshot', snapshot, name, new)
  BY <1>1, <1>2, <1>3, <1>4 DEF Loosened
<1>6. Value(snapshot, name) = snapshot.settings[name].value
  BY <1>1 DEF Value
<1> QED
  BY <1>1, <1>3, <1>5, <1>6

\* What that means for the values and sizes that checks read
LEMMA LoosenedValues ==
    ASSUME NEW r, NEW s, NEW name, NEW new, Loosened(r, s, name, new)
    PROVE  /\ Value(r, name) = new /\ Value(s, name) # None
           /\ \A other : other # name =>
                Value(r, other) = Value(s, other) /\ Bytes(r, other) = Bytes(s, other)
<1>1. Value(r, name) = new /\ Value(s, name) # None
  BY DEF Loosened, Value
<1>2. ASSUME NEW other, other # name
      PROVE  Value(r, other) = Value(s, other) /\ Bytes(r, other) = Bytes(s, other)
  <2>1. Value(r, other) = Value(s, other)
    BY <1>2 DEF Loosened, Value
  <2>2. CASE Value(s, other) = None
    BY <2>1, <2>2 DEF Bytes
  <2>3. CASE Value(s, other) # None
    <3>1. other \in DOMAIN s.settings
      BY <2>3 DEF Value
    <3>2. r.settings[other] = s.settings[other]
      BY <1>2, <3>1 DEF Loosened
    <3> QED
      BY <2>1, <3>2 DEF Bytes
  <2> QED
    BY <2>1, <2>2, <2>3
<1> QED
  BY <1>1, <1>2

\* A setting that is no word is a number, and a counter is not negative
LEMMA NumberValues ==
    ASSUME NEW s, SnapshotOk(s), NEW name, name \notin Words, Value(s, name) # None
    PROVE  /\ Value(s, name) \in Int /\ (name \in Counts => Value(s, name) \in Nat)
           /\ name \in DOMAIN s.settings
<1>1. name \in DOMAIN s.settings /\ s.settings[name].value = Value(s, name)
  BY DEF Value
<1>2. Value(s, name) \in SettingValues(name)
  BY <1>1 DEF SnapshotOk, SettingsOk
<1>3. Value(s, name) \in Nullable(IF name \in Counts THEN Nat ELSE Int)
  BY <1>2 DEF SettingValues
<1> QED
  BY <1>1, <1>3 DEF Nullable

\* A size in kB grows with its number
LEMMA SizeCompare ==
    ASSUME NEW unit, NEW x \in Int, NEW y \in Int, x <= y
    PROVE  LET size(v) == IF unit \in DOMAIN UnitKB THEN v * UnitKB[unit] ELSE v \div 1024
           IN  size(x) \in Int /\ size(y) \in Int /\ size(x) <= size(y)
<1>1. CASE unit \in DOMAIN UnitKB
  <2>1. unit \in {"kB", "8kB", "MB", "GB", "16MB"} /\ UnitKB[unit] \in Nat
    BY <1>1 DEF UnitKB, MB, GB
  <2>2. \A k \in Nat : x * k \in Int /\ y * k \in Int /\ x * k <= y * k
    OBVIOUS
  <2> QED
    BY <1>1, <2>1, <2>2
<1>2. CASE unit \notin DOMAIN UnitKB
  <2>1. x \div 1024 \in Int /\ y \div 1024 \in Int /\ x \div 1024 <= y \div 1024
    OBVIOUS
  <2> QED
    BY <1>2, <2>1
<1> QED
  BY <1>1, <1>2

\* A setting that has a value has a size
LEMMA BytesOfNumber ==
    ASSUME NEW s, SnapshotOk(s), NEW name, name \notin Words, Value(s, name) # None
    PROVE  Bytes(s, name) \in Int
<1>1. Value(s, name) \in Int
  BY NumberValues
<1> DEFINE unit == s.settings[name].unit
           size(v) == IF unit \in DOMAIN UnitKB THEN v * UnitKB[unit] ELSE v \div 1024
<1>2. Bytes(s, name) = size(Value(s, name))
  BY DEF Bytes
<1>3. size(Value(s, name)) \in Int
  BY <1>1, SizeCompare
<1> QED
  BY <1>2, <1>3

\* The size of the setting goes where its value goes
LEMMA LoosenedBytes ==
    ASSUME NEW r, SnapshotOk(r), NEW s, SnapshotOk(s), NEW name, name \notin Words,
           NEW new, Loosened(r, s, name, new)
    PROVE  /\ new \in Int /\ Value(s, name) \in Int
           /\ Bytes(r, name) \in Int /\ Bytes(s, name) \in Int
           /\ new <= Value(s, name) => Bytes(r, name) <= Bytes(s, name)
           /\ new >= Value(s, name) => Bytes(r, name) >= Bytes(s, name)
<1> DEFINE old == Value(s, name)
           unit == s.settings[name].unit
           size(v) == IF unit \in DOMAIN UnitKB THEN v * UnitKB[unit] ELSE v \div 1024
<1>1. Value(r, name) = new /\ new # None /\ old # None
  BY LoosenedValues DEF Loosened
<1>2. new \in Int /\ old \in Int
  BY <1>1, NumberValues
<1>3. Bytes(r, name) = size(new) /\ Bytes(s, name) = size(old)
  BY <1>1 DEF Bytes, Loosened
<1>4. size(new) \in Int /\ size(old) \in Int
  BY <1>2, SizeCompare
<1>5. new <= old => size(new) <= size(old)
  BY <1>2, SizeCompare
<1>6. new >= old => size(new) >= size(old)
  <2> SUFFICES ASSUME new >= old PROVE size(new) >= size(old)
    OBVIOUS
  <2>1. size(old) <= size(new)
    BY <1>2, SizeCompare
  <2> HIDE DEF size
  <2> QED
    BY <1>4, <2>1
<1> HIDE DEF size
<1> QED
  BY <1>2, <1>3, <1>4, <1>5, <1>6

\* What a worse value is, name by name
LEMMA WhatLooserMeans ==
    ASSUME NEW name, NEW old, NEW new, Looser(name, old, new)
    PROVE  /\ name \in {"shared_buffers", "innodb_buffer_pool_size", "innodb_log_file_size",
                        "checkpoint_completion_target"} => new < old
           /\ name \in {"work_mem", "autovacuum_vacuum_scale_factor", "random_page_cost",
                        "Innodb_buffer_pool_reads", "Opened_tables", "Threads_created"} => new > old
           /\ name = "wal_buffers" => new > 0 /\ (new < old \/ old = -1)
           /\ name = "effective_cache_size" => new = T.pg_effective_cache_size_default
           /\ name \in {"sync_binlog", "innodb_flush_log_at_trx_commit"} => old = 1
           /\ name = "max_heap_table_size" => old = Value(snapshot, "tmp_table_size")
           /\ name \in {"autovacuum", "track_io_timing"} => new = "off"
           /\ name \in {"slow_query_log", "performance_schema"} => new = "OFF"
           /\ name = "query_cache_type" => new = "ON"
           /\ name \notin {"max_connections", "Uptime", "Connections", "tmp_table_size",
                           "query_cache_size", "Innodb_buffer_pool_read_requests"}
BY DEF Looser

\* The checks that fire on s fire on r
PgChecksStay(r, s) ==
    /\ SmallSharedBuffers(s) => SmallSharedBuffers(r)
    /\ WorkMemProduct(s) => WorkMemProduct(r)
    /\ DefaultEffectiveCacheSize(s) => DefaultEffectiveCacheSize(r)
    /\ Is(s, "autovacuum", {"off"}) => Is(r, "autovacuum", {"off"})
    /\ AutovacScale(s) => AutovacScale(r)
    /\ SmallWalBuffers(s) => SmallWalBuffers(r)
    /\ ~Below(Value(s, "random_page_cost"), 400) => ~Below(Value(r, "random_page_cost"), 400)
    /\ ~Below(Value(s, "max_connections"), T.pg_max_connections_high)
       => ~Below(Value(r, "max_connections"), T.pg_max_connections_high)
    /\ HastyCheckpoints(s) => HastyCheckpoints(r)
    /\ Is(s, "track_io_timing", {"off"}) => Is(r, "track_io_timing", {"off"})

MyChecksStay(r, s) ==
    /\ SmallBufferPool(s) => SmallBufferPool(r)
    /\ SmallLogFile(s) => SmallLogFile(r)
    /\ TmpTableMismatch(s) => TmpTableMismatch(r)
    /\ TablesReopened(s) => TablesReopened(r)
    /\ ThreadsCreated(s) => ThreadsCreated(r)
    /\ ~Below(Value(s, "max_connections"), T.my_max_connections_high)
       => ~Below(Value(r, "max_connections"), T.my_max_connections_high)
    /\ DurabilityTradeoff(s) => DurabilityTradeoff(r)
    /\ QueryCache(s) => QueryCache(r)
    /\ Is(s, "slow_query_log", {"OFF", "0"}) => Is(r, "slow_query_log", {"OFF", "0"})
    /\ Is(s, "performance_schema", {"OFF", "0"}) => Is(r, "performance_schema", {"OFF", "0"})

\* With the same settings, and a database and tables that are no smaller
LEMMA SameSettingsStay ==
    ASSUME NEW s, SnapshotOk(s), NEW r, SnapshotOk(r), AsBad(r, s), r.settings = s.settings
    PROVE  PgChecksStay(r, s) /\ MyChecksStay(r, s)
<1>1. \A name : Value(r, name) = Value(s, name) /\ Bytes(r, name) = Bytes(s, name)
  BY DEF Value, Bytes
<1>2. \A name, words : Is(r, name, words) <=> Is(s, name, words)
  BY <1>1 DEF Is
<1>3. \A names : Missing(r, names) <=> Missing(s, names)
  BY <1>1 DEF Missing
<1> DEFINE db == s.meta.db_size_bytes
           grown == r.meta.db_size_bytes
<1>4. db # None => db \in Nat /\ grown # None /\ grown \in Nat /\ grown >= db
  BY DEF AsBad, NoLess, SnapshotOk, SnapshotMeta, Nullable
<1>5. SmallSharedBuffers(s) => SmallSharedBuffers(r)
  <2> SUFFICES ASSUME SmallSharedBuffers(s) PROVE SmallSharedBuffers(r)
    OBVIOUS
  <2> DEFINE sb == Bytes(s, "shared_buffers")
  <2>1. sb # None /\ db # None /\ LessThan(sb, db, 10) /\ sb <= T.pg_shared_buffers_cap_bytes
    BY DEF SmallSharedBuffers, T
  <2>2. Value(s, "shared_buffers") # None
    BY <2>1 DEF Bytes
  <2>3. sb \in Int
    BY <2>2, BytesOfNumber DEF Words
  <2> HIDE DEF sb, db, grown
  <2>4. LessThan(sb, grown, 10)
    BY <1>4, <2>1, <2>3 DEF LessThan
  <2> QED
    BY <1>1, <1>4, <2>1, <2>4 DEF SmallSharedBuffers, T, sb, db, grown
<1>6. SmallBufferPool(s) => SmallBufferPool(r)
  <2> SUFFICES ASSUME SmallBufferPool(s) PROVE SmallBufferPool(r)
    OBVIOUS
  <2> DEFINE pool == Value(s, "innodb_buffer_pool_size")
  <2>1. pool # None /\ db # None /\ LessThan(pool, db, 50)
    BY DEF SmallBufferPool, T
  <2>2. pool \in Int
    BY <2>1, NumberValues DEF Words
  <2> HIDE DEF pool, db, grown
  <2>3. LessThan(pool, grown, 50)
    BY <1>4, <2>1, <2>2 DEF LessThan
  <2> QED
    BY <1>1, <1>4, <2>1, <2>3 DEF SmallBufferPool, T, pool, db, grown
<1>7. AutovacScale(s) => AutovacScale(r)
  <2> SUFFICES ASSUME AutovacScale(s) PROVE AutovacScale(r)
    OBVIOUS
  <2> DEFINE size == T.pg_autovac_scale_table_bytes
  <2>1. PICK t \in s.tables : t.size_bytes >= size
    BY DEF AutovacScale, HasTableLargerThan
  <2>2. PICK u \in r.tables : WorseTableRow(u, t, s.meta.engine)
    BY DEF AsBad, WorseTables
  <2>3. t \in TableStat /\ u \in TableStat /\ size \in Nat
    BY DEF SnapshotOk, TablesOk, T, GB, MB
  <2> HIDE DEF size
  <2>4. u.size_bytes >= size
    BY <2>1, <2>2, <2>3 DEF WorseTableRow, TableStat
  <2>5. HasTableLargerThan(r, size)
    BY <2>4 DEF HasTableLargerThan
  <2> QED
    BY <1>1, <2>5 DEF AutovacScale, size
<1>8. /\ WorkMemProduct(s) => WorkMemProduct(r)
      /\ DefaultEffectiveCacheSize(s) => DefaultEffectiveCacheSize(r)
      /\ SmallWalBuffers(s) => SmallWalBuffers(r)
      /\ HastyCheckpoints(s) => HastyCheckpoints(r)
  BY <1>1, <1>3, Zenon DEF WorkMemProduct, DefaultEffectiveCacheSize, SmallWalBuffers, HastyCheckpoints
<1>9. /\ SmallLogFile(s) => SmallLogFile(r)
      /\ TmpTableMismatch(s) => TmpTableMismatch(r)
  BY <1>1, <1>3, Zenon DEF SmallLogFile, TmpTableMismatch
<1>10. /\ TablesReopened(s) => TablesReopened(r)
       /\ ThreadsCreated(s) => ThreadsCreated(r)
  BY <1>1, <1>3 DEF TablesReopened, ThreadsCreated
<1>11. /\ DurabilityTradeoff(s) => DurabilityTradeoff(r)
       /\ QueryCache(s) => QueryCache(r)
  BY <1>1, <1>2, Zenon DEF DurabilityTradeoff, QueryCache
<1>12. PgChecksStay(r, s)
  BY <1>1, <1>2, <1>5, <1>7, <1>8, Zenon DEF PgChecksStay
<1>13. MyChecksStay(r, s)
  BY <1>1, <1>2, <1>6, <1>9, <1>11, <1>10, Zenon DEF MyChecksStay
<1> QED
  BY <1>12, <1>13

\* With one setting that is looser: R-CFG-PG
LEMMA LooserPgStay ==
    ASSUME NEW r, SnapshotOk(r), SnapshotOk(snapshot), r.meta = snapshot.meta,
           r.tables = snapshot.tables, NEW name, NEW new,
           Loosened(r, snapshot, name, new), Looser(name, Value(snapshot, name), new)
    PROVE  PgChecksStay(r, snapshot)
<1> DEFINE s == snapshot
           old == Value(snapshot, name)
<1>1. /\ Value(r, name) = new /\ old # None /\ new # None
      /\ \A other : other # name =>
           Value(r, other) = Value(s, other) /\ Bytes(r, other) = Bytes(s, other)
  BY LoosenedValues DEF Loosened
<1>2. /\ name = "shared_buffers" => new < old
      /\ name = "work_mem" => new > old
      /\ name = "autovacuum_vacuum_scale_factor" => new > old
      /\ name = "random_page_cost" => new > old
      /\ name = "checkpoint_completion_target" => new < old
      /\ name = "wal_buffers" => new > 0 /\ (new < old \/ old = -1)
      /\ name = "effective_cache_size" => new = T.pg_effective_cache_size_default
      /\ name \in {"autovacuum", "track_io_timing"} => new = "off"
      /\ name # "max_connections"
  BY WhatLooserMeans
<1>3. name \notin Words =>
        /\ new \in Int /\ old \in Int
        /\ Bytes(r, name) \in Int /\ Bytes(s, name) \in Int
        /\ new <= old => Bytes(r, name) <= Bytes(s, name)
        /\ new >= old => Bytes(r, name) >= Bytes(s, name)
  BY LoosenedBytes
<1>4. \A x : Value(s, x) # None /\ x \notin Words => Value(s, x) \in Int /\ Bytes(s, x) \in Int
  BY NumberValues, BytesOfNumber
<1> HIDE DEF s, old
<1>5. SmallSharedBuffers(s) => SmallSharedBuffers(r)
  <2> SUFFICES ASSUME SmallSharedBuffers(s) PROVE SmallSharedBuffers(r)
    OBVIOUS
  <2>1. CASE name # "shared_buffers"
    BY <1>1, <2>1 DEF SmallSharedBuffers, s
  <2>2. CASE name = "shared_buffers"
    <3> DEFINE db == s.meta.db_size_bytes
    <3>1. /\ Bytes(r, name) \in Int /\ Bytes(s, name) \in Int
          /\ Bytes(r, name) <= Bytes(s, name)
      BY <1>2, <1>3, <2>2 DEF Words
    <3>2. /\ db # None /\ LessThan(Bytes(s, name), db, 10)
          /\ Bytes(s, name) <= T.pg_shared_buffers_cap_bytes
      BY <2>2 DEF SmallSharedBuffers, T
    <3>3. db \in Nat
      BY <3>2 DEF SnapshotOk, SnapshotMeta, Nullable, s
    <3> HIDE DEF db
    <3>4. LessThan(Bytes(r, name), db, 10)
      BY <3>1, <3>2, <3>3 DEF LessThan
    <3>5. Bytes(r, name) <= T.pg_shared_buffers_cap_bytes /\ Bytes(r, name) # None
      BY <3>1, <3>2, NullIsNoValue DEF T, GB, MB
    <3> QED
      BY <2>2, <3>2, <3>4, <3>5 DEF SmallSharedBuffers, T, db, s
  <2> QED
    BY <2>1, <2>2
<1>6. WorkMemProduct(s) => WorkMemProduct(r)
  <2> SUFFICES ASSUME WorkMemProduct(s) PROVE WorkMemProduct(r)
    OBVIOUS
  <2> DEFINE max == Value(s, "max_connections")
             size == Bytes(s, "work_mem")
             limit == T.pg_workmem_product_bytes
  <2>1. Value(s, "work_mem") # None /\ max # None /\ size * max > limit
    BY DEF WorkMemProduct, Missing
  <2>2. Value(r, "max_connections") = max
    BY <1>1, <1>2
  <2>3. max \in Nat /\ size \in Int /\ limit \in Nat
    BY <1>4, <2>1, NumberValues DEF Words, Counts, T, GB, MB, s
  <2>4. /\ Value(r, "work_mem") # None
        /\ Bytes(r, "work_mem") \in Int /\ Bytes(r, "work_mem") >= size
    <3>1. CASE name # "work_mem"
      BY <1>1, <2>1, <2>3, <3>1
    <3>2. CASE name = "work_mem"
      BY <1>1, <1>2, <1>3, <3>2 DEF Words
    <3> QED
      BY <3>1, <3>2
  <2> HIDE DEF max, size, limit
  <2>5. \A x \in Int, y \in Int : x >= y => x * max >= y * max
    BY <2>3
  <2>6. Bytes(r, "work_mem") * max > limit
    <3>1. Bytes(r, "work_mem") * max >= size * max
      BY <2>3, <2>4, <2>5
    <3>2. Bytes(r, "work_mem") * max \in Int /\ size * max \in Int
      BY <2>3, <2>4
    <3> QED
      BY <2>1, <2>3, <3>1, <3>2
  <2> QED
    BY <2>1, <2>2, <2>4, <2>6 DEF WorkMemProduct, Missing, limit
<1>7. DefaultEffectiveCacheSize(s) => DefaultEffectiveCacheSize(r)
  BY <1>1, <1>2 DEF DefaultEffectiveCacheSize
<1>8. AutovacScale(s) => AutovacScale(r)
  <2> DEFINE share == "autovacuum_vacuum_scale_factor"
  <2>1. HasTableLargerThan(s, T.pg_autovac_scale_table_bytes)
        => HasTableLargerThan(r, T.pg_autovac_scale_table_bytes)
    BY DEF HasTableLargerThan, s
  <2>2. ~Below(Value(s, share), 16) => ~Below(Value(r, share), 16)
    <3>1. CASE name # share
      BY <1>1, <3>1
    <3>2. CASE name = share
      BY <1>1, <1>2, <1>3, <3>2 DEF Words, Below, old, s
    <3> QED
      BY <3>1, <3>2
  <2>3. T.pg_autovac_scale_factor_max + 1 = 16
    BY DEF T
  <2> QED
    BY <2>1, <2>2, <2>3 DEF AutovacScale
<1>9. SmallWalBuffers(s) => SmallWalBuffers(r)
  <2>1. CASE name # "wal_buffers"
    BY <1>1, <2>1 DEF SmallWalBuffers
  <2>2. CASE name = "wal_buffers"
    <3> SUFFICES ASSUME SmallWalBuffers(s) PROVE SmallWalBuffers(r)
      OBVIOUS
    <3>1. /\ new \in Int /\ old \in Int
          /\ Bytes(r, name) \in Int /\ Bytes(s, name) \in Int
          /\ new <= old => Bytes(r, name) <= Bytes(s, name)
      BY <1>3, <2>2 DEF Words
    <3>2. old >= 1 /\ Bytes(s, name) < 1024
      BY <2>2, <3>1 DEF SmallWalBuffers, Below, MB, old, s
    <3>3. new >= 1 /\ new < old
      BY <1>2, <2>2, <3>1, <3>2
    <3>4. Bytes(r, name) < 1024
      BY <3>1, <3>2, <3>3
    <3> QED
      BY <1>1, <2>2, <3>1, <3>3, <3>4 DEF SmallWalBuffers, Below, MB
  <2> QED
    BY <2>1, <2>2
<1>10. ~Below(Value(s, "random_page_cost"), 400) => ~Below(Value(r, "random_page_cost"), 400)
  <2>1. CASE name # "random_page_cost"
    BY <1>1, <2>1
  <2>2. CASE name = "random_page_cost"
    BY <1>1, <1>2, <1>3, <2>2 DEF Words, Below, old, s
  <2> QED
    BY <2>1, <2>2
<1>11. ~Below(Value(s, "max_connections"), T.pg_max_connections_high)
       => ~Below(Value(r, "max_connections"), T.pg_max_connections_high)
  BY <1>1, <1>2
<1>12. HastyCheckpoints(s) => HastyCheckpoints(r)
  <2>1. CASE name # "checkpoint_completion_target"
    BY <1>1, <2>1 DEF HastyCheckpoints, Missing
  <2>2. CASE name = "checkpoint_completion_target"
    BY <1>1, <1>2, <1>3, <2>2 DEF HastyCheckpoints, Missing, Words, T, old, s
  <2> QED
    BY <2>1, <2>2
<1>13. /\ Is(s, "autovacuum", {"off"}) => Is(r, "autovacuum", {"off"})
       /\ Is(s, "track_io_timing", {"off"}) => Is(r, "track_io_timing", {"off"})
  BY <1>1, <1>2 DEF Is
<1> QED
  BY <1>5, <1>6, <1>7, <1>8, <1>9, <1>10, <1>11, <1>12, <1>13, Zenon DEF PgChecksStay, s

\* The same for R-CFG-MY
LEMMA LooserMyStay ==
    ASSUME NEW r, SnapshotOk(r), SnapshotOk(snapshot), r.meta = snapshot.meta,
           NEW name, NEW new,
           Loosened(r, snapshot, name, new), Looser(name, Value(snapshot, name), new)
    PROVE  MyChecksStay(r, snapshot)
<1> DEFINE s == snapshot
           old == Value(snapshot, name)
<1>1. /\ Value(r, name) = new /\ old # None /\ new # None
      /\ \A other : other # name => Value(r, other) = Value(s, other)
  BY LoosenedValues DEF Loosened
<1>2. /\ name = "innodb_buffer_pool_size" => new < old
      /\ name = "innodb_log_file_size" => new < old
      /\ name = "Innodb_buffer_pool_reads" => new > old
      /\ name = "Opened_tables" => new > old
      /\ name = "Threads_created" => new > old
      /\ name = "max_heap_table_size" => old = Value(s, "tmp_table_size")
      /\ name \in {"sync_binlog", "innodb_flush_log_at_trx_commit"} => old = 1
      /\ name \in {"slow_query_log", "performance_schema"} => new = "OFF"
      /\ name = "query_cache_type" => new = "ON"
      /\ name \notin {"max_connections", "Uptime", "Connections", "tmp_table_size",
                      "query_cache_size", "Innodb_buffer_pool_read_requests"}
  BY WhatLooserMeans
<1>3. name \notin Words => new \in Int /\ old \in Int
  BY LoosenedBytes
<1>4. /\ \A x : Value(s, x) # None /\ x \notin Words => Value(s, x) \in Int
      /\ \A x : Value(s, x) # None /\ x \notin Words /\ x \in Counts => Value(s, x) \in Nat
  BY NumberValues
<1> HIDE DEF s, old
<1>5. SmallBufferPool(s) => SmallBufferPool(r)
  <2> SUFFICES ASSUME SmallBufferPool(s) PROVE SmallBufferPool(r)
    OBVIOUS
  <2> DEFINE pool(x) == Value(x, "innodb_buffer_pool_size")
             requests == Value(s, "Innodb_buffer_pool_read_requests")
             reads(x) == IF Value(x, "Innodb_buffer_pool_reads") = None THEN 0
                         ELSE Value(x, "Innodb_buffer_pool_reads")
             db == s.meta.db_size_bytes
  <2>1. /\ pool(s) # None /\ db # None /\ requests \notin {None, 0}
        /\ LessThan(pool(s), db, 50) /\ LessThan(requests - reads(s), requests, 99)
    BY DEF SmallBufferPool, T
  <2>2. Value(r, "Innodb_buffer_pool_read_requests") = requests /\ r.meta.db_size_bytes = db
    BY <1>1, <1>2 DEF s
  <2>3. pool(s) \in Int /\ requests \in Int /\ db \in Nat /\ reads(s) \in Int
    <3>1. pool(s) \in Int /\ requests \in Int
      BY <1>4, <2>1 DEF Words
    <3>2. db \in Nat
      BY <2>1 DEF SnapshotOk, SnapshotMeta, Nullable, s
    <3>3. reads(s) \in Int
      BY <1>4 DEF Words
    <3> QED
      BY <3>1, <3>2, <3>3
  <2>4. pool(r) # None /\ pool(r) \in Int /\ pool(r) <= pool(s)
    <3>1. CASE name # "innodb_buffer_pool_size"
      BY <1>1, <2>1, <2>3, <3>1
    <3>2. CASE name = "innodb_buffer_pool_size"
      BY <1>1, <1>2, <1>3, <3>2 DEF Words, old, s
    <3> QED
      BY <3>1, <3>2
  <2>5. reads(r) \in Int /\ reads(r) >= reads(s)
    <3>1. CASE name # "Innodb_buffer_pool_reads"
      BY <1>1, <2>3, <3>1
    <3>2. CASE name = "Innodb_buffer_pool_reads"
      BY <1>1, <1>2, <1>3, <3>2 DEF Words, old, s
    <3> QED
      BY <3>1, <3>2
  <2> HIDE DEF pool, requests, reads, db
  <2>6. LessThan(pool(r), db, 50) /\ LessThan(requests - reads(r), requests, 99)
    BY <2>1, <2>3, <2>4, <2>5 DEF LessThan
  <2> QED
    BY <2>1, <2>2, <2>4, <2>6 DEF SmallBufferPool, T, pool, requests, reads, db
<1>6. SmallLogFile(s) => SmallLogFile(r)
  <2>1. CASE name # "innodb_log_file_size"
    BY <1>1, <2>1 DEF SmallLogFile, Missing
  <2>2. CASE name = "innodb_log_file_size"
    BY <1>1, <1>2, <1>3, <2>2 DEF SmallLogFile, Missing, Words, T, MB, old, s
  <2> QED
    BY <2>1, <2>2
<1>7. TmpTableMismatch(s) => TmpTableMismatch(r)
  <2>1. CASE name # "max_heap_table_size"
    BY <1>1, <1>2, <2>1 DEF TmpTableMismatch, Missing
  <2>2. CASE name = "max_heap_table_size"
    BY <1>2, <2>2 DEF TmpTableMismatch, old, s
  <2> QED
    BY <2>1, <2>2
<1>8. ASSUME NEW count \in {"Opened_tables", "Threads_created"}, Value(s, count) # None
      PROVE  /\ Value(s, count) \in Nat /\ Value(r, count) \in Int /\ Value(r, count) # None
             /\ Value(r, count) >= Value(s, count)
  <2>1. Value(s, count) \in Nat
    BY <1>4, <1>8 DEF Words, Counts
  <2>2. CASE name # count
    BY <1>1, <1>8, <2>1, <2>2
  <2>3. CASE name = count
    BY <1>1, <1>2, <1>3, <1>8, <2>1, <2>3 DEF Words, old, s
  <2> QED
    BY <2>1, <2>2, <2>3
<1>9. TablesReopened(s) => TablesReopened(r)
  <2> SUFFICES ASSUME TablesReopened(s) PROVE TablesReopened(r)
    OBVIOUS
  <2> DEFINE uptime == Value(s, "Uptime")
  <2>1. /\ Value(s, "Opened_tables") # None /\ uptime # None /\ ~Below(uptime, T.my_min_uptime_s)
        /\ Value(s, "Opened_tables") > 1 * uptime
    BY DEF TablesReopened, Missing, Below, T
  <2>2. uptime \in Nat /\ Value(r, "Uptime") = uptime
    BY <1>1, <1>2, <1>4, <2>1 DEF Words, Counts
  <2> HIDE DEF uptime
  <2>3. Value(r, "Opened_tables") # None /\ Value(r, "Opened_tables") > 1 * uptime
    BY <1>8, <2>1, <2>2
  <2> QED
    BY <2>1, <2>2, <2>3 DEF TablesReopened, Missing, T
<1>10. ThreadsCreated(s) => ThreadsCreated(r)
  <2> SUFFICES ASSUME ThreadsCreated(s) PROVE ThreadsCreated(r)
    OBVIOUS
  <2> DEFINE connections == Value(s, "Connections")
  <2>1. /\ Value(s, "Threads_created") # None /\ connections # None
        /\ ~Below(connections, T.my_min_connections_sample)
        /\ 100 * Value(s, "Threads_created") > 10 * connections
    BY DEF ThreadsCreated, Missing, Below, T
  <2>2. connections \in Nat /\ Value(r, "Connections") = connections
    BY <1>1, <1>2, <1>4, <2>1 DEF Words, Counts
  <2> HIDE DEF connections
  <2>3. /\ Value(r, "Threads_created") # None
        /\ 100 * Value(r, "Threads_created") > 10 * connections
    BY <1>8, <2>1, <2>2
  <2> QED
    BY <2>1, <2>2, <2>3 DEF ThreadsCreated, Missing, T
<1>11. DurabilityTradeoff(s) => DurabilityTradeoff(r)
  BY <1>1, <1>2 DEF DurabilityTradeoff, old, s
<1>12. QueryCache(s) => QueryCache(r)
  BY <1>1, <1>2 DEF QueryCache, Is
<1>13. ~Below(Value(s, "max_connections"), T.my_max_connections_high)
       => ~Below(Value(r, "max_connections"), T.my_max_connections_high)
  BY <1>1, <1>2
<1>14. /\ Is(s, "slow_query_log", {"OFF", "0"}) => Is(r, "slow_query_log", {"OFF", "0"})
       /\ Is(s, "performance_schema", {"OFF", "0"}) => Is(r, "performance_schema", {"OFF", "0"})
  BY <1>1, <1>2 DEF Is
<1> QED
  BY <1>5, <1>6, <1>7, <1>9, <1>10, <1>11, <1>12, <1>13, <1>14, Zenon DEF MyChecksStay, s

\* The checks that fired on a server fire when it got worse
LEMMA WorseChecksStay ==
    ASSUME SnapshotOk(snapshot), Worsen
    PROVE  PgChecksStay(snapshot', snapshot) /\ MyChecksStay(snapshot', snapshot)
<1>1. SnapshotOk(snapshot') /\ AsBad(snapshot', snapshot)
  BY WorsenSnapshot, WorseIsAsBad
<1>2. CASE SettingLoosens
  <2>1. PICK name, new : /\ Loosened(snapshot', snapshot, name, new)
                         /\ Looser(name, Value(snapshot, name), new)
    BY <1>2, LoosenedSetting
  <2>2. snapshot'.meta = snapshot.meta /\ snapshot'.tables = snapshot.tables
    BY <1>2, LoosenedSetting
  <2> QED
    BY <1>1, <2>1, <2>2, LooserPgStay, LooserMyStay
<1>3. CASE TableWorsens \/ IndexWorsens \/ CallsRise \/ LockWaitsGrow
           \/ ConnectionsGrow \/ DatabaseGrows
  <2>1. snapshot'.settings = snapshot.settings
    BY <1>3 DEF TableWorsens, IndexWorsens, CallsRise, LockWaitsGrow, ConnectionsGrow,
                DatabaseGrows, Change, SnapshotOk
  <2> QED
    BY <1>1, <2>1, SameSettingsStay
<1> QED
  BY <1>2, <1>3 DEF Worsen

\* A finding outdoes itself
LEMMA FindingOutdoesItself == ASSUME NEW f, IsFinding(f) PROVE Outdoes(f, f)
BY SeverityIsNoWorse DEF Outdoes, IsFinding

\* The findings of checks that still fire
LEMMA ChecksOutdone ==
    ASSUME NEW s, NEW r
    PROVE  /\ PgChecksStay(r, s) => Outdone(ConfigFindings("R-CFG-PG", PgChecks(s)),
                                            ConfigFindings("R-CFG-PG", PgChecks(r)))
           /\ MyChecksStay(r, s) => Outdone(ConfigFindings("R-CFG-MY", MyChecks(s)),
                                            ConfigFindings("R-CFG-MY", MyChecks(r)))
<1>1. /\ \A f \in ConfigFindings("R-CFG-PG", PgChecks(s)) : IsFinding(f)
      /\ \A f \in ConfigFindings("R-CFG-MY", MyChecks(s)) : IsFinding(f)
  BY CheckedFindings, PgSeverities, MySeverities
<1>2. ASSUME PgChecksStay(r, s), NEW f \in ConfigFindings("R-CFG-PG", PgChecks(s))
      PROVE  f \in ConfigFindings("R-CFG-PG", PgChecks(r))
  <2>1. PgFired(s, f)
    BY <1>2, PgFindings
  <2>2. PgFired(r, f)
    BY <1>2, <2>1 DEF PgChecksStay, PgFired
  <2> QED
    BY <2>2, PgFindings
<1>3. ASSUME MyChecksStay(r, s), NEW f \in ConfigFindings("R-CFG-MY", MyChecks(s))
      PROVE  f \in ConfigFindings("R-CFG-MY", MyChecks(r))
  <2>1. MyFired(s, f)
    BY <1>3, MyFindings
  <2>2. MyFired(r, f)
    BY <1>3, <2>1 DEF MyChecksStay, MyFired
  <2> QED
    BY <2>2, MyFindings
<1> QED
  BY <1>1, <1>2, <1>3, FindingOutdoesItself DEF Outdone

\* Every finding of a server is outdone when it got worse
LEMMA WorseIsOutdone ==
    ASSUME SnapshotOk(snapshot), Worsen
    PROVE  Outdone(RunAll(snapshot), RunAll(snapshot'))
<1> DEFINE s == snapshot
           r == snapshot'
<1>1. SnapshotOk(s) /\ SnapshotOk(r) /\ AsBad(r, s) /\ r.meta.engine = s.meta.engine
  BY WorsenSnapshot, WorseIsAsBad DEF AsBad
<1>2. PgChecksStay(r, s) /\ MyChecksStay(r, s)
  BY WorseChecksStay
<1> HIDE DEF s, r
<1>3. /\ Outdone(HighTotalTimeQuery(s), HighTotalTimeQuery(r))
      /\ Outdone(SlowMeanTimeQuery(s), SlowMeanTimeQuery(r))
      /\ Outdone(HighFrequencyQuery(s), HighFrequencyQuery(r))
      /\ Outdone(MissingIndexCandidate(s), MissingIndexCandidate(r))
      /\ Outdone(UnusedIndex(s), UnusedIndex(r))
      /\ Outdone(DuplicateIndex(s), DuplicateIndex(r))
      /\ Outdone(LockWaitChain(s), LockWaitChain(r))
      /\ Outdone(ConnectionHeadroom(s), ConnectionHeadroom(r))
      /\ Outdone(TableGrowthRisk(s), TableGrowthRisk(r))
  BY <1>1, WorseQ1, WorseQ2, WorseQ3, WorseI1, WorseI2, WorseI3, WorseL1, WorseC1, WorseG1
<1>4. Outdone(EveryEngine(s), EveryEngine(r))
  <2>1. \A f \in EveryEngine(s) : \E g \in EveryEngine(r) : Outdoes(g, f)
    BY <1>3, Zenon DEF Outdone, EveryEngine
  <2> QED
    BY <2>1 DEF Outdone
<1>5. /\ Outdone(VacuumLag(s), VacuumLag(r))
      /\ Outdone(AutovacuumNotRunning(s), AutovacuumNotRunning(r))
      /\ Outdone(BloatEstimate(s), BloatEstimate(r))
  <2>1. Value(s, "autovacuum") = "off" => Value(r, "autovacuum") = "off"
    BY <1>2 DEF PgChecksStay, Is
  <2> QED
    BY <1>1, <2>1, WorseMaintenance
<1>6. Outdone(PgOnly(s), PgOnly(r))
  BY <1>2, <1>5, ChecksOutdone, OutdoneTogether DEF PgOnly
<1>7. s.meta.engine # "postgres" => Outdone(MySQLOnly(s), MySQLOnly(r))
  BY <1>1, <1>2, WorseM4, ChecksOutdone, OutdoneTogether DEF MySQLOnly
<1>8. Outdone(RunAll(s), RunAll(r))
  BY <1>1, <1>4, <1>6, <1>7, OutdoneTogether DEF RunAll
<1> QED
  BY <1>8 DEF s, r

\* A server that gets worse never gets a higher score: the finding that outdoes a
\* finding of it is another one for each, and the score falls with the points
THEOREM WorseNeverPays == Spec => WorseIsNotBetter
<1>1. ASSUME SnapshotOk(snapshot), Worsen
      PROVE  Rubric(RunAll(snapshot')) <= Rubric(RunAll(snapshot))
  <2> DEFINE F == RunAll(snapshot)
             G == RunAll(snapshot')
             m == [f \in F |-> CHOOSE g \in G : Outdoes(g, f)]
  <2>1. SnapshotOk(snapshot')
    BY <1>1, WorsenSnapshot
  <2>2. /\ IsFiniteSet(F) /\ (\A f \in F : IsFinding(f))
        /\ IsFiniteSet(G) /\ (\A f \in G : IsFinding(f))
        /\ \A f, g \in F : f.rule = g.rule /\ f.object = g.object => f = g
    BY <1>1, <2>1, FindingsHaveKeys, EveryFindingCounts
  <2>3. \A f \in F : \E g \in G : Outdoes(g, f)
    BY <1>1, WorseIsOutdone DEF Outdone
  <2> HIDE DEF F, G
  <2>4. \A f \in F : m[f] \in G /\ Outdoes(m[f], f)
    BY <2>3
  <2>5. m \in [F -> G]
    BY <2>4
  <2> HIDE DEF m
  <2>6. \A f, g \in F : m[f] = m[g] => f = g
    BY <2>2, <2>4 DEF Outdoes
  <2>7. \A f \in F : /\ m[f].category = f.category
                     /\ Deduction[f.severity] <= Deduction[m[f].severity]
    BY <2>4 DEF Outdoes
  <2>8. Rubric(G) <= Rubric(F)
    BY <2>2, <2>5, <2>6, <2>7, RubricIsMonotone
  <2> QED
    BY <2>8 DEF F, G
<1>2. TypeOK /\ [Next]_vars =>
        [Worsen => Rubric(RunAll(snapshot)') <= Rubric(RunAll(snapshot))]_vars
  BY <1>1 DEF TypeOK
<1> QED
  BY <1>2, TypeCorrect, PTL DEF Spec, WorseIsNotBetter
=============================================================================
