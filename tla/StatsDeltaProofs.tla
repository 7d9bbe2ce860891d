-------------------------- MODULE StatsDeltaProofs --------------------------
(***************************************************************************)
(* Proofs about StatsDelta for any statements, limits and execution times: *)
(* what a rate of a two-snapshot report says of what really ran.           *)
(***************************************************************************)
EXTENDS StatsDelta, TLAPS

\* What prev and the counters say of what ran since prev was taken
CountedInv ==
    prev # None =>
        \A r \in DOMAIN prev :
            /\ r \notin forgotten =>
                 /\ counters[r].calls = prev[r].calls + done[r].calls
                 /\ counters[r].time = prev[r].time + done[r].time
            /\ r \in forgotten =>
                 /\ counters[r].calls <= done[r].calls
                 /\ counters[r].time <= done[r].time

\* The inductive invariant
IInv == TypeOK /\ CountedInv /\ NeverOverstated /\ FlagsHonest

\* The parts of a row's counters
LEMMA WorkParts ==
    ASSUME NEW f \in [Rows -> Work], NEW r \in Rows
    PROVE  f[r].calls \in Nat /\ f[r].time \in Nat
BY DEF Work

\* A snapshot holds rows and their counters
LEMMA SnapshotRows ==
    ASSUME TypeOK, prev # None
    PROVE  /\ DOMAIN prev \subseteq Rows
           /\ \A r \in DOMAIN prev : prev[r].calls \in Nat /\ prev[r].time \in Nat
<1>1. PICK rows \in SUBSET Rows : prev \in [rows -> Work]
  BY DEF TypeOK, Holds
<1> QED
  BY <1>1 DEF Work

\* At first nothing is counted
LEMMA InitInv == Init => IInv
<1> SUFFICES ASSUME Init PROVE IInv
  OBVIOUS
<1>1. NoWork \in Work
  BY DEF NoWork, Work
<1>2. TypeOK
  BY <1>1 DEF Init, TypeOK
<1> QED
  BY <1>2 DEF Init, IInv, CountedInv, NeverOverstated, FlagsHonest

\* A statement runs
LEMMA RunInv ==
    ASSUME IInv, NEW r \in Rows, NEW t \in Times, Run(r, t)
    PROVE  IInv'
<1>1. t \in Nat
  BY NumbersAssumption
<1>2. /\ counters' = [counters EXCEPT ![r] = Plus(counters[r], t)]
      /\ done' = [done EXCEPT ![r] = Plus(done[r], t)]
      /\ report' = None
      /\ UNCHANGED <<prev, older, forgotten>>
  BY DEF Run
<1>3. ASSUME NEW f \in [Rows -> Work] PROVE Plus(f[r], t) \in Work
  BY <1>1, WorkParts DEF Plus, Work
<1>4. TypeOK'
  BY <1>2, <1>3 DEF IInv, TypeOK, Holds
<1>5. CountedInv'
  <2>1. SUFFICES ASSUME prev # None, NEW q \in DOMAIN prev
                 PROVE  /\ q \notin forgotten =>
                             /\ counters'[q].calls = prev[q].calls + done'[q].calls
                             /\ counters'[q].time = prev[q].time + done'[q].time
                        /\ q \in forgotten =>
                             /\ counters'[q].calls <= done'[q].calls
                             /\ counters'[q].time <= done'[q].time
    BY <1>2 DEF CountedInv
  <2>2. /\ q \in Rows /\ prev[q].calls \in Nat /\ prev[q].time \in Nat
        /\ counters[q].calls \in Nat /\ counters[q].time \in Nat
        /\ done[q].calls \in Nat /\ done[q].time \in Nat
    BY <2>1, SnapshotRows, WorkParts DEF IInv, TypeOK
  <2>3. CASE q = r
    <3>1. /\ counters'[q].calls = counters[q].calls + 1
          /\ counters'[q].time = counters[q].time + t
          /\ done'[q].calls = done[q].calls + 1
          /\ done'[q].time = done[q].time + t
      BY <1>2, <2>3 DEF Plus, IInv, TypeOK
    <3> QED
      BY <1>1, <2>1, <2>2, <3>1 DEF IInv, CountedInv
  <2>4. CASE q # r
    <3>1. counters'[q] = counters[q] /\ done'[q] = done[q]
      BY <1>2, <2>2, <2>4 DEF IInv, TypeOK
    <3> QED
      BY <2>1, <3>1 DEF IInv, CountedInv
  <2> QED
    BY <2>3, <2>4
<1> QED
  BY <1>2, <1>4, <1>5 DEF IInv, NeverOverstated, FlagsHonest

\* Counters are reset or evicted
LEMMA ForgetInv ==
    ASSUME IInv, NEW rows \in SUBSET Rows, Forget(rows)
    PROVE  IInv'
<1>1. NoWork \in Work
  BY DEF NoWork, Work
<1>2. TypeOK'
  BY <1>1 DEF Forget, IInv, TypeOK, Holds
<1>3. CountedInv'
  <2>1. SUFFICES ASSUME prev # None, NEW q \in DOMAIN prev
                 PROVE  /\ q \notin forgotten' =>
                             /\ counters'[q].calls = prev[q].calls + done[q].calls
                             /\ counters'[q].time = prev[q].time + done[q].time
                        /\ q \in forgotten' =>
                             /\ counters'[q].calls <= done[q].calls
                             /\ counters'[q].time <= done[q].time
    BY DEF Forget, CountedInv
  <2>2. q \in Rows /\ done[q].calls \in Nat /\ done[q].time \in Nat
    BY <2>1, SnapshotRows, WorkParts DEF IInv, TypeOK
  <2>3. CASE q \in rows
    <3>1. counters'[q].calls = 0 /\ counters'[q].time = 0 /\ q \in forgotten'
      BY <2>2, <2>3 DEF Forget, NoWork
    <3> QED
      BY <2>2, <3>1
  <2>4. CASE q \notin rows
    <3>1. counters'[q] = counters[q] /\ (q \in forgotten' <=> q \in forgotten)
      BY <2>2, <2>4 DEF Forget
    <3> QED
      BY <2>1, <3>1 DEF IInv, CountedInv
  <2> QED
    BY <2>3, <2>4
<1> QED
  BY <1>2, <1>3 DEF Forget, IInv, NeverOverstated, FlagsHonest

\* A snapshot without a previous one
LEMMA CollectInv ==
    ASSUME IInv, Collect
    PROVE  IInv'
<1>1. PICK rows \in SUBSET Rows : TopRows(rows) /\ prev' = Restrict(counters, rows)
  BY DEF Collect
<1>2. prev' = [r \in rows |-> counters[r]]
  BY <1>1 DEF Restrict
<1>3. NoWork \in Work
  BY DEF NoWork, Work
<1>4. TypeOK'
  <2>1. prev' \in [rows -> Work] /\ DOMAIN prev' = rows
    BY <1>2 DEF IInv, TypeOK
  <2>2. Holds(prev', Work) /\ Cardinality(DOMAIN prev') <= Top
    BY <1>1, <2>1 DEF Holds, TopRows
  <2> QED
    BY <1>3, <2>2 DEF Collect, IInv, TypeOK
<1>5. CountedInv'
  <2>1. ASSUME NEW q \in DOMAIN prev'
        PROVE  /\ q \notin forgotten'
               /\ counters'[q].calls = prev'[q].calls + done'[q].calls
               /\ counters'[q].time = prev'[q].time + done'[q].time
    <3>1. q \in rows /\ prev'[q] = counters[q]
      BY <1>2, <2>1
    <3>2. counters[q].calls \in Nat /\ counters[q].time \in Nat
      BY <3>1, WorkParts DEF IInv, TypeOK
    <3> QED
      BY <3>1, <3>2 DEF Collect, NoWork
  <2> QED
    BY <2>1 DEF CountedInv
<1> QED
  BY <1>4, <1>5 DEF Collect, IInv, NeverOverstated, FlagsHonest

\* What a rate compared with the row's own past says
LEMMA RateIsTrue ==
    ASSUME IInv, prev # None, NEW r \in DOMAIN prev
    PROVE  LET rate == RateOf(counters[r], prev[r]) IN
             /\ rate.calls \in 0..done[r].calls
             /\ rate.time \in 0..done[r].time
             /\ rate.low => r \in forgotten
             /\ ~rate.low /\ r \notin forgotten =>
                  rate.calls = done[r].calls /\ rate.time = done[r].time
<1>1. /\ r \in Rows /\ prev[r].calls \in Nat /\ prev[r].time \in Nat
      /\ counters[r].calls \in Nat /\ counters[r].time \in Nat
      /\ done[r].calls \in Nat /\ done[r].time \in Nat
  BY SnapshotRows, WorkParts DEF IInv, TypeOK
<1>2. CASE r \in forgotten
  <2>1. counters[r].calls <= done[r].calls /\ counters[r].time <= done[r].time
    BY <1>2 DEF IInv, CountedInv
  <2> QED
    BY <1>1, <1>2, <2>1 DEF RateOf
<1>3. CASE r \notin forgotten
  <2>1. /\ counters[r].calls = prev[r].calls + done[r].calls
        /\ counters[r].time = prev[r].time + done[r].time
    BY <1>3 DEF IInv, CountedInv
  <2> QED
    BY <1>1, <1>3, <2>1 DEF RateOf
<1> QED
  BY <1>2, <1>3

\* A snapshot that is compared with the previous one
LEMMA CollectDeltaInv ==
    ASSUME IInv, CollectDelta
    PROVE  IInv'
<1>1. PICK rows \in SUBSET Rows, base \in [Digests -> Rows \cup {None}] :
        /\ PrevQueries(base)
        /\ report' = [r \in rows |->
              IF base[DigestOf[r]] = None THEN RateOfNew(counters[r])
              ELSE RateOf(counters[r], prev[base[DigestOf[r]]])]
  BY DEF CollectDelta
<1>2. /\ prev # None
      /\ UNCHANGED <<counters, prev, older, done, forgotten>>
  BY DEF CollectDelta
<1>3. DOMAIN report' = rows
  BY <1>1
\* A new statement has no row with its digest; another is compared with one
<1>4. ASSUME NEW r \in rows
      PROVE  \/ /\ \A q \in DOMAIN prev : DigestOf[q] # DigestOf[r]
                /\ report'[r] = RateOfNew(counters[r])
             \/ \E b \in DOMAIN prev :
                  /\ DigestOf[b] = DigestOf[r]
                  /\ report'[r] = RateOf(counters[r], prev[b])
  <2>1. DigestOf[r] \in Digests
    BY RowsAssumption
  <2> QED
    BY <1>1, <2>1 DEF PrevQueries, Last
<1>5. TypeOK'
  <2>1. ASSUME NEW r \in rows PROVE report'[r] \in Rate
    <3>1. counters[r].calls \in Nat /\ counters[r].time \in Nat
      BY WorkParts DEF IInv, TypeOK
    <3>2. ASSUME NEW b \in DOMAIN prev PROVE RateOf(counters[r], prev[b]) \in Rate
      <4>1. prev[b].calls \in Nat /\ prev[b].time \in Nat
        BY <1>2, SnapshotRows DEF IInv
      <4> QED
        BY <3>1, <4>1 DEF RateOf, Rate
    <3>3. RateOfNew(counters[r]) \in Rate
      BY <3>1 DEF RateOfNew, Rate
    <3> QED
      BY <1>4, <3>2, <3>3
  <2>2. report' \in [rows -> Rate]
    BY <1>1, <2>1
  <2>3. Holds(report', Rate)
    BY <2>2 DEF Holds
  <2> QED
    BY <1>2, <2>3 DEF IInv, TypeOK, Holds
\* A row that is alone with its digest is compared with itself
<1>6. ASSUME NEW r \in rows, Sole(r), r \in DOMAIN prev
      PROVE  report'[r] = RateOf(counters[r], prev[r])
  <2>1. DOMAIN prev \subseteq Rows
    BY <1>2, SnapshotRows DEF IInv
  <2> QED
    BY <1>4, <1>6, <2>1 DEF Sole
<1>7. ASSUME NEW r \in rows, Sole(r), r \notin DOMAIN prev
      PROVE  report'[r] = RateOfNew(counters[r])
  <2>1. DOMAIN prev \subseteq Rows
    BY <1>2, SnapshotRows DEF IInv
  <2> QED
    BY <1>4, <1>7, <2>1 DEF Sole
<1>8. NeverOverstated'
  BY <1>2, <1>3, <1>6, RateIsTrue DEF NeverOverstated, Sole
<1>9. FlagsHonest'
  <2>1. ASSUME NEW r \in rows, Sole(r)
        PROVE  IF report'[r].low THEN r \notin DOMAIN prev \/ r \in forgotten
               ELSE /\ r \in DOMAIN prev
                    /\ r \notin forgotten =>
                         /\ report'[r].calls = done[r].calls
                         /\ report'[r].time = done[r].time
    <3>1. CASE r \in DOMAIN prev
      BY <1>2, <1>6, <2>1, <3>1, RateIsTrue
    <3>2. CASE r \notin DOMAIN prev
      <4>1. report'[r] = RateOfNew(counters[r])
        BY <1>7, <2>1, <3>2
      <4>2. report'[r].low
        BY <4>1 DEF RateOfNew
      <4> QED
        BY <3>2, <4>2
    <3> QED
      BY <3>1, <3>2
  <2> QED
    BY <1>2, <1>3, <2>1 DEF FlagsHonest, Sole
<1>10. CountedInv'
  BY <1>2 DEF IInv, CountedInv
<1> QED
  BY <1>5, <1>8, <1>9, <1>10 DEF IInv

\* Every step keeps the inductive invariant
LEMMA StepInv == IInv /\ [Next]_vars => IInv'
<1> SUFFICES ASSUME IInv, [Next]_vars PROVE IInv'
  OBVIOUS
<1>1. ASSUME Tick PROVE IInv'
  BY <1>1 DEF Tick, IInv, TypeOK, Holds, CountedInv, NeverOverstated, FlagsHonest
<1>2. ASSUME UNCHANGED vars PROVE IInv'
  BY <1>2 DEF vars, IInv, TypeOK, Holds, CountedInv, NeverOverstated, FlagsHonest, Sole
<1> QED
  BY <1>1, <1>2, RunInv, ForgetInv, CollectInv, CollectDeltaInv DEF Next

\* The inductive invariant holds in every reachable state
THEOREM Invariance == Spec => []IInv
BY InitInv, StepInv, PTL DEF Spec

\* Every variable has its type, and a snapshot holds no more than TOP_QUERIES rows
THEOREM TypeCorrect == Spec => []TypeOK
<1>1. IInv => TypeOK
  BY DEF IInv
<1> QED
  BY <1>1, Invariance, PTL

\* A rate is never negative and never more than really ran, resets included
THEOREM RatesAreBounded == Spec => []NeverOverstated
<1>1. IInv => NeverOverstated
  BY DEF IInv
<1> QED
  BY <1>1, Invariance, PTL

\* Low confidence is no false alarm, and full confidence is exact without a reset
THEOREM ConfidenceIsEarned == Spec => []FlagsHonest
<1>1. IInv => FlagsHonest
  BY DEF IInv
<1> QED
  BY <1>1, Invariance, PTL
=============================================================================
