-------------------------- MODULE AiExplainerProofs --------------------------
(***************************************************************************)
(* Proofs about AiExplainer for any findings, prompts, answers and faults: *)
(* no invented number reaches a report, a rejected answer is never cached  *)
(* and what is cached whole is cached for good.                            *)
(***************************************************************************)
EXTENDS AiExplainer, TLAPS

\* The answer about to be stored passed the guard, and its file is not there
\* yet or has just been opened
StoringInv ==
    /\ stage \in {"again", "store", "write"} => cur \in Findings
    /\ stage \in {"store", "write"} => ~Violates(draft, cur)
    /\ stage \in {"again", "store"} => cache[cur] = None
    /\ stage = "write" => cache[cur] = Torn({})

\* The inductive invariant
IInv == TypeOK /\ Grounded /\ RejectedNeverCached /\ StoringInv

\* The template, and an empty file, are honest
LEMMA HonestFallBack ==
    ASSUME NEW f \in Findings
    PROVE  /\ Whole(Template[f]) \in Text
           /\ HonestText(Whole(Template[f]), f)
           /\ Torn({}) \in Text
           /\ HonestText(Torn({}), f)
<1>1. Template[f] \subseteq Given[f] /\ Template[f] \subseteq Numbers
  BY PromptAssumption
<1>2. HonestText(Whole(Template[f]), f)
  BY <1>1 DEF HonestText, Whole, Violates, Allowed
<1>3. {} \in Cuts({})
  <2> DEFINE Tails == {{}} \cup {{n} : n \in UNION {Stumps(m) : m \in {}}}
  <2>1. {} \in SUBSET {} /\ {} \in Tails
    OBVIOUS
  <2> HIDE DEF Tails
  <2>2. {} \cup {} \in {kept \cup stump : kept \in SUBSET {}, stump \in Tails}
    BY <2>1
  <2>3. {} \cup {} = {}
    OBVIOUS
  <2> QED
    BY <2>2, <2>3 DEF Cuts, Tails
<1>4. HonestText(Torn({}), f)
  BY <1>3 DEF HonestText, Torn
<1> QED
  BY <1>1, <1>2, <1>4 DEF Text, Whole, Torn

\* A grounded answer is honest, whole or cut
LEMMA HonestAnswer ==
    ASSUME NEW f \in Findings, NEW text \in SUBSET Numbers, ~Violates(text, f)
    PROVE  /\ Whole(text) \in Text /\ HonestText(Whole(text), f)
           /\ \A left \in Cuts(text) : Torn(left) \in Text /\ HonestText(Torn(left), f)
<1>1. text \in SUBSET Allowed(f)
  BY DEF Violates
<1>2. ASSUME NEW left \in Cuts(text)
      PROVE  Torn(left) \in Text /\ HonestText(Torn(left), f)
  <2>1. left \subseteq Numbers
    BY <1>2 DEF Cuts, Stumps
  <2> QED
    BY <1>1, <2>1 DEF HonestText, Torn, Text
<1> QED
  BY <1>1, <1>2 DEF Whole, Text, HonestText

\* Initially nothing is cached, asked or explained
LEMMA InitInv == Init => IInv
BY DEF Init, IInv, TypeOK, Grounded, RejectedNeverCached, StoringInv, Stage

\* A text added to the report of a run leaves the rest as it was
LEMMA ExplainedInv ==
    ASSUME IInv, NEW f \in Findings, NEW text \in Text, HonestText(text, f),
           Explained(f, text), UNCHANGED <<cache, client>>
    PROVE  IInv'
<1>1. TypeOK'
  BY DEF IInv, TypeOK, Explained, Stage, Text
<1>2. Grounded'
  BY DEF IInv, TypeOK, Explained, Grounded
<1>3. RejectedNeverCached'
  BY DEF IInv, RejectedNeverCached
<1>4. StoringInv'
  BY DEF Explained, StoringInv
<1> QED
  BY <1>1, <1>2, <1>3, <1>4 DEF IInv

\* An answer kept for storing has passed the guard
LEMMA KeepInv ==
    ASSUME IInv, NEW f \in Findings, NEW text \in Replies, cache[f] = None, Keep(f, text)
    PROVE  IInv'
<1>1. TypeOK'
  BY NumbersAssumption DEF IInv, TypeOK, Keep, Stage
<1>2. Grounded' /\ RejectedNeverCached'
  BY DEF IInv, Keep, Grounded, RejectedNeverCached
<1>3. StoringInv'
  BY DEF Keep, StoringInv
<1> QED
  BY <1>1, <1>2, <1>3 DEF IInv

\* A run that ended publishes nothing more
LEMMA EndsInv ==
    ASSUME IInv, Ends, cache' \in [Findings -> Text \cup {None}],
           RejectedNeverCached'
    PROVE  IInv'
BY DEF IInv, Ends, TypeOK, Stage, Grounded, StoringInv

\* Every step keeps the inductive invariant
LEMMA NextInv == IInv /\ [Next]_vars => IInv'
<1> SUFFICES ASSUME IInv, [Next]_vars PROVE IInv'
  OBVIOUS
<1> USE DEF IInv
<1>1. CASE Begin
  BY <1>1 DEF Begin, TypeOK, Stage, Grounded, RejectedNeverCached, StoringInv
<1>2. ASSUME NEW f \in Findings, ReadCache(f) PROVE IInv'
  <2>1. cache[f] \in Text /\ HonestText(cache[f], f)
    BY <1>2 DEF ReadCache, TypeOK, RejectedNeverCached
  <2> QED
    BY <1>2, <2>1, ExplainedInv DEF ReadCache
<1>3. ASSUME NEW f \in Findings, Offline(f) PROVE IInv'
  BY <1>3, HonestFallBack, ExplainedInv DEF Offline, FallBack
<1>4. ASSUME NEW f \in Findings, Ask(f) PROVE IInv'
  BY <1>4, HonestFallBack, ExplainedInv, KeepInv DEF Ask, FallBack
<1>5. ASSUME NEW f \in Findings, ReadRaises(f) PROVE IInv'
  <2>1. RejectedNeverCached' /\ cache' \in [Findings -> Text \cup {None}]
    BY <1>5 DEF ReadRaises, TypeOK, RejectedNeverCached
  <2> QED
    BY <1>5, <2>1, EndsInv DEF ReadRaises
<1>6. CASE AskAgain
  <2>1. stage = "again" /\ cur \in Findings /\ cache[cur] = None
    BY <1>6 DEF AskAgain, StoringInv
  <2> QED
    BY <1>6, <2>1, HonestFallBack, ExplainedInv, KeepInv DEF AskAgain, FallBack
<1>7. CASE OpenCache
  <2>1. cur \in Findings /\ ~Violates(draft, cur) /\ stage = "store"
    BY <1>7 DEF OpenCache, StoringInv
  <2>2. TypeOK'
    BY <1>7, <2>1, HonestFallBack DEF OpenCache, TypeOK, Stage
  <2>3. Grounded'
    BY <1>7 DEF OpenCache, Grounded
  <2>4. RejectedNeverCached'
    <3>1. ASSUME NEW f \in Findings, cache'[f] # None PROVE HonestText(cache'[f], f)
      <4>1. CASE f = cur
        BY <1>7, <2>1, <4>1, HonestFallBack DEF OpenCache, TypeOK
      <4>2. CASE f # cur
        BY <1>7, <3>1, <4>2 DEF OpenCache, TypeOK, RejectedNeverCached
      <4> QED
        BY <4>1, <4>2
    <3> QED
      BY <3>1 DEF RejectedNeverCached
  <2>5. StoringInv'
    BY <1>7, <2>1 DEF OpenCache, StoringInv, TypeOK
  <2> QED
    BY <2>2, <2>3, <2>4, <2>5
<1>8. CASE WriteCache
  <2>1. cur \in Findings /\ ~Violates(draft, cur) /\ draft \in SUBSET Numbers
    BY <1>8 DEF WriteCache, StoringInv, TypeOK
  <2>2. Whole(draft) \in Text /\ HonestText(Whole(draft), cur)
    BY <2>1, HonestAnswer
  <2>3. TypeOK'
    BY <1>8, <2>1, <2>2 DEF WriteCache, Explained, TypeOK, Stage
  <2>4. Grounded' /\ RejectedNeverCached'
    <3>1. ASSUME NEW f \in Findings PROVE /\ texts'[f] # None => HonestText(texts'[f], f)
                                          /\ cache'[f] # None => HonestText(cache'[f], f)
      <4>1. CASE f = cur
        BY <1>8, <2>1, <2>2, <4>1 DEF WriteCache, Explained, TypeOK
      <4>2. CASE f # cur
        BY <1>8, <4>2 DEF WriteCache, Explained, TypeOK, RejectedNeverCached, Grounded
      <4> QED
        BY <4>1, <4>2
    <3> QED
      BY <3>1 DEF RejectedNeverCached, Grounded
  <2>5. StoringInv'
    BY <1>8 DEF WriteCache, Explained, StoringInv
  <2> QED
    BY <2>3, <2>4, <2>5
<1>9. CASE StoreRaises
  <2>1. stage \in {"store", "write"} /\ cur \in Findings /\ draft \in SUBSET Numbers
        /\ ~Violates(draft, cur)
    BY <1>9 DEF StoreRaises, StoringInv, TypeOK
  <2>2. cache' \in [Findings -> Text \cup {None}]
    BY <1>9, <2>1, HonestAnswer DEF StoreRaises, TypeOK
  <2>3. RejectedNeverCached'
    <3>1. ASSUME NEW f \in Findings, cache'[f] # None PROVE HonestText(cache'[f], f)
      <4>1. CASE cache'[f] = cache[f]
        BY <3>1, <4>1 DEF RejectedNeverCached
      <4>2. CASE cache'[f] # cache[f]
        <5>1. f = cur /\ \E left \in Cuts(draft) : cache'[f] = Torn(left)
          BY <1>9, <2>1, <4>2 DEF StoreRaises, TypeOK
        <5> QED
          BY <2>1, <5>1, HonestAnswer
      <4> QED
        BY <4>1, <4>2
    <3> QED
      BY <3>1 DEF RejectedNeverCached
  <2> QED
    BY <1>9, <2>2, <2>3, EndsInv DEF StoreRaises
<1>10. CASE Finish
  BY <1>10 DEF Finish, TypeOK, Stage, Grounded, RejectedNeverCached, StoringInv
<1>11. CASE Crash
  <2>1. RejectedNeverCached' /\ cache' \in [Findings -> Text \cup {None}]
    BY <1>11 DEF Crash, TypeOK, RejectedNeverCached
  <2> QED
    BY <1>11, <2>1, EndsInv DEF Crash
<1>12. CASE Leave
  <2>1. RejectedNeverCached' /\ cache' \in [Findings -> Text \cup {None}]
    BY <1>12 DEF Leave, TypeOK, RejectedNeverCached
  <2> QED
    BY <1>12, <2>1, EndsInv DEF Leave
<1>13. CASE UNCHANGED vars
  BY <1>13 DEF vars, TypeOK, Grounded, RejectedNeverCached, StoringInv
<1> QED
  BY <1>1, <1>2, <1>3, <1>4, <1>5, <1>6, <1>7, <1>8, <1>9, <1>10, <1>11, <1>12, <1>13 DEF Next, Explain, Raises

\* The inductive invariant holds in every reachable state
THEOREM Invariance == Spec => []IInv
<1> QED
  BY InitInv, NextInv, PTL DEF Spec

\* Every variable keeps its type
THEOREM TypeCorrect == Spec => []TypeOK
<1>1. IInv => TypeOK
  BY DEF IInv
<1> QED
  BY <1>1, Invariance, PTL

\* No invented number reaches a report, whatever the model answers, also through
\* the cache of a run that was killed or ran out of disk
THEOREM ReportsAreGrounded == Spec => []Grounded
<1>1. IInv => Grounded
  BY DEF IInv
<1> QED
  BY <1>1, Invariance, PTL

\* A rejected answer is never cached, not even in part
THEOREM CacheIsGrounded == Spec => []RejectedNeverCached
<1>1. IInv => RejectedNeverCached
  BY DEF IInv
<1> QED
  BY <1>1, Invariance, PTL

\* No run publishes an invented number or leaves one for the runs to come
THEOREM NumbersAreGiven == Spec => []NothingInvented
<1>1. Grounded /\ RejectedNeverCached => NothingInvented
  BY DEF NothingInvented
<1> QED
  BY <1>1, ReportsAreGrounded, CacheIsGrounded, PTL

\* A whole cached paragraph is never written again: a file is opened only when
\* it is not there, and written only after it was opened
THEOREM CacheIsKept == Spec => CachedForGood
<1>1. IInv /\ [Next]_vars =>
        [\A f \in Findings : cache[f] # None /\ cache[f].whole => cache'[f] = cache[f]]_vars
  <2> SUFFICES ASSUME IInv, Next, NEW f \in Findings, cache[f] # None, cache[f].whole
               PROVE  cache'[f] = cache[f]
    BY DEF vars
  <2>1. CASE OpenCache \/ WriteCache \/ StoreRaises
    BY <2>1 DEF OpenCache, WriteCache, StoreRaises, IInv, StoringInv, TypeOK, Torn
  <2>2. CASE UNCHANGED cache
    BY <2>2
  <2>3. OpenCache \/ WriteCache \/ StoreRaises \/ UNCHANGED cache
    BY DEF Next, Explain, Raises, Leave, Begin, ReadCache, Offline, Ask, Keep, ReadRaises, AskAgain, Finish, Crash
  <2> QED
    BY <2>1, <2>2, <2>3
<1> QED
  BY <1>1, Invariance, PTL DEF Spec, CachedForGood
=============================================================================
