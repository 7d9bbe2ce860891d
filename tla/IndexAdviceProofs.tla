-------------------------- MODULE IndexAdviceProofs --------------------------
(***************************************************************************)
(* Proofs about IndexAdvice for any table, workload and index definitions: *)
(* what the tickets of one rule may take away.                             *)
(***************************************************************************)
EXTENDS IndexAdvice, TLAPS, WellFoundedInduction

\* m can stand for n: it begins with n's columns, and is unique if it has exactly
\* these and n is
Stands(m, n) ==
    /\ IsPrefix(IndexColumns(table[n]), IndexColumns(table[m]))
    /\ IndexColumns(table[m]) = IndexColumns(table[n]) /\ table[n].unique => table[m].unique

\* While R-I3 is followed, every index has one standing for it that has no ticket
StandsInv ==
    follow = {"R-I3"} =>
        \A n \in Present : \E m \in Present :
            Stands(m, n) /\ [rule |-> "R-I3", index |-> m] \notin tickets

\* A query that ran has used an index, if there is one that serves it
RanInv ==
    \A q \in ran : Served(q) => \E n \in Names : Serves(n, q) /\ used[n]

\* While R-I2 is followed, no unique index has a ticket of it, and every query
\* that is served is served by an index that has none
ReadInv ==
    follow = {"R-I2"} =>
        /\ \A n \in Present :
              table[n].unique => [rule |-> "R-I2", index |-> n] \notin tickets
        /\ trusted => \A q \in Workload : Served(q) =>
              \E n \in Names :
                Serves(n, q) /\ [rule |-> "R-I2", index |-> n] \notin tickets

\* The inductive invariant
IInv == TypeOK /\ StandsInv /\ RanInv /\ ReadInv

-----------------------------------------------------------------------------
(* Prefixes, and the order the rule R-I3 breaks ties by                    *)

\* Some numbers have a least one
LEMMA LeastElement ==
    ASSUME NEW T, T \subseteq Nat, T # {}
    PROVE  \E x \in T : \A y \in T : x <= y
<1> DEFINE R == {ss \in Nat \X Nat : ss[1] < ss[2]}
<1>1. IsWellFoundedOn(R, Nat)
  BY NatLessThanWellFounded, Zenon DEF OpToRel
<1>2. PICK x \in T : \A y \in T : <<y, x>> \notin R
  <2> HIDE DEF R
  <2> QED
    BY <1>1, WFMin, Zenon
<1>3. ASSUME NEW y \in T PROVE x <= y
  <2>1. <<y, x>> \in Nat \X Nat /\ ~(y < x)
    BY <1>2
  <2> QED
    BY <2>1
<1> QED
  BY <1>3

\* Prefixes of prefixes
LEMMA PrefixTransitive ==
    ASSUME NEW S, NEW s \in Seq(S), NEW t \in Seq(S), NEW u \in Seq(S),
           IsPrefix(s, t), IsPrefix(t, u)
    PROVE  IsPrefix(s, u)
<1>1. Len(s) <= Len(t) /\ Len(t) <= Len(u)
  BY DEF IsPrefix
<1>2. ASSUME NEW i \in 1..Len(s) PROVE s[i] = u[i]
  <2>1. s[i] = t[i]
    BY <1>1, SubSeq(s, 1, Len(s))[i] = SubSeq(t, 1, Len(s))[i] DEF IsPrefix
  <2>2. t[i] = u[i]
    BY <1>1, SubSeq(t, 1, Len(t))[i] = SubSeq(u, 1, Len(t))[i] DEF IsPrefix
  <2> QED
    BY <2>1, <2>2
<1>3. SubSeq(s, 1, Len(s)) = SubSeq(u, 1, Len(s))
  BY <1>1, <1>2
<1> QED
  BY <1>1, <1>3 DEF IsPrefix

\* A list begins with itself
LEMMA PrefixReflexive ==
    ASSUME NEW S, NEW s \in Seq(S)
    PROVE  IsPrefix(s, s)
BY DEF IsPrefix

\* A prefix that is no shorter is the whole list
LEMMA PrefixOfSameLength ==
    ASSUME NEW S, NEW s \in Seq(S), NEW t \in Seq(S), IsPrefix(s, t), Len(t) <= Len(s)
    PROVE  s = t
<1>1. Len(s) = Len(t)
  BY DEF IsPrefix
<1>2. ASSUME NEW i \in 1..Len(s) PROVE s[i] = t[i]
  BY <1>1, SubSeq(s, 1, Len(s))[i] = SubSeq(t, 1, Len(s))[i] DEF IsPrefix
<1> QED
  BY <1>1, <1>2

\* What is known of an index that is there
LEMMA PresentDefinition ==
    ASSUME TypeOK, NEW n \in Present
    PROVE  /\ n \in Names /\ n \in Nat
           /\ table[n] \in IndexType(Seq(Keys)) /\ table[n].keys \in Seq(Keys)
           /\ IndexColumns(table[n]) \in Seq(STRING)
           /\ Len(IndexColumns(table[n])) \in 1..MaxWords
           /\ table[n].primary => table[n].unique /\ ~table[n].partial
           /\ table[n].unique \in BOOLEAN
<1>1. table[n] \in Definitions
  BY DEF TypeOK, Present
<1> QED
  BY <1>1, IndexAssumption DEF Present, IndexType

\* Among the indexes that begin with the columns of a, R-I3 spares one of the
\* longest: it never asks to drop all of them
LEMMA RedundantSparesOne ==
    ASSUME TypeOK, NEW a \in Present
    PROVE  \E b \in Present \ Redundant : Stands(b, a)
<1> DEFINE S == {n \in Present : IsPrefix(IndexColumns(table[a]), IndexColumns(table[n]))}
           Room(n) == MaxWords - Len(IndexColumns(table[n]))
<1>1. a \in S
  BY PresentDefinition, PrefixReflexive
<1>2. PICK top \in S : \A n \in S : Len(IndexColumns(table[n])) <= Len(IndexColumns(table[top]))
  <2> DEFINE T == {Room(n) : n \in S}
  <2>1. \A n \in S : Room(n) \in Nat /\ Len(IndexColumns(table[n])) \in Nat
    BY PresentDefinition, IndexAssumption
  <2>2. T \subseteq Nat /\ T # {}
    BY <1>1, <2>1
  <2>3. PICK x \in T : \A y \in T : x <= y
    <3> HIDE DEF T
    <3> QED
      BY <2>2, LeastElement
  <2>4. PICK top \in S : x = Room(top)
    BY <2>3
  <2>5. ASSUME NEW n \in S PROVE Len(IndexColumns(table[n])) <= Len(IndexColumns(table[top]))
    <3>1. Room(top) <= Room(n)
      BY <2>3, <2>4
    <3> QED
      BY <3>1, <2>1, IndexAssumption
  <2> QED
    BY <2>5
<1> DEFINE E == {n \in S : IndexColumns(table[n]) = IndexColumns(table[top])}
\* An index that extends one of E is one of E
<1>3. ASSUME NEW c \in E, NEW d \in Present, IsPrefix(IndexColumns(table[c]), IndexColumns(table[d]))
      PROVE  d \in E
  <2>1. /\ IndexColumns(table[a]) \in Seq(STRING)
        /\ IndexColumns(table[c]) \in Seq(STRING)
        /\ IndexColumns(table[d]) \in Seq(STRING)
    BY PresentDefinition
  <2>2. d \in S
    BY <1>3, <2>1, PrefixTransitive
  <2>3. Len(IndexColumns(table[d])) <= Len(IndexColumns(table[c]))
    BY <1>2, <1>3, <2>2
  <2> QED
    BY <1>3, <2>1, <2>2, <2>3, PrefixOfSameLength
\* If a has these columns too, it is one of E
<1>4. ASSUME NEW c \in E, IndexColumns(table[c]) = IndexColumns(table[a])
      PROVE  a \in E
  BY <1>1, <1>4
<1>5. ASSUME NEW U, U \subseteq E, U # {},
             \/ U = {n \in E : table[n].unique}
             \/ U = E /\ \A n \in E : ~table[n].unique
      PROVE  \E c \in U : c \notin Redundant /\ Stands(c, a)
  <2>1. U \subseteq Nat
    BY <1>5, PresentDefinition
  <2>2. PICK c \in U : \A d \in U : c <= d
    BY <1>5, <2>1, LeastElement
  <2>3. c \notin Redundant
    <3>1. SUFFICES ASSUME NEW d \in Present, Covers(c, d) PROVE FALSE
      BY <1>5 DEF Redundant
    <3>2. d \in E
      BY <1>3, <1>5, <3>1 DEF Covers
    <3>3. /\ table[c].unique => table[d].unique
          /\ table[c].unique = table[d].unique => d < c
      BY <1>5, <3>1, <3>2 DEF Covers
    <3>4. d \in U
      BY <1>5, <3>2, <3>3
    <3>5. table[c].unique = table[d].unique
      BY <1>5, <3>2, <3>4, PresentDefinition
    <3> QED
      BY <2>1, <2>2, <3>3, <3>4, <3>5
  <2>4. Stands(c, a)
    BY <1>4, <1>5 DEF Stands
  <2> QED
    BY <2>3, <2>4
<1>6. CASE \E n \in E : table[n].unique
  BY <1>5, <1>6
<1>7. CASE \A n \in E : ~table[n].unique
  <2>1. top \in E
    OBVIOUS
  <2> HIDE DEF E
  <2>2. \E c \in E : c \notin Redundant /\ Stands(c, a)
    BY <1>5, <1>7, <2>1
  <2> QED
    BY <2>2 DEF E
<1> QED
  BY <1>6, <1>7

-----------------------------------------------------------------------------
(* The inductive invariant                                                 *)

\* At first every statement that ran is served
LEMMA InitInv == Init => IInv
<1> SUFFICES ASSUME Init PROVE IInv
  OBVIOUS
<1>1. TypeOK
  BY DEF Init, TypeOK
<1> QED
  BY <1>1 DEF Init, IInv, StandsInv, RanInv, ReadInv

\* A statement that runs is served by an index that stands
LEMMA QueryInv ==
    ASSUME IInv, NEW q \in Workload, Query(q)
    PROVE  IInv'
<1>1. /\ UNCHANGED <<table, tickets, follow, trusted>>
      /\ ran' = ran \cup {q}
      /\ used' \in [Names -> BOOLEAN]
      /\ \A n \in Names : used[n] => used'[n]
  BY DEF Query, IInv, TypeOK
<1>2. TypeOK'
  BY <1>1 DEF IInv, TypeOK, Present
<1>3. StandsInv'
  BY <1>1 DEF IInv, StandsInv, Stands, Present
<1>4. Present' = Present /\ \A n, c : Serves(n, c)' = Serves(n, c)
  BY <1>1 DEF Present, Serves
<1>5. RanInv'
  <2>1. SUFFICES ASSUME NEW c \in ran', Served(c)
                 PROVE  \E n \in Names : Serves(n, c) /\ used'[n]
    BY <1>4 DEF RanInv, Served
  <2>2. CASE c \in ran
    BY <1>1, <2>1, <2>2 DEF IInv, RanInv
  <2>3. CASE c = q
    BY <2>1, <2>3 DEF Query, IInv, TypeOK
  <2> QED
    BY <1>1, <2>2, <2>3
<1>6. ReadInv'
  BY <1>1, <1>4 DEF IInv, ReadInv, Served
<1> QED
  BY <1>2, <1>3, <1>5, <1>6 DEF IInv

\* The statistics are reset
LEMMA ResetInv ==
    ASSUME IInv, ResetStatistics
    PROVE  IInv'
<1>1. Present' = Present /\ \A n, c : Serves(n, c)' = Serves(n, c)
  BY DEF ResetStatistics, Present, Serves
<1>2. TypeOK'
  BY <1>1 DEF ResetStatistics, IInv, TypeOK
<1>3. StandsInv'
  BY <1>1 DEF ResetStatistics, IInv, StandsInv, Stands
<1>4. ReadInv'
  BY <1>1 DEF ResetStatistics, IInv, ReadInv, Served
<1> QED
  BY <1>2, <1>3, <1>4 DEF ResetStatistics, IInv, RanInv

\* An audit reads what is there
LEMMA AuditInv ==
    ASSUME IInv, Audit
    PROVE  IInv'
<1>1. Present' = Present /\ \A n, c : Serves(n, c)' = Serves(n, c)
  BY DEF Audit, Present, Serves
<1>2. /\ Unused \subseteq Present /\ Redundant \subseteq Present
      /\ \A n : [rule |-> "R-I2", index |-> n] \in tickets' => n \in Unused
      /\ \A n : [rule |-> "R-I3", index |-> n] \in tickets' => n \in Redundant
  BY DEF Audit, Unused, Redundant
<1>3. TypeOK'
  <2>1. tickets' \in SUBSET [rule : Rules, index : Present]
    BY <1>2 DEF Audit, Rules
  <2> QED
    BY <1>1, <2>1 DEF Audit, IInv, TypeOK
<1>4. StandsInv'
  <2>1. SUFFICES ASSUME NEW n \in Present
                 PROVE  \E m \in Present :
                          Stands(m, n) /\ [rule |-> "R-I3", index |-> m] \notin tickets'
    BY <1>1 DEF Audit, StandsInv, Stands
  <2> QED
    BY <1>2, RedundantSparesOne DEF IInv
<1>5. RanInv'
  BY <1>1 DEF Audit, IInv, RanInv, Served
<1>6. ReadInv'
  <2>1. ASSUME NEW n \in Present, table[n].unique
        PROVE  [rule |-> "R-I2", index |-> n] \notin tickets'
    BY <1>2, <2>1 DEF Unused
  <2>2. ASSUME trusted', NEW q \in Workload, Served(q)
        PROVE  \E n \in Names :
                 Serves(n, q) /\ [rule |-> "R-I2", index |-> n] \notin tickets'
    <3>1. PICK n \in Names : Serves(n, q) /\ used[n]
      BY <2>2 DEF Audit, IInv, RanInv
    <3>2. n \notin Unused
      BY <3>1 DEF Unused
    <3> QED
      BY <1>2, <3>1, <3>2
  <2> QED
    BY <1>1, <2>1, <2>2 DEF Audit, ReadInv, Served
<1> QED
  BY <1>3, <1>4, <1>5, <1>6 DEF IInv

\* What a dropped index leaves
LEMMA DropLeaves ==
    ASSUME TypeOK, NEW t \in tickets, Drop(t)
    PROVE  /\ t.rule \in Rules /\ t.index \in Present /\ t.rule \in follow
           /\ t = [rule |-> t.rule, index |-> t.index]
           /\ Present' = Present \ {t.index}
           /\ \A n \in Present' : table'[n] = table[n]
<1>1. t \in [rule : Rules, index : Present]
  BY DEF TypeOK
<1>2. table' = [table EXCEPT ![t.index] = None] /\ t.index \in Names
  BY <1>1 DEF Drop, Present
<1>3. \A n \in Names : table'[n] = IF n = t.index THEN None ELSE table[n]
  BY <1>2 DEF TypeOK
<1> QED
  BY <1>1, <1>2, <1>3 DEF Drop, Present

\* A ticket is followed: what the index served, another one serves
LEMMA DropInv ==
    ASSUME IInv, NEW t \in tickets, Drop(t)
    PROVE  IInv'
<1>1. /\ t.rule \in Rules /\ t.index \in Present /\ t.rule \in follow
      /\ t = [rule |-> t.rule, index |-> t.index]
      /\ Present' = Present \ {t.index}
      /\ \A n \in Present' : table'[n] = table[n]
  BY DropLeaves DEF IInv
<1>2. TypeOK'
  <2>1. table' \in [Names -> Definitions \cup {None}] /\ used' \in [Names -> BOOLEAN]
    BY DEF Drop, IInv, TypeOK
  <2>2. tickets' \in SUBSET [rule : Rules, index : Present']
    <3>1. SUFFICES ASSUME NEW u \in tickets, u.index # t.index
                   PROVE  u \in [rule : Rules, index : Present']
      BY DEF Drop
    <3>2. u \in [rule : Rules, index : Present]
      BY DEF IInv, TypeOK
    <3> QED
      BY <1>1, <3>1, <3>2
  <2> QED
    BY <2>1, <2>2 DEF Drop, IInv, TypeOK
<1>3. StandsInv'
  <2>1. SUFFICES ASSUME follow = {"R-I3"}, NEW n \in Present'
                 PROVE  \E m \in Present' :
                          Stands(m, n)' /\ [rule |-> "R-I3", index |-> m] \notin tickets'
    BY DEF Drop, StandsInv
  <2>2. PICK m \in Present : Stands(m, n) /\ [rule |-> "R-I3", index |-> m] \notin tickets
    BY <1>1, <2>1 DEF IInv, StandsInv
  <2>3. m # t.index
    BY <1>1, <2>1, <2>2
  <2> QED
    BY <1>1, <2>1, <2>2, <2>3 DEF Drop, Stands
<1>4. RanInv'
  BY DEF Drop, RanInv
<1>5. ReadInv'
  <2>1. ASSUME NEW n \in Present', NEW c PROVE Serves(n, c)' = Serves(n, c)
    BY <1>1, <2>1 DEF Serves
  <2>2. ASSUME NEW c, Served(c)' PROVE Served(c)
    BY <1>1, <2>1, <2>2 DEF Served, Serves
  <2>3. ASSUME follow = {"R-I2"}, trusted, NEW q \in Workload, Served(q)
        PROVE  \E n \in Names :
                 Serves(n, q)' /\ [rule |-> "R-I2", index |-> n] \notin tickets'
    <3>1. PICK n \in Names : Serves(n, q) /\ [rule |-> "R-I2", index |-> n] \notin tickets
      BY <2>3 DEF IInv, ReadInv
    <3>2. n \in Present'
      BY <1>1, <2>3, <3>1 DEF Serves
    <3> QED
      BY <2>1, <3>1, <3>2 DEF Drop
  <2>4. ASSUME follow = {"R-I2"}, NEW n \in Present', table'[n].unique
        PROVE  [rule |-> "R-I2", index |-> n] \notin tickets'
    BY <1>1, <2>4 DEF Drop, IInv, ReadInv
  <2> QED
    BY <2>2, <2>3, <2>4 DEF Drop, ReadInv
<1> QED
  BY <1>2, <1>3, <1>4, <1>5 DEF IInv

\* Every step keeps the inductive invariant
LEMMA StepInv == IInv /\ [Next]_vars => IInv'
<1> SUFFICES ASSUME IInv, [Next]_vars PROVE IInv'
  OBVIOUS
<1>1. ASSUME UNCHANGED vars PROVE IInv'
  BY <1>1 DEF vars, IInv, TypeOK, StandsInv, Stands, RanInv, ReadInv, Present, Served, Serves
<1> QED
  BY <1>1, QueryInv, ResetInv, AuditInv, DropInv DEF Next

\* The inductive invariant holds in every reachable state
THEOREM Invariance == Spec => []IInv
BY InitInv, StepInv, PTL DEF Spec

\* Every variable has its type, and every open ticket names an index that is there
THEOREM TypeCorrect == Spec => []TypeOK
<1>1. IInv => TypeOK
  BY DEF IInv
<1> QED
  BY <1>1, Invariance, PTL

-----------------------------------------------------------------------------
(* What a step may take away                                               *)

\* Only a drop changes the table
LEMMA OnlyDrops ==
    ASSUME IInv, [Next]_vars
    PROVE  (\E t \in tickets : Drop(t)) \/ UNCHANGED table
BY DEF Next, Query, ResetStatistics, Audit, vars

\* Not both rules are followed
LEMMA OneRuleFollowed ==
    ASSUME TypeOK, follow # Rules, NEW rule \in follow
    PROVE  follow = {rule}
<1>1. follow \subseteq {"R-I2", "R-I3"}
  BY IndexAssumption DEF TypeOK, Rules
<1>2. follow # {"R-I2", "R-I3"}
  BY DEF Rules
<1>3. "R-I2" \notin follow \/ "R-I3" \notin follow
  BY <1>1, <1>2
<1>4. rule = "R-I2" \/ rule = "R-I3"
  BY <1>1
<1> QED
  BY <1>1, <1>3, <1>4

\* Whatever is dropped for R-I3 leaves an index that stands for each one there was
LEMMA DropStands ==
    ASSUME IInv, NEW t \in tickets, Drop(t), t.rule = "R-I3", follow = {"R-I3"},
           NEW n \in Present
    PROVE  \E m \in Present' : Stands(m, n) /\ table'[m] = table[m]
<1>1. PICK m \in Present : Stands(m, n) /\ [rule |-> "R-I3", index |-> m] \notin tickets
  BY DEF IInv, StandsInv
<1> QED
  BY <1>1, DropLeaves DEF IInv

\* However many R-I3 tickets of a report are followed, the columns of a dropped
\* index still begin an index
THEOREM RedundantIsCovered == Spec => LeadingKept
<1> DEFINE Kept ==
      follow = {"R-I3"} =>
         \A n \in Present : \E m \in Present' : IsPrefix(IndexColumns(table[n]), IndexColumns(table'[m]))
<1>1. IInv /\ [Next]_vars => Kept
  <2> SUFFICES ASSUME IInv, [Next]_vars, follow = {"R-I3"}, NEW n \in Present
               PROVE  \E m \in Present' : IsPrefix(IndexColumns(table[n]), IndexColumns(table'[m]))
    OBVIOUS
  <2>1. CASE UNCHANGED table
    BY <2>1, PresentDefinition, PrefixReflexive DEF Present, IInv
  <2>2. ASSUME NEW t \in tickets, Drop(t)
        PROVE  \E m \in Present' : IsPrefix(IndexColumns(table[n]), IndexColumns(table'[m]))
    <3>1. t.rule = "R-I3"
      BY <2>2 DEF Drop
    <3> QED
      BY <2>2, <3>1, DropStands DEF Stands
  <2> QED
    BY <2>1, <2>2, OnlyDrops
<1> QED
  BY <1>1, Invariance, PTL DEF Spec, LeadingKept

\* A unique index never goes away for plain ones on exactly its columns, as long
\* as the tickets of one rule are followed
THEOREM UniqueIsPreferred == Spec => UniqueKept
<1> DEFINE Kept ==
      follow # Rules =>
         \A n \in Present : table[n].unique =>
            \E m \in Present' :
               /\ IsPrefix(IndexColumns(table[n]), IndexColumns(table'[m]))
               /\ IndexColumns(table'[m]) = IndexColumns(table[n]) => table'[m].unique
<1>1. IInv /\ [Next]_vars => Kept
  <2> SUFFICES ASSUME IInv, [Next]_vars, follow # Rules,
                      NEW n \in Present, table[n].unique
               PROVE  \E m \in Present' :
                        /\ IsPrefix(IndexColumns(table[n]), IndexColumns(table'[m]))
                        /\ IndexColumns(table'[m]) = IndexColumns(table[n]) => table'[m].unique
    OBVIOUS
  <2>1. IsPrefix(IndexColumns(table[n]), IndexColumns(table[n]))
    BY PresentDefinition, PrefixReflexive DEF IInv
  <2>2. CASE UNCHANGED table
    BY <2>1, <2>2 DEF Present
  <2>3. ASSUME NEW t \in tickets, Drop(t)
        PROVE  \E m \in Present' :
                 /\ IsPrefix(IndexColumns(table[n]), IndexColumns(table'[m]))
                 /\ IndexColumns(table'[m]) = IndexColumns(table[n]) => table'[m].unique
    <3>1. /\ t.rule \in follow /\ t.rule \in Rules
          /\ t = [rule |-> t.rule, index |-> t.index]
          /\ Present' = Present \ {t.index}
          /\ \A m \in Present' : table'[m] = table[m]
      BY <2>3, DropLeaves DEF IInv
    <3>2. follow = {t.rule}
      BY <3>1, OneRuleFollowed DEF IInv
    <3>3. CASE t.rule = "R-I3"
      BY <2>3, <3>2, <3>3, DropStands DEF Stands
    <3>4. CASE t.rule = "R-I2"
      <4>1. n # t.index
        BY <2>3, <3>1, <3>2, <3>4 DEF IInv, ReadInv
      <4> QED
        BY <2>1, <3>1, <4>1
    <3> QED
      BY <3>1, <3>3, <3>4 DEF Rules
  <2> QED
    BY <2>2, <2>3, OnlyDrops
<1> QED
  BY <1>1, Invariance, PTL DEF Spec, UniqueKept

\* The tickets of one rule leave every query of the workload an index, unless one
\* was read as covering another that it cannot replace
THEOREM ReadsAreServed == Spec => ReadsKept
<1> DEFINE Left(q) ==
             \/ Served(q)'
             \/ /\ follow = {"R-I3"}
                /\ \E n, m \in Present :
                      /\ Serves(n, q)
                      /\ IsPrefix(IndexColumns(table[n]), IndexColumns(table[m]))
                      /\ ~Replaces(m, n)
           Kept == follow # Rules => \A q \in Workload : Served(q) => Left(q)
<1>1. IInv /\ [Next]_vars => Kept
  <2> SUFFICES ASSUME IInv, [Next]_vars, follow # Rules,
                      NEW q \in Workload, Served(q)
               PROVE  Left(q)
    OBVIOUS
  <2>1. CASE UNCHANGED table
    BY <2>1 DEF Served, Serves, Present
  <2>2. ASSUME NEW t \in tickets, Drop(t)
        PROVE  Left(q)
    <3>1. /\ t.rule \in follow /\ t.rule \in Rules
          /\ t = [rule |-> t.rule, index |-> t.index]
          /\ Present' = Present \ {t.index}
          /\ \A m \in Present' : table'[m] = table[m]
      BY <2>2, DropLeaves DEF IInv
    <3>2. follow = {t.rule}
      BY <3>1, OneRuleFollowed DEF IInv
    <3>3. CASE t.rule = "R-I3"
      <4>1. PICK n \in Present : Serves(n, q)
        BY DEF Served, Serves
      <4>2. PICK m \in Present' : Stands(m, n) /\ table'[m] = table[m]
        BY <2>2, <3>2, <3>3, DropStands
      <4>3. CASE Replaces(m, n)
        <5>1. q.on \in Seq(Keys) /\ table[n].keys \in Seq(Keys) /\ table[m].keys \in Seq(Keys)
          BY <3>1, <4>2, PresentDefinition, IndexAssumption DEF IInv, QueryType
        <5>2. IsPrefix(q.on, table[m].keys)
          BY <4>1, <4>3, <5>1, PrefixTransitive DEF Serves, Replaces
        <5>3. Serves(m, q)'
          BY <4>1, <4>2, <4>3, <5>2 DEF Serves, Replaces
        <5> QED
          BY <3>1, <5>3 DEF Served, Present
      <4>4. CASE ~Replaces(m, n)
        BY <3>1, <3>2, <3>3, <4>1, <4>2, <4>4 DEF Stands
      <4> QED
        BY <4>3, <4>4
    <3>4. CASE t.rule = "R-I2"
      <4>1. trusted
        BY <2>2, <3>4 DEF Drop
      <4>2. PICK n \in Names : Serves(n, q) /\ [rule |-> "R-I2", index |-> n] \notin tickets
        BY <3>2, <3>4, <4>1 DEF IInv, ReadInv
      <4>3. n \in Present'
        BY <3>1, <3>4, <4>2 DEF Serves
      <4> QED
        BY <3>1, <4>2, <4>3 DEF Served, Serves
    <3> QED
      BY <3>1, <3>3, <3>4 DEF Rules
  <2> QED
    BY <2>1, <2>2, OnlyDrops
<1> QED
  BY <1>1, Invariance, PTL DEF Spec, ReadsKept
=============================================================================
