----------------------------- MODULE IndexAdvice -----------------------------
(***************************************************************************)
(* The index rules R-I2 (never used) and R-I3 (redundant) of               *)
(* src/engine/rules/index_rules.py for one PostgreSQL table, and what      *)
(* happens to the table when a developer drops the indexes that the        *)
(* tickets of a report name.  The planner, the statistics and the          *)
(* developer are external.                                                 *)
(***************************************************************************)
EXTENDS Naturals, FiniteSets, SequencesExt

CONSTANTS
    Keys,           \* the columns of the table and expressions over them
    Words,          \* Words[k]: the words _index_columns makes of the text of a key
    Closing,        \* the keys whose text holds a ")", as every expression's does
    MaxWords,       \* the most words read from one definition
    Kinds,          \* the kinds of condition that queries make
    Names,          \* index names, numbered in their order as strings
    Definitions,    \* bound: the definitions an index may have
    Workload,       \* the queries of the application
    Follows,        \* the sets of rules whose tickets of one report are followed
    None            \* no such index

\* What pg_get_indexdef and pg_index say of an index.  Its access method, operator
\* classes and INCLUDE decide what it offers besides its keys; partial stands for
\* a WHERE
IndexType(keys) ==
    [keys : keys, offers : SUBSET Kinds, primary : BOOLEAN, unique : BOOLEAN,
     partial : BOOLEAN, large : BOOLEAN]

\* A query filters on keys, and asks for equality or something else of an index
QueryType(keys) == [on : keys, asks : Kinds]

\* _index_columns: the words between the first "(" of the definition and the first
\* ")" after it.  The first key with a ")" of its own is cut off there, and the
\* keys after it, the access method, the WHERE and the INCLUDE are not read
IndexColumns(d) ==
    LET closing == {i \in DOMAIN d.keys : d.keys[i] \in Closing}
        last == IF closing = {} THEN Len(d.keys) ELSE Min(closing)
    IN  FlattenSeq([i \in 1..last |-> Words[d.keys[i]]])

Rules == {"R-I2", "R-I3"}

ASSUME IndexAssumption ==
    /\ Names \subseteq Nat
    /\ MaxWords \in Nat
    /\ \A d \in Definitions :
          /\ d \in IndexType(Seq(Keys))
          /\ IndexColumns(d) \in Seq(STRING)
          /\ Len(IndexColumns(d)) \in 1..MaxWords
          /\ d.primary => d.unique /\ ~d.partial
    /\ \A q \in Workload : q \in QueryType(Seq(Keys))
    /\ Follows \subseteq SUBSET Rules
    /\ None \notin Definitions

VARIABLES
    table,      \* [Names -> Definitions or None]: the indexes of the table
    used,       \* [Names -> BOOLEAN]: idx_scan # 0 since the statistics were reset
    ran,        \* the queries that ran since the last reset or drop
    tickets,    \* the tickets of the last report that are not closed
    follow,     \* the rules whose tickets of this report are followed
    trusted     \* the whole workload had run when the report was made

vars == <<table, used, ran, tickets, follow, trusted>>

Present == {n \in Names : table[n] # None}

\* An index can serve a query on the keys it begins with if it offers what the
\* query asks; a partial one cannot serve those that do not repeat its condition
Serves(n, q) ==
    /\ n \in Present
    /\ IsPrefix(q.on, table[n].keys)
    /\ q.asks \in table[n].offers
    /\ ~table[n].partial
Served(q) == \E n \in Names : Serves(n, q)

\* m serves whatever n does
Replaces(m, n) ==
    /\ IsPrefix(table[n].keys, table[m].keys)
    /\ table[n].offers \subseteq table[m].offers
    /\ ~table[m].partial

-----------------------------------------------------------------------------
(* The rules                                                               *)

\* Mutant: every index is asked for, a constraint's and an absent one too
UnusedOfAll == {n \in Names : ~used[n]}

\* Mutant: the usage statistics are not looked at
UnusedOrNot == {n \in Present : ~table[n].unique /\ table[n].large}

\* R-I2: constraint indexes are never unused, small ones are not worth it
Unused ==
    {n \in Present :
        ~table[n].primary /\ ~table[n].unique /\ ~used[n] /\ table[n].large}

\* Mutant: exact ties are not broken
CoversTies(a, b) ==
    /\ ~table[a].primary
    /\ a # b
    /\ IsPrefix(IndexColumns(table[a]), IndexColumns(table[b]))

\* Mutant: exact ties are broken by name alone
CoversByName(a, b) ==
    /\ ~table[a].primary
    /\ a # b
    /\ IsPrefix(IndexColumns(table[a]), IndexColumns(table[b]))
    /\ IndexColumns(table[a]) = IndexColumns(table[b]) => b < a

\* a's columns are a prefix of b's.  On exact ties the unique index is kept, then
\* the one whose name comes first
Covers(a, b) ==
    /\ ~table[a].primary
    /\ a # b
    /\ IsPrefix(IndexColumns(table[a]), IndexColumns(table[b]))
    /\ IndexColumns(table[a]) = IndexColumns(table[b]) =>
          /\ table[a].unique => table[b].unique
          /\ table[a].unique = table[b].unique => b < a

\* R-I3
Redundant == {a \in Present : \E b \in Present : Covers(a, b)}

-----------------------------------------------------------------------------
(* The table and the people around it                                      *)

Init ==
    /\ table \in [Names -> Definitions \cup {None}]
    /\ \A m, n \in Present : table[m].primary /\ table[n].primary => m = n
    /\ used = [n \in Names |-> FALSE]
    /\ ran = {}
    /\ tickets = {}
    /\ follow = {}
    /\ trusted = FALSE

\* A query runs, with an index that serves it or without one
Query(q) ==
    /\ \/ \E n \in Names : Serves(n, q) /\ used' = [used EXCEPT ![n] = TRUE]
       \/ ~Served(q) /\ UNCHANGED used
    /\ ran' = ran \cup {q}
    /\ UNCHANGED <<table, tickets, follow, trusted>>

\* The server restarts, or its statistics are reset
ResetStatistics ==
    /\ used' = [n \in Names |-> FALSE]
    /\ ran' = {}
    /\ UNCHANGED <<table, tickets, follow, trusted>>

\* The collector runs, then run_all; the old report is put away
Audit ==
    /\ tickets' = [rule : {"R-I2"}, index : Unused] \cup [rule : {"R-I3"}, index : Redundant]
    /\ follow' \in Follows
    /\ trusted' = (Workload \subseteq ran)
    /\ UNCHANGED <<table, used, ran>>

\* The developer follows a ticket.  R-I2 asks to verify first that no rare query
\* needs the index: the statistics must have seen the whole workload
Drop(t) ==
    /\ t \in tickets
    /\ t.rule \in follow
    /\ t.rule = "R-I2" => trusted
    /\ table' = [table EXCEPT ![t.index] = None]
    /\ used' = [used EXCEPT ![t.index] = FALSE]
    /\ ran' = {}
    /\ tickets' = {u \in tickets : u.index # t.index}
    /\ UNCHANGED <<follow, trusted>>

Next ==
    \/ \E q \in Workload : Query(q)
    \/ ResetStatistics
    \/ Audit
    \/ \E t \in tickets : Drop(t)

Spec == Init /\ [][Next]_vars

-----------------------------------------------------------------------------
(* Properties                                                              *)

\* Every variable has its type, and every open ticket names an index that is there
TypeOK ==
    /\ table \in [Names -> Definitions \cup {None}]
    /\ used \in [Names -> BOOLEAN]
    /\ ran \in SUBSET Workload
    /\ tickets \in SUBSET [rule : Rules, index : Present]
    /\ follow \in Follows \cup {{}}
    /\ trusted \in BOOLEAN

\* "Covered by another index with the same leading columns", as _index_columns
\* reads them: however many R-I3 tickets of one report are followed, and in
\* whichever order, there is always an index left that begins with the columns of
\* the dropped one, though the index that covered it may have gone before it
LeadingKept ==
    [][follow = {"R-I3"} =>
         \A n \in Present : \E m \in Present' :
            IsPrefix(IndexColumns(table[n]), IndexColumns(table'[m]))]_vars

\* "On exact ties keep one deterministically; prefer dropping the non-unique
\* one": whichever tickets of one rule are followed, a unique index never goes
\* away for plain ones on exactly its columns, as the rule reads them
UniqueKept ==
    [][follow # Rules =>
         \A n \in Present : table[n].unique =>
            \E m \in Present' :
               /\ IsPrefix(IndexColumns(table[n]), IndexColumns(table'[m]))
               /\ IndexColumns(table'[m]) = IndexColumns(table[n]) => table'[m].unique]_vars

\* R-I3 calls an index one that "adds write cost and space for no read benefit", and
\* the tickets of one rule never take away the last index that serves a query of
\* the workload, whatever order they are followed in, unless what R-I3 does not
\* read misleads it: it takes an index to cover another which that cannot replace,
\* being partial, on other keys behind the first ")", or of another access method,
\* operator class or INCLUDE
ReadsKept ==
    [][follow # Rules =>
         \A q \in Workload : Served(q) =>
            \/ Served(q)'
            \/ /\ follow = {"R-I3"}
               /\ \E n, m \in Present :
                     /\ Serves(n, q)
                     /\ IsPrefix(IndexColumns(table[n]), IndexColumns(table[m]))
                     /\ ~Replaces(m, n)]_vars
=============================================================================
