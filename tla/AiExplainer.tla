----------------------------- MODULE AiExplainer -----------------------------
(***************************************************************************)
(* The narration of findings (src/report/ai_explain.py): one run after     *)
(* another over one cache directory, as dbdoctor-audit does for one --out  *)
(* directory; a job of the web backend makes one run over its own.         *)
(* CommandLine puts these runs into the commands they are part of.         *)
(*                                                                         *)
(* A text is the set of numbers that stand in it, for the guard sees       *)
(* nothing else of it.  Numbers have one decimal and are counted in        *)
(* tenths: 125 stands for 12.5, 120 for 12.  The model that answers is     *)
(* external.                                                               *)
(***************************************************************************)
EXTENDS Naturals, FiniteSets

CONSTANTS
    Findings,   \* findings, each by its finding_key
    Numbers,    \* the numbers a text may contain, in tenths
    Given,      \* Given[f]: the numbers of the prompt for f
    Template,   \* Template[f]: the numbers of its suggested_action
    Replies,    \* bound: the texts the API may answer with
    Faults,     \* which faults may occur: "crash", "disk"
    None        \* no text, no finding

ASSUME NumbersAssumption == Numbers \subseteq Nat /\ Replies \subseteq SUBSET Numbers
\* The prompt contains the suggested action
ASSUME PromptAssumption ==
    /\ Given \in [Findings -> SUBSET Numbers]
    /\ Template \in [Findings -> SUBSET Numbers]
    /\ \A f \in Findings : Template[f] \subseteq Given[f]
ASSUME NarratorFaultsAssumption == Faults \subseteq {"crash", "disk"}

VARIABLES
    cache,      \* [Findings -> Text or None]: the files of cache_dir
    client,     \* an API key is set, for this run
    stage,      \* where this run is
    todo,       \* the top findings it has not explained
    cur,        \* the finding it is asking about
    draft,      \* the answer it is about to store
    texts       \* [Findings -> Text or None]: ai_texts of this run

vars == <<cache, client, stage, todo, cur, draft, texts>>

\* A file holds a whole paragraph or the beginning of one
Text == [numbers : SUBSET Numbers, whole : BOOLEAN]
Whole(numbers) == [numbers |-> numbers, whole |-> TRUE]
Torn(numbers) == [numbers |-> numbers, whole |-> FALSE]
Stage == {"idle", "next", "again", "store", "write", "done"}

-----------------------------------------------------------------------------
(* The digit guard                                                         *)

IntegerPart(n) == 10 * (n \div 10)

\* allowed_numbers: the numbers of the prompt and their integer parts
Allowed(f) == Given[f] \cup {IntegerPart(n) : n \in Given[f]}

\* digit_violations
Violates(text, f) == \E n \in text : n \notin Allowed(f)

\* What may be left of a number that was cut: its first digits
Digits == 3
Stumps(m) == {n \in Numbers : \E k \in 0..Digits : n = IntegerPart(m \div 10^k)}

\* What may be left of a text that was cut: some of its numbers, and perhaps the
\* stump of one more
Cuts(text) ==
    {kept \cup stump : kept \in SUBSET text,
                      stump \in {{}} \cup {{n} : n \in UNION {Stumps(m) : m \in text}}}

-----------------------------------------------------------------------------
(* explain and explain_all                                                 *)

Init ==
    /\ cache = [f \in Findings |-> None]
    /\ client = FALSE
    /\ stage = "idle"
    /\ todo = {}
    /\ cur = None
    /\ draft = {}
    /\ texts = [f \in Findings |-> None]

\* A run for any snapshot, online or offline
Begin ==
    /\ stage = "idle"
    /\ todo' \in SUBSET Findings
    /\ client' \in BOOLEAN
    /\ stage' = "next"
    /\ texts' = [f \in Findings |-> None]
    /\ UNCHANGED <<cache, cur, draft>>

\* The findings come in the order of the snapshot, which may be any
Explained(f, text) ==
    /\ texts' = [texts EXCEPT ![f] = text]
    /\ todo' = todo \ {f}
    /\ stage' = "next"
    /\ cur' = None
    /\ draft' = {}

FallBack(f) == Explained(f, Whole(Template[f]))

\* What the cache holds is returned as it is
ReadCache(f) ==
    /\ stage = "next" /\ f \in todo
    /\ cache[f] # None
    /\ Explained(f, cache[f])
    /\ UNCHANGED <<cache, client>>

Offline(f) ==
    /\ stage = "next" /\ f \in todo
    /\ cache[f] = None
    /\ ~client
    /\ FallBack(f)
    /\ UNCHANGED <<cache, client>>

\* A grounded answer is kept; after another one the model is asked again
Keep(f, text) ==
    /\ stage' = IF Violates(text, f) THEN "again" ELSE "store"
    /\ cur' = f
    /\ draft' = text
    /\ UNCHANGED <<cache, client, todo, texts>>

\* The API fails or refuses, or answers with some text
Ask(f) ==
    /\ stage = "next" /\ f \in todo
    /\ cache[f] = None
    /\ client
    /\ \/ FallBack(f) /\ UNCHANGED <<cache, client>>
       \/ \E text \in Replies : Keep(f, text)

\* Mutant: the second answer is not checked
AskAgainUnchecked ==
    /\ stage = "again"
    /\ \/ FallBack(cur) /\ UNCHANGED <<cache, client>>
       \/ \E text \in Replies :
            /\ stage' = "store"
            /\ draft' = text
            /\ UNCHANGED <<cache, client, todo, cur, texts>>

\* Mutant: no answer is taken for an answer
AskAgainNoAnswer ==
    /\ stage = "again"
    /\ stage' = "store"
    /\ draft' = {None}
    /\ UNCHANGED <<cache, client, todo, cur, texts>>

\* Mutant: the model is asked until it is right
AskUntilGrounded ==
    /\ stage = "again"
    /\ \/ FallBack(cur) /\ UNCHANGED <<cache, client>>
       \/ \E text \in Replies : Keep(cur, text)

\* The second answer is the last
AskAgain ==
    /\ stage = "again"
    /\ \/ FallBack(cur) /\ UNCHANGED <<cache, client>>
       \/ \E text \in Replies : ~Violates(text, cur) /\ Keep(cur, text)

\* write_text truncates the file before it writes
OpenCache ==
    /\ stage = "store"
    /\ cache' = [cache EXCEPT ![cur] = Torn({})]
    /\ stage' = "write"
    /\ UNCHANGED <<client, todo, cur, draft, texts>>

WriteCache ==
    /\ stage = "write"
    /\ cache' = [cache EXCEPT ![cur] = Whole(draft)]
    /\ Explained(cur, Whole(draft))
    /\ UNCHANGED client

\* Every finding has its text: the report is rendered with them
Finish ==
    /\ stage = "next" /\ todo = {}
    /\ stage' = "done"
    /\ UNCHANGED <<cache, client, todo, cur, draft, texts>>

\* The process ends, with a report or without
Ends ==
    /\ stage' = "idle"
    /\ client' = FALSE
    /\ todo' = {}
    /\ cur' = None
    /\ draft' = {}
    /\ texts' = [f \in Findings |-> None]

Leave == stage = "done" /\ Ends /\ UNCHANGED cache

\* mkdir or write_text raises, and nothing catches it here
StoreRaises ==
    /\ "disk" \in Faults
    /\ \/ stage = "store" /\ UNCHANGED cache
       \/ /\ stage = "write"
          /\ \E left \in Cuts(draft) : cache' = [cache EXCEPT ![cur] = Torn(left)]
    /\ Ends

\* A file that was cut inside a character is not UTF-8
ReadRaises(f) ==
    /\ stage = "next" /\ f \in todo
    /\ cache[f] # None /\ ~cache[f].whole /\ cache[f] # Torn({})
    /\ Ends
    /\ UNCHANGED cache

\* The process is killed; the file it had opened stays empty
Crash ==
    /\ "crash" \in Faults
    /\ stage # "idle"
    /\ Ends
    /\ UNCHANGED cache

\* A step of explain_all that goes on, one that raises
Explain ==
    \/ \E f \in Findings : ReadCache(f) \/ Offline(f) \/ Ask(f)
    \/ AskAgain \/ OpenCache \/ WriteCache \/ Finish
Raises == StoreRaises \/ \E f \in Findings : ReadRaises(f)

Next == Begin \/ Explain \/ Raises \/ Leave \/ Crash

Spec == Init /\ [][Next]_vars

-----------------------------------------------------------------------------
(* Properties                                                              *)

\* Every variable has its type
TypeOK ==
    /\ cache \in [Findings -> Text \cup {None}]
    /\ client \in BOOLEAN
    /\ stage \in Stage
    /\ todo \in SUBSET Findings
    /\ cur \in Findings \cup {None}
    /\ draft \in SUBSET Numbers
    /\ texts \in [Findings -> Text \cup {None}]

\* A text, or the paragraph it is the beginning of, has no invented number
HonestText(text, f) ==
    IF text.whole THEN ~Violates(text.numbers, f)
    ELSE \E paragraph \in SUBSET Allowed(f) : text.numbers \in Cuts(paragraph)

\* No text of a report contains a number that is not in the prompt, whatever the
\* model answers and whichever run cached it; a file torn by a full disk may end
\* in the first digits of one that is, and in no other
Grounded ==
    \A f \in Findings : texts[f] # None => HonestText(texts[f], f)

\* A rejected answer is never cached, not even in part, so that no later run can
\* find it
RejectedNeverCached ==
    \A f \in Findings : cache[f] # None => HonestText(cache[f], f)

\* Neither the report of a run nor the cache that later runs read holds a number
\* the model invented, through retries, kills and full disks
NothingInvented == Grounded /\ RejectedNeverCached

\* A paragraph once cached is never written again: later reports repeat it
CachedForGood ==
    [][\A f \in Findings :
         cache[f] # None /\ cache[f].whole => cache'[f] = cache[f]]_vars
=============================================================================
