------------------------------ MODULE CommandLine ------------------------------
(***************************************************************************)
(* What a consultant runs at a terminal, one command after another: a      *)
(* collector that writes the snapshot file (Collector), and dbdoctor-audit *)
(* (src/cli/audit.py, main) that reads it, has its top findings explained  *)
(* (AiExplainer) and writes the bundle.                                    *)
(***************************************************************************)
EXTENDS AiExplainer, Sequences

CONSTANTS
    Troubles,   \* what may go wrong at a terminal: "statement", "disk", "kill"
    Denials     \* the sets of reads that the account of a collector may be refused

\* A command that still runs has no exit code
ASSUME ExitCodeAssumption == None \notin {0, 1}

VARIABLES
    server, at, caps, notes, out, code,     \* see Collector
    last,       \* the command that runs or ran last
    phase,      \* where dbdoctor-audit is, or "idle"
    skipPdf,    \* --skip-pdf of the last run
    top,        \* the findings this run is to explain; none with --skip-ai
    bundle      \* the files of its --out directory

collectVars == <<server, at, caps, notes, out>>
auditVars == <<phase, skipPdf, top, bundle>>
commandVars == <<vars, collectVars, auditVars, code, last>>

C == INSTANCE Collector

ASSUME RefusalAssumption == Denials \subseteq SUBSET C!Reads

Parts == {"report.html", "report.pdf", "tasks.md", "findings.json"}
\* A part is missing or of an earlier run, half written, or whole
Stale == [part \in Parts |-> "stale"]

\* The phases that write a part each, and what follows
Writes == [html |-> "report.html", pdf |-> "report.pdf",
           tasks |-> "tasks.md", findings |-> "findings.json"]
Follows(p) ==
    CASE p = "html" -> IF skipPdf THEN "tasks" ELSE "pdf"
      [] p = "pdf" -> "tasks"
      [] p = "tasks" -> "findings"
      [] p = "findings" -> "idle"

CommandInit ==
    /\ Init
    /\ C!Init
    /\ last = "collect"
    /\ phase = "idle"
    /\ skipPdf = FALSE
    /\ top = {}
    /\ bundle = Stale

-----------------------------------------------------------------------------
(* The collector                                                           *)

BeginCollect ==
    /\ phase = "idle"
    /\ C!Begin
    /\ last' = "collect"
    /\ UNCHANGED <<vars, auditVars>>

Collect ==
    /\ C!Collect
    /\ UNCHANGED <<vars, auditVars, last>>

KillCollector ==
    /\ C!Killed
    /\ UNCHANGED <<vars, auditVars, last>>

-----------------------------------------------------------------------------
(* dbdoctor-audit                                                          *)

\* click looks that the snapshot is there
BeginAudit ==
    /\ phase = "idle" /\ at = "idle"
    /\ out # None
    /\ phase' = "validate"
    /\ skipPdf' \in BOOLEAN
    /\ bundle' = Stale
    /\ code' = None
    /\ last' = "audit"
    /\ UNCHANGED <<vars, collectVars, top>>

\* The process ends, and its memory with it
Exit(status) ==
    /\ phase' = "idle"
    /\ top' = {}
    /\ code' = status
    /\ UNCHANGED <<collectVars, skipPdf, last>>

\* Mutant: the texts are cached at the end of the run, the templates too
QuitsAndCaches ==
    IF stage = "idle" THEN UNCHANGED vars ELSE stage = "done" /\ Ends /\ cache' = texts

\* The narrator, where it runs, has finished
Quits == IF stage = "idle" THEN UNCHANGED vars ELSE Leave

\* json.loads, apply_delta, Snapshot, run_all: half a file is not JSON, and a
\* snapshot may not fit the one it is compared with
Refuse ==
    /\ phase = "validate"
    /\ Exit(1)
    /\ UNCHANGED <<vars, bundle>>

\* --skip-ai or not; what the rules find may be anything here
Accept ==
    /\ phase = "validate" /\ out.whole
    /\ \/ Begin /\ top' = todo' /\ phase' = "explain"
       \/ phase' = "html" /\ top' = {} /\ UNCHANGED vars
    /\ UNCHANGED <<collectVars, skipPdf, bundle, code, last>>

ExplainTop ==
    /\ phase = "explain"
    /\ Explain
    /\ phase' = IF stage' = "done" THEN "html" ELSE "explain"
    /\ UNCHANGED <<collectVars, skipPdf, top, bundle, code, last>>

ExplainRaises ==
    /\ phase = "explain"
    /\ Raises
    /\ Exit(1)
    /\ UNCHANGED bundle

\* write_text, or the PDF of the browser; after the last part the run is over
WritePart ==
    /\ phase \in DOMAIN Writes
    /\ bundle' = [bundle EXCEPT ![Writes[phase]] = "whole"]
    /\ IF Follows(phase) = "idle"
       THEN Exit(0) /\ Quits
       ELSE phase' = Follows(phase) /\ UNCHANGED <<vars, collectVars, skipPdf, top, code, last>>

\* The part being written is left as it was, or half written
Interrupted ==
    /\ \/ UNCHANGED bundle
       \/ phase \in DOMAIN Writes /\ bundle' = [bundle EXCEPT ![Writes[phase]] = "torn"]
    /\ Exit(1)

\* Mutant: a bundle without its PDF is good enough
PartFailsQuietly ==
    /\ "disk" \in Troubles
    /\ phase \in DOMAIN Writes
    /\ \/ UNCHANGED bundle
       \/ bundle' = [bundle EXCEPT ![Writes[phase]] = "torn"]
    /\ Exit(IF phase = "pdf" THEN 0 ELSE 1)
    /\ Quits

\* The disk is full, there is no browser
PartFails ==
    /\ "disk" \in Troubles
    /\ phase \in DOMAIN Writes
    /\ Interrupted
    /\ Quits

KillAudit ==
    /\ "kill" \in Troubles
    /\ phase # "idle"
    /\ IF stage = "idle" THEN UNCHANGED vars ELSE Crash
    /\ Interrupted

Audit ==
    Refuse \/ Accept \/ ExplainTop \/ ExplainRaises \/ WritePart \/ PartFails

CommandNext == BeginCollect \/ Collect \/ KillCollector \/ BeginAudit \/ Audit \/ KillAudit

CommandSpec == CommandInit /\ [][CommandNext]_commandVars

\* A command that runs goes on: statements and requests have timeouts
FairCommandSpec == CommandSpec /\ WF_commandVars(Collect \/ Audit)

-----------------------------------------------------------------------------
(* Properties                                                              *)

\* Every variable has its type; the narrator's are those of AiExplainer
CommandTypeOK ==
    /\ TypeOK
    /\ server \in C!Servers \cup {None}
    /\ at \in {"idle", "dump"} \cup {C!PgSteps[n] : n \in 1..Len(C!PgSteps)}
    /\ caps \subseteq {"query_stats", "sys_schema"}
    /\ notes \subseteq C!WhyNoQueries \cup {"no advisor views"}
    /\ out \in [whole : BOOLEAN, fresh : BOOLEAN, queries : BOOLEAN, noted : BOOLEAN] \cup {None}
    /\ code \in {None, 0, 1}
    /\ last \in {"collect", "audit"}
    /\ phase \in {"idle", "validate", "explain"} \cup DOMAIN Writes
    /\ skipPdf \in BOOLEAN
    /\ top \subseteq Findings
    /\ bundle \in [Parts -> {"stale", "torn", "whole"}]

\* Every command ends, also where the model never gives a grounded answer
CommandsEnd == code = None ~> code # None

\* A command that ends with 0 has written all it was to write: a whole snapshot
\* of this server, or every part of the bundle, the PDF unless it was not wanted
ExitTruth ==
    code = 0 =>
        /\ at = "idle" /\ phase = "idle"
        /\ last = "collect" => out = None \/ (out.whole /\ out.fresh)
        /\ last = "audit" =>
             \A part \in Parts :
                 bundle[part] = IF part = "report.pdf" /\ skipPdf THEN "stale" ELSE "whole"

\* A snapshot whose collector could not ask for the statements says why, whichever
\* privilege the account lacks, and half a snapshot never becomes a report.  One
\* that asked and got none is silent: there is nothing to explain
SilenceIsExplained ==
    /\ out # None /\ out.whole /\ ~out.queries => out.noted
    /\ phase \in {"explain"} \cup DOMAIN Writes => out.whole
=============================================================================
