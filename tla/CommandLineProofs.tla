--------------------------- MODULE CommandLineProofs ---------------------------
(***************************************************************************)
(* Proofs about CommandLine for any findings, prompts and answers and      *)
(* every kind of trouble: the exit code of a command tells the truth, a    *)
(* snapshot without statements says why, and what is proved of the         *)
(* narrator in AiExplainerProofs holds of every command that runs it.      *)
(***************************************************************************)
EXTENDS CommandLine, AiExplainerProofs

-----------------------------------------------------------------------------
(* The inductive invariant                                                 *)

Ready == {"connect", "verify", "check"}     \* before the capabilities are known
Later == {"meta", "queries", "tables", "indexes", "sessions", "lock_waits",
          "connections", "settings", "delta", "dump"}

\* One command runs at a time, and while it does there is no exit code
OneCommandInv ==
    /\ at = "idle" \/ phase = "idle"
    /\ code \in {None, 0, 1}
    /\ code = None <=> at # "idle" \/ phase # "idle"
    /\ at # "idle" => last = "collect"
    /\ phase # "idle" => last = "audit"

\* The collector is at a statement for its server; from the check of the
\* capabilities on it has the statistics or a note that says why not
CollectorInv ==
    /\ at \in {"idle"} \cup Ready \cup Later
    /\ at # "idle" =>
         /\ server \in C!Servers
         /\ at \in {"connections", "settings"} => C!IsPg
    /\ at \in Later => "query_stats" \in caps \/ notes \cap C!WhyNoQueries # {}

\* A snapshot file, where there is one
FileInv ==
    out # None =>
      /\ out \in [whole : BOOLEAN, fresh : BOOLEAN, queries : BOOLEAN, noted : BOOLEAN]
      /\ out.whole /\ ~out.queries => out.noted

\* What has been written when dbdoctor-audit is about to write the next part
Written ==
    CASE phase = "pdf" -> {"report.html"}
      [] phase = "tasks" -> {"report.html"} \cup (IF skipPdf THEN {} ELSE {"report.pdf"})
      [] phase = "findings" ->
           {"report.html", "tasks.md"} \cup (IF skipPdf THEN {} ELSE {"report.pdf"})
      [] OTHER -> {}

\* dbdoctor-audit reads a snapshot, goes on with a whole one, and has written
\* every part it has passed and no other
AuditInv ==
    /\ phase \in {"idle", "validate", "explain", "html", "pdf", "tasks", "findings"}
    /\ skipPdf \in BOOLEAN
    /\ phase = "pdf" => ~skipPdf
    /\ phase # "idle" =>
         /\ out # None
         /\ bundle = [part \in Parts |-> IF part \in Written THEN "whole" ELSE "stale"]
    /\ phase \notin {"idle", "validate"} => out.whole

\* The narrator runs while its phase does, and is done when the parts are written
StageInv ==
    CASE phase = "explain" -> stage \notin {"idle", "done"}
      [] phase \in DOMAIN Writes -> stage \in {"idle", "done"}
      [] OTHER -> stage = "idle"

CommandInv ==
    OneCommandInv /\ CollectorInv /\ FileInv /\ AuditInv /\ StageInv /\ ExitTruth

-----------------------------------------------------------------------------
(* The statements of the collectors                                        *)

\* The statement after the n-th is the next one, for no list names one twice
LEMMA NextStep ==
    ASSUME NEW n \in 1..Len(C!Steps) - 1
    PROVE  C!After(C!Steps[n]) = C!Steps[n + 1]
<1> DEFINE Same(m) == m \in 1..Len(C!Steps) - 1 /\ C!Steps[m] = C!Steps[n]
<1>1. ASSUME NEW m, Same(m) PROVE m = n
  <2>1. CASE C!IsPg
    BY <2>1, <1>1 DEF C!Steps, C!PgSteps
  <2>2. CASE ~C!IsPg
    BY <2>2, <1>1 DEF C!Steps, C!MySteps
  <2> QED
    BY <2>1, <2>2
<1>2. (CHOOSE m \in 1..Len(C!Steps) - 1 : C!Steps[m] = C!Steps[n]) = n
  BY <1>1
<1>3. n + 1 = 1 + n
  OBVIOUS
<1> QED
  BY <1>2, <1>3, Zenon DEF C!After

\* From a statement a run goes on to one it may be at, and from the check of the
\* capabilities on to one that comes after that
LEMMA GoesOn ==
    ASSUME CollectorInv, at \notin {"idle", "delta", "dump"}
    PROVE  /\ C!After(at) \in Ready \cup Later
           /\ C!After(at) \in Later => at = "check" \/ at \in Later
           /\ C!After(at) \in {"connections", "settings"} => C!IsPg
<1>1. at \in {"connect", "verify", "check", "meta", "queries", "tables", "indexes",
              "sessions", "lock_waits", "connections", "settings"}
      /\ (at \in {"connections", "settings"} => C!IsPg)
  BY DEF CollectorInv, Ready, Later
<1>2. \E n \in 1..Len(C!Steps) - 1 : C!Steps[n] = at
  <2>1. CASE C!IsPg
    <3>1. Len(C!PgSteps) - 1 = 11
      BY DEF C!PgSteps
    <3>2. \E n \in 1..11 : C!PgSteps[n] = at
      BY <1>1 DEF C!PgSteps
    <3> QED
      BY <2>1, <3>1, <3>2 DEF C!Steps
  <2>2. CASE ~C!IsPg
    <3>1. Len(C!MySteps) - 1 = 9
      BY DEF C!MySteps
    <3>2. \E n \in 1..9 : C!MySteps[n] = at
      BY <1>1, <2>2 DEF C!MySteps
    <3> QED
      BY <2>2, <3>1, <3>2 DEF C!Steps
  <2> QED
    BY <2>1, <2>2
<1>3. PICK n \in 1..Len(C!Steps) - 1 : C!Steps[n] = at
  BY <1>2
<1>4. C!After(at) = C!Steps[n + 1]
  BY <1>3, NextStep
<1>5. CASE C!IsPg
  BY <1>3, <1>4, <1>5 DEF C!Steps, C!PgSteps, Ready, Later
<1>6. CASE ~C!IsPg
  BY <1>3, <1>4, <1>6 DEF C!Steps, C!MySteps, Ready, Later
<1> QED
  BY <1>5, <1>6

-----------------------------------------------------------------------------
(* The inductive invariant holds                                           *)

\* At first no command runs and no file is there
LEMMA CommandInitInv == CommandInit => CommandInv
BY ExitCodeAssumption
   DEF CommandInit, Init, C!Init, CommandInv, OneCommandInv, CollectorInv, FileInv, AuditInv,
       StageInv, ExitTruth, Ready, Later, Writes

\* A step of a collector that goes on leaves everything but its place alone
LEMMA CollectorGoesOn ==
    ASSUME CommandInv, at \notin {"idle", "check", "delta", "dump"}, C!GoOn,
           UNCHANGED <<vars, auditVars, last>>
    PROVE  CommandInv'
<1>1. /\ at' \in Ready \cup Later
      /\ at' \in Later => at \in Later
      /\ at' \in {"connections", "settings"} => C!IsPg
  BY GoesOn DEF CommandInv, C!GoOn
<1>2. at' # "idle"
  BY <1>1 DEF Ready, Later
<1>3. UNCHANGED <<server, caps, notes, out, code, vars, auditVars, last>>
  BY DEF C!GoOn
<1>4. CollectorInv'
  BY <1>1, <1>2, <1>3 DEF CommandInv, CollectorInv, C!IsPg, C!Servers, C!WhyNoQueries
<1>5. OneCommandInv' /\ FileInv' /\ AuditInv' /\ StageInv'
  BY <1>2, <1>3 DEF CommandInv, OneCommandInv, FileInv, AuditInv, StageInv, Written, vars, auditVars
<1>6. ExitTruth'
  BY <1>3, ExitCodeAssumption DEF CommandInv, OneCommandInv, ExitTruth
<1> QED
  BY <1>4, <1>5, <1>6 DEF CommandInv

\* A collector that ends with 1 leaves the file as it is, one that ends with 0
\* leaves a whole one
LEMMA CollectorEnds ==
    ASSUME CommandInv, at # "idle", FileInv', UNCHANGED <<vars, auditVars, last>>,
           \/ C!Exit(1)
           \/ C!Exit(0) /\ out'.whole /\ out'.fresh
    PROVE  CommandInv'
<1>1. at' = "idle" /\ code' \in {0, 1} /\ phase = "idle" /\ last = "collect"
      /\ (code' = 0 => out'.whole /\ out'.fresh)
  BY DEF CommandInv, OneCommandInv, C!Exit
<1>2. OneCommandInv' /\ CollectorInv'
  BY <1>1, ExitCodeAssumption DEF OneCommandInv, CollectorInv, auditVars, Later, Ready
<1>3. AuditInv' /\ StageInv'
  BY <1>1 DEF CommandInv, AuditInv, StageInv, vars, auditVars, Writes
<1>4. ExitTruth'
  BY <1>1 DEF ExitTruth, auditVars
<1> QED
  BY <1>2, <1>3, <1>4 DEF CommandInv

\* A new run has found out nothing, and the file it finds is of an earlier one
LEMMA BeginCollectInv == CommandInv /\ BeginCollect => CommandInv'
<1> SUFFICES ASSUME CommandInv, BeginCollect PROVE CommandInv'
  OBVIOUS
<1>1. /\ phase = "idle" /\ at' = "connect" /\ code' = None /\ last' = "collect"
      /\ server' \in C!Servers /\ UNCHANGED <<vars, auditVars>>
      /\ out' = C!Aged(out)
  BY DEF BeginCollect, C!Begin
<1>2. OneCommandInv' /\ CollectorInv'
  BY <1>1 DEF OneCommandInv, CollectorInv, auditVars, Ready, Later, C!Servers
<1>3. FileInv'
  BY <1>1 DEF CommandInv, FileInv, C!Aged
<1>4. AuditInv' /\ StageInv'
  BY <1>1 DEF CommandInv, AuditInv, StageInv, vars, auditVars, Writes
<1>5. ExitTruth'
  BY <1>1, ExitCodeAssumption DEF ExitTruth
<1> QED
  BY <1>2, <1>3, <1>4, <1>5 DEF CommandInv

\* The check finds the statistics or notes why it has not, on either engine
LEMMA CheckFinds ==
    ASSUME CommandInv, C!Check, ~C!Fail
    PROVE  "query_stats" \in caps' \/ notes' \cap C!WhyNoQueries # {}
<1>1. server.kind.stats \in {"on", "off", "disabled"}
  BY DEF CommandInv, CollectorInv, C!Check, C!Servers, C!Kinds
<1>2. PICK readable : IF C!IsPg THEN C!PgCheck(readable) ELSE C!MyCheck(readable)
  BY DEF C!Check
<1>3. CASE C!IsPg
  <2>1. server.kind.stats \in {"on", "off"}
    BY <1>3 DEF CommandInv, CollectorInv, C!Check, C!Servers, C!Kinds, C!IsPg
  <2> QED
    BY <1>2, <1>3, <2>1 DEF C!PgCheck, C!WhyNoQueries
<1>4. CASE ~C!IsPg
  BY <1>1, <1>2, <1>4 DEF C!MyCheck, C!WhyNoQueries
<1> QED
  BY <1>3, <1>4

\* A check of the capabilities that does not raise goes on with what it found
LEMMA CheckInv ==
    ASSUME CommandInv, C!Check, ~C!Fail, UNCHANGED <<vars, auditVars, last>>
    PROVE  CommandInv'
<1>1. at = "check" /\ at' = C!After(at) /\ UNCHANGED <<server, out, code>>
  BY DEF C!Check
<1>2. at' \in Ready \cup Later /\ (at' \in {"connections", "settings"} => C!IsPg)
  BY <1>1, GoesOn DEF CommandInv
<1>3. at' # "idle"
  BY <1>2 DEF Ready, Later
<1>4. CollectorInv'
  BY <1>1, <1>2, CheckFinds DEF CommandInv, CollectorInv, C!IsPg, C!Servers, C!WhyNoQueries
<1>5. OneCommandInv' /\ FileInv' /\ AuditInv' /\ StageInv'
  BY <1>1, <1>3 DEF CommandInv, OneCommandInv, FileInv, AuditInv, StageInv, Written, vars, auditVars
<1>6. ExitTruth'
  BY <1>1, ExitCodeAssumption DEF CommandInv, OneCommandInv, ExitTruth
<1> QED
  BY <1>4, <1>5, <1>6 DEF CommandInv

\* What is written at the end has the statements or says why not
LEMMA FileIsHonest ==
    ASSUME CommandInv, at \in Later, NEW whole \in BOOLEAN
    PROVE  LET file == C!File(whole)
           IN  /\ file \in [whole : BOOLEAN, fresh : BOOLEAN, queries : BOOLEAN, noted : BOOLEAN]
               /\ file.whole = whole /\ file.fresh
               /\ ~file.queries => file.noted
<1>1. "query_stats" \in caps \/ notes \cap C!WhyNoQueries # {}
  BY DEF CommandInv, CollectorInv
<1>2. ("query_stats" \in caps) \in BOOLEAN /\ (notes \cap C!WhyNoQueries # {}) \in BOOLEAN
  OBVIOUS
<1> QED
  BY <1>1, <1>2 DEF C!File

\* Every step of a collector, and its death, keep the inductive invariant
LEMMA CollectInv ==
    ASSUME CommandInv, C!Collect \/ C!Killed, UNCHANGED <<vars, auditVars, last>>
    PROVE  CommandInv'
<1>1. ASSUME C!Fail, at # "idle" PROVE CommandInv'
  <2>1. FileInv'
    BY <1>1 DEF CommandInv, FileInv, C!Fail
  <2> QED
    BY <1>1, <2>1, CollectorEnds DEF C!Fail
<1>2. CASE C!GoOn /\ at \notin {"idle", "check", "delta", "dump"}
  BY <1>2, CollectorGoesOn
<1>3. CASE C!Check
  <2>1. at # "idle"
    BY <1>3 DEF C!Check
  <2> QED
    BY <1>1, <1>3, <2>1, CheckInv
<1>4. CASE C!Open
  <2>1. at = "delta" /\ at' = "dump" /\ UNCHANGED <<server, caps, notes, code>>
        /\ out' = C!File(FALSE)
    BY <1>4 DEF C!Open
  <2>2. at \in Later /\ at' \in Later
    BY <2>1 DEF Later
  <2>3. FileInv'
    BY <2>1, <2>2, FileIsHonest DEF FileInv
  <2>4. CollectorInv'
    BY <2>1, <2>2 DEF CommandInv, CollectorInv, C!Servers, C!WhyNoQueries
  <2>5. OneCommandInv' /\ AuditInv' /\ StageInv'
    BY <2>1 DEF CommandInv, OneCommandInv, AuditInv, StageInv, vars, auditVars
  <2>6. ExitTruth'
    BY <2>1, ExitCodeAssumption DEF CommandInv, OneCommandInv, ExitTruth
  <2> QED
    BY <2>3, <2>4, <2>5, <2>6 DEF CommandInv
<1>5. CASE C!Dump
  <2>1. at = "dump" /\ at \in Later /\ out' = C!File(TRUE) /\ C!Exit(0)
    BY <1>5 DEF C!Dump, Later
  <2>2. FileInv' /\ out'.whole /\ out'.fresh
    BY <2>1, FileIsHonest DEF FileInv
  <2> QED
    BY <2>1, <2>2, CollectorEnds
<1>6. C!Verify \/ C!Read \/ C!StatementFails \/ C!DeltaFails \/ C!DumpFails \/ C!Killed
        => (C!Fail /\ at # "idle") \/ (C!GoOn /\ at \notin {"idle", "check", "delta", "dump"})
  BY DEF C!Verify, C!Read, C!StatementFails, C!DeltaFails, C!DumpFails, C!Killed
<1> QED
  BY <1>1, <1>2, <1>3, <1>4, <1>5, <1>6 DEF C!Collect

-----------------------------------------------------------------------------
(* dbdoctor-audit                                                          *)

\* A new audit has written nothing yet
LEMMA BeginAuditInv == CommandInv /\ BeginAudit => CommandInv'
<1> SUFFICES ASSUME CommandInv, BeginAudit PROVE CommandInv'
  OBVIOUS
<1>1. /\ at = "idle" /\ phase = "idle" /\ phase' = "validate" /\ out # None
      /\ skipPdf' \in BOOLEAN /\ bundle' = Stale /\ code' = None /\ last' = "audit"
      /\ UNCHANGED <<vars, collectVars>>
  BY DEF BeginAudit
<1>2. OneCommandInv'
  BY <1>1 DEF OneCommandInv, collectVars
<1>3. CollectorInv' /\ FileInv'
  BY <1>1 DEF CommandInv, CollectorInv, FileInv, collectVars, Ready, Later
<1>4. AuditInv'
  <2>1. Written' = {}
    BY <1>1 DEF Written
  <2> QED
    BY <1>1, <2>1 DEF AuditInv, Stale, collectVars
<1>5. StageInv'
  BY <1>1 DEF CommandInv, StageInv, vars, Writes
<1>6. ExitTruth'
  BY <1>1, ExitCodeAssumption DEF ExitTruth
<1> QED
  BY <1>2, <1>3, <1>4, <1>5, <1>6 DEF CommandInv

\* A run of dbdoctor-audit that ends with 0 leaves every part it was to write
LEMMA AuditEnds ==
    ASSUME CommandInv, phase # "idle", NEW status \in {0, 1}, Exit(status), stage' = "idle",
           status = 0 =>
             \A part \in Parts :
               bundle'[part] = IF part = "report.pdf" /\ skipPdf THEN "stale" ELSE "whole"
    PROVE  CommandInv'
<1>1. /\ at = "idle" /\ last = "audit" /\ phase' = "idle" /\ code' = status
      /\ UNCHANGED <<collectVars, skipPdf, last>>
  BY DEF CommandInv, OneCommandInv, Exit
<1>2. OneCommandInv'
  BY <1>1, ExitCodeAssumption DEF OneCommandInv, collectVars
<1>3. CollectorInv' /\ FileInv'
  BY <1>1 DEF CommandInv, CollectorInv, FileInv, collectVars, Ready, Later
<1>4. AuditInv' /\ StageInv'
  BY <1>1 DEF CommandInv, AuditInv, StageInv, Writes
<1>5. ExitTruth'
  BY <1>1 DEF ExitTruth, collectVars
<1> QED
  BY <1>2, <1>3, <1>4, <1>5 DEF CommandInv

\* A run that goes on to another phase
LEMMA AuditGoesOn ==
    ASSUME CommandInv, phase # "idle", phase' # "idle", AuditInv', StageInv',
           UNCHANGED <<collectVars, skipPdf, code, last>>
    PROVE  CommandInv'
<1>1. OneCommandInv' /\ CollectorInv' /\ FileInv'
  BY DEF CommandInv, OneCommandInv, CollectorInv, FileInv, collectVars, Ready, Later
<1>2. ExitTruth'
  BY ExitCodeAssumption DEF CommandInv, OneCommandInv, ExitTruth, collectVars
<1> QED
  BY <1>1, <1>2 DEF CommandInv

\* A step of the narrator that goes on does not end it
LEMMA ExplainStage == Explain => stage' # "idle"
BY DEF Explain, ReadCache, Offline, Ask, FallBack, Explained, Keep, AskAgain, OpenCache,
       WriteCache, Finish

\* A whole snapshot brings the narrator or, without it, the first part
LEMMA AcceptInv == CommandInv /\ Accept => CommandInv'
<1> SUFFICES ASSUME CommandInv, Accept PROVE CommandInv'
  OBVIOUS
<1>1. /\ phase = "validate" /\ out.whole
      /\ UNCHANGED <<collectVars, skipPdf, bundle, code, last>>
      /\ \/ stage' = "next" /\ phase' = "explain"
         \/ stage' = stage /\ phase' = "html"
  BY DEF Accept, Begin, vars
<1>2. AuditInv'
  <2>1. Written = {} /\ Written' = {}
    BY <1>1 DEF Written
  <2> QED
    BY <1>1, <2>1 DEF CommandInv, AuditInv, collectVars
<1>3. StageInv'
  BY <1>1 DEF CommandInv, StageInv, Writes
<1> QED
  BY <1>1, <1>2, <1>3, AuditGoesOn

\* The narrator goes on, or the first part is next
LEMMA ExplainTopInv == CommandInv /\ ExplainTop => CommandInv'
<1> SUFFICES ASSUME CommandInv, ExplainTop PROVE CommandInv'
  OBVIOUS
<1>1. /\ phase = "explain" /\ phase' = IF stage' = "done" THEN "html" ELSE "explain"
      /\ UNCHANGED <<collectVars, skipPdf, bundle, code, last>>
      /\ stage' # "idle"
  BY ExplainStage DEF ExplainTop
<1>2. AuditInv'
  <2>1. Written = {} /\ Written' = {}
    BY <1>1 DEF Written
  <2> QED
    BY <1>1, <2>1 DEF CommandInv, AuditInv, collectVars
<1>3. StageInv'
  BY <1>1 DEF StageInv, Writes
<1> QED
  BY <1>1, <1>2, <1>3, AuditGoesOn

\* When a part is to be written, the narrator has finished or never began
LEMMA QuitsIdle == CommandInv /\ Quits => stage' = "idle"
BY DEF Quits, Leave, Ends, vars

\* The last part completes the bundle, every other one brings the next
LEMMA WritePartInv == CommandInv /\ WritePart => CommandInv'
<1> SUFFICES ASSUME CommandInv, WritePart PROVE CommandInv'
  OBVIOUS
<1>1. phase \in {"html", "pdf", "tasks", "findings"}
      /\ bundle' = [bundle EXCEPT ![Writes[phase]] = "whole"]
  BY DEF WritePart, Writes
<1>2. bundle = [part \in Parts |-> IF part \in Written THEN "whole" ELSE "stale"]
      /\ skipPdf \in BOOLEAN /\ out # None /\ out.whole /\ (phase = "pdf" => ~skipPdf)
  BY <1>1 DEF CommandInv, AuditInv
<1>3. CASE phase = "findings"
  <2>1. Exit(0) /\ Quits
    BY <1>3 DEF WritePart, Follows
  <2>2. \A part \in Parts :
          bundle'[part] = IF part = "report.pdf" /\ skipPdf THEN "stale" ELSE "whole"
    BY <1>1, <1>2, <1>3 DEF Writes, Parts, Written
  <2> QED
    BY <1>3, <2>1, <2>2, QuitsIdle, AuditEnds
<1>4. CASE phase # "findings"
  <2>1. phase' = Follows(phase) /\ UNCHANGED <<vars, collectVars, skipPdf, top, code, last>>
    BY <1>1, <1>4 DEF WritePart, Follows
  <2>2. phase' \in {"pdf", "tasks", "findings"} /\ (phase' = "pdf" => ~skipPdf')
    BY <1>1, <1>4, <2>1 DEF Follows
  <2>3. bundle' = [part \in Parts |-> IF part \in Written' THEN "whole" ELSE "stale"]
    <3>1. CASE phase = "html"
      BY <3>1, <1>1, <1>2, <2>1 DEF Writes, Parts, Written, Follows
    <3>2. CASE phase = "pdf"
      BY <3>2, <1>1, <1>2, <2>1 DEF Writes, Parts, Written, Follows
    <3>3. CASE phase = "tasks"
      BY <3>3, <1>1, <1>2, <2>1 DEF Writes, Parts, Written, Follows
    <3> QED
      BY <1>1, <1>4, <3>1, <3>2, <3>3
  <2>4. AuditInv'
    BY <1>2, <2>1, <2>2, <2>3 DEF AuditInv, collectVars
  <2>5. StageInv'
    BY <1>1, <2>1, <2>2 DEF CommandInv, StageInv, vars, Writes
  <2> QED
    BY <1>1, <2>1, <2>2, <2>4, <2>5, AuditGoesOn
<1> QED
  BY <1>3, <1>4

\* The other steps end the run with 1
LEMMA AuditFails ==
    ASSUME CommandInv, phase # "idle", Refuse \/ ExplainRaises \/ PartFails \/ KillAudit
    PROVE  CommandInv'
<1>1. Exit(1)
  BY DEF Refuse, ExplainRaises, PartFails, KillAudit, Interrupted
<1>2. stage' = "idle"
  <2>1. CASE Refuse
    BY <2>1 DEF Refuse, CommandInv, StageInv, vars, Writes
  <2>2. CASE ExplainRaises
    BY <2>2 DEF ExplainRaises, Raises, StoreRaises, ReadRaises, Ends
  <2>3. CASE PartFails
    BY <2>3, QuitsIdle DEF PartFails
  <2>4. CASE KillAudit
    BY <2>4 DEF KillAudit, Crash, Ends, vars
  <2> QED
    BY <2>1, <2>2, <2>3, <2>4
<1> QED
  BY <1>1, <1>2, AuditEnds

\* Every step keeps the inductive invariant
LEMMA CommandNextInv == CommandInv /\ [CommandNext]_commandVars => CommandInv'
<1> SUFFICES ASSUME CommandInv, [CommandNext]_commandVars PROVE CommandInv'
  OBVIOUS
<1>1. CASE Collect \/ KillCollector
  BY <1>1, CollectInv DEF Collect, KillCollector
<1>2. CASE Refuse \/ ExplainRaises \/ PartFails \/ KillAudit
  <2>1. phase # "idle"
    BY <1>2 DEF Refuse, ExplainRaises, PartFails, KillAudit, Writes
  <2> QED
    BY <1>2, <2>1, AuditFails
<1>3. CASE UNCHANGED commandVars
  <2>1. UNCHANGED <<vars, collectVars, auditVars, code, last>>
    BY <1>3 DEF commandVars
  <2>2. OneCommandInv' /\ CollectorInv' /\ FileInv'
    <3>1. UNCHANGED <<server, at, caps, notes, out, phase, code, last>>
      BY <2>1 DEF collectVars, auditVars
    <3>2. OneCommandInv' /\ FileInv'
      BY <3>1 DEF CommandInv, OneCommandInv, FileInv
    <3>3. CollectorInv'
      BY <3>1 DEF CommandInv, CollectorInv, C!Servers, C!IsPg, C!WhyNoQueries
    <3> QED
      BY <3>2, <3>3
  <2>3. AuditInv' /\ StageInv'
    BY <2>1 DEF CommandInv, AuditInv, StageInv, Written, vars, collectVars, auditVars
  <2>4. ExitTruth'
    BY <2>1 DEF CommandInv, ExitTruth, collectVars, auditVars
  <2> QED
    BY <2>2, <2>3, <2>4 DEF CommandInv
<1> QED
  BY <1>1, <1>2, <1>3, BeginCollectInv, BeginAuditInv, AcceptInv, ExplainTopInv, WritePartInv
     DEF CommandNext, Audit

\* The inductive invariant holds in every reachable state
THEOREM CommandInvariance == CommandSpec => []CommandInv
<1> QED
  BY CommandInitInv, CommandNextInv, PTL DEF CommandSpec

-----------------------------------------------------------------------------
(* What a consultant may rely on                                           *)

\* A collector or an audit that ends with 0 has written all it was to write,
\* through kills, full disks, failing statements and failing models
THEOREM ExitCodesTellTheTruth == CommandSpec => []ExitTruth
<1>1. CommandInv => ExitTruth
  BY DEF CommandInv
<1> QED
  BY <1>1, CommandInvariance, PTL

\* Whichever privilege is missing or statement fails, a whole snapshot without
\* statements says why, and no report is made from half a snapshot
THEOREM SilenceHasAReason == CommandSpec => []SilenceIsExplained
<1>1. CommandInv => SilenceIsExplained
  <2> SUFFICES ASSUME CommandInv PROVE SilenceIsExplained
    OBVIOUS
  <2>1. out # None /\ out.whole /\ ~out.queries => out.noted
    BY DEF CommandInv, FileInv
  <2>2. phase \in {"explain"} \cup DOMAIN Writes => out.whole
    BY DEF CommandInv, AuditInv, Writes
  <2> QED
    BY <2>1, <2>2 DEF SilenceIsExplained
<1> QED
  BY <1>1, CommandInvariance, PTL

\* Every step of the commands is a step of the narrator or leaves it alone, also
\* where a command is killed or runs out of disk while the narrator is at work
LEMMA NarratorRunsInCommands == CommandSpec => Spec
<1>1. CommandInit => Init
  BY DEF CommandInit
<1>2. [CommandNext]_commandVars => [Next]_vars
  BY DEF CommandNext, BeginCollect, Collect, KillCollector, BeginAudit, Audit, Refuse, Accept,
         ExplainTop, ExplainRaises, WritePart, PartFails, KillAudit, Quits, Next, commandVars
<1> QED
  BY <1>1, <1>2, PTL DEF CommandSpec, Spec

\* What is proved of the narrator holds in the commands: no report and no cached
\* text of any of them has an invented number
THEOREM CommandsInventNothing == CommandSpec => []NothingInvented
<1> QED
  BY NarratorRunsInCommands, NumbersAreGiven, PTL

\* A paragraph once cached is what every later audit of the same directory
\* repeats: no command, finished, failed or killed, writes it again
THEOREM CommandsKeepTheCache == CommandSpec => CachedForGood
<1> QED
  BY NarratorRunsInCommands, CacheIsKept, PTL

-----------------------------------------------------------------------------
(* Types, and what a collector has found                                   *)

\* The types that CommandInv says nothing of; and a run that is to ask for the
\* statements talks to a server that keeps them and has passed the trial
KeptInv ==
    /\ server \in C!Servers \cup {None}
    /\ caps \subseteq {"query_stats", "sys_schema"}
    /\ notes \subseteq C!WhyNoQueries \cup {"no advisor views"}
    /\ "query_stats" \in caps => server.kind.stats = "on" /\ C!Readable("trial")
    /\ last \in {"collect", "audit"}
    /\ top \subseteq Findings
    /\ bundle \in [Parts -> {"stale", "torn", "whole"}]

LEMMA KeptInitInv == CommandInit => KeptInv
BY DEF CommandInit, C!Init, KeptInv, Stale

\* The check finds only what there is
LEMMA CheckKeeps ==
    ASSUME CommandInv, KeptInv, C!Check, UNCHANGED <<auditVars, last>>
    PROVE  KeptInv'
<1>1. server.kind.stats \in {"on", "off", "disabled"}
  BY DEF CommandInv, CollectorInv, C!Check, C!Servers, C!Kinds
<1>2. CASE C!Fail
  BY <1>2 DEF KeptInv, C!Fail, C!Exit, auditVars
<1>3. CASE ~C!Fail
  <2>1. PICK readable \in {C!Readable("trial"), FALSE} :
          /\ IF C!IsPg THEN C!PgCheck(readable) ELSE C!MyCheck(readable)
          /\ UNCHANGED server
    BY <1>3 DEF C!Check
  <2>2. readable => C!Readable("trial")
    BY <2>1
  <2>3. "query_stats" \in caps' => server.kind.stats = "on" /\ readable
    <3>1. CASE C!IsPg
      BY <2>1, <3>1 DEF C!PgCheck
    <3>2. CASE ~C!IsPg
      <4>1. "query_stats" \in caps' => server.kind.stats = "on"
        <5>1. \/ caps' = {}
              \/ caps' = (IF server.kind.stats = "on" THEN {"query_stats"} ELSE {})
                         \cup (IF server.kind.sys THEN {"sys_schema"} ELSE {})
          BY <2>1, <3>2 DEF C!MyCheck
        <5>2. "query_stats" \notin (IF server.kind.sys THEN {"sys_schema"} ELSE {})
          OBVIOUS
        <5> QED
          BY <5>1, <5>2
      <4>2. "query_stats" \in caps' /\ server.kind.stats = "on" => readable
        BY <2>1, <3>2 DEF C!MyCheck
      <4> QED
        BY <4>1, <4>2
    <3> QED
      BY <3>1, <3>2
  <2>4. /\ caps' \subseteq {"query_stats", "sys_schema"}
        /\ notes' \subseteq C!WhyNoQueries \cup {"no advisor views"}
    <3>1. CASE C!IsPg
      BY <2>1, <3>1 DEF C!PgCheck, C!WhyNoQueries
    <3>2. CASE ~C!IsPg
      BY <1>1, <2>1, <3>2 DEF C!MyCheck, C!WhyNoQueries
    <3> QED
      BY <3>1, <3>2
  <2> QED
    BY <2>1, <2>2, <2>3, <2>4 DEF KeptInv, C!Readable, auditVars
<1> QED
  BY <1>2, <1>3

LEMMA KeptNextInv == CommandInv /\ KeptInv /\ [CommandNext]_commandVars => KeptInv'
<1> SUFFICES ASSUME CommandInv, KeptInv, [CommandNext]_commandVars PROVE KeptInv'
  OBVIOUS
<1>1. CASE Collect \/ KillCollector
  <2>1. CASE C!Check
    BY <1>1, <2>1, CheckKeeps DEF Collect, KillCollector
  <2>2. CASE C!Exit(0) \/ C!Exit(1)
    BY <1>1, <2>2 DEF KeptInv, C!Exit, Collect, KillCollector, auditVars
  <2>3. CASE UNCHANGED <<server, caps, notes>>
    BY <1>1, <2>3 DEF KeptInv, C!Readable, Collect, KillCollector, auditVars
  <2> QED
    BY <1>1, <2>1, <2>2, <2>3
       DEF Collect, KillCollector, C!Collect, C!Verify, C!Read, C!StatementFails, C!DeltaFails,
           C!Open, C!Dump, C!DumpFails, C!Killed, C!Fail, C!GoOn
<1>2. CASE BeginCollect
  BY <1>2 DEF BeginCollect, C!Begin, KeptInv, auditVars
<1>3. CASE BeginAudit \/ Audit \/ KillAudit \/ UNCHANGED commandVars
  <2>1. UNCHANGED <<server, caps, notes>>
    BY <1>3 DEF BeginAudit, Audit, KillAudit, Refuse, Accept, ExplainTop, ExplainRaises, WritePart,
                PartFails, Interrupted, Exit, collectVars, commandVars
  <2>2. last' \in {"collect", "audit"}
    BY <1>3 DEF KeptInv, BeginAudit, Audit, KillAudit, Refuse, Accept, ExplainTop, ExplainRaises,
                WritePart, PartFails, Interrupted, Exit, commandVars
  <2>3. top' \subseteq Findings
    BY <1>3 DEF KeptInv, BeginAudit, Audit, KillAudit, Refuse, Accept, Begin, ExplainTop,
                ExplainRaises, WritePart, PartFails, Interrupted, Exit, auditVars, commandVars
  <2>4. bundle' \in [Parts -> {"stale", "torn", "whole"}]
    <3>1. \/ UNCHANGED bundle
          \/ bundle' = Stale
          \/ \E p \in DOMAIN Writes, state \in {"torn", "whole"} :
               bundle' = [bundle EXCEPT ![Writes[p]] = state]
      BY <1>3 DEF BeginAudit, Audit, KillAudit, Refuse, Accept, ExplainTop, ExplainRaises, WritePart,
                  PartFails, Interrupted, auditVars, commandVars
    <3>2. \A p \in DOMAIN Writes : Writes[p] \in Parts
      BY DEF Writes, Parts
    <3> QED
      BY <3>1, <3>2 DEF KeptInv, Stale
  <2> QED
    BY <2>1, <2>2, <2>3, <2>4 DEF KeptInv, C!Readable
<1> QED
  BY <1>1, <1>2, <1>3 DEF CommandNext

LEMMA KeptInvariance == CommandSpec => []KeptInv
<1> QED
  BY CommandInvariance, KeptInitInv, KeptNextInv, PTL DEF CommandSpec

\* Every variable of the commands, of the collectors and of the narrator has its
\* type, in every state
THEOREM CommandsKeepTypes == CommandSpec => []CommandTypeOK
<1>1. TypeOK /\ CommandInv /\ KeptInv => CommandTypeOK
  <2> SUFFICES ASSUME TypeOK, CommandInv, KeptInv PROVE CommandTypeOK
    OBVIOUS
  <2>1. at \in {"idle", "dump"} \cup {C!PgSteps[n] : n \in 1..Len(C!PgSteps)}
    <3>1. Len(C!PgSteps) = 12
      BY DEF C!PgSteps
    <3>2. at \in {"idle", "dump"} \/ \E n \in 1..12 : C!PgSteps[n] = at
      BY DEF CommandInv, CollectorInv, Ready, Later, C!PgSteps
    <3> QED
      BY <3>1, <3>2
  <2>2. out \in [whole : BOOLEAN, fresh : BOOLEAN, queries : BOOLEAN, noted : BOOLEAN] \cup {None}
    BY DEF CommandInv, FileInv
  <2>3. phase \in {"idle", "validate", "explain"} \cup DOMAIN Writes /\ skipPdf \in BOOLEAN
    BY DEF CommandInv, AuditInv, Writes
  <2> QED
    BY <2>1, <2>2, <2>3 DEF CommandTypeOK, CommandInv, OneCommandInv, KeptInv
<1> QED
  BY <1>1, NarratorRunsInCommands, TypeCorrect, CommandInvariance, KeptInvariance, PTL

-----------------------------------------------------------------------------
(* Degraded, not crashed                                                   *)

\* "Misconfigured performance_schema is a degraded run, never a crash": where
\* nothing else goes wrong, a run in a read-only session ends with 1 only where a
\* statement outside of the one try is refused.  Whether the statistics are on,
\* off or disabled, and whether their trial is refused, never ends it; but after
\* a trial that is refused the other reads still must not be (Answered)
THEOREM ElsewhereItDegrades ==
    ASSUME Troubles = {}
    PROVE  CommandSpec =>
             [][ at \notin {"idle", "delta"} /\ server.readOnly /\ C!Answered => code' # 1 ]_commandVars
<1>1. ASSUME CommandInv, KeptInv, CommandNext, at \notin {"idle", "delta"}, server.readOnly,
             C!Answered
      PROVE  code' # 1
  <2>1. code = None /\ phase = "idle"
    BY <1>1 DEF CommandInv, OneCommandInv
  <2>2. C!Collect
    BY <1>1, <2>1 DEF CommandNext, BeginCollect, C!Begin, Collect, KillCollector, C!Killed,
                      BeginAudit, Audit, Refuse, Accept, ExplainTop, ExplainRaises, WritePart,
                      PartFails, KillAudit, Writes
  <2>3. C!Wanted(at) => C!Works(at)
    BY <1>1 DEF KeptInv, C!Answered, C!Wanted, C!Works
  <2>4. ~C!InstrumentsRaise(C!Readable("trial"))
    BY <1>1 DEF C!Answered, C!InstrumentsRaise
  <2>5. C!Check => code' = code
    BY <2>4 DEF C!Check
  <2>6. code' = code \/ code' = 0
    BY <1>1, <2>2, <2>3, <2>5 DEF C!Collect, C!Verify, C!GoOn, C!Read, C!StatementFails,
                                  C!DeltaFails, C!Open, C!Dump, C!DumpFails, C!Exit
  <2> QED
    BY <2>1, <2>6, ExitCodeAssumption
<1>2. CommandInv /\ KeptInv /\ [CommandNext]_commandVars =>
        [ at \notin {"idle", "delta"} /\ server.readOnly /\ C!Answered => code' # 1 ]_commandVars
  BY <1>1
<1> QED
  BY <1>2, CommandInvariance, KeptInvariance, PTL DEF CommandSpec
=============================================================================
