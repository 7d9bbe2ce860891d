------------------------------ MODULE AuditJobs ------------------------------
(***************************************************************************)
(* The life of an audit job in the web backend                             *)
(* (src/webapp/backend/app/jobs.py): the upload handler, the background    *)
(* pipeline, the approval and the report download, as they interleave in   *)
(* one API process over one database and one data directory.               *)
(*                                                                         *)
(* create_job runs on the event loop, in one stretch after its only await; *)
(* every other handler and the pipeline run on worker threads, each with a *)
(* database session of its own that loads a row, edits the object and      *)
(* writes back at commit only the columns it changed.                      *)
(***************************************************************************)
EXTENDS Naturals, FiniteSets

CONSTANTS
    Jobs,       \* upload requests, each the id of the row it may create
    Users,      \* registered accounts
    Admins,     \* the accounts with is_admin
    Owner,      \* Owner[j]: the account that uploads j
    EnablePdf,  \* settings.enable_pdf
    Faults,     \* which faults may occur: "crash", "disk", "db"
    None        \* no request, no delivery

ASSUME AdminsAssumption == Admins \subseteq Users
ASSUME OwnerAssumption == Owner \in [Jobs -> Users]
ASSUME SettingsAssumption == EnablePdf \in BOOLEAN /\ Faults \subseteq {"crash", "disk", "db"}
ASSUME NoneAssumption == None \notin Jobs

VARIABLES
    req,        \* [Jobs -> Req]: how far create_job got
    row,        \* [Jobs -> Row]: the committed audit_jobs row
    snapshot,   \* [Jobs -> ...]: <data_dir>/jobs/<j>/snapshot.json
    files,      \* [Jobs -> [Artifacts -> Content]]: the artifacts beside it
    stage,      \* [Jobs -> Stage]: where run_pipeline is
    obj,        \* [Jobs -> Row]: the job object of the pipeline's session
    dirty,      \* [Jobs -> SUBSET Columns]: columns that session will write
    approving,  \* [Admins -> Jobs or None]: approve_job past its status check
    fetch,      \* [Users -> Fetch or None]: get_report past its checks
    delivery    \* the last report handed out (history)

vars == <<req, row, snapshot, files, stage, obj, dirty, approving, fetch, delivery>>

-----------------------------------------------------------------------------
(* The data                                                                *)

\* "none" stands for a row that does not exist
Statuses == {"none", "uploaded", "processing", "review", "approved", "failed"}

\* The columns that change after insertion; report stands for report_path and
\* score, which are assigned and committed together
Row == [status : Statuses, report : BOOLEAN,
        error : {"none", "pdf", "failure"}, paid : BOOLEAN]
Columns == {"status", "report", "error"}
NoRow == [status |-> "none", report |-> FALSE, error |-> "none", paid |-> FALSE]

Artifacts == {"report.html", "report.pdf", "tasks.md", "findings.json"}
Content == {"absent", "partial", "whole"}

\* "recoded" is a whole file that json.loads accepts as bytes but not as UTF-8
\* text: one with a byte order mark, or in UTF-16
SnapshotContent == {"absent", "partial", "whole", "recoded"}

Req == {"new", "inserted", "accepted", "refused", "broken"}
Stage == {"none", "queued", "loaded", "audit", "commit"} \cup Artifacts
Fetch == [job : Jobs, file : Artifacts]
Delivery == [user : Users, job : Jobs, file : Artifacts, content : Content]

\* Mutant: the order skips the tasks
AfterHtmlNoTasks == "findings.json"

\* Mutant: a misspelt artifact
AfterHtmlMisspelt == "reports.pdf"

\* The artifacts are written in this order
AfterHtml == IF EnablePdf THEN "report.pdf" ELSE "tasks.md"

Init ==
    /\ req = [j \in Jobs |-> "new"]
    /\ row = [j \in Jobs |-> NoRow]
    /\ snapshot = [j \in Jobs |-> "absent"]
    /\ files = [j \in Jobs |-> [f \in Artifacts |-> "absent"]]
    /\ stage = [j \in Jobs |-> "none"]
    /\ obj = [j \in Jobs |-> NoRow]
    /\ dirty = [j \in Jobs |-> {}]
    /\ approving = [a \in Admins |-> None]
    /\ fetch = [u \in Users |-> None]
    /\ delivery = None

-----------------------------------------------------------------------------
(* create_job                                                              *)

\* No upload is between its commit and its return: the event loop is free
LoopFree == \A j \in Jobs : req[j] # "inserted"

\* 413 or 422: nothing is stored
Refuse(j) ==
    /\ req[j] = "new" /\ LoopFree
    /\ req' = [req EXCEPT ![j] = "refused"]
    /\ UNCHANGED <<row, snapshot, files, stage, obj, dirty, approving, fetch, delivery>>

\* The snapshot validates; the row is inserted and committed
Insert(j) ==
    /\ req[j] = "new" /\ LoopFree
    /\ req' = [req EXCEPT ![j] = "inserted"]
    /\ row' = [row EXCEPT ![j].status = "uploaded"]
    /\ UNCHANGED <<snapshot, files, stage, obj, dirty, approving, fetch, delivery>>

\* The insert fails: 500, and no row
InsertFails(j) ==
    /\ "db" \in Faults
    /\ req[j] = "new" /\ LoopFree
    /\ req' = [req EXCEPT ![j] = "broken"]
    /\ UNCHANGED <<row, snapshot, files, stage, obj, dirty, approving, fetch, delivery>>

\* mkdir, write_bytes, add_task, 201
Store(j) ==
    /\ req[j] = "inserted"
    /\ \E content \in {"whole", "recoded"} :
          snapshot' = [snapshot EXCEPT ![j] = content]
    /\ req' = [req EXCEPT ![j] = "accepted"]
    /\ stage' = [stage EXCEPT ![j] = "queued"]
    /\ UNCHANGED <<row, files, obj, dirty, approving, fetch, delivery>>

\* The directory or the file cannot be written: 500, and the row stays
StoreFails(j) ==
    /\ "disk" \in Faults
    /\ req[j] = "inserted"
    /\ \E content \in {"absent", "partial"} :
          snapshot' = [snapshot EXCEPT ![j] = content]
    /\ req' = [req EXCEPT ![j] = "broken"]
    /\ UNCHANGED <<row, files, stage, obj, dirty, approving, fetch, delivery>>

-----------------------------------------------------------------------------
(* run_pipeline                                                            *)

\* Mutant: the session writes its whole copy of the row
FlushedWhole(j) == obj[j]

\* The row after the session writes the columns it changed, and no other
Flushed(j) ==
    [status |-> IF "status" \in dirty[j] THEN obj[j].status ELSE row[j].status,
     report |-> IF "report" \in dirty[j] THEN obj[j].report ELSE row[j].report,
     error |-> IF "error" \in dirty[j] THEN obj[j].error ELSE row[j].error,
     paid |-> row[j].paid]

\* The session loads the row; None ends the task
Load(j) ==
    /\ stage[j] = "queued"
    /\ row[j].status # "none"
    /\ obj' = [obj EXCEPT ![j] = [row[j] EXCEPT !.status = "processing"]]
    /\ dirty' = [dirty EXCEPT ![j] = {"status"}]
    /\ stage' = [stage EXCEPT ![j] = "loaded"]
    /\ UNCHANGED <<req, row, snapshot, files, approving, fetch, delivery>>

\* Mutant: report_path is committed before there is a report
MarkProcessingWithPath(j) ==
    /\ stage[j] = "loaded"
    /\ row' = [row EXCEPT ![j] = [Flushed(j) EXCEPT !.report = TRUE]]
    /\ dirty' = [dirty EXCEPT ![j] = {}]
    /\ stage' = [stage EXCEPT ![j] = "audit"]
    /\ UNCHANGED <<req, snapshot, files, obj, approving, fetch, delivery>>

MarkProcessing(j) ==
    /\ stage[j] = "loaded"
    /\ row' = [row EXCEPT ![j] = Flushed(j)]
    /\ dirty' = [dirty EXCEPT ![j] = {}]
    /\ stage' = [stage EXCEPT ![j] = "audit"]
    /\ UNCHANGED <<req, snapshot, files, obj, approving, fetch, delivery>>

\* Mutant: the failure is not put on the job
RaisedSilently(j) ==
    /\ obj' = [obj EXCEPT ![j].status = "failed"]
    /\ dirty' = [dirty EXCEPT ![j] = @ \cup {"status"}]
    /\ stage' = [stage EXCEPT ![j] = "commit"]

\* The except branch: the failure is put on the job
Raised(j) ==
    /\ obj' = [obj EXCEPT ![j].status = "failed", ![j].error = "failure"]
    /\ dirty' = [dirty EXCEPT ![j] = @ \cup {"status", "error"}]
    /\ stage' = [stage EXCEPT ![j] = "commit"]

\* read_text, model_validate, run_all, explain_all and render_report succeed
Audit(j) ==
    /\ stage[j] = "audit"
    /\ snapshot[j] = "whole"
    /\ stage' = [stage EXCEPT ![j] = "report.html"]
    /\ UNCHANGED <<req, row, snapshot, files, obj, dirty, approving, fetch, delivery>>

\* Mutant: the exception is not caught
AuditRaisesUncaught(j) ==
    /\ stage[j] = "audit"
    /\ stage' = [stage EXCEPT ![j] = "none"]
    /\ UNCHANGED <<req, row, snapshot, files, obj, dirty, approving, fetch, delivery>>

\* One of them raises: any of them may, and reading a recoded file does
AuditRaises(j) ==
    /\ stage[j] = "audit"
    /\ Raised(j)
    /\ UNCHANGED <<req, row, snapshot, files, approving, fetch, delivery>>

\* write_text truncates the file before it writes
OpenArtifact(j) ==
    /\ stage[j] \in Artifacts
    /\ files[j][stage[j]] = "absent"
    /\ files' = [files EXCEPT ![j][stage[j]] = "partial"]
    /\ UNCHANGED <<req, row, snapshot, stage, obj, dirty, approving, fetch, delivery>>

Written(j, f) ==
    /\ stage[j] = f
    /\ files[j][f] = "partial"
    /\ files' = [files EXCEPT ![j][f] = "whole"]

WriteHtml(j) ==
    /\ Written(j, "report.html")
    /\ stage' = [stage EXCEPT ![j] = AfterHtml]
    /\ UNCHANGED <<req, row, snapshot, obj, dirty, approving, fetch, delivery>>

WritePdf(j) ==
    /\ Written(j, "report.pdf")
    /\ stage' = [stage EXCEPT ![j] = "tasks.md"]
    /\ UNCHANGED <<req, row, snapshot, obj, dirty, approving, fetch, delivery>>

\* Mutant: the PDF is tried again, without a limit
PdfRaisesAgain(j) ==
    /\ stage[j] = "report.pdf"
    /\ files' = [files EXCEPT ![j]["report.pdf"] = "absent"]
    /\ obj' = [obj EXCEPT ![j].error = "pdf"]
    /\ dirty' = [dirty EXCEPT ![j] = @ \cup {"error"}]
    /\ UNCHANGED <<req, row, snapshot, stage, approving, fetch, delivery>>

\* html_to_pdf raises: before it writes, while it writes, or closing the
\* browser after it wrote.  The job goes on, with a note
PdfRaises(j) ==
    /\ stage[j] = "report.pdf"
    /\ \/ UNCHANGED files
       \/ Written(j, "report.pdf")
    /\ obj' = [obj EXCEPT ![j].error = "pdf"]
    /\ dirty' = [dirty EXCEPT ![j] = @ \cup {"error"}]
    /\ stage' = [stage EXCEPT ![j] = "tasks.md"]
    /\ UNCHANGED <<req, row, snapshot, approving, fetch, delivery>>

WriteTasks(j) ==
    /\ Written(j, "tasks.md")
    /\ stage' = [stage EXCEPT ![j] = "findings.json"]
    /\ UNCHANGED <<req, row, snapshot, obj, dirty, approving, fetch, delivery>>

\* findings.json, then report_path, score and status on the object
WriteFindings(j) ==
    /\ Written(j, "findings.json")
    /\ obj' = [obj EXCEPT ![j].report = TRUE, ![j].status = "review"]
    /\ dirty' = [dirty EXCEPT ![j] = @ \cup {"report", "status"}]
    /\ stage' = [stage EXCEPT ![j] = "commit"]
    /\ UNCHANGED <<req, row, snapshot, approving, fetch, delivery>>

\* A write of the HTML, the tasks or the findings raises
WriteRaises(j) ==
    /\ "disk" \in Faults
    /\ stage[j] \in Artifacts \ {"report.pdf"}
    /\ Raised(j)
    /\ UNCHANGED <<req, row, snapshot, files, approving, fetch, delivery>>

\* The last commit, and close
Finish(j) ==
    /\ stage[j] = "commit"
    /\ row' = [row EXCEPT ![j] = Flushed(j)]
    /\ obj' = [obj EXCEPT ![j] = NoRow]
    /\ dirty' = [dirty EXCEPT ![j] = {}]
    /\ stage' = [stage EXCEPT ![j] = "none"]
    /\ UNCHANGED <<req, snapshot, files, approving, fetch, delivery>>

\* The engine, the session, db.get and both commits are outside the try around
\* the audit: a database error in any of them ends the task, the row as it is
SessionFails(j) ==
    /\ "db" \in Faults
    /\ stage[j] \in {"queued", "loaded", "commit"}
    /\ obj' = [obj EXCEPT ![j] = NoRow]
    /\ dirty' = [dirty EXCEPT ![j] = {}]
    /\ stage' = [stage EXCEPT ![j] = "none"]
    /\ UNCHANGED <<req, row, snapshot, files, approving, fetch, delivery>>

Pipeline(j) ==
    \/ Load(j) \/ MarkProcessing(j) \/ Audit(j) \/ AuditRaises(j)
    \/ OpenArtifact(j) \/ WriteHtml(j) \/ WritePdf(j) \/ PdfRaises(j)
    \/ WriteTasks(j) \/ WriteFindings(j) \/ WriteRaises(j)
    \/ Finish(j) \/ SessionFails(j)

-----------------------------------------------------------------------------
(* approve_job                                                             *)

\* Mutant: the status is not checked
ApproveAny(a, j) ==
    /\ approving[a] = None
    /\ row[j].status # "none"
    /\ approving' = [approving EXCEPT ![a] = j]
    /\ UNCHANGED <<req, row, snapshot, files, stage, obj, dirty, fetch, delivery>>

\* The row is loaded and is in review
ApproveCheck(a, j) ==
    /\ approving[a] = None
    /\ row[j].status = "review"
    /\ approving' = [approving EXCEPT ![a] = j]
    /\ UNCHANGED <<req, row, snapshot, files, stage, obj, dirty, fetch, delivery>>

\* The commit writes the status whatever the row holds by then
ApproveCommit(a) ==
    /\ approving[a] # None
    /\ row' = [row EXCEPT ![approving[a]].status = "approved"]
    /\ approving' = [approving EXCEPT ![a] = None]
    /\ UNCHANGED <<req, snapshot, files, stage, obj, dirty, fetch, delivery>>

ApproveFails(a) ==
    /\ "db" \in Faults
    /\ approving[a] # None
    /\ approving' = [approving EXCEPT ![a] = None]
    /\ UNCHANGED <<req, row, snapshot, files, stage, obj, dirty, fetch, delivery>>

-----------------------------------------------------------------------------
(* get_report                                                              *)

\* _load_job_for: the owner or an admin; anyone else gets 404
MayLoad(u, j) == row[j].status # "none" /\ (Owner[j] = u \/ u \in Admins)

\* Mutant: no review hold
MayFetchUnreviewed(u, j) == MayLoad(u, j) /\ row[j].report

\* The review hold, then the report_path check
MayFetch(u, j) ==
    /\ MayLoad(u, j)
    /\ row[j].status = "approved" \/ u \in Admins
    /\ row[j].report

\* fmt names the PDF, the HTML, or anything else: the tasks
ReportCheck(u, j) ==
    /\ fetch[u] = None
    /\ MayFetch(u, j)
    /\ \E f \in Artifacts \ {"findings.json"} :
          fetch' = [fetch EXCEPT ![u] = [job |-> j, file |-> f]]
    /\ UNCHANGED <<req, row, snapshot, files, stage, obj, dirty, approving, delivery>>

\* The file is streamed as it is by then, or is missing: 404
ReportSend(u) ==
    /\ fetch[u] # None
    /\ LET content == files[fetch[u].job][fetch[u].file]
       IN  IF content = "absent"
             THEN UNCHANGED delivery
             ELSE delivery' = [user |-> u, job |-> fetch[u].job,
                               file |-> fetch[u].file, content |-> content]
    /\ fetch' = [fetch EXCEPT ![u] = None]
    /\ UNCHANGED <<req, row, snapshot, files, stage, obj, dirty, approving>>

-----------------------------------------------------------------------------
(* What happens around these handlers                                      *)

\* The payment webhook, also on the event loop, commits job.paid
MarkPaid(j) ==
    /\ row[j].status # "none"
    /\ LoopFree
    /\ row' = [row EXCEPT ![j].paid = TRUE]
    /\ UNCHANGED <<req, snapshot, files, stage, obj, dirty, approving, fetch, delivery>>

\* The process dies and is started again: threads, sessions and queued
\* background tasks are gone, rows and files stay, and nothing is resumed
CrashRestart ==
    /\ "crash" \in Faults
    /\ req' = [j \in Jobs |-> IF req[j] = "inserted" THEN "broken" ELSE req[j]]
    /\ stage' = [j \in Jobs |-> "none"]
    /\ obj' = [j \in Jobs |-> NoRow]
    /\ dirty' = [j \in Jobs |-> {}]
    /\ approving' = [a \in Admins |-> None]
    /\ fetch' = [u \in Users |-> None]
    /\ \E left \in SnapshotContent :
          snapshot' = [j \in Jobs |-> IF req[j] = "inserted" THEN left ELSE snapshot[j]]
    /\ UNCHANGED <<row, files, delivery>>

CreateJob(j) == Insert(j) \/ InsertFails(j) \/ Refuse(j) \/ Store(j) \/ StoreFails(j)

Next ==
    \/ \E j \in Jobs : CreateJob(j) \/ Pipeline(j) \/ MarkPaid(j)
    \/ \E a \in Admins : ApproveCommit(a) \/ ApproveFails(a)
                         \/ \E j \in Jobs : ApproveCheck(a, j)
    \/ \E u \in Users : ReportSend(u) \/ \E j \in Jobs : ReportCheck(u, j)
    \/ CrashRestart

Spec == Init /\ [][Next]_vars

\* An upload that has been committed is run to its return, and a queued task to
\* its end: the event loop and the thread pool starve nobody.  That somebody
\* uploads, approves, pays or downloads is not assumed.
Fairness ==
    \A j \in Jobs : WF_vars(Store(j) \/ StoreFails(j)) /\ WF_vars(Pipeline(j))

FairSpec == Spec /\ Fairness

-----------------------------------------------------------------------------
(* Properties                                                              *)

\* Every variable has its type
TypeOK ==
    /\ req \in [Jobs -> Req]
    /\ row \in [Jobs -> Row]
    /\ snapshot \in [Jobs -> SnapshotContent]
    /\ files \in [Jobs -> [Artifacts -> Content]]
    /\ stage \in [Jobs -> Stage]
    /\ obj \in [Jobs -> Row]
    /\ dirty \in [Jobs -> SUBSET Columns]
    /\ approving \in [Admins -> Jobs \cup {None}]
    /\ fetch \in [Users -> Fetch \cup {None}]
    /\ delivery \in Delivery \cup {None}

\* A report handed out is a complete file (a PDF may be torn only when the job
\* says so), it went to the owner or an admin, and if it went to a customer the
\* job is approved: the checks of get_report are made on one read of the row,
\* the file is streamed later, and the pipeline writes it without any lock
CustomersSeeApproved ==
    delivery # None =>
      LET j == delivery.job IN
      /\ delivery.user \notin Admins =>
            delivery.user = Owner[j] /\ row[j].status = "approved"
      /\ \/ delivery.content = "whole"
         \/ delivery.file = "report.pdf" /\ row[j].error = "pdf"

\* A committed report_path comes with the whole report, whatever crashed or
\* failed on the way, and with a status a person can act on
ReportOnDisk ==
    \A j \in Jobs :
      /\ row[j].report <=> row[j].status \in {"review", "approved"}
      /\ row[j].report =>
            \A f \in {"report.html", "tasks.md", "findings.json"} : files[j][f] = "whole"

\* A failure shows on the job: a failed job has its error, and a report without
\* a whole PDF carries the note about it.  JobOut.has_pdf alone does not say so
FailureVisible ==
    \A j \in Jobs :
      /\ row[j].status = "failed" => row[j].error = "failure"
      /\ (row[j].report /\ EnablePdf /\ files[j]["report.pdf"] # "whole")
            => row[j].error = "pdf"

\* Once a report can be reviewed its files never change again: what the admin
\* approved is what the customer gets
ArtifactsFrozen ==
    [][\A j \in Jobs : row[j].report => files'[j] = files[j]]_vars

\* A payment committed while the pipeline holds an older copy of the row is
\* never undone by the pipeline's or an approval's commit
PaidKept ==
    [][\A j \in Jobs : row[j].paid => row'[j].paid]_vars

\* A task only ever runs for an upload that was accepted and stored
TaskHasSnapshot ==
    \A j \in Jobs : stage[j] # "none" =>
        req[j] = "accepted" /\ snapshot[j] \in {"whole", "recoded"}

\* Every job that exists ends in review or failed, and so on the dashboard
Settled(j) == row[j].status \in {"review", "approved", "failed"}

\* Nothing stays "uploaded" or "processing" for ever: what the code does not keep
\* when the process dies
Settles == \A j \in Jobs : row[j].status # "none" ~> Settled(j)

\* Nothing works on the job any more, and nothing will
Lost(j) ==
    row[j].status \in {"uploaded", "processing"} /\ stage[j] = "none" /\ req[j] # "inserted"

\* A job that is not lost is settled at last, however the steps of the other
\* requests fall and whatever fails: no failure makes its task go on for ever
SettlesOrLost == \A j \in Jobs : row[j].status # "none" ~> Settled(j) \/ Lost(j)

\* And it is only ever lost to the death of the process, to its own session's
\* database failing - before the row is read, or at a commit - or to a snapshot
\* that could not be stored; a file that cannot be read back, a rule, a PDF or an
\* artifact that fails never does it, and neither do other sessions
LostToFaults ==
    [][\A j \in Jobs : ~Lost(j) /\ Lost(j)' =>
          CrashRestart \/ StoreFails(j) \/ SessionFails(j)]_vars

\* The abstract service: what a customer sees depends on these two alone
PhaseOf ==
    [none |-> "absent", uploaded |-> "working", processing |-> "working",
     review |-> "held", approved |-> "released", failed |-> "failed"]

RH == INSTANCE ReviewHold WITH
        phase <- [j \in Jobs |-> PhaseOf[row[j].status]],
        shown <- IF delivery = None \/ delivery.user \in Admins THEN None
                 ELSE delivery.job,
        NoJob <- None

\* The handlers and the pipeline, interleaved and interrupted, implement it
HoldsReports == RH!Spec
=============================================================================
