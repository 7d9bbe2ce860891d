--------------------------- MODULE AuditJobsProofs ---------------------------
(***************************************************************************)
(* Proofs about AuditJobs for every set of jobs, users and admins, with    *)
(* every kind of fault and with or without the PDF.                        *)
(***************************************************************************)
EXTENDS AuditJobs, TLAPS

-----------------------------------------------------------------------------
(* The inductive invariant                                                 *)

Untouched(j) == \A f \in Artifacts : files[j][f] = "absent"

Reported(j) ==
    \A f \in {"report.html", "tasks.md", "findings.json"} : files[j][f] = "whole"

\* The PDF is there, or was not asked for, or the error says that it failed
PdfAccounted(j, error) ==
    \/ files[j]["report.pdf"] = "whole"
    \/ files[j]["report.pdf"] = "absent" /\ ~EnablePdf
    \/ error = "pdf"

\* What the pipeline of j has done by each stage
StageInv(j) ==
    /\ stage[j] # "none" => req[j] = "accepted" /\ snapshot[j] \in {"whole", "recoded"}
    /\ stage[j] \in {"queued", "loaded"} => row[j].status = "uploaded"
    /\ stage[j] \in {"audit", "commit"} \cup Artifacts => row[j].status = "processing"
    /\ stage[j] \in {"queued", "loaded", "audit"} => Untouched(j)
    /\ stage[j] = "loaded" => dirty[j] = {"status"} /\ obj[j].status = "processing"
    /\ stage[j] = "audit" => dirty[j] = {}
    /\ stage[j] \in Artifacts => dirty[j] \subseteq {"error"}
    /\ stage[j] = "report.html" => files[j]["report.pdf"] = "absent"
    /\ stage[j] = "report.pdf" => EnablePdf
    /\ stage[j] \in Artifacts \ {"report.html"} => files[j]["report.html"] = "whole"
    /\ stage[j] \in {"tasks.md", "findings.json"} => PdfAccounted(j, Flushed(j).error)
    /\ stage[j] = "findings.json" => files[j]["tasks.md"] = "whole"
    /\ stage[j] = "commit" =>
          \/ /\ {"status", "error"} \subseteq dirty[j] /\ "report" \notin dirty[j]
             /\ obj[j].status = "failed" /\ obj[j].error = "failure"
          \/ /\ {"status", "report"} \subseteq dirty[j]
             /\ obj[j].status = "review" /\ obj[j].report
             /\ Reported(j) /\ PdfAccounted(j, Flushed(j).error)

\* What a committed row says about the upload, the task and the files
RowInv(j) ==
    /\ req[j] = "new" => row[j].status = "none" /\ Untouched(j)
    /\ req[j] = "inserted" => row[j].status = "uploaded" /\ Untouched(j)
    /\ row[j].report <=> row[j].status \in {"review", "approved"}
    /\ row[j].report => stage[j] = "none" /\ Reported(j) /\ PdfAccounted(j, row[j].error)
    /\ row[j].status = "failed" => stage[j] = "none" /\ row[j].error = "failure"

JobInv == \A j \in Jobs : StageInv(j) /\ RowInv(j)

\* An approval or a download under way was let through for a reason that
\* still holds, and so was the last delivery
ApprovalInv == \A a \in Admins : approving[a] # None => row[approving[a]].report

FetchInv ==
    \A u \in Users : fetch[u] # None =>
        /\ row[fetch[u].job].report
        /\ u \in Admins \/ (Owner[fetch[u].job] = u /\ row[fetch[u].job].status = "approved")

DeliveryInv ==
    delivery # None => row[delivery.job].report /\ CustomersSeeApproved

IInv == TypeOK /\ JobInv /\ ApprovalInv /\ FetchInv /\ DeliveryInv

-----------------------------------------------------------------------------
(* Type correctness                                                        *)

\* The empty service has the right types
LEMMA InitType == Init => TypeOK
BY AdminsAssumption DEF Init, TypeOK, Req, Row, Columns, Artifacts, Content, SnapshotContent, Stage, Statuses, Fetch, Delivery, NoRow

\* An absent row is a row
LEMMA NoRowType == NoRow \in Row
BY DEF NoRow, Row, Statuses

\* The row a session writes back is a row
LEMMA FlushedType ==
    ASSUME TypeOK, NEW j \in Jobs
    PROVE  Flushed(j) \in Row
BY DEF TypeOK, Flushed, Row, Columns

\* Assigning a column of a row gives a row
LEMMA RowEdit ==
    ASSUME NEW r \in Row
    PROVE  /\ \A x \in Statuses : [r EXCEPT !.status = x] \in Row
           /\ \A x \in {"none", "pdf", "failure"} : [r EXCEPT !.error = x] \in Row
           /\ [r EXCEPT !.paid = TRUE] \in Row
           /\ [r EXCEPT !.report = TRUE] \in Row
           /\ [r EXCEPT !.status = "failed", !.error = "failure"] \in Row
           /\ [r EXCEPT !.report = TRUE, !.status = "review"] \in Row
BY DEF Row, Statuses

\* Approving or paying changes one column of the row
LEMMA ColumnEdit ==
    ASSUME NEW j \in Jobs, row \in [Jobs -> Row], NEW k \in Jobs
    PROVE  /\ LET new == [row EXCEPT ![j].status = "approved"]
              IN  /\ new[k].report = row[k].report /\ new[k].error = row[k].error
                  /\ new[k].paid = row[k].paid
                  /\ new[k].status = IF k = j THEN "approved" ELSE row[k].status
           /\ LET new == [row EXCEPT ![j].paid = TRUE]
              IN  /\ new[k].report = row[k].report /\ new[k].error = row[k].error
                  /\ new[k].status = row[k].status
                  /\ new[k].paid = IF k = j THEN TRUE ELSE row[k].paid
<1>1. row[k] \in Row /\ row[j] \in Row
  OBVIOUS
<1>2. \A r \in Row : /\ [r EXCEPT !.status = "approved"].report = r.report
                     /\ [r EXCEPT !.status = "approved"].error = r.error
                     /\ [r EXCEPT !.status = "approved"].paid = r.paid
                     /\ [r EXCEPT !.status = "approved"].status = "approved"
  BY DEF Row
<1>3. \A r \in Row : /\ [r EXCEPT !.paid = TRUE].report = r.report
                     /\ [r EXCEPT !.paid = TRUE].error = r.error
                     /\ [r EXCEPT !.paid = TRUE].status = r.status
                     /\ [r EXCEPT !.paid = TRUE].paid = TRUE
  BY DEF Row
<1>4. QED
  BY <1>1, <1>2, <1>3

\* Every step keeps the types: one case per action
LEMMA NextType == TypeOK /\ [Next]_vars => TypeOK'
<1> SUFFICES ASSUME TypeOK, [Next]_vars PROVE TypeOK'
  OBVIOUS
<1> USE DEF TypeOK, Req, Columns, Artifacts, Content, SnapshotContent, Stage, Statuses, Fetch, Delivery
<1>1. ASSUME NEW j \in Jobs, Refuse(j) PROVE TypeOK'
  BY <1>1 DEF Refuse
<1>2. ASSUME NEW j \in Jobs, Insert(j) PROVE TypeOK'
  BY <1>2, RowEdit DEF Insert
<1>3. ASSUME NEW j \in Jobs, InsertFails(j) PROVE TypeOK'
  BY <1>3 DEF InsertFails
<1>4. ASSUME NEW j \in Jobs, Store(j) PROVE TypeOK'
  BY <1>4 DEF Store
<1>5. ASSUME NEW j \in Jobs, StoreFails(j) PROVE TypeOK'
  BY <1>5 DEF StoreFails
<1>6. ASSUME NEW j \in Jobs, Load(j) PROVE TypeOK'
  BY <1>6, RowEdit DEF Load
<1>7. ASSUME NEW j \in Jobs, MarkProcessing(j) PROVE TypeOK'
  BY <1>7, FlushedType DEF MarkProcessing
<1>8. ASSUME NEW j \in Jobs, Audit(j) PROVE TypeOK'
  BY <1>8 DEF Audit
<1>9. ASSUME NEW j \in Jobs, AuditRaises(j) PROVE TypeOK'
  BY <1>9, RowEdit DEF AuditRaises, Raised
<1>10. ASSUME NEW j \in Jobs, OpenArtifact(j) PROVE TypeOK'
  BY <1>10 DEF OpenArtifact
<1>11. ASSUME NEW j \in Jobs, WriteHtml(j) PROVE TypeOK'
  BY <1>11 DEF WriteHtml, Written, AfterHtml
<1>12. ASSUME NEW j \in Jobs, WritePdf(j) PROVE TypeOK'
  BY <1>12 DEF WritePdf, Written
<1>13. ASSUME NEW j \in Jobs, PdfRaises(j) PROVE TypeOK'
  <2>1. files' \in [Jobs -> [Artifacts -> Content]]
    <3>1. CASE UNCHANGED files
      BY <3>1
    <3>2. CASE Written(j, "report.pdf")
      BY <3>2 DEF Written
    <3>3. QED
      BY <1>13, <3>1, <3>2 DEF PdfRaises
  <2>2. obj' \in [Jobs -> Row]
    BY <1>13, RowEdit DEF PdfRaises
  <2>3. QED
    BY <1>13, <2>1, <2>2 DEF PdfRaises
<1>14. ASSUME NEW j \in Jobs, WriteTasks(j) PROVE TypeOK'
  BY <1>14 DEF WriteTasks, Written
<1>15. ASSUME NEW j \in Jobs, WriteFindings(j) PROVE TypeOK'
  BY <1>15, RowEdit DEF WriteFindings, Written
<1>16. ASSUME NEW j \in Jobs, WriteRaises(j) PROVE TypeOK'
  BY <1>16, RowEdit DEF WriteRaises, Raised
<1>17. ASSUME NEW j \in Jobs, Finish(j) PROVE TypeOK'
  BY <1>17, FlushedType, NoRowType DEF Finish
<1>18. ASSUME NEW j \in Jobs, SessionFails(j) PROVE TypeOK'
  BY <1>18, NoRowType DEF SessionFails
<1>19. ASSUME NEW j \in Jobs, MarkPaid(j) PROVE TypeOK'
  BY <1>19, RowEdit DEF MarkPaid
<1>20. ASSUME NEW a \in Admins, NEW j \in Jobs, ApproveCheck(a, j) PROVE TypeOK'
  BY <1>20 DEF ApproveCheck
<1>21. ASSUME NEW a \in Admins, ApproveCommit(a) PROVE TypeOK'
  BY <1>21, RowEdit DEF ApproveCommit
<1>22. ASSUME NEW a \in Admins, ApproveFails(a) PROVE TypeOK'
  BY <1>22 DEF ApproveFails
<1>23. ASSUME NEW u \in Users, NEW j \in Jobs, ReportCheck(u, j) PROVE TypeOK'
  BY <1>23 DEF ReportCheck, MayFetch, MayLoad
<1>24. ASSUME NEW u \in Users, ReportSend(u) PROVE TypeOK'
  BY <1>24 DEF ReportSend
<1>25. CASE CrashRestart
  BY <1>25, NoRowType DEF CrashRestart
<1>26. CASE UNCHANGED vars
  BY <1>26 DEF vars
<1>27. QED
  BY <1>1, <1>2, <1>3, <1>4, <1>5, <1>6, <1>7, <1>8, <1>9, <1>10, <1>11, <1>12, <1>13, <1>14, <1>15, <1>16, <1>17, <1>18, <1>19, <1>20, <1>21, <1>22, <1>23, <1>24, <1>25, <1>26 DEF Next, CreateJob, Pipeline

\* Every variable of the service keeps its type
THEOREM TypeCorrect == Spec => []TypeOK
BY InitType, NextType, PTL DEF Spec

-----------------------------------------------------------------------------
(* The inductive invariant                                                 *)

\* It holds of the empty service
LEMMA InitInv == Init => IInv
<1> SUFFICES ASSUME Init PROVE IInv
  OBVIOUS
<1>1. TypeOK
  BY InitType
<1>2. JobInv
  BY DEF Init, JobInv, StageInv, RowInv, Untouched, NoRow, Artifacts
<1>3. ApprovalInv /\ FetchInv /\ DeliveryInv
  BY DEF Init, ApprovalInv, FetchInv, DeliveryInv
<1>4. QED
  BY <1>1, <1>2, <1>3 DEF IInv

\* A step that leaves everything about k alone keeps what is known about k
LEMMA JobFrame ==
    ASSUME NEW k \in Jobs, StageInv(k), RowInv(k),
           req'[k] = req[k], row'[k] = row[k], snapshot'[k] = snapshot[k],
           files'[k] = files[k], stage'[k] = stage[k],
           obj'[k] = obj[k], dirty'[k] = dirty[k]
    PROVE  StageInv(k)' /\ RowInv(k)'
BY DEF StageInv, RowInv, Untouched, Reported, PdfAccounted, Flushed

\* An action of j alone
OnlyJob(j) == \A k \in Jobs \ {j} :
    /\ req'[k] = req[k] /\ row'[k] = row[k] /\ snapshot'[k] = snapshot[k]
    /\ files'[k] = files[k] /\ stage'[k] = stage[k]
    /\ obj'[k] = obj[k] /\ dirty'[k] = dirty[k]

\* It is enough to look at the job that acts
LEMMA JobInvStep ==
    ASSUME JobInv, NEW j \in Jobs, OnlyJob(j), StageInv(j)' /\ RowInv(j)'
    PROVE  JobInv'
<1> SUFFICES ASSUME NEW k \in Jobs PROVE StageInv(k)' /\ RowInv(k)'
  BY DEF JobInv
<1>1. CASE k = j
  BY <1>1
<1>2. CASE k # j
  BY <1>2, JobFrame DEF OnlyJob, JobInv
<1>3. QED
  BY <1>1, <1>2

\* What is known of a job survives every action of that job
LEMMA NextJobInv == IInv /\ TypeOK' /\ Next => JobInv'
<1> SUFFICES ASSUME IInv, TypeOK', Next PROVE JobInv'
  OBVIOUS
<1> USE DEF IInv, StageInv, RowInv, Untouched, Reported, PdfAccounted, Flushed, Artifacts
<1>1. ASSUME NEW j \in Jobs, Refuse(j) PROVE JobInv'
  <2>1. OnlyJob(j)
    BY <1>1 DEF Refuse, OnlyJob, TypeOK
  <2>2. StageInv(j)' /\ RowInv(j)'
    BY <1>1 DEF Refuse, JobInv, TypeOK
  <2>3. QED
    BY <2>1, <2>2, JobInvStep
<1>2. ASSUME NEW j \in Jobs, Insert(j) PROVE JobInv'
  <2>1. OnlyJob(j)
    BY <1>2 DEF Insert, OnlyJob, TypeOK
  <2>2. StageInv(j)' /\ RowInv(j)'
    BY <1>2 DEF Insert, JobInv, TypeOK
  <2>3. QED
    BY <2>1, <2>2, JobInvStep
<1>3. ASSUME NEW j \in Jobs, InsertFails(j) PROVE JobInv'
  <2>1. OnlyJob(j)
    BY <1>3 DEF InsertFails, OnlyJob, TypeOK
  <2>2. StageInv(j)' /\ RowInv(j)'
    BY <1>3 DEF InsertFails, JobInv, TypeOK
  <2>3. QED
    BY <2>1, <2>2, JobInvStep
<1>4. ASSUME NEW j \in Jobs, Store(j) PROVE JobInv'
  <2>1. OnlyJob(j)
    BY <1>4 DEF Store, OnlyJob, TypeOK
  <2>2. StageInv(j)' /\ RowInv(j)'
    BY <1>4 DEF Store, JobInv, TypeOK
  <2>3. QED
    BY <2>1, <2>2, JobInvStep
<1>5. ASSUME NEW j \in Jobs, StoreFails(j) PROVE JobInv'
  <2>1. OnlyJob(j)
    BY <1>5 DEF StoreFails, OnlyJob, TypeOK
  <2>2. StageInv(j)' /\ RowInv(j)'
    BY <1>5 DEF StoreFails, JobInv, TypeOK
  <2>3. QED
    BY <2>1, <2>2, JobInvStep
<1>6. ASSUME NEW j \in Jobs, Load(j) PROVE JobInv'
  <2>1. OnlyJob(j)
    BY <1>6 DEF Load, OnlyJob, TypeOK
  <2>2. StageInv(j)' /\ RowInv(j)'
    BY <1>6 DEF Load, JobInv, TypeOK
  <2>3. QED
    BY <2>1, <2>2, JobInvStep
<1>7. ASSUME NEW j \in Jobs, MarkProcessing(j) PROVE JobInv'
  <2>1. OnlyJob(j)
    BY <1>7 DEF MarkProcessing, OnlyJob, TypeOK
  <2>2. StageInv(j)' /\ RowInv(j)'
    BY <1>7 DEF MarkProcessing, JobInv, TypeOK
  <2>3. QED
    BY <2>1, <2>2, JobInvStep
<1>8. ASSUME NEW j \in Jobs, Audit(j) PROVE JobInv'
  <2>1. OnlyJob(j)
    BY <1>8 DEF Audit, OnlyJob, TypeOK
  <2>2. StageInv(j)' /\ RowInv(j)'
    BY <1>8 DEF Audit, JobInv, TypeOK
  <2>3. QED
    BY <2>1, <2>2, JobInvStep
<1>9. ASSUME NEW j \in Jobs, AuditRaises(j) PROVE JobInv'
  <2>1. OnlyJob(j)
    BY <1>9 DEF AuditRaises, Raised, OnlyJob, TypeOK
  <2>2. StageInv(j)' /\ RowInv(j)'
    BY <1>9 DEF AuditRaises, Raised, JobInv, TypeOK
  <2>3. QED
    BY <2>1, <2>2, JobInvStep
<1>10. ASSUME NEW j \in Jobs, OpenArtifact(j) PROVE JobInv'
  <2>1. OnlyJob(j)
    BY <1>10 DEF OpenArtifact, OnlyJob, TypeOK
  <2>2. StageInv(j)' /\ RowInv(j)'
    BY <1>10 DEF OpenArtifact, JobInv, TypeOK
  <2>3. QED
    BY <2>1, <2>2, JobInvStep
<1>11. ASSUME NEW j \in Jobs, WriteHtml(j) PROVE JobInv'
  <2>1. OnlyJob(j)
    BY <1>11 DEF WriteHtml, Written, AfterHtml, OnlyJob, TypeOK
  <2>2. StageInv(j)' /\ RowInv(j)'
    BY <1>11 DEF WriteHtml, Written, AfterHtml, JobInv, TypeOK
  <2>3. QED
    BY <2>1, <2>2, JobInvStep
<1>12. ASSUME NEW j \in Jobs, WritePdf(j) PROVE JobInv'
  <2>1. OnlyJob(j)
    BY <1>12 DEF WritePdf, Written, OnlyJob, TypeOK
  <2>2. StageInv(j)' /\ RowInv(j)'
    BY <1>12 DEF WritePdf, Written, JobInv, TypeOK
  <2>3. QED
    BY <2>1, <2>2, JobInvStep
<1>13. ASSUME NEW j \in Jobs, PdfRaises(j) PROVE JobInv'
  <2>1. OnlyJob(j)
    BY <1>13 DEF PdfRaises, Written, OnlyJob, TypeOK
  <2>2. StageInv(j)' /\ RowInv(j)'
    BY <1>13 DEF PdfRaises, Written, JobInv, TypeOK
  <2>3. QED
    BY <2>1, <2>2, JobInvStep
<1>14. ASSUME NEW j \in Jobs, WriteTasks(j) PROVE JobInv'
  <2>1. OnlyJob(j)
    BY <1>14 DEF WriteTasks, Written, OnlyJob, TypeOK
  <2>2. StageInv(j)' /\ RowInv(j)'
    BY <1>14 DEF WriteTasks, Written, JobInv, TypeOK
  <2>3. QED
    BY <2>1, <2>2, JobInvStep
<1>15. ASSUME NEW j \in Jobs, WriteFindings(j) PROVE JobInv'
  <2>1. OnlyJob(j)
    BY <1>15 DEF WriteFindings, Written, OnlyJob, TypeOK
  <2>2. StageInv(j)' /\ RowInv(j)'
    BY <1>15 DEF WriteFindings, Written, JobInv, TypeOK
  <2>3. QED
    BY <2>1, <2>2, JobInvStep
<1>16. ASSUME NEW j \in Jobs, WriteRaises(j) PROVE JobInv'
  <2>1. OnlyJob(j)
    BY <1>16 DEF WriteRaises, Raised, OnlyJob, TypeOK
  <2>2. StageInv(j)' /\ RowInv(j)'
    BY <1>16 DEF WriteRaises, Raised, JobInv, TypeOK
  <2>3. QED
    BY <2>1, <2>2, JobInvStep
<1>17. ASSUME NEW j \in Jobs, Finish(j) PROVE JobInv'
  <2>1. OnlyJob(j)
    BY <1>17 DEF Finish, OnlyJob, TypeOK
  <2>2. StageInv(j)' /\ RowInv(j)'
    BY <1>17 DEF Finish, JobInv, TypeOK
  <2>3. QED
    BY <2>1, <2>2, JobInvStep
<1>18. ASSUME NEW j \in Jobs, SessionFails(j) PROVE JobInv'
  <2>1. OnlyJob(j)
    BY <1>18 DEF SessionFails, OnlyJob, TypeOK
  <2>2. StageInv(j)' /\ RowInv(j)'
    BY <1>18 DEF SessionFails, JobInv, TypeOK
  <2>3. QED
    BY <2>1, <2>2, JobInvStep
<1>19. ASSUME NEW j \in Jobs, MarkPaid(j) PROVE JobInv'
  <2>1. OnlyJob(j)
    BY <1>19 DEF MarkPaid, OnlyJob, TypeOK
  <2>2. StageInv(j)' /\ RowInv(j)'
    BY <1>19 DEF MarkPaid, JobInv, TypeOK
  <2>3. QED
    BY <2>1, <2>2, JobInvStep
<1>20. ASSUME NEW a \in Admins, ApproveCommit(a) PROVE JobInv'
  <2> PICK j \in Jobs : approving[a] = j /\ row[j].report
    BY <1>20 DEF ApproveCommit, ApprovalInv, TypeOK
  <2>1. row' = [row EXCEPT ![j].status = "approved"]
    BY <1>20 DEF ApproveCommit
  <2>2. OnlyJob(j)
    BY <1>20, <2>1 DEF ApproveCommit, OnlyJob, TypeOK
  <2>3. StageInv(j)' /\ RowInv(j)'
    <3>1. /\ row'[j].status = "approved" /\ row'[j].report = row[j].report
          /\ row'[j].error = row[j].error
      <4>1. row \in [Jobs -> Row]
        BY DEF TypeOK
      <4>2. QED
        BY ONLY <2>1, <4>1, j \in Jobs, ColumnEdit
    <3>2. UNCHANGED <<req, snapshot, files, stage, obj, dirty>>
      BY <1>20 DEF ApproveCommit
    <3>3. QED
      BY <3>1, <3>2 DEF JobInv
  <2>4. QED
    BY <2>2, <2>3, JobInvStep DEF IInv
<1>21. CASE UNCHANGED <<req, row, snapshot, files, stage, obj, dirty>>
  BY <1>21 DEF JobInv
<1>22. CASE CrashRestart
  BY <1>22 DEF CrashRestart, JobInv, TypeOK
<1>23. QED
  <2>1. ASSUME NEW a \in Admins, \/ ApproveFails(a)
                                 \/ \E j \in Jobs : ApproveCheck(a, j)
        PROVE  JobInv'
    BY <1>21, <2>1 DEF ApproveFails, ApproveCheck
  <2>2. ASSUME NEW u \in Users, ReportSend(u) \/ \E j \in Jobs : ReportCheck(u, j)
        PROVE  JobInv'
    BY <1>21, <2>2 DEF ReportSend, ReportCheck
  <2>3. QED
    BY <1>1, <1>2, <1>3, <1>4, <1>5, <1>6, <1>7, <1>8, <1>9, <1>10, <1>11, <1>12, <1>13, <1>14, <1>15, <1>16, <1>17, <1>18, <1>19, <1>20, <1>22, <2>1, <2>2 DEF Next, CreateJob, Pipeline


\* A reported job stays reported, keeps its error and its files, and an
\* approved one stays approved: no task is left that could touch it
LEMMA ReportedStays ==
    ASSUME IInv, TypeOK', Next, NEW k \in Jobs, row[k].report
    PROVE  /\ row'[k].report /\ row'[k].error = row[k].error
           /\ row[k].status = "approved" => row'[k].status = "approved"
           /\ files'[k] = files[k]
<1> USE DEF IInv
<1>1. /\ stage[k] = "none" /\ req[k] \notin {"new", "inserted"}
      /\ row[k].status \in {"review", "approved"}
  BY DEF JobInv, RowInv
<1>2. ASSUME NEW j \in Jobs, CreateJob(j) PROVE row'[k] = row[k] /\ files'[k] = files[k]
  BY <1>1, <1>2 DEF CreateJob, Refuse, Insert, InsertFails, Store, StoreFails, TypeOK
<1>3. ASSUME NEW j \in Jobs, Pipeline(j) PROVE row'[k] = row[k] /\ files'[k] = files[k]
  BY <1>1, <1>3 DEF Pipeline, Load, MarkProcessing, Audit, AuditRaises, OpenArtifact,
     WriteHtml, WritePdf, PdfRaises, WriteTasks, WriteFindings, WriteRaises, Finish,
     SessionFails, Written, Artifacts, TypeOK
<1>4. ASSUME NEW j \in Jobs, MarkPaid(j)
      PROVE  /\ row'[k].report = row[k].report /\ row'[k].error = row[k].error
             /\ row'[k].status = row[k].status
             /\ files'[k] = files[k]
  BY <1>4, ColumnEdit DEF MarkPaid, TypeOK
<1>5. ASSUME NEW a \in Admins, ApproveCommit(a) \/ ApproveFails(a)
                               \/ \E j \in Jobs : ApproveCheck(a, j)
      PROVE  /\ row'[k].report = row[k].report /\ row'[k].error = row[k].error
             /\ row'[k].status \in {row[k].status, "approved"}
             /\ files'[k] = files[k]
  <2>1. CASE ApproveCommit(a)
    <3>1. row \in [Jobs -> Row]
      BY DEF TypeOK
    <3>2. PICK j \in Jobs : row' = [row EXCEPT ![j].status = "approved"]
      BY <2>1 DEF ApproveCommit, TypeOK
    <3>3. UNCHANGED files
      BY <2>1 DEF ApproveCommit
    <3>4. /\ row'[k].report = row[k].report /\ row'[k].error = row[k].error
          /\ row'[k].status = IF k = j THEN "approved" ELSE row[k].status
      BY ONLY <3>1, <3>2, j \in Jobs, k \in Jobs, ColumnEdit
    <3>5. QED
      BY <3>3, <3>4
  <2>2. CASE ApproveFails(a) \/ \E j \in Jobs : ApproveCheck(a, j)
    BY <2>2 DEF ApproveFails, ApproveCheck
  <2>3. QED
    BY <1>5, <2>1, <2>2
<1>6. ASSUME NEW u \in Users, ReportSend(u) \/ \E j \in Jobs : ReportCheck(u, j)
      PROVE  row'[k] = row[k] /\ files'[k] = files[k]
  BY <1>6 DEF ReportSend, ReportCheck
<1>7. CASE CrashRestart
  BY <1>7 DEF CrashRestart
<1>8. row[k] \in Row
  BY DEF TypeOK
<1>9. QED
  BY <1>2, <1>3, <1>4, <1>5, <1>6, <1>7, <1>8 DEF Next, Row

\* An approval, a download or a delivery is about a reported job, and stays so
LEMMA NextApprovalInv == IInv /\ TypeOK' /\ Next => ApprovalInv'
<1> SUFFICES ASSUME IInv, TypeOK', Next, NEW a \in Admins, approving'[a] # None
             PROVE  row'[approving'[a]].report
  BY DEF ApprovalInv
<1>1. CASE approving'[a] = approving[a]
  <2>1. approving[a] \in Jobs /\ row[approving[a]].report
    BY <1>1 DEF IInv, ApprovalInv, TypeOK
  <2>2. QED
    BY <1>1, <2>1, ReportedStays
<1>2. CASE approving'[a] # approving[a]
  <2>1. PICK j \in Jobs : ApproveCheck(a, j)
    <3>1. ASSUME NEW j \in Jobs, CreateJob(j) \/ Pipeline(j) \/ MarkPaid(j) PROVE FALSE
      BY <1>2, <3>1 DEF CreateJob, Refuse, Insert, InsertFails, Store, StoreFails, Pipeline,
         Load, MarkProcessing, Audit, AuditRaises, OpenArtifact, WriteHtml, WritePdf,
         PdfRaises, WriteTasks, WriteFindings, WriteRaises, Finish, SessionFails, MarkPaid
    <3>2. ASSUME NEW b \in Admins, ApproveCommit(b) \/ ApproveFails(b) PROVE FALSE
      BY <1>2, <3>2 DEF ApproveCommit, ApproveFails, IInv, TypeOK
    <3>3. ASSUME NEW u \in Users, ReportSend(u) \/ \E j \in Jobs : ReportCheck(u, j)
          PROVE FALSE
      BY <1>2, <3>3 DEF ReportSend, ReportCheck
    <3>4. ~CrashRestart
      BY <1>2 DEF CrashRestart
    <3>5. ASSUME NEW b \in Admins, NEW j \in Jobs, ApproveCheck(b, j) PROVE ApproveCheck(a, j)
      BY <1>2, <3>5 DEF ApproveCheck, IInv, TypeOK
    <3>6. QED
      BY <3>1, <3>2, <3>3, <3>4, <3>5 DEF Next
  <2>2. approving'[a] = j /\ row[j].report
    BY <2>1 DEF ApproveCheck, IInv, TypeOK, JobInv, RowInv
  <2>3. QED
    BY <2>2, ReportedStays
<1>3. QED
  BY <1>1, <1>2

\* A download under way was let through for a reason that still holds
LEMMA NextFetchInv == IInv /\ TypeOK' /\ Next => FetchInv'
<1> SUFFICES ASSUME IInv, TypeOK', Next, NEW u \in Users, fetch'[u] # None
             PROVE  /\ row'[fetch'[u].job].report
                    /\ \/ u \in Admins
                       \/ /\ Owner[fetch'[u].job] = u
                          /\ row'[fetch'[u].job].status = "approved"
  BY DEF FetchInv
<1>1. CASE fetch'[u] = fetch[u]
  <2>1. fetch[u].job \in Jobs
    BY <1>1 DEF IInv, TypeOK, Fetch
  <2>2. QED
    BY <1>1, <2>1, ReportedStays DEF IInv, FetchInv
<1>2. CASE fetch'[u] # fetch[u]
  <2>1. PICK j \in Jobs : ReportCheck(u, j)
    <3>1. ASSUME NEW j \in Jobs, CreateJob(j) \/ Pipeline(j) \/ MarkPaid(j) PROVE FALSE
      BY <1>2, <3>1 DEF CreateJob, Refuse, Insert, InsertFails, Store, StoreFails, Pipeline,
         Load, MarkProcessing, Audit, AuditRaises, OpenArtifact, WriteHtml, WritePdf,
         PdfRaises, WriteTasks, WriteFindings, WriteRaises, Finish, SessionFails, MarkPaid
    <3>2. ASSUME NEW b \in Admins, \/ ApproveCommit(b) \/ ApproveFails(b)
                                   \/ \E j \in Jobs : ApproveCheck(b, j)
          PROVE FALSE
      BY <1>2, <3>2 DEF ApproveCommit, ApproveFails, ApproveCheck
    <3>3. ASSUME NEW v \in Users, ReportSend(v) PROVE FALSE
      BY <1>2, <3>3 DEF ReportSend, IInv, TypeOK
    <3>4. ~CrashRestart
      BY <1>2 DEF CrashRestart
    <3>5. ASSUME NEW v \in Users, NEW j \in Jobs, ReportCheck(v, j) PROVE ReportCheck(u, j)
      BY <1>2, <3>5 DEF ReportCheck, IInv, TypeOK
    <3>6. QED
      BY <3>1, <3>2, <3>3, <3>4, <3>5 DEF Next
  <2>2. fetch'[u].job = j /\ UNCHANGED row
    BY <2>1 DEF ReportCheck, IInv, TypeOK
  <2>3. MayFetch(u, j)
    BY <2>1 DEF ReportCheck
  <2>4. QED
    BY <2>2, <2>3 DEF MayFetch, MayLoad
<1>3. QED
  BY <1>1, <1>2

\* A delivery is of a complete file of a reported job, to someone entitled
LEMMA NextDeliveryInv == IInv /\ TypeOK' /\ Next => DeliveryInv'
<1> SUFFICES ASSUME IInv, TypeOK', Next, delivery' # None PROVE DeliveryInv'
  BY DEF DeliveryInv
<1>1. CASE delivery' = delivery
  <2>1. delivery.job \in Jobs
    BY <1>1 DEF IInv, TypeOK, Delivery
  <2>2. row[delivery.job].report /\ CustomersSeeApproved
    BY <1>1 DEF IInv, DeliveryInv
  <2>3. QED
    BY <1>1, <2>1, <2>2, ReportedStays DEF DeliveryInv, CustomersSeeApproved
<1>2. CASE delivery' # delivery
  <2>1. PICK u \in Users : ReportSend(u)
    <3>1. ASSUME NEW j \in Jobs, CreateJob(j) \/ Pipeline(j) \/ MarkPaid(j) PROVE FALSE
      BY <1>2, <3>1 DEF CreateJob, Refuse, Insert, InsertFails, Store, StoreFails, Pipeline,
         Load, MarkProcessing, Audit, AuditRaises, OpenArtifact, WriteHtml, WritePdf,
         PdfRaises, WriteTasks, WriteFindings, WriteRaises, Finish, SessionFails, MarkPaid
    <3>2. ASSUME NEW b \in Admins, \/ ApproveCommit(b) \/ ApproveFails(b)
                                   \/ \E j \in Jobs : ApproveCheck(b, j)
          PROVE FALSE
      BY <1>2, <3>2 DEF ApproveCommit, ApproveFails, ApproveCheck
    <3>3. ASSUME NEW v \in Users, NEW j \in Jobs, ReportCheck(v, j) PROVE FALSE
      BY <1>2, <3>3 DEF ReportCheck
    <3>4. ~CrashRestart
      BY <1>2 DEF CrashRestart
    <3>5. QED
      BY <3>1, <3>2, <3>3, <3>4 DEF Next
  <2> DEFINE j == fetch[u].job
             f == fetch[u].file
  <2>2. /\ fetch[u] # None /\ j \in Jobs /\ f \in Artifacts
        /\ delivery' = [user |-> u, job |-> j, file |-> f, content |-> files[j][f]]
        /\ files[j][f] # "absent" /\ UNCHANGED row
    BY <1>2, <2>1 DEF ReportSend, IInv, TypeOK, Fetch
  <2>3. row[j].report /\ (u \in Admins \/ (Owner[j] = u /\ row[j].status = "approved"))
    BY <2>2 DEF IInv, FetchInv
  <2>4. files[j][f] = "whole" \/ (f = "report.pdf" /\ row[j].error = "pdf")
    BY <2>2, <2>3 DEF IInv, JobInv, RowInv, Reported, PdfAccounted, Artifacts
  <2> HIDE DEF j, f
  <2>5. QED
    BY <2>2, <2>3, <2>4 DEF DeliveryInv, CustomersSeeApproved
<1>3. QED
  BY <1>1, <1>2

\* Every step keeps the inductive invariant
LEMMA NextInv == IInv /\ [Next]_vars => IInv'
<1> SUFFICES ASSUME IInv, [Next]_vars PROVE IInv'
  OBVIOUS
<1>1. TypeOK'
  BY NextType DEF IInv
<1>2. CASE Next
  BY <1>1, <1>2, NextJobInv, NextApprovalInv, NextFetchInv, NextDeliveryInv DEF IInv
<1>3. CASE UNCHANGED vars
  BY <1>1, <1>3 DEF vars, IInv, JobInv, StageInv, RowInv, Untouched, Reported, PdfAccounted,
     Flushed, ApprovalInv, FetchInv, DeliveryInv, CustomersSeeApproved
<1>4. QED
  BY <1>2, <1>3

\* The invariant the theorems below rest on
THEOREM Invariance == Spec => []IInv
BY InitInv, NextInv, PTL DEF Spec

-----------------------------------------------------------------------------
(* The theorems                                                            *)

\* The review hold: no interleaving of the handlers, the pipeline, crashes and
\* failed writes hands a customer a report that is foreign, unapproved or torn
THEOREM ReviewIsHeld == Spec => []CustomersSeeApproved
<1>1. IInv => CustomersSeeApproved
  BY DEF IInv, DeliveryInv, CustomersSeeApproved
<1>2. QED
  BY <1>1, Invariance, PTL

\* A committed report_path always has the report behind it
THEOREM ReportIsOnDisk == Spec => []ReportOnDisk
<1>1. IInv => ReportOnDisk
  BY DEF IInv, JobInv, RowInv, Reported, ReportOnDisk
<1>2. QED
  BY <1>1, Invariance, PTL

\* A failed job has its error, a report without its PDF the note
THEOREM FailureIsVisible == Spec => []FailureVisible
<1>1. IInv => FailureVisible
  BY DEF IInv, JobInv, RowInv, PdfAccounted, FailureVisible
<1>2. QED
  BY <1>1, Invariance, PTL

\* No task without its stored snapshot
THEOREM TaskIsStored == Spec => []TaskHasSnapshot
<1>1. IInv => TaskHasSnapshot
  BY DEF IInv, JobInv, StageInv, TaskHasSnapshot
<1>2. QED
  BY <1>1, Invariance, PTL

\* The files of a reported job never change
THEOREM FrozenArtifacts == Spec => ArtifactsFrozen
<1>1. IInv /\ IInv' /\ [Next]_vars =>
        [\A j \in Jobs : row[j].report => files'[j] = files[j]]_vars
  BY ReportedStays DEF IInv
<1>2. QED
  BY <1>1, Invariance, PTL DEF Spec, ArtifactsFrozen

\* A payment, once committed, survives every commit of every other session
THEOREM PaymentIsKept == Spec => PaidKept
<1>1. ASSUME IInv, Next, NEW k \in Jobs, row[k].paid PROVE row'[k].paid
  <2>1. row \in [Jobs -> Row] /\ \A j \in Jobs : Flushed(j).paid = row[j].paid
    BY <1>1 DEF IInv, TypeOK, Flushed
  <2>2. ASSUME NEW j \in Jobs, Insert(j) PROVE row'[k].paid
    <3>1. row' = [row EXCEPT ![j] = [row[j] EXCEPT !.status = "uploaded"]]
      BY <2>2 DEF Insert
    <3>2. [row[j] EXCEPT !.status = "uploaded"].paid = row[j].paid
      BY <2>1 DEF Row
    <3>3. QED
      BY <1>1, <2>1, <3>1, <3>2
  <2>3. ASSUME NEW j \in Jobs, MarkPaid(j) PROVE row'[k].paid
    BY ONLY <1>1, <2>1, <2>3, j \in Jobs, k \in Jobs, ColumnEdit DEF MarkPaid
  <2>4. ASSUME NEW a \in Admins, ApproveCommit(a) PROVE row'[k].paid
    <3>1. PICK j \in Jobs : row' = [row EXCEPT ![j].status = "approved"]
      BY <1>1, <2>4 DEF ApproveCommit, IInv, TypeOK
    <3>2. row'[k].paid = row[k].paid
      BY ONLY <2>1, <3>1, j \in Jobs, k \in Jobs, ColumnEdit
    <3>3. QED
      BY <1>1, <3>2
  <2>5. ASSUME NEW j \in Jobs, MarkProcessing(j) \/ Finish(j) PROVE row'[k].paid
    BY <1>1, <2>1, <2>5 DEF MarkProcessing, Finish
  <2>6. CASE UNCHANGED row
    BY <1>1, <2>6
  <2>7. QED
    BY <1>1, <2>2, <2>3, <2>4, <2>5, <2>6 DEF Next, CreateJob, Refuse, InsertFails, Store,
       StoreFails, Pipeline, Load, Audit, AuditRaises, OpenArtifact, WriteHtml, WritePdf,
       PdfRaises, WriteTasks, WriteFindings, WriteRaises, SessionFails, ApproveFails,
       ApproveCheck, ReportSend, ReportCheck, CrashRestart
<1>2. IInv /\ [Next]_vars => [\A j \in Jobs : row[j].paid => row'[j].paid]_vars
  BY <1>1
<1>3. QED
  BY <1>2, Invariance, PTL DEF Spec, PaidKept

\* A job is only lost to a crash, to the database failing under its own session
\* (run_pipeline before its inner try, or at a commit) or to a snapshot not stored
THEOREM LossHasACause == Spec => LostToFaults
<1>1. ASSUME IInv, Next, NEW k \in Jobs, ~Lost(k), Lost(k)',
             ~(CrashRestart \/ StoreFails(k) \/ SessionFails(k))
      PROVE  FALSE
  <2> USE <1>1 DEF IInv, Lost
  <2>1. ASSUME row'[k].status = row[k].status, stage'[k] = stage[k], req'[k] = req[k]
        PROVE  FALSE
    BY <2>1
  <2>2. ASSUME NEW j \in Jobs, Refuse(j) \/ InsertFails(j) PROVE FALSE
    <3>1. req[j] = "new" => row[j].status = "none"
      BY DEF JobInv, RowInv
    <3> QED
      BY <2>1, <2>2, <3>1 DEF Refuse, InsertFails, TypeOK
  <2>3. ASSUME NEW j \in Jobs, Insert(j) PROVE FALSE
    BY <2>1, <2>3 DEF Insert, TypeOK
  <2>4. ASSUME NEW j \in Jobs, Store(j) PROVE FALSE
    BY <2>1, <2>4 DEF Store, TypeOK
  <2>5. ASSUME NEW j \in Jobs, Finish(j) PROVE FALSE
    <3>1. Flushed(j).status \in {"failed", "review"}
      BY <2>5 DEF Finish, JobInv, StageInv, Flushed
    <3> QED
      BY <2>1, <2>5, <3>1 DEF Finish, TypeOK
  <2>6. ASSUME NEW j \in Jobs, StoreFails(j) \/ SessionFails(j) PROVE FALSE
    BY <2>1, <2>6 DEF StoreFails, SessionFails, TypeOK
  <2>7. ASSUME NEW j \in Jobs,
               \/ Load(j) \/ MarkProcessing(j) \/ Audit(j) \/ AuditRaises(j) \/ OpenArtifact(j)
               \/ WriteHtml(j) \/ WritePdf(j) \/ PdfRaises(j) \/ WriteTasks(j)
               \/ WriteFindings(j) \/ WriteRaises(j)
        PROVE  FALSE
    <3>1. stage'[j] # "none" /\ (k # j => stage'[k] = stage[k])
      BY <2>7 DEF Load, MarkProcessing, Audit, AuditRaises, OpenArtifact, WriteHtml, WritePdf,
         PdfRaises, WriteTasks, WriteFindings, WriteRaises, Raised, Written, AfterHtml, TypeOK,
         Artifacts
    <3>2. k # j => row'[k] = row[k]
      BY <2>7 DEF Load, MarkProcessing, Audit, AuditRaises, OpenArtifact, WriteHtml, WritePdf,
         PdfRaises, WriteTasks, WriteFindings, WriteRaises, TypeOK
    <3>3. req' = req
      BY <2>7 DEF Load, MarkProcessing, Audit, AuditRaises, OpenArtifact, WriteHtml, WritePdf,
         PdfRaises, WriteTasks, WriteFindings, WriteRaises
    <3> QED
      BY <2>1, <3>1, <3>2, <3>3
  <2>8. ASSUME NEW j \in Jobs, MarkPaid(j) PROVE FALSE
    <3>1. row'[k].status = row[k].status
      BY ONLY <1>1, <2>8, j \in Jobs, k \in Jobs, ColumnEdit DEF MarkPaid, IInv, TypeOK
    <3> QED
      BY <2>1, <2>8, <3>1 DEF MarkPaid
  <2>9. ASSUME NEW a \in Admins, ApproveCommit(a) PROVE FALSE
    <3>1. PICK j \in Jobs : row' = [row EXCEPT ![j].status = "approved"]
      BY <2>9 DEF ApproveCommit, TypeOK
    <3>2. row'[k].status = IF k = j THEN "approved" ELSE row[k].status
      BY ONLY <1>1, <3>1, j \in Jobs, k \in Jobs, ColumnEdit DEF IInv, TypeOK
    <3> QED
      BY <2>1, <2>9, <3>2 DEF ApproveCommit
  <2>10. CASE UNCHANGED <<req, row, stage>>
    BY <2>1, <2>10
  <2> QED
    BY <2>2, <2>3, <2>4, <2>5, <2>6, <2>7, <2>8, <2>9, <2>10
       DEF Next, CreateJob, Pipeline, ApproveFails, ApproveCheck, ReportSend, ReportCheck
<1>2. IInv /\ [Next]_vars =>
        [\A j \in Jobs : ~Lost(j) /\ Lost(j)' => CrashRestart \/ StoreFails(j) \/ SessionFails(j)]_vars
  BY <1>1
<1>3. QED
  BY <1>2, Invariance, PTL DEF Spec, LostToFaults

-----------------------------------------------------------------------------
(* The refinement: only the commits of a status and the downloads show     *)

PhaseMap == [j \in Jobs |-> PhaseOf[row[j].status]]

\* A step that moves one row from one status to another moves one phase
LEMMA PhaseStep ==
    ASSUME TypeOK, TypeOK', NEW j \in Jobs,
           \A k \in Jobs \ {j} : row'[k].status = row[k].status
    PROVE  PhaseMap' = [PhaseMap EXCEPT ![j] = PhaseOf[row'[j].status]]
BY DEF PhaseMap

\* A step that changes no status changes no phase
LEMMA PhaseStutter ==
    ASSUME \A k \in Jobs : row'[k].status = row[k].status
    PROVE  PhaseMap' = PhaseMap
BY DEF PhaseMap

\* The service starts as the abstract one does
LEMMA InitRefines == Init => RH!Init
BY DEF Init, RH!Init, NoRow, PhaseOf

\* Every step of the service is a step of the abstract one, or none
LEMMA NextRefines == IInv /\ IInv' /\ [Next]_vars => [RH!Next]_RH!vars
<1> SUFFICES ASSUME IInv, IInv', [Next]_vars PROVE [RH!Next]_RH!vars
  OBVIOUS
<1> DEFINE shown == IF delivery = None \/ delivery.user \in Admins THEN None
                    ELSE delivery.job
<1>1. TypeOK /\ TypeOK' /\ row \in [Jobs -> Row]
  BY DEF IInv, TypeOK
<1>2. ASSUME UNCHANGED delivery, \A k \in Jobs : row'[k].status = row[k].status
      PROVE  UNCHANGED RH!vars
  BY <1>2, PhaseStutter DEF RH!vars, PhaseMap
<1>3. ASSUME NEW j \in Jobs, Insert(j) PROVE RH!Begin(j)
  <2>1. /\ row[j].status = "none" /\ row'[j].status = "uploaded"
        /\ \A k \in Jobs \ {j} : row'[k].status = row[k].status
    <3>1. row' = [row EXCEPT ![j] = [row[j] EXCEPT !.status = "uploaded"]]
      BY <1>3 DEF Insert
    <3>2. [row[j] EXCEPT !.status = "uploaded"].status = "uploaded"
      BY <1>1 DEF Row
    <3>3. row[j].status = "none"
      BY <1>3 DEF Insert, IInv, JobInv, RowInv
    <3>4. QED
      BY <1>1, <3>1, <3>2, <3>3
  <2>2. PhaseMap[j] = "absent" /\ PhaseMap' = [PhaseMap EXCEPT ![j] = "working"]
    BY <1>1, <2>1, PhaseStep DEF PhaseMap, PhaseOf
  <2>3. QED
    BY <1>3, <2>2 DEF Insert, RH!Begin, RH!Move, PhaseMap
<1>4. ASSUME NEW j \in Jobs, MarkProcessing(j) PROVE UNCHANGED RH!vars
  <2>1. row[j].status = "uploaded" /\ Flushed(j).status = "processing"
    BY <1>4 DEF MarkProcessing, IInv, JobInv, StageInv, Flushed
  <2>2. /\ row'[j].status = "processing"
        /\ \A k \in Jobs \ {j} : row'[k].status = row[k].status
    BY <1>1, <1>4, <2>1 DEF MarkProcessing
  <2>3. PhaseMap' = PhaseMap
    BY <1>1, <2>1, <2>2, PhaseStep DEF PhaseMap, PhaseOf
  <2>4. QED
    BY <1>4, <2>3 DEF MarkProcessing, RH!vars, PhaseMap
<1>5. ASSUME NEW j \in Jobs, Finish(j) PROVE RH!Hold(j) \/ RH!Fail(j)
  <2>1. row[j].status = "processing" /\ Flushed(j).status \in {"failed", "review"}
    BY <1>5 DEF Finish, IInv, JobInv, StageInv, Flushed
  <2>2. /\ row'[j].status \in {"failed", "review"}
        /\ \A k \in Jobs \ {j} : row'[k].status = row[k].status
    BY <1>1, <1>5, <2>1 DEF Finish
  <2>3. /\ PhaseMap[j] = "working"
        /\ \/ PhaseMap' = [PhaseMap EXCEPT ![j] = "failed"]
           \/ PhaseMap' = [PhaseMap EXCEPT ![j] = "held"]
    <3>1. PhaseMap' = [PhaseMap EXCEPT ![j] = PhaseOf[row'[j].status]]
      BY <1>1, <2>2, PhaseStep
    <3>2. PhaseMap[j] = "working" /\ PhaseOf["failed"] = "failed" /\ PhaseOf["review"] = "held"
      BY <2>1 DEF PhaseMap, PhaseOf
    <3>3. QED
      BY <2>2, <3>1, <3>2
  <2>4. QED
    BY <1>5, <2>3 DEF Finish, RH!Hold, RH!Fail, RH!Move, PhaseMap
<1>6. ASSUME NEW a \in Admins, ApproveCommit(a)
      PROVE  (\E j \in Jobs : RH!Release(j)) \/ UNCHANGED RH!vars
  <2>1. PICK j \in Jobs : /\ row' = [row EXCEPT ![j].status = "approved"]
                          /\ row[j].status \in {"review", "approved"}
    <3>1. PICK j \in Jobs : approving[a] = j /\ row[j].report
      BY <1>6 DEF ApproveCommit, IInv, TypeOK, ApprovalInv
    <3>2. row[j].status \in {"review", "approved"}
      BY <3>1 DEF IInv, JobInv, RowInv
    <3>3. QED
      BY <1>6, <3>1, <3>2 DEF ApproveCommit
  <2>2. \A k \in Jobs : row'[k].status = IF k = j THEN "approved" ELSE row[k].status
    BY ONLY <1>1, <2>1, j \in Jobs, ColumnEdit
  <2>3. CASE row[j].status = "approved"
    BY <1>2, <1>6, <2>2, <2>3 DEF ApproveCommit
  <2>4. CASE row[j].status = "review"
    <3>1. PhaseMap[j] = "held" /\ PhaseMap' = [PhaseMap EXCEPT ![j] = "released"]
      BY <1>1, <2>2, <2>4, PhaseStep DEF PhaseMap, PhaseOf
    <3>2. QED
      BY <1>6, <3>1 DEF ApproveCommit, RH!Release, RH!Move, PhaseMap
  <2>5. QED
    BY <2>1, <2>3, <2>4
<1>7. ASSUME NEW j \in Jobs, MarkPaid(j) PROVE UNCHANGED RH!vars
  <2>1. \A k \in Jobs : row'[k].status = row[k].status
    BY ONLY <1>1, <1>7, j \in Jobs, ColumnEdit DEF MarkPaid
  <2>2. QED
    BY <1>2, <1>7, <2>1 DEF MarkPaid
<1>8. ASSUME NEW u \in Users, ReportSend(u) PROVE [RH!Next]_RH!vars
  <2>1. CASE delivery' = delivery
    BY <1>2, <1>8, <2>1 DEF ReportSend
  <2>2. CASE delivery' # delivery
    <3>1. PICK j \in Jobs : /\ delivery'.user = u /\ delivery'.job = j
                            /\ row[j].report
                            /\ u \in Admins \/ row[j].status = "approved"
      <4>1. fetch[u] # None /\ fetch[u].job \in Jobs
        BY <1>8 DEF ReportSend, IInv, TypeOK, Fetch
      <4>2. delivery' = [user |-> u, job |-> fetch[u].job, file |-> fetch[u].file,
                         content |-> files[fetch[u].job][fetch[u].file]]
        BY <1>8, <2>2 DEF ReportSend
      <4>3. QED
        BY <4>1, <4>2 DEF IInv, FetchInv
    <3>2. PhaseMap' = PhaseMap /\ PhaseMap[j] \in {"held", "released"}
          /\ (u \notin Admins => PhaseMap[j] = "released")
      BY <1>8, <3>1 DEF ReportSend, PhaseMap, PhaseOf, IInv, JobInv, RowInv
    <3>3. CASE u \in Admins \/ delivery' = None
      <4>1. shown' = None
        BY <3>1, <3>3
      <4>2. QED
        BY <3>2, <4>1 DEF RH!Next, RH!Inspect, PhaseMap
    <3>4. CASE u \notin Admins /\ delivery' # None
      <4>1. shown' = j
        BY <3>1, <3>4
      <4>2. RH!Show(j)
        BY <3>2, <3>4, <4>1 DEF RH!Show, PhaseMap
      <4>3. QED
        BY <4>2 DEF RH!Next
    <3>5. QED
      BY <3>3, <3>4
  <2>3. QED
    BY <2>1, <2>2
<1>9. CASE UNCHANGED <<row, delivery>>
  BY <1>2, <1>9
<1>10. QED
  BY <1>3, <1>4, <1>5, <1>6, <1>7, <1>8, <1>9
     DEF RH!Next, vars, Next, CreateJob, Refuse, InsertFails, Store, StoreFails,
         Pipeline, Load, Audit, AuditRaises, OpenArtifact, WriteHtml, WritePdf, PdfRaises,
         WriteTasks, WriteFindings, WriteRaises, SessionFails, ApproveFails, ApproveCheck,
         ReportCheck, CrashRestart

\* The service implements the abstract one: handlers, pipeline, crashes and
\* failures never show a customer anything but a released job
THEOREM ImplementsReviewHold == Spec => HoldsReports
BY InitRefines, NextRefines, Invariance, PTL DEF Spec, HoldsReports, RH!Spec
=============================================================================
