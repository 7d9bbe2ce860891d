# dbdoctor: models and proofs

dbdoctor audits a PostgreSQL or MySQL server from its statistics views: a
collector writes a snapshot on the customer's machine, a rule engine turns it
into findings and a health score, an optional narrator words them, and a web
backend takes uploads, holds each report until a person has approved it, sells
it and invoices it. This directory holds TLA+ models of that program, the TLC
configurations that check them on small instances, and TLAPS proofs of the main
results for all instances. All paths below are under `src/`.

## 1. The system

| part | source | state | operations |
| --- | --- | --- | --- |
| Audit jobs | `webapp/backend/app/jobs.py` | rows of `audit_jobs`, a directory per job, background tasks in memory | `create_job`, `run_pipeline`, `approve_job`, `get_report`, readers |
| Storage | `webapp/backend/app/db.py` | three tables; sessions that write back changed columns only | commits |
| Billing | `webapp/backend/app/billing.py` | rows of `payments`, `job.paid`, invoice files | `create_checkout`, two webhooks, `_mark_paid`, `next_invoice_number`, `compute_gst`, invoice text |
| Accounts | `webapp/backend/app/auth.py` | rows of `users`, tokens | `register`, `login`, `get_current_user` |
| Settings | `webapp/backend/app/config.py` | read once for each process | admin list, secret, prices |
| AI narration | `report/ai_explain.py` | a cache directory of text files | `explain`, `explain_all`, the digit guard |
| Rendering | `report/render.py`, `tasks.py`, `pdf.py` | the artifact files | HTML, PDF, tickets |
| Rule engine | `engine/run.py`, `score.py`, `rules/*`, `thresholds.py` | none between runs | rules on one snapshot, capped score |
| Delta | `collector/delta.py` | the previous snapshot file | `apply_delta` |
| Collectors | `collector/pg_collect.py`, `mysql_collect.py`, `collector-java/` | the server's cumulative counters, the snapshot file | read-only check, capability check, queries of statistics views |
| Command line | `cli/audit.py`, `cli/audit_local.py` | the `--out` directory | the pipeline, in sequence |
| Frontend | `webapp/frontend/` | a token and what it polled | calls of the API |
| Deployment | `deploy/docker-compose.yml` | | restarts a dead process |

How they interact. The frontend calls the API. In the API process `create_job`
and the webhooks are coroutines and run on the event loop, each without
interruption after its body is read; all other handlers and `run_pipeline` run
on worker threads, side by side. They share the database, through a session
each, and the data directory, without locks. `run_pipeline` calls the rule
engine, the narrator and the renderers, and is started by a task that lives only
in memory. The payment provider calls the webhooks, more than once if it is not
answered. The collectors share with the server only its counters, which the
server may reset, and with each other and with `dbdoctor-audit` only the snapshot
file. The engine's tickets come back to it through the database a developer
changes.

What is hard. A session's copy of a row is minutes old when it commits;
approval and download check a row and act later, and so does registration, with
a slow hash in between; files are written before the commit that makes them
visible, and either can fail; the process can die anywhere and what was queued is
gone; webhooks repeat; invoice numbers are counted and not remembered; a model
invents numbers; a cache or a snapshot file can be torn; a collector meets
accounts that may read half of what it asks for; counters are reset and grow
again; thresholds of several rules meet on one table; several tickets of one
report undermine each other. `PROJECT.json` lists these hazards line by line.

What makes each part correct:

- jobs: nobody but an admin gets a report before its approval; a committed
  report is on the disk and no longer changes; a failure shows; a payment is
  never undone; every job ends unless a fault took its task;
- billing: invoice numbers have no gap and no repetition; provider, payment, job
  and files agree; an invoice adds up and is dated in time; every charge is
  recorded; nobody is charged twice;
- accounts: one account for an address; a promised account is there; a token
  opens what its password earned; rights never change;
- collectors: a missing privilege degrades the run and does not end it; a snapshot
  without statements says why; half a snapshot never becomes a report;
- narration: no number that is not in the evidence is published or cached;
- commands: exit code 0 means that everything was written, and every command ends;
- rules and score: the score stays in its bounds and never rises with bad news;
  missing data makes no confident finding, but for a share of captured time; advice
  satisfies the rule that gave it; following the tickets takes no column list and no
  constraint its last index, and a query only where the rule reads less than the
  planner;
- delta: a rate never exceeds what ran, and its confidence is honest.

## 2. The modules

| module | what it is | proofs | instance |
| --- | --- | --- | --- |
| `ReviewHold` | abstract: a job is worked on, held, released, shown | | |
| `AuditJobs` | the handlers and the pipeline, step by step | `AuditJobsProofs` | `MCAuditJobs` |
| `InvoiceSeries` | abstract: the next number of a year, once for each payment | | |
| `Gst` | the arithmetic of an invoice | `BillingProofs` | |
| `Billing` | checkouts, provider, webhooks, invoice files | `BillingProofs` | `MCBilling` |
| `Accounts` | registration, login, tokens, restarts | `AccountsProofs` | `MCAccounts` |
| `AiExplainer` | runs of the narrator over one cache | `AiExplainerProofs` | |
| `Collector` | runs of a collector over one snapshot file | | (itself) |
| `CommandLine` | collectors, `dbdoctor-audit` and the narrator in one terminal | `CommandLineProofs` | `MCCommandLine` |
| `Rules` | the rule engine as a function of a snapshot | `AnalysisProofs` | |
| `HealthScore` | `compute_score`, finding by finding | `AnalysisProofs` | |
| `Analysis` | audits of one server that changes | `AnalysisProofs` | `MCAnalysis` |
| `IndexAdvice` | R-I2, R-I3 and the table they speak of | `IndexAdviceProofs` | `MCIndexAdvice` |
| `StatsDelta` | counters, two collections, rates | `StatsDeltaProofs` | `MCStatsDelta` |

Operators whose comment begins with "Mutant:" are not part of a model. Each is a
plausible mistake in the definition that follows it; replacing the one by the
other must break the property that `PROJECT.json` names under "mutants".

### AuditJobs

`row` is the committed row (status, whether `report_path` is set, the kind of
error, `paid`), `files` and `snapshot` the job directory, where a file is
absent, partial or whole. `stage` is the line `run_pipeline` has reached, `obj`
the object of its session and `dirty` the columns that session will write.
`req` is the progress of `create_job`, `approving` and `fetch` the handlers that
are past their checks, `delivery` the last report handed out.

There is one action for each step another thread can see or a fault can
separate. Upload: `Refuse`, `Insert`, `Store` and their failures; the event loop
is one, hence `LoopFree`. Pipeline: `Load`, `MarkProcessing` (first commit),
`Audit` (the engine, the narrator and the rendering in memory: they succeed or
raise), `OpenArtifact` and a write for each artifact in the order of the code
(`report.html`, `report.pdf` if enabled, `tasks.md`, `findings.json`), then
`Finish` (last commit). `AuditRaises`, `WriteRaises` and `PdfRaises` are the two
`except` branches; `SessionFails` is outside both: the engine, the session,
`db.get` and the two commits stand in no `try`, and an error of the database in
any of them ends the task. `ApproveCheck` and
`ApproveCommit` are the halves of `approve_job`, `ReportCheck` and `ReportSend`
those of `get_report`; `MarkPaid` is the webhook's effect on the row.
`CrashRestart` loses everything in memory and may leave a torn file. A job id is
in the set of upload requests, so ids never repeat, as UUIDs do not. The score,
the e-mail and the texts are left out. A snapshot that `json.loads` accepts as
bytes but not as UTF-8 text is the content "recoded". That `Users`, `Admins` and
`Owner` are constants is what `RightsAreKept` of `Accounts` justifies.

`AuditJobs` implements `ReviewHold` under the mapping `PhaseOf` of statuses to
phases (`HoldsReports`).

### Billing and Gst

`checkout` is the progress of `create_checkout`, `status`, `opened`, `invoice`
and `jobPaid` are committed, `charged` and `acked` are what the provider knows,
`hook` is the webhook on the event loop with the number it has counted, `html`
tells whose invoice each file holds. `enablePdf` is the setting, chosen from
`PdfSettings` at each start of the process. A webhook counts, writes and commits
in steps of their own, so that threads and crashes come between, but no other
webhook does. With `enablePdf` it asks the browser for a PDF before the commit,
from the running event loop, and that always raises (`PrintRaises`); no PDF is ever
written. An error at any step is a 500 without a commit. The
provider is external, and so is the checkout session: `ProviderClient` in this
repository refuses every call with 503 and is replaced in the tests, and
`OpenCheckout` stands for the real one that its docstring describes. Deliveries
have passed the signature check.

What an invoice says is `Document`: the number of the webhook, the date of the
checkout, and the parts of `compute_gst`, which `Gst` calculates in whole paise
(the program uses decimal fractions and rounds half up at the end, which is
`HalfUp`). `Billing` implements `InvoiceSeries` with `issued <- invoice`
(`IssuesInSeries`).

### Accounts

`users` are the committed rows, `stage` how far each `register` got: past the
look-up, past the commit, answered. The hash is between the look-up and the
insert. `settings` is what `get_settings` has read for this process, and
`Restart` may bring others, or a database that is a part of the old one
("restore"), which no code does but operators do. A token is its payload, the
secret that signed it, and, as history, the password its holder showed. The
address in a token and its algorithm are read by nobody.

### AiExplainer, Collector and CommandLine

A text is the set of its numbers, in tenths, for the digit guard sees nothing
else; a file has besides a flag whether it is whole. A run is one
`explain_all` over any set of findings, online or offline: for each finding
the cache, the offline text, the first answer, the second answer, the store. A
store that fails leaves a part of the text, in which the last number may be cut
to its first digits (`Cuts`). `Allowed` is the numbers of the prompt and their
integer parts, as in `allowed_numbers`. A job of the backend has a cache of its
own and makes one run; the command line makes one after another over the same.

`Collector` is one run after another of `pg_collect.py` or `mysql_collect.py`:
`at` is the statement it has reached, in the order of the engine (`PgSteps`,
`MySteps`). A server is its kind (the engine, whether its statistics are on, off or
disabled, whether the account sees a sys schema), whether the session really is
read-only, and what the account is refused: any of six `Reads`, each by itself
(`Denials`). `Check` is `check_capabilities`. Only the trial of the statistics
stands in a `try`: a trial that fails, for whatever reason, is taken for a
refusal, as `except Exception` does, while a refusal of `setup_instruments` right
after it ends the run (`InstrumentsRaise`), and so does one of the statements, of
the sys views and of the lock tables later (`Works`). The output file is opened,
which truncates it, and then written.

`CommandLine` extends `AiExplainer` and takes `Collector` with `INSTANCE`: both
are steps of commands that a consultant gives one after another. `phase` is
where `dbdoctor-audit` is, `bundle` its four files, `code` the exit code of the
last command. `Refuse` stands for everything between reading the snapshot and
the first finding that may raise; half a snapshot always does. The findings are
any set here: what they are is `Rules`.

### Rules, HealthScore and Analysis

`Rules` is `run_all` as a function `RunAll` of one snapshot: the thirteen rules
R-Q1 to R-Q3, R-I1 to R-I3, R-L1, R-C1, R-G1 and R-M1 to R-M4, and R-CFG with ten
checks for each engine, with thresholds, severities and confidence, and every
field that may be null. Sizes are in kB and shares in
percent, so that comparisons stay in whole numbers; a setting has a value and a
unit (`Bytes`). A SQL text is what the rules read from it: kind, table, columns
compared by equality. `SnapshotOk` is what `models.py` and the collectors admit:
the type of each field, which fields may be null, which settings are words and
which are counts, and that the lists are finite. The lists are sets here, so their
rows have keys: the catalog names a table once in a schema and an index once on
a table, and a statement or a lock wait, which may be listed twice, has the number
of its `row`. The object of a finding is such a key, so two findings of one rule
are two elements of the set, as they are two of the list in the code. Null is no
number, no word and no connection record (`NullAssumption`,
`NoConnectionsAssumption`); the words the checks compare with are listed in
`CheckedWords`.

`HealthScore` counts one finding after another, as the loop of `compute_score`
does, in any order; `Rubric` is the sum of its docstring, as a reference
(`AllPoints` adds the deductions up without an order).

`Analysis` lets a server get worse (`Worsen`: a measurement rises to another
level, a setting takes a value of `Scale` that is worse than its own, `Looser`),
lets a collector capture less (`Lose`: all statements, or one that the limit of
200 or the eviction of the server leaves out, `LoseStatement`; rates, views of
sys, tables, indexes, settings, lock waits, the peak), lets a developer create the
index R-I1 asks for (`CreateIndex`), and audits it at any time (`audited`: the
findings left to count are those of the snapshot as it is). Three things that get
worse are left out because the engine does not promise to see them; they are in
the list of section 3.

### IndexAdvice

A table of indexes (`Unused` is R-I2, `Redundant` with `Covers` is R-I3, with the
tie-break of the code), a workload of column lists, and a developer who follows
the tickets of one report, of the rules in `follow`, in any order. The ticket of
R-I2 asks to verify that no rare query needs the index: `Drop` requires for it
that the whole workload had run before the report (`trusted`). An index has
`keys`, columns or expressions, and the rule does not see them: it sees
`IndexColumns`, which is what the regular expression of `_index_columns` makes of
the definition. It reads up to the first closing parenthesis, so that an
expression is cut off there together with the keys behind it, and it reads no
access method, no operator class, no INCLUDE and no WHERE. The planner is external
and goes by the keys: an index serves a query on the keys it begins with, if it
`offers` what the query asks (equality, or a pattern) and is not partial. Sizes
are two, below and above the threshold of R-I2. The MySQL branches of both rules
copy a flag of the server and are in `Rules`.

### StatsDelta

A row of the statistics view belongs to a statement and a user; `DigestOf` is
its `query_digest`. `Run` and `Forget` are the server, `Collect` and
`CollectDelta` the two runs of a collector, of which the second calls
`apply_delta`. `done` and `forgotten` are history: what really ran since the
first, and what was reset. A report is of the moment it is made, and any other
step puts it away. `PrevQueries` is the dictionary of the code, where the last
row with a digest wins, which is one with the least time in the order of the
query. Rates are counted over the interval before division and rounding.

## 3. What the runs show

| run | expected | what it asks | instance |
| --- | --- | --- | --- |
| `jobs_faults` | holds | `TypeOK`, `CustomersSeeApproved`, `ReportOnDisk`, `FailureVisible`, `ArtifactsFrozen`, `PaidKept`, `HoldsReports`, `SettlesOrLost`, `LostToFaults` | two uploads of one customer, an admin, all faults |
| `jobs_restart` | violated | `Settles` | one upload, crashes only |
| `billing_faults` | holds | `TypeOK`, `NumbersDense`, `InvoiceOnDisk`, `BooksAgree`, `InvoiceIsRight`, `IssuesInSeries`, `RecordedUnprinted` | two checkouts of one job and one of another, two fiscal years, `enable_pdf` on or off, all faults |
| `billing_twice` | violated | `ChargedOnce` | the same without any fault |
| `billing_print` | violated | `ChargeRecorded` | one checkout, `enable_pdf` on, no fault |
| `billing_paisa` | violated | `PartsReconstructTotal` | one checkout at the listed price, no fault |
| `accounts` | holds | `TypeOK`, `OneAccount`, `CreatedIsThere`, `AccessWasEarned`, `RightsAreKept` | two requests, three spellings of two addresses, two admin lists, two secrets, restarts and a backup |
| `terminal` | holds | `CommandTypeOK`, `NothingInvented`, `ExitTruth`, `SilenceIsExplained`, `CachedForGood`, `CommandsEnd` | any server, four accounts, two findings, three answers, kills, full disks, failing statements |
| `collector_degraded` | violated | `DegradedNotCrashed` | any server, an account that may read everything or nothing of performance_schema, nothing fails |
| `analysis` | holds | `TypeOK`, `ScoreInRange`, `MoreIsNotBetter`, `WorseIsNotBetter`, `MissingIsModest`, `AdviceHolds` | a healthy and a troubled server of each engine, two changes |
| `index_advice` | holds | `TypeOK`, `LeadingKept`, `UniqueKept`, `ReadsKept` | three indexes, eleven definitions, three queries |
| `delta_resets` | holds | `TypeOK`, `NeverOverstated`, `FlagsHonest` | two users of one statement, another statement |

### Bounds

*Jobs.* Two uploads of one customer let two pipelines overlap while the admin and
the customer act on either; a third adds no new pair. The instance has one admin;
that two at once do no harm is left to the theorems, which hold for any set of
them. *Billing.* Two payments for one job and one for another, and `LastYear` = 2:
a webhook can give a number up that another takes, in the same year or the next.
The amounts are 9999.00 in the seller's state, whose halves round up, the same in
another state, and 199.00 dollars of a buyer abroad. `PdfSettings` has both
values, so that a restart can switch the PDF on and off. *Accounts.* Two requests
are enough for a race, and two spellings with two passwords for a theft;
`Lifetime` and `MaxTime` are 1, so that a token can be valid, expire and be
replaced. One password is longer than bcrypt takes. *Terminal.* Two findings let
one be cached while the other is asked about; the numbers 12.5, 12, 1 and 4
contain a decimal, its integer part, a stranger and a number that one finding has
and the other has not, and `Replies` holds answers with none, a wrong one, and two
that are right for the first finding alone. The four accounts may read everything,
nothing of performance_schema, all but its instruments, and neither the statements
nor the locks. The number of commands is not bounded: the state space is finite
without it. *Analysis.* `Levels` has a value on either side of each threshold and
`Scale` the best and the worst value of each setting, from four servers on which
between them every rule and check can fire and be silent; `MaxChanges` = 2 lets
one measurement worsen after another, and lets the advice of R-I1 be followed
after a loss. The statements are such that the loss of one moves another over the
threshold of R-Q1. `MaxCounted` bounds the findings of a report that are counted
one by one; larger ones are only compared by `Rubric`. *Index.* Three indexes are
the least with a cover that is itself covered; `Definitions` has equal, longer and
other columns, a primary key, unique, partial and small ones, two on an
expression, one with an operator class for patterns, and one of an access method
that offers no equality. `MaxWords` only bounds what a definition may be read as.
*Delta.* Three rows and a snapshot of two (`Top`) let a row drop out of the
snapshot and come back; times 1 and 2 (`Times`) make a call cheap or dear; with
`MaxCalls` = 2 a counter can stand at one, be reset, and grow past it unseen. The
two users of a statement are alike, and so are the two requests of `accounts`: no
property or constant tells them apart, and the runs with symmetry have no liveness
property.

Deadlock is checked for the terminal, the index and the delta models. Jobs,
billing and accounts are services that may have nothing left to do, and a server
of `Analysis` stops when its changes are used up and its report is counted;
their configurations turn it off. That they do not stop while there is work is
what `SettlesOrLost` and `RecordedUnprinted` say.

### Fairness

`AuditJobs`: weak fairness of the return of a committed upload and of each step of
a pipeline, because the event loop and the thread pool starve nobody. Nobody is
assumed to upload, approve, pay or download, and nothing is assumed of faults: any
step may fail each time. `Billing`: the provider delivers until it is answered
(strong, since another webhook may have the loop), a webhook on the loop runs to
its end (weak), and a write or a commit that is tried again and again at last
succeeds (strong): a disk that is full for ever would refute any promise. Nothing
is assumed of the PDF, which never succeeds: `RecordedUnprinted` promises its
record to a charge only if the setting is off from some moment on, and
`billing_print` shows that with it on the promise is broken without any fault.
`CommandLine`: a command that runs goes on (weak), because statements and requests
have timeouts; a kill is never assumed, and neither is another command. The other
models have no liveness.

### What the violated runs found

1. A restart loses the background task, and the job stays "uploaded" or
   "processing" for ever (`jobs_restart`); `docs/architecture.md:136` calls the
   pipeline "restartable per stage". `LostToFaults` shows what else loses a job:
   an error of the database in the task's own session, when the row is read or at
   a commit, a snapshot that cannot be stored, and nothing more.
2. Two checkouts opened before the first webhook are both charged and invoiced
   for one job (`billing_twice`); the check looks at `job.paid` only.
3. With `enable_pdf`, the default, the webhook calls Playwright's synchronous API on the
   running event loop, where it raises, before the commit: the charge is never
   recorded (`billing_print`).
4. The rounded parts of the listed price, 9999.00 in the seller's state, make
   8473.73 + 762.64 + 762.64 = 9999.01 (`billing_paisa`). The comment at
   `webapp/backend/tests/test_billing.py:35` says "to the paisa", and the assertion
   below it, on this amount, rounds to a tenth. `InvoiceAddsUp` is what does hold:
   exact abroad, exact between states at 18 %, and but for a paisa otherwise.
5. An account that may read the sys schema of MySQL but not performance_schema
   is noted as degraded and then ends the run: `check_capabilities` returns
   before it looks at sys, and the views of sys are read all the same
   (`collector_degraded`). The comment at `mysql_collect.py:140` says "never a
   crash". Other refusals have the same end: of `setup_instruments` (line 207), of
   the digest table where its consumers may be read (250), of the lock tables of
   MariaDB, which ask for PROCESS (394), and of the lock view of sys, which MySQL
   is asked for even where there is no sys schema (403).

### Seen while modelling, and not a run of their own

Billing. An invoice dated in March may be numbered in the fiscal year after. That
numbers do not repeat rests on the API being one process.

Accounts. Passwords of 73 to 128 bytes pass `Credentials`, and bcrypt 5 refuses
them: registration and login end in a 500. Admin rights are those of the list at
registration, for good.

Command line and narration. A snapshot is silent without a note when the
statistics could be read and held no statement: `SilenceIsExplained` is about what
could not be asked for. A kill between truncating and writing a cache file
leaves an empty one, which the next run publishes as an empty paragraph. The
cache key does not hold the prompt or the wording of a rule. With `--skip-pdf`
an old `report.pdf` stays beside the new report. A PDF that fails ends
`dbdoctor-audit` before tickets and data, while the web backend goes on.

Delta. Two users of one statement share a `query_digest`, so the row of one is
compared with that of the other, and a rate of full confidence can be invention;
`PrevQueries` models it, and the two properties speak of statements with one user
for that reason (`Sole`). A new statement is flagged with low confidence too,
where `models.py:112` speaks of resets only; `FlagsHonest` admits it. The rate of
a statement that is new in the snapshot is not "capped at the observation
interval", as its comment says. `apply_delta` does not check that both snapshots
are of one host.

Rules. R-Q1 takes its share of the captured statements, at most 200, and claims high
confidence: when the one with the least time falls out, another passes 20 % though
its share "of total database time"
(`webapp/frontend/public/kb/findings-reference.html:37`) is less. In `analysis`, a
statement with 50 of 299 s becomes a finding when the one with 49 s is lost; without
its exception for R-Q1 `MissingIsModest` fails there, and with it no other rule
may do so. A statement that gets slower takes share from the others, and the score
can rise. A larger max_connections is more headroom for R-C1 and more memory for
R-CFG. A MySQL table that grows dilutes the free space R-M4 divides by it. `Worsen`
leaves these three out. R-I2 takes missing scans for none; R-I1 matches PostgreSQL
tables by bare name, and with two or more candidate columns it asks again, for the
rest, after its advice was followed. `models.py:58` says that rules skip when a
capability is absent; no rule reads `meta.capabilities`, and what keeps them silent
is that the rows or fields are missing. Autovacuum that is off is counted in two
categories.

Index advice. R-I3 does not read the condition of a partial index and takes it to
cover a full one: the ticket says that the full one "adds write cost and space for
no read benefit" (`index_rules.py:189`), and dropping it leaves queries without an
index. So it is with access methods, operator classes, INCLUDE and the keys behind
an expression. Without its exception `ReadsKept` fails in `index_advice` after one
audit and one drop; with it, it allows for what `IndexColumns` does not read and
for nothing else. R-I3 names a unique index
that begins a longer plain one redundant, though dropping it drops the
constraint. The tickets of R-I2 and R-I3 followed together may leave a query
without an index: each rule is right alone. The MySQL tickets of R-I2 and R-I3
put the index in the place of the table, and the PostgreSQL ones drop an index
without its schema (`report/tasks.py:24`).

## 4. What is proved

Every theorem holds for all values of the constants that satisfy the `ASSUME`s of
its module, which say only what kind of thing each constant is (finite sets of
payments and rows; a job has an owner, a payment a job; lower case of an address
is an address and its own lower case; a template's numbers are in its prompt; an
account is refused some of the six reads; a primary key is unique and not partial,
and at least one and at most `MaxWords` words are read from the definition of an
index).

`AuditJobsProofs`. `IInv` strengthens the type invariant by `JobInv`, which says
for each stage of the pipeline which files are whole, what the session holds and
has yet to write, and for each row what its status implies; `ApprovalInv` and
`FetchInv`, that what a handler checked is still true when it acts; and
`DeliveryInv`. The last three need the facts that a reported row stays reported
and an approved one approved (`ReportedStays`), since the handlers do not check
again. From it: `TypeCorrect`, `ReviewIsHeld`, `ReportIsOnDisk`,
`FailureIsVisible`, `TaskIsStored` (a pipeline runs only for a stored upload),
`FrozenArtifacts`, `PaymentIsKept`, `LossHasACause`, and `ImplementsReviewHold`,
the refinement of `ReviewHold`.

`BillingProofs`. First the decimal arithmetic of `compute_gst` in whole paise:
half-up rounding is off by at most a half (`HalfUpBounds`), hence the parts by at
most a paisa (`WithinAPaisa`), for every amount, rate and pair of states; an
inter-state invoice at 18 % is exact (`InterStateIsExact`). Of the state machine,
none of the safety properties is inductive alone. `HookInv`
says that the number a webhook counted is still the next one of its year when it
commits, because no other webhook runs in between and threads do not commit
numbers, and that the files it has passed are its own; `CheckoutInv` ties
sessions to rows; `DateInv` orders the year of the checkout, that of the
number and the clock. The numbers are dense because the series grows by its own
size plus one (`SeriesSize`, `CommitDense`, from the finite set theorems). From
it: `TypeCorrect`, `SequentialNumbers`, `InvoicesAreOnDisk`, `BooksAreKept` (of
`PaymentsAgree` and `AnswersAreTrue`), `InvoicesAreRight` (of `InvoicesAddUp`,
which rests on `WithinAPaisa`, and `DatesInTime`), and `ImplementsInvoiceSeries`.

`AccountsProofs`. `RowsInv` relates each row to the request that inserted it and
`TokensInv` each token to the row it was made for, also when that row was lost
with a backup and its address registered again. From it: `AccountsTyped`,
`CreatedIsKept`, `AddressesAreUnique`, `TokensAreEarned`, `RightsNeverChange`.

`AiExplainerProofs`. `StoringInv`: an answer about to be stored has passed the
guard, and the file it goes to was not there before. From it: `TypeCorrect`,
`ReportsAreGrounded`, `CacheIsGrounded`, both together as `NumbersAreGiven`, and
`CacheIsKept`, that a whole paragraph in the cache is never written again. They
are about every behaviour of `AiExplainer`.

`CommandLineProofs`. `CommandInv` is inductive: one command runs at a time and has
no exit code while it does (`OneCommandInv`); a collector past `Check` has the
statistics or a note that says why not (`CollectorInv`), and the file it leaves
says the same (`FileInv`); an audit past validation has a whole snapshot, and has
written exactly the parts before the one it is at (`AuditInv`, `Written`); the
narrator is at work only in its phase (`StageInv`). `ExitTruth` is a conjunct of
its own: what the last command has left stays until the next begins, which takes
the exit code away. `NextStep` says that `After` walks through the statement lists
without a loop. From it: `ExitCodesTellTheTruth` and `SilenceHasAReason`.
`ElsewhereItDegrades` is the converse of finding 5: where no statement fails by
itself, a read-only run ends with 1 only if a read that stands in no `try` is
refused (`Answered` lists them for each engine); statistics that are off or
disabled, or refused to the trial, never end it by themselves. The commands take
the narrator's steps and no others, by the way they are defined
(`NarratorRunsInCommands`, a lemma), so that its theorems carry over to any number
of commands: `CommandsInventNothing`, `CommandsKeepTheCache`. `CommandsKeepTypes`
is about all eighteen variables; for those of the collectors and of the audit it
needs an invariant of its own (`KeptInv`): what a run has found out stays of its
type until its end, and nothing is kept between two runs but files.

`AnalysisProofs`. About the engine as a function of any snapshot, of any
measurements, and about a server that changes in any way `Next` allows, for any
`Levels`, `Scale` and bounds:

- `EveryFindingCounts`: every finding has a category and a severity that
  `compute_score` knows. `FindingsHaveKeys`: there are finitely many findings,
  and one at most for each rule and object. The latter is proved rule by rule
  (`KeyedQ1` ...) from the keys of the rows.
- `TypeCorrect`: every change leads from a snapshot that `SnapshotOk` admits to
  another. `ScoreStaysInRange` and `FindingsNeverHelp` follow from the bounds and
  the monotonicity of `Capped` (`ScoreBounds`, `ScoreIsMonotone`).
- `WorseNeverPays`: a server that gets worse is not scored higher. The argument
  is that of a reviewer who compares two reports. Each finding of the first is
  outdone by one of the second (`Outdoes`: same rule, object and category, and a
  severity that costs no less): rule by rule for tables, indexes, statements, lock
  waits and connections (`WorseQ1` ... `WorseM4`), and check by check for
  settings (`LooserPgStay`, `LooserMyStay`, from `WhatLooserMeans`), so that
  `WorseIsOutdone`. As findings have keys, the second report has a finding of its
  own for each of the first, and a sum over the one is at most that over the
  other (`SumsCompare`), in every category; `RubricIsMonotone` then carries this
  through caps and floor. The library says nothing of sums over sets, so the
  module begins with them: a sum exists for every finite set (`SumsExist`, by
  strict-subset well-foundedness, not by induction over a predicate), it is what
  the fold of `MapThenSumSet` computes (`FoldIsSum`), grows with the set and
  compares along an injection. R-Q1 needs them too, for its total.
- `SilenceIsModest`: whatever a collector loses, each confident finding that is
  left was there before, under the same rule and object; R-Q1 is the one
  exception, and only where one statement is lost (section 3 says why). It needs that each rule
  fires for a row only, and that null satisfies no comparison (`LosingIsCaptured`,
  `NullIsNoValue`), and for R-Q1 that a loss of anything else leaves all statements
  or none (`AllOrNone`).
- `AdviceIsNotRedundant` and `AdviceIsGood`: an index created as R-I1 advises
  makes none redundant for R-I3, because its first column begins no other, and
  leaves R-I1 fewer columns to ask for.

`IndexAdviceProofs`. The lemma `RedundantSparesOne` is about R-I3 alone: among the
indexes that begin with the columns of a given one, as the rule reads them, it
never names the one that is longest, then unique or primary, then first by name.
It rests on least elements of sets of naturals (from the well-foundedness of `<`),
and on prefixes being a partial order. `StandsInv` carries it through the drops;
`RanInv` and `ReadInv` say which indexes the statistics vouch for. From these:
`TypeCorrect`, `RedundantIsCovered`, `UniqueIsPreferred`, and `ReadsAreServed`:
where each index that R-I3 takes for a cover can also replace what it covers
(`Replaces`), the spared index serves what the dropped one did.

`StatsDeltaProofs`. `CountedInv`: a row that was not reset has its old value and
what ran since, a row that was has at most what ran. From it: `TypeCorrect`,
`RatesAreBounded`, `ConfidenceIsEarned`.

Only model-checked, of the properties that hold: the three of liveness,
`SettlesOrLost`, `RecordedUnprinted` and `CommandsEnd`. They rest on fairness, which
means `ENABLED`, and on runs of arbitrary length that come to an end; neither is
in the prover's reach. All safety invariants and all action properties of the
passing runs have a theorem. All refinements are proved for initial states and
steps; the abstract specifications have no fairness. The violated properties
have counterexamples, not proofs.

## 5. What is not modelled

- The Java collector. It sends the statements of the Python collectors over
  JDBC; a model of it would be `Collector` again.
- The frontend. It polls and renders; what it can see is decided by the handlers.
- `audit_local.py`, a wrapper of a collector and an audit in one process.
- What HTML, PDF, tickets and invoices look like, and what the evidence and the
  impact of findings say.
- The order of findings (`sort_findings`), and so which five are explained:
  `Accept` lets it be any set.
- Growth of tables between two snapshots, one division of two sizes: a
  measurement of `Rules`.
- Normalisation of SQL and host names, signatures of webhooks and tokens,
  bcrypt: functions of a text. A delivery or a token in the models is one that
  passed them or did not.
- The connection pool and engine of SQLAlchemy, the routes of `main.py`, which read
  files, and the commercial settings, which are constants.
- Seeding, workload and packaging tools, which are not part of the product.

What could be added next. To the models: the growth of tables and hosts that
differ in `StatsDelta`, and the order of findings with the five on top in
`Analysis`. To the proofs: the converse of the other violated runs, as
`ElsewhereItDegrades` is for one of them, that is the conditions under which
`ChargedOnce` and `Settles` do hold; and that a run of the narrator which
nothing fails for gives every finding a text.

## 6. Running

    tlc -workers 2 -config jobs_faults.cfg MCAuditJobs.tla
    tlapm AuditJobsProofs.tla

Each configuration goes with the `MC` module of its component, and
`collector_degraded.cfg` with `Collector` itself. The longest is `terminal`, about
three minutes with two workers. `PROJECT.json` maps every definition to the lines
it models, and lists runs, mutants, findings, hazards and theorems.
