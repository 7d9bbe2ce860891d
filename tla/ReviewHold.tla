----------------------------- MODULE ReviewHold -----------------------------
(***************************************************************************)
(* What the audit service promises about a job, without sessions, files,   *)
(* background tasks or crashes: a job is worked on, then held, then        *)
(* released by a person, and only the report of a released job is ever     *)
(* shown to a customer.  AuditJobs implements it.                          *)
(***************************************************************************)
CONSTANTS
    Jobs,       \* the audit jobs
    NoJob       \* no job: nothing has been shown yet

VARIABLES
    phase,      \* [Jobs -> Phase]: where each job stands
    shown       \* the job of the last report handed out, if a customer got it

vars == <<phase, shown>>

Phase == {"absent", "working", "held", "released", "failed"}

Init ==
    /\ phase = [j \in Jobs |-> "absent"]
    /\ shown = NoJob

Move(j, from, to) ==
    /\ phase[j] = from
    /\ phase' = [phase EXCEPT ![j] = to]
    /\ UNCHANGED shown

Begin(j) == Move(j, "absent", "working")
Hold(j) == Move(j, "working", "held")
Fail(j) == Move(j, "working", "failed")
Release(j) == Move(j, "held", "released")

Show(j) ==
    /\ phase[j] = "released"
    /\ shown' = j
    /\ UNCHANGED phase

\* An admin looks at a report, before or after its release
Inspect ==
    /\ \E j \in Jobs : phase[j] \in {"held", "released"}
    /\ shown' = NoJob
    /\ UNCHANGED phase

Next ==
    \/ \E j \in Jobs : Begin(j) \/ Hold(j) \/ Fail(j) \/ Release(j) \/ Show(j)
    \/ Inspect

Spec == Init /\ [][Next]_vars
=============================================================================
