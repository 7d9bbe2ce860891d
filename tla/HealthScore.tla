------------------------------ MODULE HealthScore ------------------------------
(***************************************************************************)
(* compute_score (src/engine/score.py): points are added up for each       *)
(* category, finding by finding, then capped and subtracted from 100.      *)
(***************************************************************************)
EXTENDS Integers, FiniteSetsExt

VARIABLES
    left,       \* the findings that are not counted yet
    raw         \* [Categories -> Nat]: the points of each category so far

scoreVars == <<left, raw>>

Categories == {"queries", "indexes", "ops", "config", "maintenance", "other"}
Severities == {"CRITICAL", "HIGH", "MEDIUM", "LOW", "INFO"}

IsFinding(f) == f.category \in Categories /\ f.severity \in Severities

Deduction ==
    [CRITICAL |-> 15, HIGH |-> 8, MEDIUM |-> 3, LOW |-> 1, INFO |-> 0]

Cap == [queries |-> 30, indexes |-> 25, ops |-> 25, config |-> 20,
        maintenance |-> 15, other |-> 10]

Floor == 5

\* Mutant: no category has a cap
PointsOf(points, category) == points[category]

Capped(points, category) ==
    IF points[category] < Cap[category] THEN points[category] ELSE Cap[category]

Deducted(points) ==
    Capped(points, "queries") + Capped(points, "indexes") + Capped(points, "ops")
    + Capped(points, "config") + Capped(points, "maintenance") + Capped(points, "other")

ScoreOf(points) ==
    IF 100 - Deducted(points) < Floor THEN Floor ELSE 100 - Deducted(points)

NoPoints == [c \in Categories |-> 0]

\* compute_score is called with the findings of one snapshot
Score(findings) ==
    /\ left' = findings
    /\ raw' = NoPoints

\* Mutant: the last severity of a category stands for all of it
CountLast(f) ==
    /\ f \in left
    /\ raw' = [raw EXCEPT ![f.category] = Deduction[f.severity]]
    /\ left' = left \ {f}

\* One finding is counted; they may come in any order
Count(f) ==
    /\ f \in left
    /\ raw' = [raw EXCEPT ![f.category] = @ + Deduction[f.severity]]
    /\ left' = left \ {f}

\* The score by the rubric's words: a sum, whatever the order
AllPoints(findings) == MapThenSumSet(LAMBDA f : Deduction[f.severity], findings)

Rubric(findings) ==
    ScoreOf([c \in Categories |-> AllPoints({f \in findings : f.category = c})])
=============================================================================
