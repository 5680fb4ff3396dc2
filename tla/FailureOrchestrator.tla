-------------------------- MODULE FailureOrchestrator --------------------------
(***************************************************************************)
(* FailureOrchestrator.decide (engines/failure_orchestrator.py): what a    *)
(* run does after a device did not take its configuration. A pure function *)
(* of the failure, the nodes of the change that reached the device, the    *)
(* retry budget and whether the management path is affected.               *)
(***************************************************************************)
EXTENDS Naturals, Sequences

CONSTANT NodeIds   \* the names of configuration nodes

FailureClasses == {"RETRYABLE", "BLOCKED", "ROLLED_BACK", "PARTIAL",
                   "MANUAL_REQUIRED", "FATAL"}

Reversibilities == {"REVERSIBLE_BY_REPLACE", "REVERSIBLE_MANUAL",
                    "IRREVERSIBLE"}

Node == [id : NodeIds, reversibility : Reversibilities, destructive : BOOLEAN]

Decisions == {"CONTINUE", "ISOLATE", "PARTIAL_ROLLBACK", "FULL_ROLLBACK",
              "HALT"}

(* failed: the node whose commands failed, if there is one (at most one).  *)
Scenario == [cls : FailureClasses, applied : Seq(Node),
             failed : {{}} \cup {{n} : n \in Node}, attempts : Nat,
             budget : Nat, management : BOOLEAN]

AppliedNodes(sc) == {sc.applied[i] : i \in 1..Len(sc.applied)}

(* Applied state no rollback may touch.                                    *)
Stuck(sc) == \E n \in AppliedNodes(sc) :
               n.reversibility = "IRREVERSIBLE" \/ n.destructive

Replaceable(sc) == \A n \in AppliedNodes(sc) :
                     n.reversibility = "REVERSIBLE_BY_REPLACE"

TailFailed(sc) == \E n \in sc.failed : n.id = sc.applied[Len(sc.applied)].id

(* Mutant: a failure that needs a human is treated like any other.         *)
DecideWithoutHuman(sc) ==
  IF sc.cls = "FATAL" \/ Stuck(sc) THEN "HALT"
  ELSE IF sc.management THEN "ISOLATE"
  ELSE IF ~Replaceable(sc) \/ sc.applied = << >> THEN "HALT"
  ELSE "FULL_ROLLBACK"

(* The early returns of decide, in their order.                            *)
Decide(sc) ==
  IF sc.cls \in {"MANUAL_REQUIRED", "FATAL"} \/ Stuck(sc) THEN "HALT"
  ELSE IF sc.cls = "RETRYABLE" /\ sc.attempts < sc.budget THEN "CONTINUE"
  ELSE IF sc.management THEN "ISOLATE"
  ELSE IF ~Replaceable(sc) \/ sc.applied = << >> THEN "HALT"
  ELSE IF sc.cls = "PARTIAL" \/ TailFailed(sc) THEN "PARTIAL_ROLLBACK"
  ELSE "FULL_ROLLBACK"
=============================================================================
