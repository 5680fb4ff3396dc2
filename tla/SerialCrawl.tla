------------------------------ MODULE SerialCrawl ------------------------------
(***************************************************************************)
(* What a crawl promises whatever the number of workers: the report and    *)
(* the recorded evidence are those of a crawler that visits one device     *)
(* after another, each at once, breadth first, in the order of their       *)
(* references. How a device's answers are collected is not visible.        *)
(***************************************************************************)
EXTENDS Naturals, Sequences, FiniteSets

CONSTANTS Devices, Seed, Endpoints, Neighbours, Budgets

VARIABLES
  phase,      \* "select", "visit", "probe" or "over"
  budget,     \* how many devices may be visited
  report,     \* the status of each reference
  frontier,   \* the devices of the next wave
  following,  \* those the devices of this wave name
  left,       \* those the budget left out
  wave,       \* the devices of this wave still to visit
  known,      \* the devices whose neighbours are known
  order       \* the devices in the order their evidence was recorded

seen == <<phase, budget, report, frontier, following, left, wave, known, order>>

All     == Devices \cup Endpoints
Present == {r \in All : report[r] # "none"}
Outcome == {"COMPLETE", "PARTIAL", "BLOCKED", "UNREACHABLE", "NO_PLAN"}

Begin == /\ phase = "select" /\ budget \in Budgets
         /\ report = [r \in All |-> "none"]
         /\ frontier = {Seed} /\ following = {} /\ left = {} /\ wave = {}
         /\ order = << >>

Init == Begin /\ known = {}

(* As many devices of the frontier as the budget allows, the least first.  *)
Select ==
  /\ phase = "select" /\ frontier # {} /\ Cardinality(Present) < budget
  /\ LET new == frontier \ Present
     IN  /\ wave' \in SUBSET new /\ left' = left \cup (new \ wave')
         /\ \A d \in wave', e \in new \ wave' : d < e
         /\ wave' # new => Cardinality(wave') = budget - Cardinality(Present)
         /\ Cardinality(wave') <= budget - Cardinality(Present)
  /\ phase' = "visit"
  /\ UNCHANGED <<budget, report, frontier, following, known, order>>

(* One device: its status, its evidence if it was asked anything, and the  *)
(* neighbours it names or named in an earlier crawl.                       *)
Record(r) ==
  /\ report[r] = "none"
  /\ \E s \in Outcome : report' = [report EXCEPT ![r] = s]
  /\ order' \in {order, Append(order, r)}
  /\ known' \in {known, known \cup {r}}

Visit ==
  /\ phase = "visit"
  /\ \E d \in wave :
       /\ \A e \in wave : d <= e
       /\ Record(d) /\ wave' = wave \ {d}
       /\ following' = following \cup
            (IF d \in known' THEN {n \in Neighbours[d] : report'[n] = "none"}
             ELSE {})
  /\ UNCHANGED <<phase, budget, frontier, left>>

EndWave == /\ phase = "visit" /\ wave = {} /\ phase' = "select"
           /\ frontier' = following /\ following' = {}
           /\ UNCHANGED <<budget, report, left, wave, known, order>>

CloseWalk ==
  /\ phase = "select" /\ (frontier = {} \/ Cardinality(Present) >= budget)
  /\ report' = [r \in All |-> IF r \in (left \cup frontier) \ Present
                              THEN "NOT_PROBED" ELSE report[r]]
  /\ phase' = "probe"
  /\ UNCHANGED <<budget, frontier, following, left, wave, known, order>>

Probe ==
  /\ phase = "probe" /\ Cardinality(Present) < budget
  /\ \E e \in Endpoints : /\ \A o \in Endpoints \cap Present : o < e
                          /\ Record(e)
  /\ UNCHANGED <<phase, budget, frontier, following, left, wave>>

(* The crawl ends, or an exception ends it.                                *)
End == /\ phase # "over" /\ phase' = "over"
       /\ UNCHANGED <<budget, report, frontier, following, left, wave, known, order>>

Again == phase = "over" /\ Begin' /\ UNCHANGED known

Next == Select \/ Visit \/ EndWave \/ CloseWalk \/ Probe \/ End \/ Again

Spec == Init /\ [][Next]_seen
=============================================================================
