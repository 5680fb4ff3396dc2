-------------------------- MODULE AutopilotRunProofs --------------------------
(***************************************************************************)
(* Proofs about FailureOrchestrator and AutopilotRun, for any number of    *)
(* devices, whatever discovery finds and rendering yields: what a run may  *)
(* touch, what it may claim, and where it has to stop.                     *)
(***************************************************************************)
EXTENDS AutopilotRun, TLAPS, WellFoundedInduction

-----------------------------------------------------------------------------
(* The decision.                                                           *)

(* A device whose state is not confirmed halts the run, and so does one on *)
(* the management path.                                                    *)
LEMMA UnconfirmedHalts ==
  ASSUME NEW d, NEW o \in Unconfirmed, NEW nodes
  PROVE  Decide(FailureScenario(d, o, nodes)) = "HALT"
<1>1. OutcomeClass(o) = "MANUAL_REQUIRED"
  BY DEF OutcomeClass, Unconfirmed
<1>2. FailureScenario(d, o, nodes).cls = "MANUAL_REQUIRED"
  BY <1>1 DEF FailureScenario
<1> QED BY <1>2 DEF Decide

-----------------------------------------------------------------------------
(* The order devices are taken in.                                         *)

LEMMA NextOfIsLeast ==
  ASSUME NEW S \in SUBSET Devices, S # {}
  PROVE  NextOf(S) \in S /\ \A e \in S : NextOf(S) <= e
<1>1. S \subseteq Nat
  BY DevicesAssumption
<1>2. PICK d \in S : \A e \in S : ~ (<<e, d>> \in OpToRel(<, Nat))
  <2> HIDE DEF OpToRel
  <2> QED BY <1>1, NatLessThanWellFounded, WFMin
<1>3. \A e \in S : ~ (e < d)
  BY <1>1, <1>2, Zenon DEF OpToRel
<1>4. \A e \in S : d <= e
  BY <1>1, <1>3
<1>5. \E x \in S : \A e \in S : x <= e
  BY <1>4
<1> QED BY <1>5 DEF NextOf

-----------------------------------------------------------------------------
(* Type correctness.                                                       *)

(* A device is being handled only while there is one to handle.            *)
Handling == /\ pc \in {"recover", "apply", "dryrun"} => gate.todo # {}
            /\ pc = "repair" => repair.todo # {}

TypeInv == TypeOK /\ Handling

LEMMA NoGateType == NoGate \in Gate /\ NoRepair \in Repair
BY DEF NoGate, NoRepair, Gate, Repair, Outcomes

LEMMA TypeInit == Init => TypeInv
<1> SUFFICES ASSUME Init PROVE TypeInv
  OBVIOUS
<1>1. /\ pc \in Steps /\ execute \in BOOLEAN /\ console \in {"open", "closed"}
      /\ final \in Finals /\ approved \in BOOLEAN
      /\ sent \subseteq Devices /\ broken \subseteq Devices
  BY DEF Init, Steps, Finals
<1>2. /\ crawl \in [Devices -> Statuses] /\ renders \in [Devices -> Rendering]
  BY DEF Init, Statuses, Rendering
<1>3. /\ round \in 0..MaxRounds /\ level \in {0, 1}
      /\ verdict \in Verdicts \ {"UNVERIFIED"} /\ again \in Verdicts
  BY RoundsAssumption DEF Init, Verdicts
<1>4. gate \in Gate /\ repair \in Repair
  BY NoGateType DEF Init
<1>5. Handling
  BY DEF Init, Handling
<1> QED BY <1>1, <1>2, <1>3, <1>4, <1>5 DEF TypeInv, TypeOK

LEMMA VerdictType == GateFinal \in Finals /\ (final \in Finals => Downgraded \in Finals)
BY DEF GateFinal, VerdictOf, Finals, Downgraded

(* Recording the outcome of a device leaves the gate a gate.               *)
LEMMA OutcomeType ==
  ASSUME gate \in Gate, NEW d \in Devices, NEW o \in Outcomes,
         NEW todo \in SUBSET Devices, NEW failed \in SUBSET Devices,
         NEW halted \in SUBSET Devices
  PROVE  /\ [gate EXCEPT !.outcome = [@ EXCEPT ![d] = o], !.todo = todo,
                          !.failed = failed, !.halted = halted] \in Gate
         /\ [gate EXCEPT !.todo = todo,
                          !.outcome = [@ EXCEPT ![d] = o]] \in Gate
<1>1. [gate.outcome EXCEPT ![d] = o] \in [Devices -> {"none"} \cup Outcomes]
  BY DEF Gate
<1> QED BY <1>1 DEF Gate

LEMMA PreparationType ==
  ASSUME TypeInv, Preparation PROVE TypeInv'
<1> USE DEF TypeInv, TypeOK, Handling, Steps, Ended
<1>1. CASE ConfirmBinding \/ OpenConsole \/ IdentifyFamily \/ LeaveRetry
           \/ Elicit \/ Design
  BY <1>1 DEF ConfirmBinding, OpenConsole, IdentifyFamily, LeaveRetry, Elicit,
              Design
<1>2. CASE Discover \/ RetryAccess
  <2>1. crawl' \in [Devices -> Statuses]
    BY <1>2, CrawlsAssumption DEF Discover, RetryAccess
  <2>2. round' \in 0..MaxRounds
    BY <1>2, RoundsAssumption DEF Discover, RetryAccess
  <2> QED BY <1>2, <2>1, <2>2 DEF Discover, RetryAccess
<1>3. CASE DesignBlocked
  BY <1>3 DEF DesignBlocked, EndRun, GiveConsoleBack, Finals
<1>4. CASE Render
  <2>1. renders' \in [Devices -> Rendering]
    BY <1>4, RenderAssumption DEF Render, Rendering
  <2> QED BY <1>4, <2>1 DEF Render
<1> QED BY <1>1, <1>2, <1>3, <1>4 DEF Preparation

LEMMA ExecutionType ==
  ASSUME TypeInv, Execution PROVE TypeInv'
<1> USE DEF TypeInv, TypeOK, Handling, Steps, Ended
<1>0. gate.todo \in SUBSET Devices /\ (gate.todo # {} => NextOf(gate.todo) \in Devices)
  BY NextOfIsLeast DEF Gate
<1>1. CASE Stage
  <2>1. gate' \in Gate
    BY <1>1 DEF Stage, Gate
  <2> QED BY <1>1, <2>1 DEF Stage, EndRun, GiveConsoleBack, Finals
<1>2. CASE Deny
  BY <1>2 DEF Deny, Finals
<1>3. CASE Bond
  <2>1. gate' \in Gate
    BY <1>3 DEF Bond, Gate, Rendered
  <2> QED BY <1>3, <2>1 DEF Bond
<1>4. CASE Skip
  <2>1. gate' \in Gate
    BY <1>0, <1>4 DEF Skip, Gate
  <2> QED BY <1>4, <2>1 DEF Skip
<1>5. CASE OpenSession
  BY <1>5 DEF OpenSession
<1>6. CASE Recover \/ Escalate \/ Lose
  BY <1>6 DEF Recover, Escalate, Lose
<1>7. CASE DryRun
  <2> DEFINE d == NextOf(gate.todo)
             rest == gate.todo \ {d}
  <2>a. PICK o \in DryOutcomes :
          gate' = [gate EXCEPT !.todo = @ \ {d},
                               !.outcome = [@ EXCEPT ![d] = o]]
    BY <1>7 DEF DryRun
  <2>b. d \in Devices /\ o \in Outcomes /\ rest \in SUBSET Devices
    BY <1>0, <1>7 DEF DryRun, Outcomes
  <2>c. gate' = [gate EXCEPT !.todo = rest, !.outcome = [@ EXCEPT ![d] = o]]
    BY <2>a, SMTT(60)
  <2>1. gate' \in Gate
    <3> HIDE DEF d, rest
    <3> QED BY <2>b, <2>c, OutcomeType
  <2> QED BY <1>7, <2>1 DEF DryRun
<1>8. CASE ApplyChange
  <2> DEFINE d == NextOf(gate.todo)
  <2>1. d \in Devices
    BY <1>0, <1>8 DEF ApplyChange
  <2>2. PICK o \in SentOutcomes, nodes \in Applied :
          /\ \E halt \in BOOLEAN : gate' = [gate EXCEPT
                        !.outcome = [@ EXCEPT ![d] = o],
                        !.todo   = IF halt THEN {} ELSE @ \ {d},
                        !.failed = IF o = "APPLIED" THEN @ ELSE @ \cup {d},
                        !.halted = IF halt THEN @ \cup {d} ELSE @]
          /\ Sends(d, o)
    BY <1>8, ZenonT(60) DEF ApplyChange
  <2>3. gate' \in Gate
    <3>1. PICK halt \in BOOLEAN :
            gate' = [gate EXCEPT
                        !.outcome = [@ EXCEPT ![d] = o],
                        !.todo   = IF halt THEN {} ELSE @ \ {d},
                        !.failed = IF o = "APPLIED" THEN @ ELSE @ \cup {d},
                        !.halted = IF halt THEN @ \cup {d} ELSE @]
      BY <2>2
    <3> DEFINE todo   == IF halt THEN {} ELSE gate.todo \ {d}
               failed == IF o = "APPLIED" THEN gate.failed
                         ELSE gate.failed \cup {d}
               halted == IF halt THEN gate.halted \cup {d} ELSE gate.halted
    <3>2. gate' = [gate EXCEPT !.outcome = [@ EXCEPT ![d] = o], !.todo = todo,
                               !.failed = failed, !.halted = halted]
      BY <3>1
    <3>3. /\ todo \in SUBSET Devices /\ failed \in SUBSET Devices
          /\ halted \in SUBSET Devices /\ o \in Outcomes
      BY <1>0, <2>1 DEF Gate, Outcomes
    <3> HIDE DEF d, todo, failed, halted
    <3> QED BY <2>1, <3>2, <3>3, OutcomeType
  <2>4. sent' \subseteq Devices /\ broken' \subseteq Devices
    BY <2>1, <2>2 DEF Sends
  <2> QED BY <1>8, <2>3, <2>4 DEF ApplyChange
<1>9. CASE CloseGate
  <2>1. gate' \in Gate
    BY <1>9 DEF CloseGate, Gate
  <2> QED BY <1>9, <2>1, VerdictType DEF CloseGate
<1> QED BY <1>1, <1>2, <1>3, <1>4, <1>5, <1>6, <1>7, <1>8, <1>9 DEF Execution

LEMMA AssuranceType ==
  ASSUME TypeInv, Assurance PROVE TypeInv'
<1> USE DEF TypeInv, TypeOK, Handling, Steps, Ended
<1>0. repair.todo # {} => NextOf(repair.todo) \in Devices
  BY NextOfIsLeast DEF Repair
<1>1. CASE VerifyPass
  BY <1>1 DEF VerifyPass, EndRun, GiveConsoleBack, Verdicts
<1>2. CASE VerifyNonPass
  <2>1. repair' \in Repair
    BY <1>2 DEF VerifyNonPass, Repair, Managed
  <2> QED BY <1>2, <2>1, VerdictType DEF VerifyNonPass, Verdicts
<1>3. CASE CannotRepair
  <2>1. repair' \in Repair
    BY <1>0, <1>3 DEF CannotRepair, Repair
  <2> QED BY <1>3, <2>1 DEF CannotRepair
<1>4. CASE StartRepair \/ AskAgain
  BY <1>4 DEF StartRepair, AskAgain
<1>5. CASE ApplyRepair
  <2> DEFINE d == NextOf(repair.todo)
  <2>1. d \in Devices
    BY <1>0, <1>5 DEF ApplyRepair
  <2>2. PICK o \in SentOutcomes :
          /\ repair' = [repair EXCEPT
                         !.todo = @ \ {d},
                         !.repaired = IF o = "APPLIED" THEN @ \cup {d} ELSE @,
                         !.unrepaired = IF o = "APPLIED" THEN @ ELSE @ \cup {d}]
          /\ Sends(d, o)
    BY <1>5 DEF ApplyRepair
  <2>3. repair' \in Repair
    BY <2>1, <2>2 DEF Repair
  <2>4. sent' \subseteq Devices /\ broken' \subseteq Devices
    BY <2>1, <2>2 DEF Sends
  <2> QED BY <1>5, <2>3, <2>4 DEF ApplyRepair
<1>6. CASE EndUnrepaired \/ Reverify
  BY <1>6 DEF EndUnrepaired, Reverify, EndRun, GiveConsoleBack
<1> QED BY <1>1, <1>2, <1>3, <1>4, <1>5, <1>6 DEF Assurance

LEMMA TypeStep == TypeInv /\ [Next]_vars => TypeInv'
<1> SUFFICES ASSUME TypeInv, [Next]_vars PROVE TypeInv'
  OBVIOUS
<1>1. CASE TypedStop \/ Raise
  BY <1>1 DEF TypedStop, Raise, EndRun, GiveConsoleBack, TypeInv, TypeOK,
              Handling, Steps, Ended, Finals
<1>2. CASE UNCHANGED vars
  BY <1>2 DEF vars, TypeInv, TypeOK, Handling
<1> QED BY <1>1, <1>2, PreparationType, ExecutionType, AssuranceType DEF Next

(* The state of a run is well formed, whatever happens to it.              *)
THEOREM TypeCorrect == Spec => []TypeOK
<1>1. TypeInv => TypeOK
  BY DEF TypeInv
<1> QED BY <1>1, TypeInit, TypeStep, PTL DEF Spec

-----------------------------------------------------------------------------
(* Where a run has to stop.                                                *)

Early   == {"bond", "boot", "family", "discovery", "retry", "elicit",
            "design", "render", "gate"}
Looping == {"loop", "recover", "apply", "dryrun"}
Fixing  == {"repairs", "repair", "reverify"}

(* Before the gate decides, nothing was done to any device.                *)
NothingYet ==
  pc \in Early => /\ gate = NoGate /\ repair = NoRepair /\ sent = {}
                  /\ broken = {} /\ ~approved

(* The steps that change neither the gate nor what was sent.               *)
Quiet ==
  \/ ConfirmBinding \/ OpenConsole \/ IdentifyFamily \/ Discover \/ LeaveRetry
  \/ RetryAccess \/ Elicit \/ Design \/ DesignBlocked \/ Render \/ Deny
  \/ OpenSession \/ Recover \/ Escalate \/ Lose \/ VerifyPass \/ VerifyNonPass
  \/ CannotRepair \/ StartRepair \/ EndUnrepaired \/ AskAgain \/ Reverify
  \/ TypedStop \/ Raise \/ UNCHANGED vars

LEMMA QuietSteps ==
  ASSUME [Next]_vars
  PROVE  \/ Quiet \/ Stage \/ Bond \/ Skip \/ DryRun \/ ApplyChange
         \/ CloseGate \/ ApplyRepair
BY Zenon DEF Next, Preparation, Execution, Assurance, Quiet

LEMMA QuietKeeps ==
  ASSUME Quiet
  PROVE  UNCHANGED <<gate, sent, broken, approved>>
BY DEF Quiet, ConfirmBinding, OpenConsole, IdentifyFamily, Discover,
   LeaveRetry, RetryAccess, Elicit, Design, DesignBlocked, Render, Deny,
   OpenSession, Recover, Escalate, Lose, VerifyPass, VerifyNonPass,
   CannotRepair, StartRepair, EndUnrepaired, AskAgain, Reverify, TypedStop,
   Raise, vars

LEMMA NothingYetStep ==
  ASSUME NothingYet, [Next]_vars PROVE NothingYet'
<1> SUFFICES ASSUME pc' \in Early
             PROVE  pc \in Early /\ UNCHANGED <<gate, repair, sent, broken, approved>>
  BY DEF NothingYet
<1>1. CASE Quiet
  BY <1>1, SMTT(60) DEF Early, Quiet, ConfirmBinding, OpenConsole, IdentifyFamily,
     Discover, LeaveRetry, RetryAccess, Elicit, Design, DesignBlocked, Render,
     Deny, OpenSession, Recover, Escalate, Lose, VerifyPass, VerifyNonPass,
     CannotRepair, StartRepair, EndUnrepaired, AskAgain, Reverify, TypedStop,
     Raise, EndRun, vars
<1>2. CASE Stage \/ Bond \/ Skip \/ DryRun \/ ApplyChange \/ CloseGate
           \/ ApplyRepair
  BY <1>2 DEF Early, Stage, Bond, Skip, DryRun, ApplyChange, CloseGate,
     ApplyRepair, EndRun
<1> QED BY <1>1, <1>2, QuietSteps

(* Devices are handled in order, and an unconfirmed one ends the loop.     *)
OrderInv ==
  /\ \A d \in Devices, e \in gate.todo : gate.outcome[d] # "none" => d < e
  /\ (\E d \in Devices : gate.outcome[d] \in Unconfirmed) => gate.todo = {}
  /\ UnconfirmedStopsTheRun

LEMMA OrderOfNoGate == gate = NoGate => OrderInv
BY DEF OrderInv, NoGate, Unconfirmed, UnconfirmedStopsTheRun

(* Recording an outcome for the least device of those still to handle.     *)
LEMMA OrderOfOutcome ==
  ASSUME TypeInv, OrderInv, gate.todo # {}, NEW o \in Outcomes,
         NEW d, d = NextOf(gate.todo),
         gate'.outcome = [gate.outcome EXCEPT ![d] = o],
         gate'.todo \subseteq gate.todo \ {d},
         o \in Unconfirmed => gate'.todo = {}
  PROVE  OrderInv'
<1>1. /\ gate.todo \subseteq Devices /\ d \in gate.todo /\ d \in Devices
      /\ \A e \in gate.todo : d <= e
  BY NextOfIsLeast DEF TypeInv, TypeOK, Gate
<1>2. gate.outcome \in [Devices -> {"none"} \cup Outcomes]
  BY DEF TypeInv, TypeOK, Gate
<1>3. /\ gate'.outcome[d] = o
      /\ \A e \in Devices \ {d} : gate'.outcome[e] = gate.outcome[e]
  BY <1>1, <1>2
<1>4. Devices \subseteq Nat
  BY DevicesAssumption
<1>5. ASSUME NEW e \in gate.todo \ {d} PROVE d < e
  <2>1. d \in Nat /\ e \in Nat /\ d <= e /\ d # e
    BY <1>1, <1>4
  <2> QED BY ONLY <2>1
<1>6. \A c \in Devices : gate.outcome[c] \notin Unconfirmed
  BY DEF OrderInv
<1>7. \A c \in Devices, e \in gate'.todo : gate'.outcome[c] # "none" => c < e
  BY <1>3, <1>5 DEF OrderInv
<1>8. (\E c \in Devices : gate'.outcome[c] \in Unconfirmed) => gate'.todo = {}
  BY <1>3, <1>6
<1>9. UnconfirmedStopsTheRun'
  <2> SUFFICES ASSUME NEW c \in Devices, NEW e \in Devices,
                      gate'.outcome[c] \in Unconfirmed, c < e
               PROVE  gate'.outcome[e] = "none"
    BY DEF UnconfirmedStopsTheRun
  <2>1. c = d
    BY <1>3, <1>6
  <2>2. e # d /\ ~ (e < d)
    BY <1>4, <2>1
  <2>3. gate.outcome[e] = "none"
    BY <1>1, <2>2 DEF OrderInv
  <2> QED BY <1>3, <2>2, <2>3
<1> QED BY <1>7, <1>8, <1>9 DEF OrderInv

(* What a dry run and a change do to the gate.                             *)
LEMMA DryRunGate ==
  ASSUME TypeInv, DryRun
  PROVE  \E o \in DryOutcomes :
           /\ gate'.outcome = [gate.outcome EXCEPT ![NextOf(gate.todo)] = o]
           /\ gate'.todo = gate.todo \ {NextOf(gate.todo)}
           /\ gate'.skipped = gate.skipped /\ gate'.halted = gate.halted
           /\ gate'.status = gate.status /\ gate'.failed = gate.failed
BY DEF DryRun, TypeInv, TypeOK, Gate

LEMMA ApplyChangeGate ==
  ASSUME TypeInv, ApplyChange
  PROVE  \E o \in SentOutcomes, halt \in BOOLEAN :
           LET d == NextOf(gate.todo) IN
           /\ gate'.outcome = [gate.outcome EXCEPT ![d] = o]
           /\ gate'.todo = IF halt THEN {} ELSE gate.todo \ {d}
           /\ gate'.halted = IF halt THEN gate.halted \cup {d} ELSE gate.halted
           /\ gate'.failed = IF o = "APPLIED" THEN gate.failed
                             ELSE gate.failed \cup {d}
           /\ gate'.skipped = gate.skipped /\ gate'.status = gate.status
           /\ o \in Unconfirmed => halt
           /\ Sends(d, o)
<1> DEFINE d == NextOf(gate.todo)
<1>1. PICK o \in SentOutcomes, nodes \in Applied :
        LET halt == /\ o # "APPLIED"
                    /\ Decide(FailureScenario(d, o, nodes))
                         \in {"HALT", "ISOLATE"}
        IN  /\ gate' = [gate EXCEPT
                         !.outcome = [@ EXCEPT ![d] = o],
                         !.todo   = IF halt THEN {} ELSE @ \ {d},
                         !.failed = IF o = "APPLIED" THEN @ ELSE @ \cup {d},
                         !.halted = IF halt THEN @ \cup {d} ELSE @]
            /\ Sends(d, o)
  BY DEF ApplyChange
<1> DEFINE halt == /\ o # "APPLIED"
                   /\ Decide(FailureScenario(d, o, nodes))
                        \in {"HALT", "ISOLATE"}
<1>2. o \in Unconfirmed => halt
  BY UnconfirmedHalts DEF Unconfirmed
<1>3. halt \in BOOLEAN
  OBVIOUS
<1>4. /\ gate' = [gate EXCEPT
                   !.outcome = [@ EXCEPT ![d] = o],
                   !.todo   = IF halt THEN {} ELSE @ \ {d},
                   !.failed = IF o = "APPLIED" THEN @ ELSE @ \cup {d},
                   !.halted = IF halt THEN @ \cup {d} ELSE @]
      /\ Sends(d, o)
  BY <1>1
<1> HIDE DEF d, halt
<1>5. /\ gate'.outcome = [gate.outcome EXCEPT ![d] = o]
      /\ gate'.todo = IF halt THEN {} ELSE gate.todo \ {d}
      /\ gate'.halted = IF halt THEN gate.halted \cup {d} ELSE gate.halted
      /\ gate'.failed = IF o = "APPLIED" THEN gate.failed
                        ELSE gate.failed \cup {d}
      /\ gate'.skipped = gate.skipped /\ gate'.status = gate.status
  BY <1>4 DEF TypeInv, TypeOK, Gate
<1> QED BY <1>2, <1>3, <1>4, <1>5 DEF d

LEMMA OrderStep ==
  ASSUME TypeInv, NothingYet, OrderInv, [Next]_vars PROVE OrderInv'
<1>1. CASE Quiet
  BY <1>1, QuietKeeps DEF OrderInv, UnconfirmedStopsTheRun
<1>2. CASE Stage \/ CloseGate \/ ApplyRepair
  <2>1. gate'.todo = gate.todo /\ gate'.outcome = gate.outcome
    BY <1>2 DEF Stage, CloseGate, ApplyRepair, TypeInv, TypeOK, Gate
  <2> QED BY <2>1 DEF OrderInv, UnconfirmedStopsTheRun
<1>3. CASE Bond
  <2>1. gate = NoGate
    BY <1>3 DEF Bond, NothingYet, Early
  <2>2. \A d \in Devices : gate'.outcome[d] = "none"
    BY <1>3, <2>1 DEF Bond, NoGate
  <2> QED BY <2>2 DEF OrderInv, UnconfirmedStopsTheRun, Unconfirmed
<1>4. CASE Skip
  <2>1. gate'.todo \subseteq gate.todo /\ gate'.outcome = gate.outcome
    BY <1>4 DEF Skip, TypeInv, TypeOK, Gate
  <2> QED BY <2>1 DEF OrderInv, UnconfirmedStopsTheRun
<1>5. CASE DryRun
  <2>1. gate.todo # {}
    BY <1>5 DEF DryRun, TypeInv, Handling
  <2>2. PICK o \in DryOutcomes :
          /\ gate'.outcome = [gate.outcome EXCEPT ![NextOf(gate.todo)] = o]
          /\ gate'.todo = gate.todo \ {NextOf(gate.todo)}
    BY <1>5, DryRunGate
  <2>3. o \in Outcomes /\ o \notin Unconfirmed
    BY DEF DryOutcomes, Outcomes, Unconfirmed
  <2> QED BY <2>1, <2>2, <2>3, OrderOfOutcome
<1>6. CASE ApplyChange
  <2>1. gate.todo # {}
    BY <1>6 DEF ApplyChange, TypeInv, Handling
  <2>2. PICK o \in SentOutcomes, halt \in BOOLEAN :
          /\ gate'.outcome = [gate.outcome EXCEPT ![NextOf(gate.todo)] = o]
          /\ gate'.todo = IF halt THEN {} ELSE gate.todo \ {NextOf(gate.todo)}
          /\ o \in Unconfirmed => halt
    BY <1>6, ApplyChangeGate
  <2>3. o \in Outcomes
    BY DEF Outcomes
  <2>4. /\ gate'.todo \subseteq gate.todo \ {NextOf(gate.todo)}
        /\ o \in Unconfirmed => gate'.todo = {}
    BY <2>2
  <2> QED BY <2>1, <2>2, <2>3, <2>4, OrderOfOutcome
<1> QED BY <1>1, <1>2, <1>3, <1>4, <1>5, <1>6, QuietSteps

LEMMA OrderInit == Init => NothingYet /\ OrderInv
BY OrderOfNoGate DEF Init, NothingYet

(* After a device the executor could neither restore nor save, the gate    *)
(* configures no other device: FailureOrchestrator's HALT breaks the loop. *)
THEOREM UnconfirmedStops == Spec => []UnconfirmedStopsTheRun
<1>1. OrderInv => UnconfirmedStopsTheRun
  BY DEF OrderInv
<1> DEFINE Inv == TypeInv /\ NothingYet /\ OrderInv
<1>2. Init => Inv
  BY TypeInit, OrderInit
<1>3. Inv /\ [Next]_vars => Inv'
  BY TypeStep, NothingYetStep, OrderStep
<1>4. Inv => UnconfirmedStopsTheRun
  BY <1>1
<1> HIDE DEF Inv
<1> QED BY <1>2, <1>3, <1>4, PTL DEF Spec

-----------------------------------------------------------------------------
(* What may be touched, and what is accounted for.                         *)

LEMMA FixedAfterGate ==
  ASSUME [Next]_vars, pc \notin Early
  PROVE  UNCHANGED <<crawl, renders, execute>>
<1>1. CASE Quiet
  BY <1>1, SMTT(60) DEF Early, Quiet, ConfirmBinding, OpenConsole, IdentifyFamily,
     Discover, LeaveRetry, RetryAccess, Elicit, Design, DesignBlocked, Render,
     Deny, OpenSession, Recover, Escalate, Lose, VerifyPass, VerifyNonPass,
     CannotRepair, StartRepair, EndUnrepaired, AskAgain, Reverify, TypedStop,
     Raise, vars
<1>2. CASE Stage \/ Bond \/ Skip \/ DryRun \/ ApplyChange \/ CloseGate
           \/ ApplyRepair
  BY <1>2 DEF Early, Stage, Bond, Skip, DryRun, ApplyChange, CloseGate,
     ApplyRepair
<1> QED BY <1>1, <1>2, QuietSteps

Collected == {d \in Devices : crawl[d] = "complete"}

(* A device is handled by the gate or by a repair only if discovery        *)
(* collected it and its commands can be gated.                             *)
GatedInv ==
  /\ sent \subseteq Collected
  /\ pc \in {"recover", "apply", "dryrun"} =>
       crawl[NextOf(gate.todo)] = "complete"
  /\ pc = "repair" => crawl[NextOf(repair.todo)] = "complete"

LEMMA GatedStep ==
  ASSUME TypeInv, NothingYet, GatedInv, [Next]_vars PROVE GatedInv'
<1>1. CASE Quiet
  <2>1. sent' = sent /\ gate' = gate
    BY <1>1, QuietKeeps
  <2>2. (sent \subseteq Collected)'
    <3>1. CASE pc \in Early
      BY <2>1, <3>1 DEF NothingYet
    <3>2. CASE pc \notin Early
      BY <2>1, <3>2, FixedAfterGate DEF GatedInv, Collected
    <3> QED BY <3>1, <3>2
  <2>3. /\ pc' \in {"recover", "apply", "dryrun"} =>
             crawl'[NextOf(gate'.todo)] = "complete"
        /\ pc' = "repair" => crawl'[NextOf(repair'.todo)] = "complete"
    BY <1>1, <2>1 DEF GatedInv, Quiet, ConfirmBinding, OpenConsole,
     IdentifyFamily, Discover, LeaveRetry, RetryAccess, Elicit, Design,
     DesignBlocked, Render, Deny, OpenSession, Recover, Escalate, Lose,
     VerifyPass, VerifyNonPass, CannotRepair, StartRepair, EndUnrepaired,
     AskAgain, Reverify, TypedStop, Raise, EndRun, vars
  <2> QED BY <2>2, <2>3 DEF GatedInv
<1>2. CASE Stage \/ Bond \/ Skip \/ DryRun \/ CloseGate
  BY <1>2 DEF Stage, Bond, Skip, DryRun, CloseGate, EndRun, GatedInv, Collected
<1>3. CASE ApplyChange
  <2>1. gate.todo \subseteq Devices /\ gate.todo # {}
    BY <1>3 DEF ApplyChange, TypeInv, TypeOK, Handling, Gate
  <2>2. NextOf(gate.todo) \in Collected
    BY <1>3, <2>1, NextOfIsLeast DEF ApplyChange, GatedInv, Collected
  <2>3. PICK o \in SentOutcomes : Sends(NextOf(gate.todo), o)
    BY <1>3, ApplyChangeGate
  <2>4. crawl' = crawl /\ pc' = "loop"
    BY <1>3 DEF ApplyChange
  <2> QED BY <2>2, <2>3, <2>4 DEF GatedInv, Collected, Sends
<1>4. CASE ApplyRepair
  <2>1. repair.todo \subseteq Devices /\ repair.todo # {}
    BY <1>4 DEF ApplyRepair, TypeInv, TypeOK, Handling, Repair
  <2>2. NextOf(repair.todo) \in Collected
    BY <1>4, <2>1, NextOfIsLeast DEF ApplyRepair, GatedInv, Collected
  <2>3. PICK o \in SentOutcomes : Sends(NextOf(repair.todo), o)
    BY <1>4 DEF ApplyRepair
  <2>4. crawl' = crawl /\ pc' = "repairs"
    BY <1>4 DEF ApplyRepair
  <2> QED BY <2>2, <2>3, <2>4 DEF GatedInv, Collected, Sends
<1> QED BY <1>1, <1>2, <1>3, <1>4, QuietSteps

(* Neither the gate nor a repair sends anything to a device discovery did  *)
(* not collect in full or whose commands no allowlist can gate.            *)
THEOREM OnlyGatedTouched == Spec => []OnlyGatedDevicesTouched
<1> DEFINE Inv == TypeInv /\ NothingYet /\ GatedInv
<1>1. Init => Inv
  BY TypeInit, OrderInit DEF Init, GatedInv
<1>2. Inv /\ [Next]_vars => Inv'
  BY TypeStep, NothingYetStep, GatedStep
<1>3. Inv => OnlyGatedDevicesTouched
  BY DEF GatedInv, OnlyGatedDevicesTouched, Collected
<1> HIDE DEF Inv
<1> QED BY <1>1, <1>2, <1>3, PTL DEF Spec

(* Once the operator approved, a rendered device is handled, skipped, or   *)
(* still to do, unless one before it halted the run.                       *)
AccountedFor(d) == \/ gate.outcome[d] # "none" \/ d \in gate.skipped
                   \/ d \in gate.todo \/ \E h \in gate.halted : h < d

AccountInv ==
  /\ approved => \A d \in Rendered : AccountedFor(d)
  /\ execute /\ gate.status \in {"OK", "INCOMPLETE"} =>
       approved /\ gate.todo = {}
  /\ pc \in Looping => approved

(* A step that takes the least device of those to do, and either records   *)
(* its outcome, or skips it; when it halts the rest is given up.           *)
LEMMA AccountOfTaking ==
  ASSUME TypeInv, AccountInv, NEW d, d = NextOf(gate.todo), gate.todo # {},
         renders' = renders, approved' = approved, execute' = execute,
         pc' = "loop", pc \in Looping, gate'.status = gate.status,
         gate.halted \subseteq gate'.halted,
         gate.skipped \subseteq gate'.skipped,
         gate'.todo = gate.todo \ {d} \/ (gate'.todo = {} /\ d \in gate'.halted),
         \A e \in Devices \ {d} : gate'.outcome[e] = gate.outcome[e],
         d \in gate'.skipped \/ gate'.outcome[d] # "none"
  PROVE  AccountInv'
<1>1. /\ gate.todo \subseteq Devices /\ d \in Devices
      /\ \A e \in gate.todo : d <= e
  BY NextOfIsLeast DEF TypeInv, TypeOK, Gate
<1>2. Rendered' = Rendered /\ Rendered \subseteq Devices
  BY DEF Rendered
<1>3. approved
  BY DEF AccountInv
<1>4. ASSUME NEW e \in Rendered PROVE AccountedFor(e)'
  <2>1. CASE e = d
    BY <2>1 DEF AccountedFor
  <2>2. CASE e # d
    <3>1. AccountedFor(e) /\ e \in Devices
      BY <1>2, <1>3 DEF AccountInv
    <3>2. gate'.outcome[e] = gate.outcome[e]
      BY <2>2, <3>1
    <3>3. e \in gate.todo => d < e
      <4> SUFFICES ASSUME e \in gate.todo PROVE d < e
        OBVIOUS
      <4>1. d \in Nat /\ e \in Nat /\ d <= e /\ d # e
        BY <1>1, <2>2, <3>1, DevicesAssumption
      <4> QED BY ONLY <4>1
    <3> QED BY <2>2, <3>1, <3>2, <3>3 DEF AccountedFor
  <2> QED BY <2>1, <2>2
<1>5. ~ (execute /\ gate.status \in {"OK", "INCOMPLETE"})
  BY DEF AccountInv
<1> QED BY <1>2, <1>3, <1>4, <1>5 DEF AccountInv

LEMMA AccountStep ==
  ASSUME TypeInv, NothingYet, AccountInv, [Next]_vars PROVE AccountInv'
<1>1. CASE Quiet
  <2>1. gate' = gate /\ approved' = approved
    BY <1>1, QuietKeeps
  <2>2. execute' = execute /\ (pc' \in Looping => pc \in Looping)
    BY <1>1 DEF Looping, Quiet, ConfirmBinding, OpenConsole, IdentifyFamily,
     Discover, LeaveRetry, RetryAccess, Elicit, Design, DesignBlocked, Render,
     Deny, OpenSession, Recover, Escalate, Lose, VerifyPass, VerifyNonPass,
     CannotRepair, StartRepair, EndUnrepaired, AskAgain, Reverify, TypedStop,
     Raise, EndRun, vars
  <2>3. approved => Rendered' = Rendered
    BY FixedAfterGate DEF NothingYet, Rendered
  <2> QED BY <2>1, <2>2, <2>3 DEF AccountInv, AccountedFor
<1>2. CASE Stage
  <2>1. /\ ~approved /\ approved' = approved /\ execute' = execute /\ ~execute
        /\ pc' = "done"
    BY <1>2 DEF Stage, EndRun, NothingYet, Early
  <2> QED BY <2>1 DEF AccountInv, Looping
<1>3. CASE Bond
  <2>1. gate = NoGate
    BY <1>3 DEF Bond, NothingYet, Early
  <2>2. gate'.status = "none" /\ gate'.todo = Rendered /\ Rendered' = Rendered
    BY <1>3, <2>1 DEF Bond, NoGate, Rendered
  <2> QED BY <1>3, <2>2 DEF Bond, AccountInv, AccountedFor
<1>4. CASE Skip
  BY <1>4, AccountOfTaking DEF Skip, TypeInv, TypeOK, Gate, Looping
<1>5. CASE DryRun
  <2>1. PICK o \in DryOutcomes :
          /\ gate'.outcome = [gate.outcome EXCEPT ![NextOf(gate.todo)] = o]
          /\ gate'.todo = gate.todo \ {NextOf(gate.todo)}
          /\ gate'.skipped = gate.skipped /\ gate'.halted = gate.halted
          /\ gate'.status = gate.status
    BY <1>5, DryRunGate
  <2>2. gate.todo # {} /\ NextOf(gate.todo) \in Devices
    BY <1>5, NextOfIsLeast DEF DryRun, TypeInv, TypeOK, Handling, Gate
  <2>3. /\ gate'.outcome[NextOf(gate.todo)] = o /\ o # "none"
        /\ \A e \in Devices \ {NextOf(gate.todo)} :
             gate'.outcome[e] = gate.outcome[e]
    BY <2>1, <2>2 DEF TypeInv, TypeOK, Gate, DryOutcomes
  <2> QED BY <1>5, <2>1, <2>2, <2>3, AccountOfTaking DEF DryRun, Looping
<1>6. CASE ApplyChange
  <2>1. PICK o \in SentOutcomes, halt \in BOOLEAN :
          /\ gate'.outcome = [gate.outcome EXCEPT ![NextOf(gate.todo)] = o]
          /\ gate'.todo = IF halt THEN {} ELSE gate.todo \ {NextOf(gate.todo)}
          /\ gate'.halted = IF halt THEN gate.halted \cup {NextOf(gate.todo)}
                            ELSE gate.halted
          /\ gate'.skipped = gate.skipped /\ gate'.status = gate.status
    BY <1>6, ApplyChangeGate
  <2>2. gate.todo # {} /\ NextOf(gate.todo) \in Devices
    BY <1>6, NextOfIsLeast DEF ApplyChange, TypeInv, TypeOK, Handling, Gate
  <2>3. /\ gate'.outcome[NextOf(gate.todo)] = o /\ o # "none"
        /\ \A e \in Devices \ {NextOf(gate.todo)} :
             gate'.outcome[e] = gate.outcome[e]
    BY <2>1, <2>2 DEF TypeInv, TypeOK, Gate, SentOutcomes
  <2>4. /\ gate.halted \subseteq gate'.halted
        /\ \/ gate'.todo = gate.todo \ {NextOf(gate.todo)}
           \/ gate'.todo = {} /\ NextOf(gate.todo) \in gate'.halted
    BY <2>1
  <2> QED BY <1>6, <2>1, <2>2, <2>3, <2>4, AccountOfTaking
          DEF ApplyChange, Looping
<1>7. CASE CloseGate
  <2>1. /\ gate'.todo = {} /\ gate'.outcome = gate.outcome
        /\ gate'.skipped = gate.skipped /\ gate'.halted = gate.halted
        /\ gate.todo = {}
    BY <1>7 DEF CloseGate, TypeInv, TypeOK, Gate
  <2>2. approved' = approved /\ approved /\ renders' = renders /\ pc' = "verify"
    BY <1>7 DEF CloseGate, AccountInv, Looping
  <2> QED BY <2>1, <2>2 DEF AccountInv, AccountedFor, Rendered, Looping
<1>8. CASE ApplyRepair
  BY <1>8 DEF ApplyRepair, AccountInv, AccountedFor, Rendered, Looping
<1> QED BY <1>1, <1>2, <1>3, <1>4, <1>5, <1>6, <1>7, <1>8, QuietSteps

LEMMA AccountInit == Init => AccountInv
BY DEF Init, AccountInv, Looping, NoGate

(* Every rendered device has a record, was skipped with a reason or lies   *)
(* behind a device that halted the run: none drops out of the loop.        *)
THEOREM RendersAccounted == Spec => []EveryRenderAccounted
<1> DEFINE Inv == TypeInv /\ NothingYet /\ AccountInv
<1>1. Init => Inv
  BY TypeInit, OrderInit, AccountInit
<1>2. Inv /\ [Next]_vars => Inv'
  BY TypeStep, NothingYetStep, AccountStep
<1>3. Inv => EveryRenderAccounted
  BY DEF AccountInv, AccountedFor, EveryRenderAccounted
<1> HIDE DEF Inv
<1> QED BY <1>1, <1>2, <1>3, PTL DEF Spec

-----------------------------------------------------------------------------
(* What the verdict may claim.                                             *)

GateBroken == \E d \in Devices : gate.outcome[d] \in Unconfirmed

Earned == /\ \A d \in Managed : gate.outcome[d] = "APPLIED" /\ renders[d] = "full"
          /\ NotProbed = {}

(* The verdict as it stands in each part of the run.                       *)
VerdictInv ==
  /\ pc \in Looping => (broken # {} => GateBroken)
  /\ pc = "verify" => /\ broken # {} => GateBroken
                      /\ GateBroken => final \in Blocked
                      /\ final = "COMPLETE-APPLIED" => Earned
                      /\ final # "COMPLETE-STAGED"
  /\ pc \in Fixing => /\ GateBroken => final \in Blocked
                      /\ final \notin Complete
  /\ BrokenIsLoud /\ CompleteIsEarned

LEMMA Disjoint == Blocked \cap Complete = {} /\ "COMPLETE-APPLIED" \in Complete
BY DEF Blocked, Complete

LEMMA DowngradedIsNot ==
  ASSUME final \in Finals
  PROVE  /\ Downgraded \notin Complete \/ final = "COMPLETE-STAGED"
         /\ final \in Blocked => Downgraded = final
BY DEF Downgraded, Complete, Blocked, Finals

(* What the gate's verdict says of the devices.                            *)
LEMMA GateFinalTells ==
  ASSUME TypeInv, AccountInv, pc = "loop", gate.todo = {}
  PROVE  /\ GateBroken => GateFinal \in Blocked
         /\ GateFinal = "COMPLETE-APPLIED" => Earned
         /\ GateFinal # "COMPLETE-STAGED"
<1>1. GateBroken => "PERSIST_FAILED" \in GateOutcomes
                    \/ "ROLLBACK_FAILED" \in GateOutcomes
  BY DEF GateBroken, Unconfirmed, GateOutcomes
<1>2. GateBroken => GateFinal \in Blocked
  BY <1>1 DEF GateFinal, VerdictOf, Blocked
<1>3. ASSUME GateFinal = "COMPLETE-APPLIED" PROVE Earned
  <2>1. GateOutcomes = {"APPLIED"} /\ IncompleteDevices = {}
    BY <1>3 DEF GateFinal, VerdictOf
  <2>2. /\ Managed \subseteq Rendered /\ NotProbed = {} /\ Partial = {}
        /\ gate.skipped = {} /\ gate.halted = {}
    BY <2>1 DEF IncompleteDevices, Unconfigured
  <2>3. ASSUME NEW d \in Managed
        PROVE  gate.outcome[d] = "APPLIED" /\ renders[d] = "full"
    <3>1. d \in Devices /\ d \in Rendered /\ approved
      BY <2>2 DEF Managed, AccountInv, Looping
    <3>2. AccountedFor(d)
      BY <3>1 DEF AccountInv
    <3>3. gate.outcome[d] # "none"
      BY <2>2, <3>2 DEF AccountedFor
    <3>4. gate.outcome[d] \in GateOutcomes
      BY <3>1, <3>3 DEF GateOutcomes
    <3>5. renders[d] \in Rendering /\ renders[d] # "none" /\ renders[d] # "partial"
      BY <2>2, <3>1 DEF TypeInv, TypeOK, Rendered, Partial
    <3> QED BY <2>1, <3>4, <3>5 DEF Rendering
  <2> QED BY <2>2, <2>3 DEF Earned
<1>4. GateFinal # "COMPLETE-STAGED"
  BY DEF GateFinal, VerdictOf
<1> QED BY <1>2, <1>3, <1>4

LEMMA UnbrokenGate == gate = NoGate => ~GateBroken
BY DEF NoGate, GateBroken, Unconfirmed

LEMMA VerdictStep ==
  ASSUME TypeInv, NothingYet, OrderInv, AccountInv, VerdictInv, [Next]_vars
  PROVE  VerdictInv'
<1> USE DEF VerdictInv
<1>1. CASE ConfirmBinding \/ OpenConsole \/ IdentifyFamily \/ Discover
           \/ LeaveRetry \/ RetryAccess \/ Elicit \/ Design \/ Render
  <2>1. pc' \in Early
    BY <1>1 DEF Early, ConfirmBinding, OpenConsole, IdentifyFamily, Discover,
                LeaveRetry, RetryAccess, Elicit, Design, Render
  <2> QED BY <2>1 DEF Early, Looping, Fixing, BrokenIsLoud, CompleteIsEarned
<1>2. CASE Stage \/ DesignBlocked
  <2>1. /\ pc' = "done" /\ broken' = broken /\ broken = {} /\ gate = NoGate
        /\ final' \in {"INCOMPLETE-STAGED", "COMPLETE-STAGED", "BLOCKED-DESIGN"}
    BY <1>2 DEF Stage, DesignBlocked, EndRun, NothingYet, Early
  <2>2. ~GateBroken'
    <3>1. gate'.outcome = gate.outcome
      BY <1>2 DEF Stage, DesignBlocked, TypeInv, TypeOK, Gate
    <3> QED BY <2>1, <3>1, UnbrokenGate DEF GateBroken
  <2> QED BY <2>1, <2>2 DEF Looping, Fixing, BrokenIsLoud, CompleteIsEarned,
                            GateBroken
<1>3. CASE Deny
  <2>1. /\ pc' = "verify" /\ final' = "BLOCKED-DENIED" /\ broken' = broken
        /\ broken = {} /\ gate = NoGate /\ gate' = gate
    BY <1>3 DEF Deny, NothingYet, Early
  <2> QED BY <2>1, UnbrokenGate DEF Looping, Fixing, BrokenIsLoud,
                                    CompleteIsEarned, GateBroken, Blocked
<1>4. CASE Bond
  <2>1. pc' = "loop" /\ broken' = {}
    BY <1>4 DEF Bond, NothingYet, Early
  <2> QED BY <2>1 DEF Looping, Fixing, BrokenIsLoud, CompleteIsEarned
<1>5. CASE Skip \/ OpenSession \/ Recover \/ Escalate \/ Lose
  <2>1. /\ pc' \in Looping /\ pc \in Looping /\ broken' = broken
        /\ gate'.outcome = gate.outcome
    BY <1>5 DEF Skip, OpenSession, Recover, Escalate, Lose, Looping, TypeInv,
                TypeOK, Gate
  <2> QED BY <2>1 DEF Looping, Fixing, BrokenIsLoud, CompleteIsEarned, GateBroken
<1>6. CASE DryRun
  <2>1. /\ pc' = "loop" /\ pc \in Looping /\ broken' = broken
        /\ gate.todo # {}
    BY <1>6 DEF DryRun, Looping, TypeInv, Handling
  <2>2. broken = {}
    BY <2>1 DEF OrderInv, GateBroken
  <2> QED BY <2>1, <2>2 DEF Looping, Fixing, BrokenIsLoud, CompleteIsEarned
<1>7. CASE ApplyChange
  <2>1. pc' = "loop" /\ pc \in Looping /\ gate.todo # {}
    BY <1>7 DEF ApplyChange, Looping, TypeInv, Handling
  <2>2. broken = {}
    BY <2>1 DEF OrderInv, GateBroken
  <2>3. PICK o \in SentOutcomes :
          /\ gate'.outcome = [gate.outcome EXCEPT ![NextOf(gate.todo)] = o]
          /\ Sends(NextOf(gate.todo), o)
    BY <1>7, ApplyChangeGate
  <2>4. NextOf(gate.todo) \in Devices
    BY <2>1, NextOfIsLeast DEF TypeInv, TypeOK, Gate
  <2>5. gate'.outcome[NextOf(gate.todo)] = o
    BY <2>3, <2>4 DEF TypeInv, TypeOK, Gate
  <2>6. broken' # {} => GateBroken'
    BY <2>2, <2>3, <2>4, <2>5 DEF Sends, GateBroken
  <2> QED BY <2>1, <2>6 DEF Looping, Fixing, BrokenIsLoud, CompleteIsEarned
<1>8. CASE CloseGate
  <2>1. /\ pc = "loop" /\ pc' = "verify" /\ gate.todo = {} /\ final' = GateFinal
        /\ broken' = broken /\ gate'.outcome = gate.outcome
        /\ crawl' = crawl /\ renders' = renders
    BY <1>8 DEF CloseGate, TypeInv, TypeOK, Gate
  <2>2. GateBroken' = GateBroken /\ Earned' = Earned
    BY <2>1 DEF GateBroken, Earned, Managed, NotProbed
  <2>3. broken # {} => GateBroken
    BY <2>1 DEF Looping
  <2> QED BY <2>1, <2>2, <2>3, GateFinalTells
          DEF Looping, Fixing, BrokenIsLoud, CompleteIsEarned
<1>9. CASE VerifyPass
  <2>1. /\ pc = "verify" /\ pc' = "done" /\ final' = final /\ broken' = broken
        /\ gate' = gate /\ crawl' = crawl /\ renders' = renders
        /\ verdict' = "PASS"
    BY <1>9 DEF VerifyPass, EndRun
  <2>2. GateBroken' = GateBroken /\ Earned' = Earned
    BY <2>1 DEF GateBroken, Earned, Managed, NotProbed
  <2>3. BrokenIsLoud'
    BY <2>1, <2>2, Disjoint DEF BrokenIsLoud, GateBroken
  <2>4. CompleteIsEarned'
    BY <2>1, <2>2 DEF CompleteIsEarned, Earned
  <2> QED BY <2>1, <2>3, <2>4 DEF Looping, Fixing
<1>10. CASE VerifyNonPass
  <2>1. /\ pc = "verify" /\ pc' = "repairs" /\ final' = Downgraded
        /\ gate' = gate /\ final \in Finals
    BY <1>10 DEF VerifyNonPass, TypeInv, TypeOK
  <2>2. final # "COMPLETE-STAGED"
    BY <2>1 DEF VerdictInv
  <2> QED BY <2>1, <2>2, DowngradedIsNot
          DEF Looping, Fixing, BrokenIsLoud, CompleteIsEarned, GateBroken
<1>11. CASE CannotRepair \/ StartRepair \/ ApplyRepair \/ AskAgain
  <2>1. pc \in Fixing /\ pc' \in Fixing /\ final' = final /\ gate' = gate
    BY <1>11 DEF CannotRepair, StartRepair, ApplyRepair, AskAgain, Fixing
  <2> QED BY <2>1 DEF Looping, Fixing, BrokenIsLoud, CompleteIsEarned, GateBroken
<1>12. CASE EndUnrepaired \/ Reverify
  <2>1. pc \in Fixing /\ pc' = "done" /\ final' = final /\ gate' = gate
    BY <1>12 DEF EndUnrepaired, Reverify, EndRun, Fixing
  <2> QED BY <2>1, Disjoint DEF Looping, Fixing, BrokenIsLoud, CompleteIsEarned,
                            GateBroken
<1>13. CASE TypedStop
  <2>1. pc' = "done" /\ final' = "BLOCKED-FAILURE"
    BY <1>13 DEF TypedStop, EndRun
  <2> QED BY <2>1 DEF Looping, Fixing, BrokenIsLoud, CompleteIsEarned, Blocked,
                      Complete
<1>14. CASE Raise
  BY <1>14 DEF Raise, Looping, Fixing, BrokenIsLoud, CompleteIsEarned
<1>15. CASE UNCHANGED vars
  BY <1>15 DEF vars, Looping, Fixing, BrokenIsLoud, CompleteIsEarned, GateBroken,
               Earned, Managed, NotProbed
<1> QED
  BY <1>1, <1>2, <1>3, <1>4, <1>5, <1>6, <1>7, <1>8, <1>9, <1>10, <1>11, <1>12,
     <1>13, <1>14, <1>15, QuietSteps DEF Quiet

LEMMA VerdictInit == Init => VerdictInv
BY DEF Init, VerdictInv, Looping, Fixing, BrokenIsLoud, CompleteIsEarned

(* COMPLETE-APPLIED is earned by every managed device, and a run that left *)
(* a device unrestored or unsaved is BLOCKED or at least not COMPLETE.     *)
THEOREM VerdictIsEarned == Spec => [](CompleteIsEarned /\ BrokenIsLoud)
<1> DEFINE Inv == /\ TypeInv /\ NothingYet /\ OrderInv /\ AccountInv
                  /\ VerdictInv
<1>1. Init => Inv
  BY TypeInit, OrderInit, AccountInit, VerdictInit
<1>2. Inv /\ [Next]_vars => Inv'
  BY TypeStep, NothingYetStep, OrderStep, AccountStep, VerdictStep
<1>3. Inv => CompleteIsEarned /\ BrokenIsLoud
  BY DEF VerdictInv
<1> HIDE DEF Inv
<1> QED BY <1>1, <1>2, <1>3, PTL DEF Spec

(* A device the sequential apply left unconfirmed or unrestored makes the  *)
(* run BLOCKED, whatever verification and repair do after it (the verdict  *)
(* at the end of run()).                                                   *)
THEOREM BrokenIsHeard == Spec => []BrokenIsLoud
<1>1. CompleteIsEarned /\ BrokenIsLoud => BrokenIsLoud
  OBVIOUS
<1> QED BY <1>1, VerdictIsEarned, PTL

-----------------------------------------------------------------------------
(* Repairs.                                                                *)

RepairInv ==
  repair.repaired # {} => \/ pc \in Fixing \cup {"raised"}
                          \/ pc = "done" /\ again # "none"

LEMMA RepairStep ==
  ASSUME TypeInv, RepairInv, [Next]_vars PROVE RepairInv'
<1>1. CASE Preparation \/ Execution \/ TypedStop \/ Raise \/ UNCHANGED vars
  <2>1. CASE Preparation
    BY <2>1, SMTT(60) DEF RepairInv, Fixing, Preparation, ConfirmBinding, OpenConsole,
       IdentifyFamily, Discover, LeaveRetry, RetryAccess, Elicit, Design,
       DesignBlocked, Render, EndRun
  <2>2. CASE Execution
    BY <2>2 DEF RepairInv, Fixing, Execution, Stage, Deny, Bond, Skip,
       OpenSession, Recover, Escalate, Lose, DryRun, ApplyChange, CloseGate,
       EndRun
  <2>3. CASE TypedStop \/ Raise \/ UNCHANGED vars
    BY <2>3 DEF RepairInv, Fixing, TypedStop, Raise, EndRun, vars, Steps
  <2> QED BY <1>1, <2>1, <2>2, <2>3
<1>2. CASE VerifyPass
  BY <1>2 DEF VerifyPass, EndRun, RepairInv, Fixing
<1>3. CASE VerifyNonPass \/ CannotRepair \/ StartRepair \/ AskAgain \/ ApplyRepair
  BY <1>3 DEF VerifyNonPass, CannotRepair, StartRepair, AskAgain, ApplyRepair,
     RepairInv, Fixing
<1>4. CASE EndUnrepaired
  BY <1>4 DEF EndUnrepaired, NothingRepaired, EndRun, RepairInv
<1>5. CASE Reverify
  BY <1>5 DEF Reverify, EndRun, RepairInv
<1> QED BY <1>1, <1>2, <1>3, <1>4, <1>5 DEF Next, Assurance

(* A run that repaired something ends with a verdict taken after it.       *)
THEOREM RepairsReverified == Spec => []RepairIsReverified
<1> DEFINE Inv == TypeInv /\ RepairInv
<1>1. Init => Inv
  BY TypeInit DEF Init, RepairInv, NoRepair
<1>2. Inv /\ [Next]_vars => Inv'
  BY TypeStep, RepairStep
<1>3. Inv => RepairIsReverified
  BY DEF RepairInv, RepairIsReverified, Fixing
<1> HIDE DEF Inv
<1> QED BY <1>1, <1>2, <1>3, PTL DEF Spec
=============================================================================
