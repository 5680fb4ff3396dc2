------------------------ MODULE ChangeLifecycleProofs -----------------------
(***************************************************************************)
(* ChangeLifecycle for every change and site: its types, and the three     *)
(* properties of its run.  A step of the lifecycle moves one machine along *)
(* one row of its table or moves none (FireMoves); what each property      *)
(* needs of the tables is stated once, and each action is then a case.     *)
(***************************************************************************)
EXTENDS ChangeLifecycle, TLAPS

Machines == {"change", "rollback", "recovery"}

AtType == [change : StatesOf(ChangeRows), rollback : StatesOf(RollbackRows),
           recovery : StatesOf(RecoveryRows)]

(* The inductive invariant. *)
IInv ==
    /\ TypeOK
    /\ AuthorizedIsEarned
    /\ RollbackBehindChange
    /\ DestructiveIsDecided

----------------------------------------------------------------------------
(* The tables. *)

LEMMA LevelNames ==
    /\ Level(0) = "ESCALATING_L0" /\ Level(1) = "ESCALATING_L1"
    /\ Level(2) = "ESCALATING_L2" /\ Level(3) = "ESCALATING_L3"
    /\ Level(4) = "ESCALATING_L4" /\ Level(5) = "ESCALATING_L5"
    /\ Level(6) = "ESCALATING_L6" /\ Level(7) = "ESCALATING_L7"
BY DEF Level, Ladder

(* A row keeps a machine in the states of its table. *)
LEMMA RowStates ==
    ASSUME NEW rows, NEW a, NEW b, <<a, b>> \in rows
    PROVE  a \in StatesOf(rows) /\ b \in StatesOf(rows)
<1>1. <<a, b>>[1] = a /\ <<a, b>>[2] = b
    OBVIOUS
<1>. QED
    BY <1>1 DEF StatesOf

(* The armed states are entered from AUTHORIZED by ARMED, or from another. *)
LEMMA IntoArmed ==
    ASSUME NEW a, NEW b, <<a, b>> \in ChangeRows, b \in ArmedOn
    PROVE  /\ a \in {"AUTHORIZED"} \cup ArmedOn
           /\ a \notin ArmedOn => b = "ARMED"
           /\ a \notin {"ROLLED_BACK", "RECOVERING"}
BY DEF ChangeRows, ArmedOn

LEMMA IntoAuthorized ==
    ASSUME NEW a, NEW b, <<a, b>> \in ChangeRows
    PROVE  /\ b = "AUTHORIZED" => a = "RISK_ASSESSED"
           /\ a \notin {"ROLLED_BACK", "RECOVERING"}
BY DEF ChangeRows

Unready == {"INIT", "NOT_SUPPORTED", "NOT_CONFIGURED", "NOT_READY"}

(* A ready rollback does not become unready, and an ended one stays. *)
LEMMA ReadyStays ==
    ASSUME NEW a, NEW b, <<a, b>> \in RollbackRows
    PROVE  /\ a \notin Unready => b \notin Unready
           /\ a \notin {"ROLLBACK_SUCCEEDED", "ROLLBACK_FAILED"}
BY DEF RollbackRows, Unready

Destructive == {"ESCALATING_L5", "ESCALATING_L6", "ESCALATING_L7",
                "HUMAN_REQUIRED"}

(* The destructive tier is entered at level 5. *)
LEMMA IntoDestructiveTier ==
    ASSUME NEW a, NEW b, <<a, b>> \in RecoveryRows, b \in Destructive,
           b # "ESCALATING_L5"
    PROVE  a \in Destructive
<1>. USE LevelNames DEF Destructive
<1>1. CASE <<a, b>> \in {<<"NOT_NEEDED", Level(0)>>, <<"HUMAN_REQUIRED", "RECOVERED">>}
    BY <1>1
<1>2. CASE \E n \in 0..6 : <<a, b>> = <<Level(n), Level(n + 1)>>
    <2>1. PICK n \in 0..6 : a = Level(n) /\ b = Level(n + 1)
        BY <1>2
    <2>2. n \in {0, 1, 2, 3, 4, 5, 6}
        OBVIOUS
    <2>3. n + 1 \in {1, 2, 3, 4, 5, 6, 7}
        OBVIOUS
    <2>4. n = 5 \/ n = 6
        <3>1. n = 0 => b = Level(1)  BY <2>1
        <3>2. n = 1 => b = Level(2)  BY <2>1
        <3>3. n = 2 => b = Level(3)  BY <2>1
        <3>4. n = 3 => b = Level(4)  BY <2>1
        <3>5. n = 4 => b = Level(5)  BY <2>1
        <3>. QED  BY <2>2, <3>1, <3>2, <3>3, <3>4, <3>5
    <2>. QED
        BY <2>1, <2>4
<1>3. CASE \E n \in 0..7 : <<a, b>> \in {<<Level(n), "RECOVERED">>, <<Level(n), "LOST">>}
    BY <1>3
<1>4. CASE \E n \in {6, 7} : <<a, b>> = <<Level(n), "HUMAN_REQUIRED">>
    BY <1>4
<1>. QED
    BY <1>1, <1>2, <1>3, <1>4 DEF RecoveryRows

----------------------------------------------------------------------------
(* One call of fire. *)

(* It moves its machine along a row whose guard holds, or nothing. *)
LEMMA FireMoves ==
    ASSUME at \in AtType, NEW machine \in Machines, NEW to, NEW evidence, NEW next,
           Fire(machine, to, evidence, next)
    PROVE  \/ /\ at' = at
              /\ call' = "none"
           \/ /\ at' = [at EXCEPT ![machine] = to]
              /\ <<at[machine], to>> \in RowsOf(machine)
              /\ Guard(machine, to, evidence)
              /\ call' \in {next, "none"}
BY DEF Fire, Legal

(* For each of the machines. *)
LEMMA ChangeFires ==
    ASSUME at \in AtType, NEW to, NEW evidence, NEW next,
           Fire("change", to, evidence, next)
    PROVE  /\ at' \in AtType
           /\ at'.rollback = at.rollback /\ at'.recovery = at.recovery
           /\ \/ at' = at /\ call' = "none"
              \/ /\ <<at.change, to>> \in ChangeRows
                 /\ at'.change = to
                 /\ ChangeGuard(to, evidence)
                 /\ call' \in {next, "none"}
<1>. DEFINE guard == ChangeGuard(to, evidence)
<1>1. RowsOf("change") = ChangeRows /\ (Guard("change", to, evidence) <=> guard)
    BY DEF RowsOf, Guard
<1>. HIDE DEF guard
<1>2. CASE at' = at /\ call' = "none"
    BY <1>2
<1>3. CASE /\ at' = [at EXCEPT !.change = to]
           /\ <<at.change, to>> \in ChangeRows
           /\ guard
           /\ call' \in {next, "none"}
    <2>1. to \in StatesOf(ChangeRows)
        BY <1>3, RowStates
    <2>. QED
        BY <1>3, <2>1 DEF AtType, guard
<1>. QED
    BY <1>1, <1>2, <1>3, FireMoves DEF Machines

LEMMA RollbackFires ==
    ASSUME at \in AtType, NEW to, NEW evidence, NEW next,
           Fire("rollback", to, evidence, next)
    PROVE  /\ at' \in AtType
           /\ at'.change = at.change /\ at'.recovery = at.recovery
           /\ \/ at' = at /\ call' = "none"
              \/ /\ <<at.rollback, to>> \in RollbackRows
                 /\ at'.rollback = to
                 /\ call' \in {next, "none"}
<1>1. RowsOf("rollback") = RollbackRows
    BY DEF RowsOf
<1>2. CASE at' = at /\ call' = "none"
    BY <1>2
<1>3. CASE /\ at' = [at EXCEPT !.rollback = to]
           /\ <<at.rollback, to>> \in RollbackRows
           /\ call' \in {next, "none"}
    <2>1. to \in StatesOf(RollbackRows)
        BY <1>3, RowStates
    <2>. QED
        BY <1>3, <2>1 DEF AtType
<1>. QED
    BY <1>1, <1>2, <1>3, FireMoves DEF Machines

LEMMA RecoveryFires ==
    ASSUME at \in AtType, NEW to, NEW evidence, NEW next,
           Fire("recovery", to, evidence, next)
    PROVE  /\ at' \in AtType
           /\ at'.change = at.change /\ at'.rollback = at.rollback
           /\ \/ at' = at /\ call' = "none"
              \/ /\ <<at.recovery, to>> \in RecoveryRows
                 /\ at'.recovery = to
                 /\ call' \in {next, "none"}
<1>1. RowsOf("recovery") = RecoveryRows
    BY DEF RowsOf
<1>2. CASE at' = at /\ call' = "none"
    BY <1>2
<1>3. CASE /\ at' = [at EXCEPT !.recovery = to]
           /\ <<at.recovery, to>> \in RecoveryRows
           /\ call' \in {next, "none"}
    <2>1. to \in StatesOf(RecoveryRows)
        BY <1>3, RowStates
    <2>. QED
        BY <1>3, <2>1 DEF AtType
<1>. QED
    BY <1>1, <1>2, <1>3, FireMoves DEF Machines

LEMMA FireCounts ==
    ASSUME bypassed \in BOOLEAN, NEW machine, NEW to, NEW evidence, NEW next,
           Fire(machine, to, evidence, next)
    PROVE  bypassed' \in BOOLEAN
BY DEF Fire

----------------------------------------------------------------------------
(* What a call of fire leaves of the properties. *)

Others == AuthorizedIsEarned /\ RollbackBehindChange
              /\ DestructiveIsDecided

(* What the authority has to see. *)
Earned(g) ==
    /\ g.ready
    /\ given.modeled
    /\ given.riskKnown
    /\ given.gate # "LOW_RISK" => g.approval = "identity and mfa"
    /\ ~given.controlled => g.approval # "none"

LEMMA RollbackStep ==
    ASSUME at \in AtType, Others, NEW to, NEW evidence, NEW next,
           Fire("rollback", to, evidence, next), UNCHANGED <<given, granted, decided>>
    PROVE  Others'
<1>1. /\ at'.change = at.change
      /\ at'.recovery = at.recovery
      /\ \/ at'.rollback = at.rollback
         \/ <<at.rollback, to>> \in RollbackRows /\ at'.rollback = to
    BY RollbackFires
<1>2. /\ at.rollback \notin Unready => at'.rollback \notin Unready
      /\ at.rollback \in {"ROLLBACK_SUCCEEDED", "ROLLBACK_FAILED"} =>
            at'.rollback = at.rollback
    BY <1>1, ReadyStays
<1>4. AuthorizedIsEarned'
    BY <1>1 DEF Others, AuthorizedIsEarned, ArmedOn
<1>5. RollbackBehindChange'
    BY <1>1, <1>2 DEF Others, RollbackBehindChange, Unready, ArmedOn
<1>6. DestructiveIsDecided'
    BY <1>1 DEF Others, DestructiveIsDecided, Level, Ladder
<1>. QED
    BY <1>4, <1>5, <1>6 DEF Others

LEMMA RecoveryStep ==
    ASSUME at \in AtType, Others, NEW to, NEW evidence, NEW next,
           Fire("recovery", to, evidence, next), UNCHANGED <<given, granted>>,
           decided => decided', to = "ESCALATING_L5" => decided'
    PROVE  Others'
<1>1. /\ at'.change = at.change
      /\ at'.rollback = at.rollback
      /\ \/ at'.recovery = at.recovery
         \/ <<at.recovery, to>> \in RecoveryRows /\ at'.recovery = to
    BY RecoveryFires
<1>4. AuthorizedIsEarned'
    BY <1>1 DEF Others, AuthorizedIsEarned, ArmedOn
<1>5. RollbackBehindChange'
    BY <1>1 DEF Others, RollbackBehindChange, ArmedOn
<1>6. DestructiveIsDecided'
    <2>1. at.recovery \in Destructive => decided
        BY LevelNames DEF Others, DestructiveIsDecided, Destructive
    <2>2. at'.recovery \in Destructive => decided'
        BY <1>1, <2>1, IntoDestructiveTier
    <2>. QED
        BY <2>2, LevelNames DEF DestructiveIsDecided, Destructive, Level, Ladder
<1>. QED
    BY <1>4, <1>5, <1>6 DEF Others

LEMMA ChangeStep ==
    ASSUME at \in AtType, Others, NEW to, NEW evidence, NEW next,
           Fire("change", to, evidence, next), UNCHANGED <<given, decided>>,
           granted' = granted \/ at.change = "RISK_ASSESSED",
           to = "AUTHORIZED" => Earned(granted'),
           to = "ARMED" => at.rollback \notin Unready,
           to = "ROLLED_BACK" => at.rollback = "ROLLBACK_SUCCEEDED",
           to = "RECOVERING" => at.rollback = "ROLLBACK_FAILED"
    PROVE  Others'
<1>1. /\ at'.rollback = at.rollback
      /\ at'.recovery = at.recovery
      /\ \/ at' = at /\ call' = "none"
         \/ /\ <<at.change, to>> \in ChangeRows
            /\ at'.change = to
            /\ call' \in {next, "none"}
    BY ChangeFires
<1>4. AuthorizedIsEarned'
    <2>1. at.change \in {"AUTHORIZED"} \cup ArmedOn => Earned(granted)
        BY DEF Others, AuthorizedIsEarned, Earned
    <2>2. "RISK_ASSESSED" \notin {"AUTHORIZED"} \cup ArmedOn
        BY DEF ArmedOn
    <2>3. at'.change \in {"AUTHORIZED"} \cup ArmedOn => Earned(granted')
        <3>1. CASE at' = at
            BY <3>1, <2>1, <2>2
        <3>2. CASE <<at.change, to>> \in ChangeRows /\ at'.change = to
            BY <3>2, <2>1, <2>2, IntoArmed
        <3>. QED
            BY <1>1, <3>1, <3>2
    <2>. QED
        BY <2>3 DEF AuthorizedIsEarned, Earned, ArmedOn
<1>5. RollbackBehindChange'
    <2>1. CASE at' = at
        BY <2>1 DEF Others, RollbackBehindChange, ArmedOn
    <2>2. CASE <<at.change, to>> \in ChangeRows /\ at'.change = to
        <3>1. at'.change \in ArmedOn => at.rollback \notin Unready
            BY <2>2, IntoArmed DEF Others, RollbackBehindChange, Unready
        <3>. QED
            BY <1>1, <2>2, <3>1 DEF RollbackBehindChange, Unready, ArmedOn
    <2>. QED
        BY <1>1, <2>1, <2>2
<1>6. DestructiveIsDecided'
    BY <1>1 DEF Others, DestructiveIsDecided, Level, Ladder
<1>. QED
    BY <1>4, <1>5, <1>6 DEF Others

----------------------------------------------------------------------------
(* What the two engines and the deployer make sure of. *)

(* A change that prepare does not refuse has earned its authorisation. *)
LEMMA DecisionEarns ==
    ASSUME TypeOK, ~Refused(Decide(asked.approval))
    PROVE  Earned(asked)
<1>. USE DEF TypeOK, Approvals, Gates, HumanOnlyGates
<1>1. given.gate \in Gates
    BY GivensAssumption
<1>2. CASE ~given.riskKnown \/ ~given.modeled
    BY <1>2 DEF Refused, Decide, Verdict
<1>3. CASE given.riskKnown /\ given.modeled /\ given.gate \in HumanOnlyGates
    BY <1>3 DEF Refused, Decide, Verdict, Earned
<1>4. CASE given.riskKnown /\ given.modeled /\ given.gate = "HIGH_RISK"
    BY <1>4 DEF Refused, Decide, Verdict, Earned
<1>5. CASE given.riskKnown /\ given.modeled /\ given.gate = "LOW_RISK"
    BY <1>5 DEF Refused, Decide, Verdict, Earned
<1>. QED
    BY <1>1, <1>2, <1>3, <1>4, <1>5

(* The deployer shows guards of FSM-2 only what FSM-3 says. *)
LEMMA FactsAreTrue ==
    ASSUME NEW to, ChangeGuard(to, Facts)
    PROVE  /\ to = "ARMED" => at.rollback = "READY"
           /\ to = "ROLLED_BACK" => at.rollback = "ROLLBACK_SUCCEEDED"
           /\ to = "RECOVERING" => at.rollback = "ROLLBACK_FAILED"
<1>1. "rollback:READY" \in Facts => at.rollback = "READY"
    BY DEF Facts
<1>2. "rollback:SUCCEEDED" \in Facts => at.rollback = "ROLLBACK_SUCCEEDED"
    BY DEF Facts
<1>3. "rollback:FAILED" \in Facts => at.rollback = "ROLLBACK_FAILED"
    BY DEF Facts
<1>4. to = "ARMED" => "rollback:READY" \in Facts
    BY DEF ChangeGuard, ArmKinds, Level
<1>5. to = "ROLLED_BACK" => "rollback:SUCCEEDED" \in Facts
    BY DEF ChangeGuard
<1>6. to = "RECOVERING" => "rollback:FAILED" \in Facts
    BY DEF ChangeGuard
<1>. QED
    BY <1>1, <1>2, <1>3, <1>4, <1>5, <1>6

----------------------------------------------------------------------------
(* The invariant. *)

THEOREM InitHolds == Init => IInv
<1>. SUFFICES ASSUME Init PROVE IInv
    OBVIOUS
<1>1. /\ <<"DRAFT", "VALIDATED">> \in ChangeRows
      /\ <<"INIT", "NOT_SUPPORTED">> \in RollbackRows
      /\ <<"NOT_NEEDED", Level(0)>> \in RecoveryRows
    BY DEF ChangeRows, RollbackRows, RecoveryRows
<1>2. at \in [change : StatesOf(ChangeRows), rollback : StatesOf(RollbackRows),
              recovery : StatesOf(RecoveryRows)]
    BY <1>1, RowStates DEF Init
<1>3. TypeOK
    BY <1>2 DEF Init, TypeOK, StageOK, Artifacts, Approvals
<1>4. AuthorizedIsEarned /\ RollbackBehindChange
    BY DEF Init, AuthorizedIsEarned, ArmedOn, RollbackBehindChange
<1>5. DestructiveIsDecided
    BY LevelNames DEF Init, DestructiveIsDecided
<1>. QED
    BY <1>3, <1>4, <1>5 DEF IInv

LEMMA OthersHold == IInv => at \in AtType /\ Others
BY DEF IInv, Others, TypeOK, AtType

(* A call goes on only after the transition before its next stage. *)
LEMMA StageStep == IInv /\ [Next]_vars => StageOK'
<1>. SUFFICES ASSUME IInv, [Next]_vars, call' # "none" PROVE StageOK'
    BY DEF StageOK
<1>. USE OthersHold
<1>1. CASE Prepare
    <2>1. PICK evidence : Fire("change", "VALIDATED", evidence, "dag")
        BY <1>1 DEF Prepare
    <2>2. at'.change = "VALIDATED" /\ call' = "dag"
        BY <2>1, ChangeFires
    <2>. QED
        BY <2>2 DEF StageOK
<1>2. CASE BuildDag
    <2>1. PICK evidence : Fire("change", "PLANNED", evidence, "blast")
        BY <1>2 DEF BuildDag
    <2>2. at'.change = "PLANNED" /\ call' = "blast"
        BY <2>1, ChangeFires
    <2>. QED
        BY <2>2 DEF StageOK
<1>3. CASE MeasureBlast
    <2>1. PICK evidence : Fire("change", "RISK_ASSESSED", evidence, "authority")
        BY <1>3 DEF MeasureBlast
    <2>2. at'.change = "RISK_ASSESSED" /\ call' = "authority"
        BY <2>1, ChangeFires
    <2>. QED
        BY <2>2 DEF StageOK
<1>4. CASE Configure
    <2>1. PICK evidence : Fire("rollback", "NOT_CONFIGURED", evidence, "content")
        BY <1>4, RollbackFires DEF Configure
    <2>2. at'.rollback = "NOT_CONFIGURED" /\ call' = "content"
        BY <2>1, RollbackFires
    <2>. QED
        BY <2>2 DEF StageOK
<1>5. CASE LookAtContent
    <2>1. PICK evidence : Fire("rollback", "NOT_READY", evidence, "preconditions")
        BY <1>5 DEF LookAtContent
    <2>2. at'.rollback = "NOT_READY" /\ call' = "preconditions"
        BY <2>1, RollbackFires
    <2>. QED
        BY <2>2 DEF StageOK
<1>6. CASE UNCHANGED vars
    BY <1>6 DEF vars, IInv, TypeOK, StageOK
<1>7. CASE Authorize \/ Veto \/ Deploy
    BY <1>7, ChangeFires DEF Authorize, Veto, Deploy
<1>8. CASE \/ CheckPreconditions \/ ArmRollback \/ ConfirmRollback
           \/ TriggerRollback \/ CompleteRollback \/ LoseRollback
    BY <1>8, RollbackFires DEF CheckPreconditions, ArmRollback, ConfirmRollback,
       TriggerRollback, CompleteRollback, LoseRollback
<1>9. CASE \/ StartRecovery \/ Escalate \/ EscalateIntoDestructive
           \/ Recovered \/ HumanRequired \/ Lost
    BY <1>9, RecoveryFires DEF StartRecovery, Escalate, EscalateIntoDestructive,
       IntoDestructive, Recovered, HumanRequired, Lost
<1>. QED
    BY <1>1, <1>2, <1>3, <1>4, <1>5, <1>6, <1>7, <1>8, <1>9 DEF Next

LEMMA TypeStep == IInv /\ [Next]_vars => TypeOK'
<1>. SUFFICES ASSUME IInv, [Next]_vars PROVE TypeOK'
    OBVIOUS
<1>. USE OthersHold, ChangeFires, RollbackFires, RecoveryFires, FireCounts
<1>0. TypeOK /\ at \in AtType /\ bypassed \in BOOLEAN
    BY DEF IInv, TypeOK
<1>. DEFINE Calls == {"none", "dag", "blast", "authority", "content", "preconditions"}
            Asks == [approval : Approvals, ready : BOOLEAN]
<1>. SUFFICES /\ at' \in AtType /\ bypassed' \in BOOLEAN /\ call' \in Calls
              /\ given' \in Givens /\ artifact' \in Artifacts /\ asked' \in Asks
              /\ tests' \in {"none", "pass", "fail", "accepted"}
              /\ granted' \in Asks /\ decided' \in BOOLEAN
    BY StageStep DEF TypeOK, AtType
<1>1. CASE Prepare
    BY <1>0, <1>1 DEF Prepare, TypeOK
<1>2. CASE BuildDag
    BY <1>0, <1>2 DEF BuildDag, TypeOK
<1>3. CASE MeasureBlast
    BY <1>0, <1>3 DEF MeasureBlast, TypeOK
<1>4. CASE Authorize
    BY <1>0, <1>4, ZenonT(60) DEF Authorize, TypeOK
<1>5. CASE Veto
    BY <1>0, <1>5 DEF Veto, TypeOK
<1>6. CASE Configure
    BY <1>0, <1>6, ZenonT(240) DEF Configure, TypeOK
<1>7. CASE LookAtContent
    BY <1>0, <1>7 DEF LookAtContent, TypeOK
<1>8. CASE CheckPreconditions
    BY <1>0, <1>8 DEF CheckPreconditions, TypeOK
<1>9. CASE ArmRollback
    BY <1>0, <1>9 DEF ArmRollback, TypeOK
<1>10. CASE ConfirmRollback
    BY <1>0, <1>10 DEF ConfirmRollback, TypeOK
<1>11. CASE TriggerRollback
    BY <1>0, <1>11 DEF TriggerRollback, TypeOK
<1>12. CASE CompleteRollback
    BY <1>0, <1>12 DEF CompleteRollback, TypeOK
<1>13. CASE LoseRollback
    BY <1>0, <1>13 DEF LoseRollback, TypeOK
<1>14. CASE Deploy
    BY <1>0, <1>14 DEF Deploy, TypeOK
<1>15. CASE StartRecovery
    BY <1>0, <1>15 DEF StartRecovery, TypeOK
<1>16. CASE Escalate
    BY <1>0, <1>16 DEF Escalate, TypeOK
<1>17. CASE EscalateIntoDestructive
    BY <1>0, <1>17, ZenonT(60) DEF EscalateIntoDestructive, IntoDestructive, TypeOK
<1>18. CASE Recovered
    BY <1>0, <1>18 DEF Recovered, TypeOK
<1>19. CASE HumanRequired
    BY <1>0, <1>19 DEF HumanRequired, TypeOK
<1>20. CASE Lost
    BY <1>0, <1>20 DEF Lost, TypeOK
<1>21. CASE UNCHANGED vars
    BY <1>0, <1>21 DEF vars, TypeOK
<1>. QED
    BY <1>1, <1>2, <1>3, <1>4, <1>5, <1>6, <1>7, <1>8, <1>9, <1>10, <1>11, <1>12,
       <1>13, <1>14, <1>15, <1>16, <1>17, <1>18, <1>19, <1>20, <1>21 DEF Next

LEMMA OthersStep == IInv /\ [Next]_vars => Others'
<1>. SUFFICES ASSUME IInv, [Next]_vars PROVE Others'
    OBVIOUS
<1>0. at \in AtType /\ Others
    BY OthersHold
<1>1. CASE Prepare
    BY <1>0, <1>1, ChangeStep DEF Prepare
<1>2. CASE BuildDag
    <2>1. CASE call' = "none" /\ UNCHANGED <<at, bypassed>>
        BY <1>0, <1>2, <2>1 DEF BuildDag, Others,
           AuthorizedIsEarned, ArmedOn, RollbackBehindChange, DestructiveIsDecided,
           Level, Ladder
    <2>2. CASE Fire("change", "PLANNED",
                    {"dag:total_order", "dag:permanent_constraints_ok"}, "blast")
        BY <1>0, <1>2, <2>2, ChangeStep DEF BuildDag
    <2>. QED
        BY <1>2, <2>1, <2>2 DEF BuildDag
<1>3. CASE MeasureBlast
    BY <1>0, <1>3, ChangeStep DEF MeasureBlast
<1>4. CASE Authorize
    <2>1. CASE call' = "none" /\ UNCHANGED <<at, bypassed, granted>>
        BY <1>0, <1>4, <2>1 DEF Authorize, Others,
           AuthorizedIsEarned, ArmedOn, RollbackBehindChange, DestructiveIsDecided,
           Level, Ladder
    <2>2. CASE /\ ~Refused(Decide(asked.approval))
               /\ Fire("change", "AUTHORIZED",
                       AuthorityEvidence(Decide(asked.approval)), "none")
               /\ granted' = asked
        <3>1. Earned(asked)
            BY <2>2, DecisionEarns DEF IInv
        <3>2. at.change = "RISK_ASSESSED"
            BY <1>4 DEF IInv, TypeOK, StageOK, Authorize
        <3>. QED
            BY <1>0, <1>4, <2>2, <3>1, <3>2, ChangeStep DEF Authorize
    <2>. QED
        BY <1>4, <2>1, <2>2 DEF Authorize
<1>5. CASE Veto
    BY <1>0, <1>5, ChangeStep DEF Veto
<1>6. CASE Configure
    BY <1>0, <1>6, RollbackStep DEF Configure
<1>7. CASE LookAtContent
    <2>1. CASE call' = "none" /\ UNCHANGED <<at, bypassed>>
        BY <1>0, <1>7, <2>1 DEF LookAtContent, Others,
           AuthorizedIsEarned, ArmedOn, RollbackBehindChange, DestructiveIsDecided,
           Level, Ladder
    <2>2. CASE Fire("rollback", "NOT_READY", {"artifact:exists"}, "preconditions")
        BY <1>0, <1>7, <2>2, RollbackStep DEF LookAtContent
    <2>. QED
        BY <1>7, <2>1, <2>2 DEF LookAtContent
<1>8. CASE CheckPreconditions
    <2>1. CASE call' = "none" /\ UNCHANGED <<at, bypassed>>
        BY <1>0, <1>8, <2>1 DEF CheckPreconditions, Others,
           AuthorizedIsEarned, ArmedOn, RollbackBehindChange, DestructiveIsDecided,
           Level, Ladder
    <2>2. CASE Fire("rollback", "READY", {"preconditions:all_seven"}, "none")
        BY <1>0, <1>8, <2>2, RollbackStep DEF CheckPreconditions
    <2>. QED
        BY <1>8, <2>1, <2>2 DEF CheckPreconditions
<1>9. CASE ArmRollback
    BY <1>0, <1>9, RollbackStep DEF ArmRollback
<1>10. CASE ConfirmRollback
    BY <1>0, <1>10, RollbackStep DEF ConfirmRollback
<1>11. CASE TriggerRollback
    BY <1>0, <1>11, RollbackStep DEF TriggerRollback
<1>12. CASE CompleteRollback
    BY <1>0, <1>12, RollbackStep DEF CompleteRollback
<1>13. CASE LoseRollback
    BY <1>0, <1>13, RollbackStep DEF LoseRollback
<1>14. CASE Deploy
    <2>1. PICK to \in ArmedOn : Fire("change", to, Facts, "none")
        BY <1>14 DEF Deploy
    <2>2. to \notin {"AUTHORIZED", "RISK_ASSESSED"}
        BY DEF ArmedOn
    <2>3. CASE ChangeGuard(to, Facts)
        BY <1>0, <1>14, <2>1, <2>2, <2>3, FactsAreTrue, ChangeStep DEF Deploy, Unready
    <2>4. CASE ~ChangeGuard(to, Facts)
        <3>1. at' = at /\ call' = "none"
            BY <1>0, <2>1, <2>4, ChangeFires
        <3>. QED
            BY <1>0, <1>14, <3>1 DEF Deploy, Others,
               AuthorizedIsEarned, ArmedOn, RollbackBehindChange,
               DestructiveIsDecided, Level, Ladder
    <2>. QED
        BY <2>3, <2>4
<1>15. CASE StartRecovery
    BY <1>0, <1>15, LevelNames, RecoveryStep DEF StartRecovery
<1>16. CASE Escalate
    <2>1. PICK n \in 0..6 :
              /\ n # 4
              /\ Fire("recovery", Level(n + 1),
                      IF Skip(n) # {} THEN Skip(n) ELSE {"attempt:failed"}, "none")
        BY <1>16 DEF Escalate
    <2>2. n \in {0, 1, 2, 3, 5, 6}
        BY <2>1
    <2>3. Level(n + 1) # "ESCALATING_L5"
        BY <2>2, LevelNames
    <2>. QED
        BY <1>0, <1>16, <2>1, <2>3, RecoveryStep DEF Escalate
<1>17. CASE EscalateIntoDestructive
    BY <1>0, <1>17, LevelNames, RecoveryStep DEF EscalateIntoDestructive, IntoDestructive
<1>18. CASE Recovered
    BY <1>0, <1>18, RecoveryStep DEF Recovered
<1>19. CASE HumanRequired
    BY <1>0, <1>19, RecoveryStep DEF HumanRequired
<1>20. CASE Lost
    BY <1>0, <1>20, RecoveryStep DEF Lost
<1>21. CASE UNCHANGED vars
    BY <1>0, <1>21 DEF vars, Others, AuthorizedIsEarned, ArmedOn,
       RollbackBehindChange, DestructiveIsDecided, Level, Ladder
<1>. QED
    BY <1>1, <1>2, <1>3, <1>4, <1>5, <1>6, <1>7, <1>8, <1>9, <1>10, <1>11, <1>12,
       <1>13, <1>14, <1>15, <1>16, <1>17, <1>18, <1>19, <1>20, <1>21 DEF Next

(* The invariant holds of every lifecycle. *)
THEOREM Strengthening == Spec => []IInv
<1>1. IInv /\ [Next]_vars => IInv'
    BY TypeStep, OthersStep DEF IInv, Others
<1>. QED
    BY InitHolds, <1>1, PTL DEF Spec

(* Every machine stays in the states of its table, whatever is called, *)
(* refused or left half done by a ledger that raises.                  *)
THEOREM LifecycleTyped == Spec => []TypeOK
<1>1. IInv => TypeOK
    BY DEF IInv
<1>. QED
    BY Strengthening, <1>1, PTL

(* An authorised change was ready, modelled, of a known risk, and approved *)
(* as its gate asks, for every gate and site.                              *)
THEOREM AuthorityIsNotPassedOver == Spec => []AuthorizedIsEarned
<1>1. IInv => AuthorizedIsEarned
    BY DEF IInv
<1>. QED
    BY Strengthening, <1>1, PTL

(* Behind an armed change stands a rollback that was ready, and an end of *)
(* the change by rollback is the end its rollback has reached.            *)
THEOREM RollbackStandsBehind == Spec => []RollbackBehindChange
<1>1. IInv => RollbackBehindChange
    BY DEF IInv
<1>. QED
    BY Strengthening, <1>1, PTL

(* The destructive tier of the ladder is not reached without a human. *)
THEOREM DestructionIsDecided == Spec => []DestructiveIsDecided
<1>1. IInv => DestructiveIsDecided
    BY DEF IInv
<1>. QED
    BY Strengthening, <1>1, PTL

=============================================================================
