-------------------------- MODULE ChangeLifecycle --------------------------
(***************************************************************************)
(* One change and the three guarded machines about it: FSM-2 (the change), *)
(* FSM-3 (its rollback) and FSM-5 (the recovery of its device).  They run  *)
(* on one runtime, GuardedFsm, and are fired by ChangeEngine,              *)
(* RollbackEngine and RecoveryEngine, each after checks of its own.        *)
(*                                                                         *)
(* src/ drives FSM-2 as far as AUTHORIZED.  Who deploys the change fires   *)
(* the rest of it and calls the rollback and the recovery; here that is a  *)
(* caller who follows the table and shows the guards facts that hold.      *)
(***************************************************************************)
EXTENDS Naturals

CONSTANT Givens  \* what is known of a change and of its site

Gates == {"LOW_RISK", "HIGH_RISK", "IRREVERSIBLE", "DESTRUCTIVE"}
Support == {"SUPPORTED", "NOT_SUPPORTED", "UNKNOWN"}
Approvals == {"none", "identity", "identity and mfa"}
Artifacts == {"empty", "unfit", "fit"}

ASSUME GivensAssumption ==
    Givens \subseteq [gate : Gates, irreversible : BOOLEAN, modeled : BOOLEAN,
                      riskKnown : BOOLEAN, controlled : BOOLEAN,
                      mechanism : Support, matrix : [{3, 4, 5} -> Support]]

VARIABLES given,     \* constant: one of Givens
          artifact,  \* the rollback artifact handed to configure
          at,        \* the state of each machine
          call,      \* where prepare or configure is between two transitions
          asked,     \* what the caller of prepare has brought
          tests,     \* the verification of the applied change
          bypassed,  \* the gate_bypass counter is above zero
          granted,   \* history: what the authorised change was asked with
          decided    \* history: a human decided for the destructive tier

vars == <<given, artifact, at, call, asked, tests, bypassed, granted, decided>>

----------------------------------------------------------------------------
(***************************************************************************)
(* The transition tables.  A guard is told by the state it leads to, in    *)
(* all three of them.  Evidence is a set of kinds; a kind about a level of *)
(* the ladder is always about the level that is left, and does not say so. *)
(***************************************************************************)

ChangeRows ==
    {<<"DRAFT", "VALIDATED">>, <<"VALIDATED", "PLANNED">>,
     <<"PLANNED", "RISK_ASSESSED">>, <<"RISK_ASSESSED", "AUTHORIZED">>,
     <<"AUTHORIZED", "ARMED">>, <<"ARMED", "APPLYING">>,
     <<"APPLYING", "APPLIED">>, <<"APPLYING", "FAILED">>,
     <<"APPLYING", "PARTIAL">>, <<"APPLIED", "VERIFYING">>,
     <<"VERIFYING", "VERIFIED">>, <<"VERIFYING", "ROLLED_BACK">>,
     <<"VERIFYING", "RECOVERING">>, <<"VERIFIED", "CLEANED">>,
     <<"CLEANED", "CLOSED">>, <<"DRAFT", "REJECTED">>,
     <<"VALIDATED", "REJECTED">>, <<"PLANNED", "REJECTED">>,
     <<"RISK_ASSESSED", "REJECTED">>, <<"AUTHORIZED", "REJECTED">>,
     <<"FAILED", "MANUAL_REQUIRED">>, <<"PARTIAL", "MANUAL_REQUIRED">>}

RollbackRows ==
    {<<"INIT", "NOT_SUPPORTED">>, <<"INIT", "NOT_CONFIGURED">>,
     <<"NOT_CONFIGURED", "NOT_READY">>, <<"NOT_READY", "READY">>,
     <<"READY", "ARMED">>, <<"ARMED", "CONFIRMED">>,
     <<"ARMED", "ROLLBACK_TRIGGERED">>,
     <<"ROLLBACK_TRIGGERED", "ROLLBACK_SUCCEEDED">>,
     <<"ROLLBACK_TRIGGERED", "ROLLBACK_FAILED">>,
     <<"ARMED", "UNKNOWN">>, <<"NOT_CONFIGURED", "UNKNOWN">>}

Ladder == <<"ESCALATING_L0", "ESCALATING_L1", "ESCALATING_L2", "ESCALATING_L3",
            "ESCALATING_L4", "ESCALATING_L5", "ESCALATING_L6", "ESCALATING_L7">>

Level(n) == Ladder[n + 1]

RecoveryRows ==
    {<<"NOT_NEEDED", Level(0)>>, <<"HUMAN_REQUIRED", "RECOVERED">>}
        \cup {<<Level(n), Level(n + 1)>> : n \in 0..6}
        \cup {<<Level(n), "RECOVERED">> : n \in 0..7}
        \cup {<<Level(n), "LOST">> : n \in 0..7}
        \cup {<<Level(n), "HUMAN_REQUIRED">> : n \in {6, 7}}

RowsOf(machine) == CASE machine = "change" -> ChangeRows
                     [] machine = "rollback" -> RollbackRows
                     [] machine = "recovery" -> RecoveryRows

MfaGates == {"HIGH_RISK", "IRREVERSIBLE", "DESTRUCTIVE"}
HumanOnlyGates == {"IRREVERSIBLE", "DESTRUCTIVE"}

(* 2.4: all of these, by the gate class. *)
ApprovalKinds ==
    {"readiness:all_true", "gate_verdict:ALLOW"}
        \cup (IF given.gate \in MfaGates
              THEN {"approval:rbac_identity", "approval:mfa_verified"} ELSE {})
        \cup (IF given.gate \in HumanOnlyGates
              THEN {"gate_verdict:HUMAN_DECIDED"} ELSE {})

(* Mutant: a wrong 2.5, which forgets the rollback. *)
ArmKindsAlone == {"window:valid", "scheduler:no_conflict", "lock:acquirable",
                  "scope_lock:recorded"}

(* 2.5: all of these. *)
ArmKinds == {"window:valid", "scheduler:no_conflict", "lock:acquirable",
             "rollback:READY", "scope_lock:recorded"}

(* 2.1 to 2.15. *)
ChangeGuard(to, evidence) ==
    \/ /\ to = "VALIDATED"
       /\ "validation_fabric:PASS" \in evidence
       /\ \/ "validation_fabric:NOT_MODELED" \notin evidence
          \/ "validation_fabric:not_modeled_recorded" \in evidence
    \/ /\ to = "PLANNED"
       /\ {"dag:total_order", "dag:permanent_constraints_ok"} \subseteq evidence
    \/ /\ to = "RISK_ASSESSED"
       /\ {"blast_radius:recorded", "risk_class:recorded"} \subseteq evidence
    \/ to = "AUTHORIZED" /\ ApprovalKinds \subseteq evidence
    \/ to = "ARMED" /\ ArmKinds \subseteq evidence
    \/ /\ to = "APPLYING"
       /\ {"authorized_state:reverified", "allowlist:rechecked"} \subseteq evidence
    \/ to = "APPLIED" /\ "apply:all_stages_ack" \in evidence
    \/ /\ to \in {"FAILED", "PARTIAL"}
       /\ {"failure_orchestrator:decision",
           "failure_report:counts_and_causes"} \subseteq evidence
    \/ to = "VERIFYING" /\ "apply:settled" \in evidence
    \/ /\ to = "VERIFIED"
       /\ \/ "tests:all_pass" \in evidence
          \/ {"tests:non_pass_present",
              "tests:human_acceptance_per_non_pass"} \subseteq evidence
    \/ /\ to = "ROLLED_BACK"
       /\ {"rollback:TRIGGERED", "rollback:SUCCEEDED"} \subseteq evidence
    \/ /\ to = "RECOVERING"
       /\ {"rollback:TRIGGERED", "rollback:FAILED"} \subseteq evidence
    \/ /\ to = "CLEANED"
       /\ \/ "temp_resources:zero" \in evidence
          \/ "temp_resources:preserved_by_approval" \in evidence
    \/ /\ to = "CLOSED"
       /\ {"twin:refreshed_from_observed", "docs:emitted",
           "audit:chain_complete"} \subseteq evidence
    \/ /\ to = "REJECTED"
       /\ {"verdict:REJECTED", "verdict:reason_recorded"} \subseteq evidence
    \/ to = "MANUAL_REQUIRED" /\ "human_task:instructions_emitted" \in evidence

(* 3.1 to 3.10. *)
RollbackGuard(to, evidence) ==
    \/ to = "NOT_SUPPORTED" /\ "matrix:mechanism_absent" \in evidence
    \/ to = "NOT_CONFIGURED" /\ "matrix:mechanism_supported" \in evidence
    \/ to = "NOT_READY" /\ "artifact:exists" \in evidence
    \/ to = "READY" /\ "preconditions:all_seven" \in evidence
    \/ to = "ARMED" /\ "fsm2:ARMED_bound" \in evidence
    \/ /\ to = "CONFIRMED"
       /\ {"apply:ok", "verification_window:opened"} \subseteq evidence
    \/ to = "ROLLBACK_TRIGGERED" /\ "rollback:trigger_reason" \in evidence
    \/ /\ to = "ROLLBACK_SUCCEEDED"
       /\ {"rollback:reapplied", "rollback:post_verify_pass",
           "mgmt_path:reachable"} \subseteq evidence
    \/ /\ to = "ROLLBACK_FAILED"
       /\ "rollback:succeed_conjunct_failed" \in evidence
    \/ to = "UNKNOWN" /\ "evidence:vanished" \in evidence

(* 5.1 to 5.6. *)
RecoveryGuard(to, evidence) ==
    \/ /\ to = Level(0)
       /\ {"failure:classified_recoverable", "change:bound"} \subseteq evidence
    \/ /\ to \in {Level(n) : n \in 1..7}
       /\ \E kind \in {"attempt:failed", "matrix:not_supported",
                       "matrix:not_configured"} : kind \in evidence
       /\ to = Level(5) => "gate:DESTRUCTIVE_human_decision" \in evidence
    \/ /\ to = "RECOVERED"
       /\ {"device:reachable_again", "identity:reconfirmed",
           "state:reclassified"} \subseteq evidence
    \/ to = "HUMAN_REQUIRED" /\ "human_task:instructions_emitted" \in evidence
    \/ to = "LOST" /\ "paths:all_exhausted" \in evidence

Guard(machine, to, evidence) ==
    CASE machine = "change" -> ChangeGuard(to, evidence)
      [] machine = "rollback" -> RollbackGuard(to, evidence)
      [] machine = "recovery" -> RecoveryGuard(to, evidence)

(***************************************************************************)
(* GuardedFsm.fire, and the engine that fires it: an illegal attempt is    *)
(* counted, a denied one is not; either ends the call with a Failure.  The *)
(* state is set before the transition is recorded, and a ledger that       *)
(* raises ends the call with the state set.                                *)
(***************************************************************************)
Legal(machine, to) == <<at[machine], to>> \in RowsOf(machine)

(* Mutant: an engine that goes on after a transition that failed. *)
FireAndGoOn(machine, to, evidence, next) ==
    \/ /\ ~Legal(machine, to)
       /\ bypassed' = TRUE
       /\ call' = next
       /\ UNCHANGED at
    \/ /\ Legal(machine, to)
       /\ ~Guard(machine, to, evidence)
       /\ call' = next
       /\ UNCHANGED <<at, bypassed>>
    \/ /\ Legal(machine, to)
       /\ Guard(machine, to, evidence)
       /\ at' = [at EXCEPT ![machine] = to]
       /\ call' \in {next, "none"}
       /\ UNCHANGED bypassed

Fire(machine, to, evidence, next) ==
    \/ /\ ~Legal(machine, to)
       /\ bypassed' = TRUE
       /\ call' = "none"
       /\ UNCHANGED at
    \/ /\ Legal(machine, to)
       /\ ~Guard(machine, to, evidence)
       /\ call' = "none"
       /\ UNCHANGED <<at, bypassed>>
    \/ /\ Legal(machine, to)
       /\ Guard(machine, to, evidence)
       /\ at' = [at EXCEPT ![machine] = to]
       /\ call' \in {next, "none"}
       /\ UNCHANGED bypassed

Init ==
    /\ given \in Givens
    /\ artifact = "empty"
    /\ at = [change |-> "DRAFT", rollback |-> "INIT", recovery |-> "NOT_NEEDED"]
    /\ call = "none"
    /\ asked = [approval |-> "none", ready |-> FALSE]
    /\ tests = "none"
    /\ bypassed = FALSE
    /\ granted = [approval |-> "none", ready |-> FALSE]
    /\ decided = FALSE

----------------------------------------------------------------------------
(***************************************************************************)
(* AutonomyAuthority.decide.                                               *)
(***************************************************************************)

Verdict(verdict, satisfied) == [verdict |-> verdict, satisfied |-> satisfied]

Decide(approval) ==
    LET human == approval # "none"
        mfa == approval = "identity and mfa" IN
    CASE ~given.riskKnown \/ ~given.modeled -> Verdict("BLOCKED", FALSE)
      [] given.riskKnown /\ given.modeled /\ given.gate \in HumanOnlyGates ->
            Verdict("HUMAN_ONLY", mfa)
      [] given.riskKnown /\ given.modeled /\ given.gate = "HIGH_RISK" ->
            Verdict("APPROVAL_REQUIRED", mfa)
      [] given.riskKnown /\ given.modeled /\ given.gate = "LOW_RISK" ->
            IF given.controlled THEN Verdict("AUTO_EXECUTE", TRUE)
                                ELSE Verdict("APPROVAL_REQUIRED", human)

(***************************************************************************)
(* ChangeEngine.prepare: the validation fabric, the dependency DAG, the    *)
(* blast radius and the authority, with a transition after each.           *)
(***************************************************************************)

(* The caller says whether the decision is ready; nothing here computes it. *)
Prepare ==
    /\ call = "none"
    /\ asked' \in [approval : Approvals, ready : BOOLEAN]
    /\ Fire("change", "VALIDATED",
            {"validation_fabric:PASS"} \cup
                (IF given.modeled THEN {}
                 ELSE {"validation_fabric:NOT_MODELED",
                       "validation_fabric:not_modeled_recorded"}), "dag")
    /\ UNCHANGED <<given, artifact, tests, granted, decided>>

BuildDag ==
    /\ call = "dag"
    /\ \/ /\ call' = "none"
          /\ UNCHANGED <<at, bypassed>>
       \/ Fire("change", "PLANNED",
               {"dag:total_order", "dag:permanent_constraints_ok"}, "blast")
    /\ UNCHANGED <<given, artifact, asked, tests, granted, decided>>

MeasureBlast ==
    /\ call = "blast"
    /\ Fire("change", "RISK_ASSESSED",
            {"blast_radius:recorded", "risk_class:recorded"}, "authority")
    /\ UNCHANGED <<given, artifact, asked, tests, granted, decided>>

(* Approval evidence is emitted only for an MFA gate and a verified MFA. *)
AuthorityEvidence(d) ==
    {"readiness:all_true"}
        \cup (IF asked.approval = "identity and mfa" /\ given.gate \in MfaGates
              THEN {"approval:rbac_identity", "approval:mfa_verified"} ELSE {})
        \cup (IF d.verdict = "HUMAN_ONLY"
              THEN {"gate_verdict:HUMAN_DECIDED"} ELSE {})
        \cup (IF d.verdict = "AUTO_EXECUTE" \/ d.satisfied
              THEN {"gate_verdict:ALLOW"} ELSE {})

(* Mutant: a wrong refusal, which forgets the readiness. *)
RefusedUnlessReady(d) ==
    \/ d.verdict = "BLOCKED"
    \/ d.verdict \in {"APPROVAL_REQUIRED", "HUMAN_ONLY"} /\ ~d.satisfied

(* The early returns of prepare after the decision. *)
Refused(d) ==
    \/ d.verdict = "BLOCKED"
    \/ ~asked.ready
    \/ d.verdict \in {"APPROVAL_REQUIRED", "HUMAN_ONLY"} /\ ~d.satisfied

Authorize ==
    /\ call = "authority"
    /\ LET d == Decide(asked.approval) IN
       \/ /\ Refused(d)
          /\ call' = "none"
          /\ UNCHANGED <<at, bypassed, granted>>
       \/ /\ ~Refused(d)
          /\ Fire("change", "AUTHORIZED", AuthorityEvidence(d), "none")
          /\ granted' = asked
    /\ UNCHANGED <<given, artifact, asked, tests, decided>>

(* ChangeEngine.veto, with an identity and a reason. *)
Veto ==
    /\ call = "none"
    /\ Fire("change", "REJECTED",
            {"verdict:REJECTED", "verdict:reason_recorded"}, "none")
    /\ UNCHANGED <<given, artifact, asked, tests, granted, decided>>

----------------------------------------------------------------------------
(***************************************************************************)
(* RollbackEngine.                                                         *)
(***************************************************************************)

(* An irreversible node, or no supported mechanism, makes a plan that      *)
(* configure refuses; a good plan may meet a matrix that has changed since.*)
Configure ==
    /\ call = "none"
    /\ ~given.irreversible
    /\ artifact' \in Artifacts
    /\ \/ /\ given.mechanism = "NOT_SUPPORTED"
          /\ Fire("rollback", "NOT_SUPPORTED", {"matrix:mechanism_absent"}, "none")
       \/ /\ given.mechanism = "SUPPORTED"
          /\ Fire("rollback", "NOT_CONFIGURED", {"matrix:mechanism_supported"},
                  "content")
    /\ UNCHANGED <<given, asked, tests, granted, decided>>

LookAtContent ==
    /\ call = "content"
    /\ \/ /\ artifact = "empty"
          /\ call' = "none"
          /\ UNCHANGED <<at, bypassed>>
       \/ /\ artifact # "empty"
          /\ Fire("rollback", "NOT_READY", {"artifact:exists"}, "preconditions")
    /\ UNCHANGED <<given, artifact, asked, tests, granted, decided>>

CheckPreconditions ==
    /\ call = "preconditions"
    /\ \/ /\ artifact # "fit"
          /\ call' = "none"
          /\ UNCHANGED <<at, bypassed>>
       \/ /\ artifact = "fit"
          /\ Fire("rollback", "READY", {"preconditions:all_seven"}, "none")
    /\ UNCHANGED <<given, artifact, asked, tests, granted, decided>>

(* The caller binds the rollback to a change that has been armed. *)
ArmedOn == {"ARMED", "APPLYING", "APPLIED", "VERIFYING", "VERIFIED", "CLEANED",
            "CLOSED", "FAILED", "PARTIAL", "ROLLED_BACK", "RECOVERING",
            "MANUAL_REQUIRED"}

ArmRollback ==
    /\ call = "none"
    /\ at.change \in ArmedOn
    /\ Fire("rollback", "ARMED", {"fsm2:ARMED_bound"}, "none")
    /\ UNCHANGED <<given, artifact, asked, tests, granted, decided>>

(* The apply has succeeded and the verification window is open. *)
ConfirmRollback ==
    /\ call = "none"
    /\ \/ at.change = "APPLIED"
       \/ at.change = "VERIFYING" /\ tests # "fail"
    /\ Fire("rollback", "CONFIRMED", {"apply:ok", "verification_window:opened"},
            "none")
    /\ UNCHANGED <<given, artifact, asked, tests, granted, decided>>

(* A failed verification, a timeout or an abort.  An artifact whose hash no *)
(* longer is the recorded one is refused before anything is fired.         *)
TriggerRollback ==
    /\ call = "none"
    /\ at.change \in ArmedOn
    /\ Fire("rollback", "ROLLBACK_TRIGGERED", {"rollback:trigger_reason"}, "none")
    /\ UNCHANGED <<given, artifact, asked, tests, granted, decided>>

CompleteRollback ==
    /\ call = "none"
    /\ \/ Fire("rollback", "ROLLBACK_SUCCEEDED",
               {"rollback:reapplied", "rollback:post_verify_pass",
                "mgmt_path:reachable"}, "none")
       \/ Fire("rollback", "ROLLBACK_FAILED",
               {"rollback:succeed_conjunct_failed"}, "none")
    /\ UNCHANGED <<given, artifact, asked, tests, granted, decided>>

(* 3.10: the device vanished. *)
LoseRollback ==
    /\ call = "none"
    /\ Legal("rollback", "UNKNOWN")
    /\ Fire("rollback", "UNKNOWN", {"evidence:vanished"}, "none")
    /\ UNCHANGED <<given, artifact, asked, tests, granted, decided>>

----------------------------------------------------------------------------
(***************************************************************************)
(* Who deploys the change: by the table, on facts.                         *)
(***************************************************************************)

Facts ==
    {"window:valid", "scheduler:no_conflict", "lock:acquirable",
     "scope_lock:recorded", "authorized_state:reverified", "allowlist:rechecked",
     "apply:all_stages_ack", "failure_orchestrator:decision",
     "failure_report:counts_and_causes", "apply:settled", "temp_resources:zero",
     "twin:refreshed_from_observed", "docs:emitted", "audit:chain_complete",
     "human_task:instructions_emitted"}
        \cup (IF at.rollback = "READY" THEN {"rollback:READY"} ELSE {})
        \cup (IF at.rollback = "ROLLBACK_SUCCEEDED"
              THEN {"rollback:TRIGGERED", "rollback:SUCCEEDED"} ELSE {})
        \cup (IF at.rollback = "ROLLBACK_FAILED"
              THEN {"rollback:TRIGGERED", "rollback:FAILED"} ELSE {})
        \cup (IF tests = "pass" THEN {"tests:all_pass"} ELSE {})
        \cup (IF tests \in {"fail", "accepted"}
              THEN {"tests:non_pass_present"} ELSE {})
        \cup (IF tests = "accepted"
              THEN {"tests:human_acceptance_per_non_pass"} ELSE {})

Deploy ==
    /\ call = "none"
    /\ \E to \in ArmedOn :
          /\ Legal("change", to)
          /\ Fire("change", to, Facts, "none")
          /\ tests' \in (IF to = "VERIFYING" THEN {"pass", "fail", "accepted"}
                                             ELSE {tests})
    /\ UNCHANGED <<given, artifact, asked, granted, decided>>

----------------------------------------------------------------------------
(***************************************************************************)
(* RecoveryEngine.                                                         *)
(***************************************************************************)

StartRecovery ==
    /\ call = "none"
    /\ at.change \in {"FAILED", "PARTIAL", "RECOVERING"}
    /\ Fire("recovery", Level(0),
            {"failure:classified_recoverable", "change:bound"}, "none")
    /\ UNCHANGED <<given, artifact, asked, tests, granted, decided>>

(* What excuses a level from being tried, by the matrix; L3 is the OOB path. *)
Skip(n) ==
    CASE n \in {3, 5} /\ given.matrix[n] = "NOT_SUPPORTED" ->
            {"matrix:not_supported"}
      [] n = 3 /\ given.matrix[3] = "UNKNOWN" -> {"matrix:not_configured"}
      [] OTHER -> {}

(* Level 4 is left by another operation; level 0 only when it is entered. *)
Escalate ==
    /\ call = "none"
    /\ \E n \in 0..6, attempt \in {"none", "failed", "succeeded"} :
          /\ n # 4
          /\ n = 0 => at.recovery = Level(0)
          /\ Skip(n) # {} \/ attempt = "failed"
          /\ Fire("recovery", Level(n + 1),
                  IF Skip(n) # {} THEN Skip(n) ELSE {"attempt:failed"}, "none")
    /\ UNCHANGED <<given, artifact, asked, tests, granted, decided>>

(* The gate evidence is made here, whatever decision it is made of. *)
IntoDestructive ==
    Fire("recovery", Level(5),
         {IF given.matrix[4] = "NOT_SUPPORTED" THEN "matrix:not_supported"
                                               ELSE "attempt:failed",
          "gate:DESTRUCTIVE_human_decision"}, "none")

(* Mutant: a wrong entry, which takes an empty decision too. *)
EscalateUndecided ==
    /\ call = "none"
    /\ at.recovery = Level(4)
    /\ \E decision \in BOOLEAN : decided' = (decided \/ decision)
    /\ IntoDestructive
    /\ UNCHANGED <<given, artifact, asked, tests, granted>>

(* Only from level 4, and only with a human decision. *)
EscalateIntoDestructive ==
    /\ call = "none"
    /\ at.recovery = Level(4)
    /\ \E decision \in BOOLEAN :
          /\ decision
          /\ decided' = (decided \/ decision)
    /\ IntoDestructive
    /\ UNCHANGED <<given, artifact, asked, tests, granted>>

(* An empty evidence id is replaced by a new one: this is never refused. *)
Recovered ==
    /\ call = "none"
    /\ Fire("recovery", "RECOVERED",
            {"device:reachable_again", "identity:reconfirmed",
             "state:reclassified"}, "none")
    /\ UNCHANGED <<given, artifact, asked, tests, granted, decided>>

HumanRequired ==
    /\ call = "none"
    /\ Fire("recovery", "HUMAN_REQUIRED", {"human_task:instructions_emitted"},
            "none")
    /\ UNCHANGED <<given, artifact, asked, tests, granted, decided>>

Lost ==
    /\ call = "none"
    /\ Fire("recovery", "LOST", {"paths:all_exhausted"}, "none")
    /\ UNCHANGED <<given, artifact, asked, tests, granted, decided>>

----------------------------------------------------------------------------
Next ==
    \/ Prepare
    \/ BuildDag
    \/ MeasureBlast
    \/ Authorize
    \/ Veto
    \/ Configure
    \/ LookAtContent
    \/ CheckPreconditions
    \/ ArmRollback
    \/ ConfirmRollback
    \/ TriggerRollback
    \/ CompleteRollback
    \/ LoseRollback
    \/ Deploy
    \/ StartRecovery
    \/ Escalate
    \/ EscalateIntoDestructive
    \/ Recovered
    \/ HumanRequired
    \/ Lost

Spec == Init /\ [][Next]_vars

----------------------------------------------------------------------------
(***************************************************************************)
(* Properties.                                                             *)
(***************************************************************************)

StatesOf(rows) == {row[1] : row \in rows} \cup {row[2] : row \in rows}

(* Where prepare or configure is between two transitions, its machine is in *)
(* the state the last of them reached.                                      *)
StageOK ==
    /\ call = "dag" => at.change = "VALIDATED"
    /\ call = "blast" => at.change = "PLANNED"
    /\ call = "authority" => at.change = "RISK_ASSESSED"
    /\ call = "content" => at.rollback = "NOT_CONFIGURED"
    /\ call = "preconditions" => at.rollback = "NOT_READY"

(* Every variable keeps its type, each machine is in a state of its table, *)
(* and no engine call goes on past a transition that was refused.          *)
TypeOK ==
    /\ given \in Givens
    /\ artifact \in Artifacts
    /\ at \in [change : StatesOf(ChangeRows), rollback : StatesOf(RollbackRows),
               recovery : StatesOf(RecoveryRows)]
    /\ call \in {"none", "dag", "blast", "authority", "content", "preconditions"}
    /\ asked \in [approval : Approvals, ready : BOOLEAN]
    /\ tests \in {"none", "pass", "fail", "accepted"}
    /\ bypassed \in BOOLEAN
    /\ granted \in [approval : Approvals, ready : BOOLEAN]
    /\ decided \in BOOLEAN
    /\ StageOK

(* A change is authorised, and so armed, only when the decision was ready, *)
(* the change modelled and its risk known; with a verified MFA at every    *)
(* gate above LOW_RISK, and somebody's approval where low risk does not    *)
(* execute on its own.                                                     *)
AuthorizedIsEarned ==
    at.change \in {"AUTHORIZED"} \cup ArmedOn =>
        /\ granted.ready
        /\ given.modeled
        /\ given.riskKnown
        /\ given.gate # "LOW_RISK" => granted.approval = "identity and mfa"
        /\ ~given.controlled => granted.approval # "none"

(* Behind an armed change stands a rollback that was ready; a change is    *)
(* ROLLED_BACK or RECOVERING only with the rollback that says so, and stays *)
(* with it.                                                                *)
RollbackBehindChange ==
    /\ at.change \in ArmedOn =>
          at.rollback \notin {"INIT", "NOT_SUPPORTED", "NOT_CONFIGURED",
                              "NOT_READY"}
    /\ at.change = "ROLLED_BACK" => at.rollback = "ROLLBACK_SUCCEEDED"
    /\ at.change = "RECOVERING" => at.rollback = "ROLLBACK_FAILED"

(* No recovery reaches the destructive tier, whatever the matrix excuses   *)
(* and whatever is called in whatever order, before a human decided.       *)
DestructiveIsDecided ==
    at.recovery \in {Level(5), Level(6), Level(7), "HUMAN_REQUIRED"} => decided

============================================================================
