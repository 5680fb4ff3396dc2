------------------------------ MODULE AutopilotRun ------------------------------
(***************************************************************************)
(* One run of AutopilotEngine (autopilot/orchestrator.py): bind the seed   *)
(* device, discover the network, let the operator retry refused devices,   *)
(* design, render, apply behind the BOND gate, verify, repair, re-verify.  *)
(*                                                                         *)
(* Every call that talks to a device, to the operator or to the change     *)
(* executor is a step: it may succeed, fail in each way the code tells     *)
(* apart, stop the run with a typed Failure, or end it with an exception.  *)
(* A change is what ChangeProtocol promises of the executor: one of its    *)
(* outcomes. The run-level decision is FailureOrchestrator's.              *)
(***************************************************************************)
EXTENDS FailureOrchestrator, FiniteSets

CONSTANTS
  Devices,     \* device references, numbered in the order the run sorts them
  Seed,        \* the device on the console cable
  Crawls,      \* what a discovery crawl may find
  Renderings,  \* what rendering may yield for the devices, were all managed
  Repairs,     \* the devices the diagnoses may find a repair for
  Applied,     \* the sequences of nodes a failed change may have applied whole
  MaxRounds    \* how many access retries are offered

(* What discovery says of a device. limited: credentials were refused;     *)
(* failed: any other unreachable or partial result; ungated: collected,    *)
(* but no command allowlist is known for its vendor family.                *)
Statuses == {"complete", "ungated", "limited", "failed", "not_probed"}

(* A device gets a whole configuration, part of one (a feature its vendor  *)
(* has no template for), or none.                                          *)
Rendering == {"none", "partial", "full"}

ASSUME DevicesAssumption == Devices \subseteq Nat /\ IsFiniteSet(Devices)
ASSUME SeedAssumption    == Seed \in Devices
ASSUME CrawlsAssumption  == Crawls # {} /\ Crawls \subseteq [Devices -> Statuses]
ASSUME RenderAssumption  == Renderings \subseteq [Devices -> Rendering]
ASSUME RepairAssumption  == Repairs \subseteq SUBSET Devices
ASSUME AppliedAssumption == Applied \subseteq Seq(Node)
ASSUME RoundsAssumption  == MaxRounds \in Nat

(* What a change may end with once a session to the device is open, and    *)
(* without one (a dry run).                                                *)
SentOutcomes == {"APPLIED", "ROLLED_BACK", "ROLLBACK_FAILED",
                 "PERSIST_FAILED", "REJECTED"}
DryOutcomes  == {"DRY_RUN", "REJECTED"}
Outcomes     == SentOutcomes \cup DryOutcomes

(* The device is left neither restored nor safely configured.              *)
Unconfirmed == {"ROLLBACK_FAILED", "PERSIST_FAILED"}

Finals == {"RUNNING", "COMPLETE-STAGED", "INCOMPLETE-STAGED",
           "COMPLETE-APPLIED", "INCOMPLETE-APPLIED", "COMPLETE-PARTIAL",
           "INCOMPLETE-PARTIAL", "BLOCKED-FAILURE", "BLOCKED-DESIGN",
           "BLOCKED-DENIED", "BLOCKED-PERSIST-FAILED",
           "BLOCKED-ROLLBACK-FAILED", "BLOCKED-APPLY", "BLOCKED-ROLLED-BACK"}
Complete == {"COMPLETE-STAGED", "COMPLETE-APPLIED", "COMPLETE-PARTIAL"}
Blocked  == {"BLOCKED-FAILURE", "BLOCKED-DESIGN", "BLOCKED-DENIED",
             "BLOCKED-PERSIST-FAILED", "BLOCKED-ROLLBACK-FAILED",
             "BLOCKED-APPLY", "BLOCKED-ROLLED-BACK"}

Verdicts == {"none", "PASS", "FAILED", "INCOMPLETE", "UNVERIFIED"}

Steps == {"bond", "boot", "family", "discovery", "retry", "elicit", "design",
          "render", "gate", "loop", "recover", "apply", "dryrun", "verify",
          "repairs", "repair", "reverify"}
Ended == {"done", "raised"}

(* The gate's local variables and the execution section of the report.     *)
Gate == [status : {"none", "STAGED", "OK", "INCOMPLETE"}, todo : SUBSET Devices,
         outcome : [Devices -> {"none"} \cup Outcomes],
         skipped : SUBSET Devices,
         failed : SUBSET Devices, halted : SUBSET Devices]

(* Troubleshooting: the devices with a repair to apply, and how it went.   *)
Repair == [todo : SUBSET Devices, repaired : SUBSET Devices,
           unrepaired : SUBSET Devices]

VARIABLES
  pc,        \* the phase the run is in
  execute,   \* the run was asked to apply, not only to stage
  console,   \* the operator's console port
  crawl,     \* the last crawl report
  round,     \* access retries so far
  renders,   \* the rendered configurations
  level,     \* the level of the recovery ladder
  gate,      \* the execution gate
  verdict,   \* the verdict of verification
  again,     \* the verdict of verification after a repair
  repair,    \* troubleshooting
  final,     \* the outcome of the run
  approved,  \* history: the operator typed BOND
  sent,      \* history: devices something was sent to
  broken     \* history: devices a change left unconfirmed

vars == <<pc, execute, console, crawl, round, renders, level, gate, verdict,
          again, repair, final, approved, sent, broken>>

-----------------------------------------------------------------------------
NoGate == [status |-> "none", todo |-> {},
           outcome |-> [d \in Devices |-> "none"], skipped |-> {},
           failed |-> {}, halted |-> {}]
NoRepair == [todo |-> {}, repaired |-> {}, unrepaired |-> {}]

(* The design's roles other than UNMANAGED_NEIGHBOR.                       *)
Managed == {d \in Devices : crawl[d] \in {"complete", "ungated"}}
Limited == {d \in Devices : crawl[d] = "limited"}
NotProbed == {d \in Devices : crawl[d] = "not_probed"}
Rendered == {d \in Devices : renders[d] # "none"}

(* Configuration is applied in the order of the device references.         *)
NextOf(todo) == CHOOSE d \in todo : \A e \in todo : d <= e

Init ==
  /\ pc = "bond" /\ execute \in BOOLEAN /\ console = "closed"
  /\ crawl = [d \in Devices |-> "failed"] /\ round = 0
  /\ renders = [d \in Devices |-> "none"] /\ level = 0
  /\ gate = NoGate /\ verdict = "none" /\ again = "none" /\ repair = NoRepair
  /\ final = "RUNNING" /\ approved = FALSE /\ sent = {} /\ broken = {}

(* The finally of run: the console is closed, if boot got as far as        *)
(* returning it.                                                           *)
GiveConsoleBack ==
  console' = IF pc \in {"bond", "boot", "family"} THEN console ELSE "closed"

EndRun(outcome) == /\ pc' = "done" /\ final' = outcome /\ GiveConsoleBack

-----------------------------------------------------------------------------
(* Phases 0 to 5: from the binding question to the rendered configuration. *)

ConfirmBinding == /\ pc = "bond" /\ pc' = "boot"
                  /\ UNCHANGED <<execute, console, crawl, round, renders, level,
                       gate, verdict, again, repair, final, approved, sent, broken>>

OpenConsole == /\ pc = "boot" /\ pc' = "family" /\ console' = "open"
               /\ UNCHANGED <<execute, crawl, round, renders, level, gate,
                    verdict, again, repair, final, approved, sent, broken>>

IdentifyFamily == /\ pc = "family" /\ pc' = "discovery"
                  /\ UNCHANGED <<execute, console, crawl, round, renders, level,
                       gate, verdict, again, repair, final, approved, sent, broken>>

Discover == /\ pc = "discovery" /\ pc' = "retry"
            /\ crawl' \in Crawls
            /\ UNCHANGED <<execute, console, round, renders, level, gate, verdict,
                 again, repair, final, approved, sent, broken>>

(* Nobody is refused any more, the rounds are over, or the operator        *)
(* declines.                                                               *)
LeaveRetry == /\ pc = "retry" /\ pc' = "elicit"
              /\ UNCHANGED <<execute, console, crawl, round, renders, level,
                   gate, verdict, again, repair, final, approved, sent, broken>>

(* Mutant: the rounds are not counted.                                     *)
RetryAccessUncounted ==
  /\ pc = "retry" /\ Limited # {} /\ round < MaxRounds
  /\ crawl' \in Crawls
  /\ pc' = IF Limited \ Limited' = {} THEN "elicit" ELSE "retry"
  /\ UNCHANGED <<execute, console, round, renders, level, gate, verdict, again,
       repair, final, approved, sent, broken>>

(* Mutant: one round too many.                                             *)
RetryAccessOnceMore ==
  /\ pc = "retry" /\ Limited # {} /\ round <= MaxRounds
  /\ crawl' \in Crawls /\ round' = round + 1
  /\ pc' = IF Limited \ Limited' = {} THEN "elicit" ELSE "retry"
  /\ UNCHANGED <<execute, console, renders, level, gate, verdict, again, repair,
       final, approved, sent, broken>>

(* The operator agrees to try the refused devices again: a whole new crawl.*)
(* A round that unlocks none of them is the last.                          *)
RetryAccess ==
  /\ pc = "retry" /\ Limited # {} /\ round < MaxRounds
  /\ crawl' \in Crawls /\ round' = round + 1
  /\ pc' = IF Limited \ Limited' = {} THEN "elicit" ELSE "retry"
  /\ UNCHANGED <<execute, console, renders, level, gate, verdict, again, repair,
       final, approved, sent, broken>>

Elicit == /\ pc = "elicit" /\ pc' = "design"
          /\ UNCHANGED <<execute, console, crawl, round, renders, level, gate,
               verdict, again, repair, final, approved, sent, broken>>

Design == /\ pc = "design" /\ Managed # {} /\ pc' = "render"
          /\ UNCHANGED <<execute, console, crawl, round, renders, level, gate,
               verdict, again, repair, final, approved, sent, broken>>

(* Blocking questions, or no reachable device.                             *)
DesignBlocked == /\ pc = "design" /\ EndRun("BLOCKED-DESIGN")
                 /\ UNCHANGED <<execute, crawl, round, renders, level, gate,
                      verdict, again, repair, approved, sent, broken>>

(* Only managed devices are rendered for.                                  *)
Render == /\ pc = "render" /\ pc' = "gate"
          /\ \E r \in Renderings :
               renders' = [d \in Devices |-> IF d \in Managed THEN r[d] ELSE "none"]
          /\ UNCHANGED <<execute, console, crawl, round, level, gate, verdict,
               again, repair, final, approved, sent, broken>>

-----------------------------------------------------------------------------
(* Phase 6: the execution gate.                                            *)

Unconfigured == Managed \ Rendered
Partial == {d \in Managed : renders[d] = "partial"}

Stage == /\ pc = "gate" /\ ~execute
         /\ LET incomplete == Unconfigured \cup Partial # {}
            IN  /\ gate' = [gate EXCEPT !.status = IF incomplete
                                        THEN "INCOMPLETE" ELSE "STAGED"]
                /\ EndRun(IF incomplete THEN "INCOMPLETE-STAGED"
                          ELSE "COMPLETE-STAGED")
         /\ UNCHANGED <<execute, crawl, round, renders, level, verdict, again,
              repair, approved, sent, broken>>

(* run goes on to verification whatever the gate decided.                  *)
Deny == /\ pc = "gate" /\ execute
        /\ pc' = "verify" /\ final' = "BLOCKED-DENIED"
        /\ UNCHANGED <<execute, console, crawl, round, renders, level, gate,
             verdict, again, repair, approved, sent, broken>>

Bond == /\ pc = "gate" /\ execute
        /\ pc' = "loop" /\ approved' = TRUE
        /\ gate' = [gate EXCEPT !.todo = Rendered]
        /\ UNCHANGED <<execute, console, crawl, round, renders, level, verdict,
             again, repair, final, sent, broken>>

(* Mutant: a device that cannot be gated drops out of the run.             *)
SkipSilently == /\ pc = "loop" /\ gate.todo # {}
                /\ crawl[NextOf(gate.todo)] # "complete"
                /\ gate' = [gate EXCEPT !.todo = @ \ {NextOf(gate.todo)}]
                /\ UNCHANGED <<pc, execute, console, crawl, round, renders,
                     level, verdict, again, repair, final, approved, sent, broken>>

(* No allowlist for the device's family: nothing may be sent.              *)
Skip == /\ pc = "loop" /\ gate.todo # {}
        /\ crawl[NextOf(gate.todo)] # "complete"
        /\ gate' = [gate EXCEPT !.todo = @ \ {NextOf(gate.todo)},
                                !.skipped = @ \cup {NextOf(gate.todo)}]
        /\ UNCHANGED <<pc, execute, console, crawl, round, renders, level,
             verdict, again, repair, final, approved, sent, broken>>

(* The session factory returns a session, returns nothing, or raises.      *)
OpenSession == /\ pc = "loop" /\ gate.todo # {}
               /\ crawl[NextOf(gate.todo)] = "complete"
               /\ pc' \in {"apply", "dryrun", "recover"}
               /\ UNCHANGED <<execute, console, crawl, round, renders, level,
                    gate, verdict, again, repair, final, approved, sent, broken>>

(* The recovery ladder: L0 and L1 open a session again; after that the     *)
(* device is lost.                                                         *)
Recover == /\ pc = "recover" /\ pc' = "apply" /\ level' = 0
           /\ UNCHANGED <<execute, console, crawl, round, renders, gate,
                verdict, again, repair, final, approved, sent, broken>>

Escalate == /\ pc = "recover" /\ level = 0 /\ level' = 1
            /\ UNCHANGED <<pc, execute, console, crawl, round, renders, gate,
                 verdict, again, repair, final, approved, sent, broken>>

Lose == /\ pc = "recover" /\ level = 1 /\ pc' = "dryrun" /\ level' = 0
        /\ UNCHANGED <<execute, console, crawl, round, renders, gate, verdict,
             again, repair, final, approved, sent, broken>>

(* A device without a session keeps a change record, so that the run does  *)
(* not drop it.                                                            *)
DryRun == /\ pc = "dryrun" /\ pc' = "loop"
          /\ \E o \in DryOutcomes :
               gate' = [gate EXCEPT !.todo = @ \ {NextOf(gate.todo)},
                                    !.outcome = [@ EXCEPT ![NextOf(gate.todo)] = o]]
          /\ UNCHANGED <<execute, console, crawl, round, renders, level, verdict,
               again, repair, final, approved, sent, broken>>

(* _OUTCOME_CLASS: the failure class of an outcome other than APPLIED.     *)
OutcomeClass(o) == CASE o \in Unconfirmed   -> "MANUAL_REQUIRED"
                     [] o = "ROLLED_BACK"   -> "ROLLED_BACK"
                     [] OTHER               -> "BLOCKED"

(* The scenario of a device that failed. Whether a command failed is asked *)
(* of a bound method, which is always true: no node is ever the failed     *)
(* one. A refused plan sent nothing.                                       *)
FailureScenario(d, o, nodes) ==
  [cls |-> OutcomeClass(o), applied |-> nodes, failed |-> {}, attempts |-> 1,
   budget |-> 1, management |-> d = Seed]

(* The devices a change of outcome o to d leaves touched and unconfirmed.  *)
Sends(d, o) == /\ sent' = IF o = "REJECTED" THEN sent ELSE sent \cup {d}
               /\ broken' = IF o \in Unconfirmed THEN broken \cup {d}
                            ELSE broken

ApplyChange ==
  /\ pc = "apply" /\ pc' = "loop"
  /\ \E o \in SentOutcomes, nodes \in Applied :
       LET d    == NextOf(gate.todo)
           halt == /\ o # "APPLIED"
                   /\ Decide(FailureScenario(d, o, nodes))
                        \in {"HALT", "ISOLATE"}
       IN  /\ o = "REJECTED" => nodes = << >>
           /\ gate' = [gate EXCEPT
                        !.outcome = [@ EXCEPT ![d] = o],
                        !.todo   = IF halt THEN {} ELSE @ \ {d},
                        !.failed = IF o = "APPLIED" THEN @ ELSE @ \cup {d},
                        !.halted = IF halt THEN @ \cup {d} ELSE @]
           /\ Sends(d, o)
  /\ UNCHANGED <<execute, console, crawl, round, renders, level, verdict, again,
       repair, final, approved>>

GateOutcomes == {gate.outcome[d] : d \in Devices} \ {"none"}

IncompleteDevices == Unconfigured \cup gate.skipped \cup Partial \cup gate.halted
                     \cup gate.failed \cup NotProbed

(* The chain of verdicts, the loudest first.                               *)
VerdictOf(incomplete) ==
  IF "PERSIST_FAILED" \in GateOutcomes THEN "BLOCKED-PERSIST-FAILED"
  ELSE IF "ROLLBACK_FAILED" \in GateOutcomes THEN "BLOCKED-ROLLBACK-FAILED"
  ELSE IF incomplete # {} THEN "INCOMPLETE-APPLIED"
  ELSE IF GateOutcomes = {"APPLIED"} THEN "COMPLETE-APPLIED"
  ELSE IF GateOutcomes \subseteq {"DRY_RUN"} THEN "INCOMPLETE-APPLIED"
  ELSE IF "REJECTED" \in GateOutcomes THEN "BLOCKED-APPLY"
  ELSE IF GateOutcomes = {"ROLLED_BACK"} THEN "BLOCKED-ROLLED-BACK"
  ELSE "COMPLETE-PARTIAL"

(* Mutant: incompleteness is looked at before what could not be restored.  *)
GateFinalIncompleteFirst ==
  IF IncompleteDevices # {} THEN "INCOMPLETE-APPLIED" ELSE VerdictOf({})

(* Mutant: devices that were named but never crawled are forgotten.        *)
GateFinalOfReached == VerdictOf(IncompleteDevices \ NotProbed)

GateFinal == VerdictOf(IncompleteDevices)

CloseGate ==
  /\ pc = "loop" /\ gate.todo = {} /\ pc' = "verify"
  /\ final' = GateFinal
  /\ gate' = [gate EXCEPT !.status =
                IF "APPLIED" \in GateOutcomes /\ IncompleteDevices = {}
                THEN "OK" ELSE "INCOMPLETE"]
  /\ UNCHANGED <<execute, console, crawl, round, renders, level, verdict, again,
       repair, approved, sent, broken>>

-----------------------------------------------------------------------------
(* Phases 7 and 8: verification, troubleshooting, repair.                  *)

(* A complete run whose network does not do what was asked is not.         *)
Downgraded == CASE final = "COMPLETE-APPLIED" -> "INCOMPLETE-APPLIED"
                [] final = "COMPLETE-PARTIAL" -> "INCOMPLETE-PARTIAL"
                [] OTHER                      -> final

VerifyPass == /\ pc = "verify" /\ verdict' = "PASS" /\ EndRun(final)
              /\ UNCHANGED <<execute, crawl, round, renders, level, gate, again,
                   repair, approved, sent, broken>>

(* The diagnoses select design nodes of some of the designed devices.      *)
VerifyNonPass ==
  /\ pc = "verify" /\ pc' = "repairs"
  /\ verdict' \in {"FAILED", "INCOMPLETE"}
  /\ final' = Downgraded
  /\ \E ds \in Repairs : repair' = [repair EXCEPT !.todo = ds \cap Managed]
  /\ UNCHANGED <<execute, console, crawl, round, renders, level, gate, again,
       approved, sent, broken>>

(* No allowlist, nothing to render, or no session.                         *)
CannotRepair ==
  /\ pc = "repairs" /\ repair.todo # {}
  /\ repair' = [repair EXCEPT !.todo = @ \ {NextOf(repair.todo)},
                              !.unrepaired = @ \cup {NextOf(repair.todo)}]
  /\ UNCHANGED <<pc, execute, console, crawl, round, renders, level, gate,
       verdict, again, final, approved, sent, broken>>

(* Mutant: the repair is not gated by the family's allowlist.              *)
StartRepairUngated ==
  /\ pc = "repairs" /\ repair.todo # {} /\ pc' = "repair"
  /\ UNCHANGED <<execute, console, crawl, round, renders, level, gate, verdict,
       again, repair, final, approved, sent, broken>>

StartRepair ==
  /\ pc = "repairs" /\ repair.todo # {} /\ pc' = "repair"
  /\ crawl[NextOf(repair.todo)] = "complete"
  /\ UNCHANGED <<execute, console, crawl, round, renders, level, gate, verdict,
       again, repair, final, approved, sent, broken>>

ApplyRepair ==
  /\ pc = "repair" /\ pc' = "repairs"
  /\ \E o \in SentOutcomes :
       LET d == NextOf(repair.todo) IN
       /\ repair' = [repair EXCEPT
                      !.todo = @ \ {d},
                      !.repaired = IF o = "APPLIED" THEN @ \cup {d} ELSE @,
                      !.unrepaired = IF o = "APPLIED" THEN @ ELSE @ \cup {d}]
       /\ Sends(d, o)
  /\ UNCHANGED <<execute, console, crawl, round, renders, level, gate, verdict,
       again, final, approved>>

(* Mutant: the network is asked again only when every repair succeeded.    *)
NothingRepairedOrSomeFailed == repair.repaired = {} \/ repair.unrepaired # {}

NothingRepaired == repair.repaired = {}

EndUnrepaired ==
  /\ pc = "repairs" /\ repair.todo = {} /\ NothingRepaired
  /\ EndRun(final)
  /\ UNCHANGED <<execute, crawl, round, renders, level, gate, verdict, again,
       repair, approved, sent, broken>>

AskAgain ==
  /\ pc = "repairs" /\ repair.todo = {} /\ ~NothingRepaired /\ pc' = "reverify"
  /\ UNCHANGED <<execute, console, crawl, round, renders, level, gate, verdict,
       again, repair, final, approved, sent, broken>>

(* A Failure while re-verifying is recorded, not raised.                   *)
Reverify ==
  /\ pc = "reverify"
  /\ again' \in Verdicts \ {"none"}
  /\ EndRun(final)
  /\ UNCHANGED <<execute, crawl, round, renders, level, gate, verdict, repair,
       approved, sent, broken>>

-----------------------------------------------------------------------------
(* A phase stops the run with a typed Failure: no binding, no family, no   *)
(* intent, a render or a verification matrix that cannot be built.         *)
TypedStop ==
  /\ pc \in {"bond", "boot", "family", "discovery", "retry", "elicit", "design",
             "render", "verify"}
  /\ EndRun("BLOCKED-FAILURE")
  /\ UNCHANGED <<execute, crawl, round, renders, level, gate, verdict, again,
       repair, approved, sent, broken>>

(* Any other exception leaves run through its finally, without a report.   *)
Raise ==
  /\ pc \in Steps /\ pc' = "raised" /\ GiveConsoleBack
  /\ UNCHANGED <<execute, crawl, round, renders, level, gate, verdict, again,
       repair, final, approved, sent, broken>>

Preparation == \/ ConfirmBinding \/ OpenConsole \/ IdentifyFamily \/ Discover
               \/ LeaveRetry \/ RetryAccess \/ Elicit \/ Design \/ DesignBlocked
               \/ Render
Execution == \/ Stage \/ Deny \/ Bond \/ Skip \/ OpenSession \/ Recover
             \/ Escalate \/ Lose \/ DryRun \/ ApplyChange \/ CloseGate
Assurance == \/ VerifyPass \/ VerifyNonPass \/ CannotRepair \/ StartRepair
             \/ ApplyRepair \/ EndUnrepaired \/ AskAgain \/ Reverify

Next == Preparation \/ Execution \/ Assurance \/ TypedStop \/ Raise

Spec == Init /\ [][Next]_vars

(* run is one thread that keeps executing: it never stops on its own.      *)
FairSpec == Spec /\ WF_vars(Next)

-----------------------------------------------------------------------------
(* The state of a run is well formed at every step.                        *)
TypeOK ==
  /\ pc \in Steps \cup Ended /\ execute \in BOOLEAN
  /\ console \in {"open", "closed"}
  /\ crawl \in [Devices -> Statuses] /\ round \in 0..MaxRounds
  /\ renders \in [Devices -> Rendering] /\ level \in {0, 1}
  /\ gate \in Gate /\ verdict \in Verdicts \ {"UNVERIFIED"} /\ again \in Verdicts
  /\ repair \in Repair /\ final \in Finals /\ approved \in BOOLEAN
  /\ sent \subseteq Devices /\ broken \subseteq Devices

(* COMPLETE-APPLIED is earned: every managed device took a whole           *)
(* configuration, no named device was left uncrawled, and the network was  *)
(* verified to do what was asked.                                          *)
CompleteIsEarned ==
  (pc = "done" /\ final = "COMPLETE-APPLIED") =>
    /\ \A d \in Managed : gate.outcome[d] = "APPLIED" /\ renders[d] = "full"
    /\ NotProbed = {} /\ verdict = "PASS"

(* A device the gate could not restore or save is the loudest outcome: the *)
(* run ends BLOCKED. One that a repair left so is never called COMPLETE.   *)
BrokenIsLoud ==
  pc = "done" =>
    /\ (\E d \in Devices : gate.outcome[d] \in Unconfirmed) => final \in Blocked
    /\ broken # {} => final \notin Complete

(* When the apply loop is over, every rendered device has a change record, *)
(* was skipped with a reason, or lies behind a device that halted the run. *)
EveryRenderAccounted ==
  gate.status \in {"OK", "INCOMPLETE"} /\ execute =>
    \A d \in Rendered : \/ gate.outcome[d] # "none" \/ d \in gate.skipped
                        \/ \E h \in gate.halted : h < d

(* The gate configures no device after one whose state is not confirmed.   *)
UnconfirmedStopsTheRun ==
  \A d, e \in Devices :
    gate.outcome[d] \in Unconfirmed /\ d < e => gate.outcome[e] = "none"

(* Nothing is sent to a device that discovery did not collect in full or   *)
(* whose commands cannot be gated, not even by a repair.                   *)
OnlyGatedDevicesTouched == sent \subseteq {d \in Devices : crawl[d] = "complete"}

(* A repair that is not re-verified is an intention: a run that repaired   *)
(* something ends with a verdict taken afterwards.                         *)
RepairIsReverified == pc = "done" /\ repair.repaired # {} => again # "none"

(* Every run ends, whatever devices and operator answer.                   *)
RunEnds == <>(pc \in Ended)

-----------------------------------------------------------------------------
(* What the source says of a run, and does not hold.                       *)

(* "the engine never configures a device the human has not approved".      *)
SentIsApproved == sent # {} => approved
=============================================================================
