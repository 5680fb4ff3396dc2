---------------------------- MODULE ConfigExecutor ----------------------------
(***************************************************************************)
(* ConfigExecutor.apply (access/executor.py): one configuration change is  *)
(* planned, gated, typed line by line into a CLI session, verified by      *)
(* reading the running configuration back, saved, or undone with inverse   *)
(* commands. Every session.execute() is one step, so the device can refuse *)
(* a line, ignore it, lose the command or lose the reply at each of them,  *)
(* and can reload between any two.                                         *)
(*                                                                         *)
(* The device is modelled from how the executor uses it: a running and a   *)
(* startup configuration, each a set of paths (<<"vlan 10", "name users">> *)
(* is the line `name users' inside `vlan 10'), and the CLI mode the        *)
(* session is in. A hash of the normalised running configuration is the    *)
(* configuration it was taken of.                                          *)
(***************************************************************************)
EXTENDS ChangePlan

CONSTANTS
  Requests,        \* the changes a caller may ask for
  Families,        \* the device families: how configuration mode is entered
                   \* and whether the configuration can be read back
  InitialConfigs,  \* the configurations a device may start with
  MaxChanges,      \* bound: changes applied one after the other
  MaxFaults        \* bound: refusals, losses, failed reads and device reloads

Path   == Seq(Items)
Config == SUBSET Path

(* wrapped: configuration is typed between `configure terminal' and `end'. *)
(* capture: the allowlist declares a command that dumps the configuration. *)
Family == [wrapped : BOOLEAN, capture : BOOLEAN]

(* One call of apply. armed: arm_high_risk was called; persist: the        *)
(* family's save command, if any, and whether the allowlist lists it;      *)
(* store: how the evidence ledger is configured.                           *)
Request == [body : Seq(BodyLine), dryRun : BOOLEAN, armed : BOOLEAN,
            verify : BOOLEAN, persist : {"none", "save", "unlisted"},
            store : {"none", "nokey", "ok"}]

ASSUME ItemsAssumption    == Items # {}
ASSUME FamiliesAssumption == Families \subseteq Family
ASSUME RequestsAssumption == Requests # {} /\ Requests \subseteq Request
ASSUME ConfigsAssumption  == InitialConfigs \subseteq Config
ASSUME BoundsAssumption   == MaxChanges \in Nat /\ MaxFaults \in Nat

(* The plan of every request on every family.                              *)
Plans == [r \in Requests |-> [f \in Families |-> PlanOf(r.body, f.wrapped)]]
Undos == [r \in Requests |->
           [f \in Families |-> RollbackPlan(Plans[r][f].lines)]]

Causes == {"NOT_ALLOWLISTED", "HIGH_RISK_NOT_AUTHORIZED", "DRY_RUN_ONLY",
           "COMMAND_FAILED", "VERIFY_FAILED", "PERSIST_FAILED",
           "MANUAL_ROLLBACK_REQUIRED", "ROLLBACK_COMMAND_FAILED",
           "ROLLBACK_STATE_MISMATCH", "LEDGER_NOT_CONFIGURED",
           "LEDGER_WRITE_FAILED"}

Outcomes == {"APPLIED", "ROLLED_BACK", "ROLLBACK_FAILED", "PERSIST_FAILED",
             "REJECTED", "DRY_RUN"}

(* The hash of a configuration dump: of a configuration, of the text of a  *)
(* refusal (an unprivileged or configuring session answers the dump        *)
(* command with an error message), or no hash because the read failed.     *)
Hash       == [kind : {"none", "refusal", "config"}, config : Config]
NoHash     == [kind |-> "none", config |-> {}]
OfRefusal  == [kind |-> "refusal", config |-> {}]
HashOf(c)  == [kind |-> "config", config |-> c]

(* obeyed (history): since the change began the device ignored no line it  *)
(* did not refuse, and did not reload.                                     *)
Device == [running : Config, startup : Config, cfg : BOOLEAN, path : Path,
           obeyed : BOOLEAN]

Record == [outcome : Outcomes, before : Hash, after : Hash, undone : Hash,
           checked : BOOLEAN, already : BOOLEAN, causes : SUBSET Causes]

Cursor == [next : Nat, depth : Nat, undo : Nat, marked : BOOLEAN,
           verified : BOOLEAN, failed : BOOLEAN, manual : BOOLEAN,
           broken : BOOLEAN]

Phases == {"idle", "refused", "gate", "baseline", "apply", "verify", "persist",
           "rollback", "done"}

VARIABLES
  fam,      \* the family of the device
  dev,      \* the device and the CLI mode of its session
  pc,       \* where apply() is
  req,      \* the arguments of the call
  lines,    \* the planned lines
  plan,     \* the rollback plan
  cur,      \* local variables: next line, current_depth, next inverse, flags
  rec,      \* the ChangeRecord
  ledger,   \* the config_change events written to the evidence ledger
  changes,  \* how many changes were asked for
  faults,   \* how many faults happened
  base,     \* history: the running configuration when the change began
  calm      \* history: the session began outside configuration mode and
            \* neither a fault nor a reload hit this change

vars == <<fam, dev, pc, req, lines, plan, cur, rec, ledger, changes, faults,
          base, calm>>

-----------------------------------------------------------------------------
(* The device.                                                             *)

AtExec(d) == ~d.cfg /\ d.path = << >>

InConfig(f, d) == f.wrapped => d.cfg

IsPrefix(p, q) == Len(p) <= Len(q) /\ SubSeq(q, 1, Len(p)) = p

Butlast(p) == SubSeq(p, 1, Len(p) - 1)

(* A configuration command is understood in the mode it belongs to; from a *)
(* deeper mode the CLI falls back to it. In a shallower mode it is an      *)
(* unknown command.                                                        *)
Accepts(f, d, c) ==
  CASE c.op \in {"set", "unset"} -> InConfig(f, d) /\ Len(d.path) >= c.depth
    [] c.op = "save"             -> ~d.cfg
    [] OTHER                     -> TRUE

(* What an accepted command does. A section that is only opened (it has no *)
(* inverse) leaves nothing in the configuration; removing a section        *)
(* removes what is in it.                                                  *)
Effect(f, d, c) ==
  LET parent == SubSeq(d.path, 1, c.depth)
      here   == Append(parent, c.item)
  IN  CASE c.op = "enter" -> IF d.cfg THEN d
                             ELSE [d EXCEPT !.cfg = TRUE, !.path = << >>]
        [] c.op = "leave" -> [d EXCEPT !.cfg = FALSE, !.path = << >>]
        [] c.op = "exit"  -> IF d.path # << >>
                             THEN [d EXCEPT !.path = Butlast(d.path)]
                             ELSE [d EXCEPT !.cfg = FALSE]
        [] c.op = "set"   -> [d EXCEPT
                               !.running = IF c.inert THEN @ ELSE @ \cup {here},
                               !.path = IF c.enters THEN here ELSE parent]
        [] c.op = "unset" -> [d EXCEPT
                               !.running = {p \in @ : ~IsPrefix(here, p)},
                               !.path = parent]
        [] c.op = "save"  -> [d EXCEPT !.startup = d.running]

Command(op, item, depth, enters, inert) ==
  [op |-> op, item |-> item, depth |-> depth, enters |-> enters,
   inert |-> inert]

LineCommand(l) == Command(l.op, l.item, l.depth, l.enters,
                          l.enters /\ l.inverse = "none")
InverseCommand(s) == Command(s.op, s.item, s.depth, FALSE, FALSE)
ModeExit == Command("exit", AnyItem, 0, FALSE, FALSE)
Save     == Command("save", AnyItem, 0, FALSE, FALSE)

(* What session.execute() may do: the reply is "fine", "marker" (the text  *)
(* of a refusal, which raises nothing) or "error" (an exception). Faults:  *)
(* a refusal for another reason, a line silently ignored, a command lost,  *)
(* and a command executed whose reply is lost (a timeout).                 *)
Answers(f, d, c) ==
  LET done == IF Accepts(f, d, c) THEN Effect(f, d, c) ELSE d
      said == IF Accepts(f, d, c) THEN "fine" ELSE "marker"
  IN  { [dev |-> done, reply |-> said,     fault |-> 0],
        [dev |-> d,    reply |-> "marker", fault |-> 1],
        [dev |-> [d EXCEPT !.obeyed = FALSE], reply |-> "fine", fault |-> 1],
        [dev |-> d,    reply |-> "error",  fault |-> 1],
        [dev |-> done, reply |-> "error",  fault |-> 1] }

(* Reading the running configuration. In a configuration mode the dump     *)
(* command may be answered with a refusal, which is hashed like any text.  *)
Reads(f, d) ==
  IF ~f.capture THEN { [hash |-> NoHash, fault |-> 0] }
  ELSE { [hash |-> HashOf(d.running), fault |-> 0],
         [hash |-> OfRefusal, fault |-> IF AtExec(d) THEN 1 ELSE 0],
         [hash |-> NoHash, fault |-> 1] }

-----------------------------------------------------------------------------
(* What the executor derives from its local variables.                     *)

ConfigIndices(ls) == { k \in DOMAIN ls : ls[k].kind = "CONFIG" }
Applied == { lines[k] : k \in { m \in ConfigIndices(lines) : m < cur.next } }

(* The lines of text of a configuration dump, without their indentation.   *)
Text(c) == UNION { {p[k] : k \in DOMAIN p} : p \in c }

(* _verify_state_present: a `no' line must be gone, any other one present, *)
(* anywhere in the text.                                                   *)
StateAbsent(applied, text) ==
  { l \in applied : IF l.op = "unset" THEN l.item \in text
                                     ELSE l.item \notin text }

(* Variant of Verified for the checks: an unchanged hash always fails, as  *)
(* before re-applying a change was recognised.                             *)
VerifiedByHashAlone(before, after, absent) ==
  before.kind # "none" /\ after # before

(* _verify_change once the readback succeeded.                             *)
Verified(before, after, absent) ==
  /\ before.kind # "none"
  /\ absent = {}

(* Variant of RollbackOutcome: the hashes are not compared.                *)
RollbackOutcomeByReplies(manual, failed, before, undone) ==
  IF manual \/ failed THEN "ROLLBACK_FAILED" ELSE "ROLLED_BACK"

(* The end of _rollback: the outcome from what happened.                   *)
RollbackOutcome(manual, failed, before, undone) ==
  IF \/ manual \/ failed
     \/ /\ before.kind # "none" /\ undone.kind # "none"
        /\ undone # before
  THEN "ROLLBACK_FAILED" ELSE "ROLLED_BACK"

-----------------------------------------------------------------------------
NewCursor == [next |-> 1, depth |-> 0, undo |-> 0, marked |-> FALSE,
              verified |-> FALSE, failed |-> FALSE, manual |-> FALSE,
              broken |-> FALSE]

NewRecord == [outcome |-> "APPLIED", before |-> NoHash, after |-> NoHash,
              undone |-> NoHash, checked |-> FALSE, already |-> FALSE,
              causes |-> {}]

Init == /\ fam \in Families
        /\ \E c \in InitialConfigs :
             dev = [running |-> c, startup |-> c, cfg |-> FALSE, path |-> << >>,
                    obeyed |-> TRUE]
        /\ pc = "idle"
        /\ req = CHOOSE r \in Requests : TRUE   \* no call yet
        /\ lines = << >> /\ plan = << >>
        /\ cur = NewCursor /\ rec = NewRecord
        /\ ledger = << >>
        /\ changes = 0 /\ faults = 0
        /\ base = dev.running /\ calm = TRUE

(* The fault budget: `n' faults happen in this step.                       *)
Faults(n) == /\ faults + n <= MaxFaults
             /\ faults' = faults + n
             /\ calm' = (calm /\ n = 0)

(* _record_to_ledger: what happens to the event, as the store is set up.   *)
LedgerWrites ==
  CASE req.store = "none"  -> { [logged |-> FALSE, causes |-> {}, fault |-> 0] }
    [] req.store = "nokey" -> { [logged |-> FALSE, fault |-> 0,
                                 causes |-> {"LEDGER_NOT_CONFIGURED"}] }
    [] OTHER -> { [logged |-> TRUE, causes |-> {}, fault |-> 0],
                  [logged |-> FALSE, fault |-> 1,
                   causes |-> {"LEDGER_WRITE_FAILED"}],
                  [logged |-> TRUE, fault |-> 1,
                   causes |-> {"LEDGER_WRITE_FAILED"}] }

(* Variant of Close: the event is written before the outcome is set.       *)
CloseTooEarly(r, n) ==
  \E w \in LedgerWrites :
    /\ Faults(n + w.fault)
    /\ rec' = [r EXCEPT !.causes = @ \cup w.causes]
    /\ ledger' = IF w.logged
                 THEN Append(ledger, [change |-> changes, outcome |-> rec.outcome])
                 ELSE ledger
    /\ pc' = "done"

(* The end of apply: the record is written to the ledger and returned.     *)
Close(r, n) ==
  \E w \in LedgerWrites :
    /\ Faults(n + w.fault)
    /\ rec' = [r EXCEPT !.causes = @ \cup w.causes]
    /\ ledger' = IF w.logged
                 THEN Append(ledger, [change |-> changes, outcome |-> r.outcome])
                 ELSE ledger
    /\ pc' = "done"

(* The change goes on: no ledger write.                                    *)
Continue(phase, n) == /\ Faults(n)
                      /\ pc' = phase
                      /\ UNCHANGED ledger

(* _rollback is entered at a mode depth. When no line was applied nothing  *)
(* is sent and nothing is read.                                            *)
StartRollback(r, depth, n) ==
  IF Applied = {}
  THEN /\ Close([r EXCEPT !.outcome = "ROLLED_BACK", !.undone = r.before], n)
       /\ UNCHANGED cur
  ELSE /\ Continue("rollback", n)
       /\ rec' = r
       /\ cur' = [cur EXCEPT !.depth = depth, !.undo = Len(plan)]

Caused(r, cause) == [r EXCEPT !.causes = @ \cup {cause}]

-----------------------------------------------------------------------------
(* A call of apply, and its phase 0: planning, before anything is sent. A  *)
(* line without an execution path refuses the whole change. The session    *)
(* may be a new one, which starts outside configuration mode, or the one   *)
(* the last change left behind.                                            *)
Call(r) ==
  /\ pc \in {"idle", "done"} /\ changes < MaxChanges
  /\ req' = r
  /\ \E fresh \in BOOLEAN :
       dev' = IF fresh
              THEN [dev EXCEPT !.cfg = FALSE, !.path = << >>, !.obeyed = TRUE]
              ELSE [dev EXCEPT !.obeyed = TRUE]
  /\ IF Plans[r][fam].ok
     THEN pc' = "gate" /\ lines' = Plans[r][fam].lines /\ plan' = Undos[r][fam]
     ELSE pc' = "refused" /\ lines' = << >> /\ plan' = << >>
  /\ cur' = NewCursor /\ rec' = NewRecord
  /\ changes' = changes + 1
  /\ base' = dev.running /\ calm' = AtExec(dev')
  /\ UNCHANGED <<fam, ledger, faults>>

Quiet == UNCHANGED <<fam, dev, req, lines, plan, changes, base>>

RejectPlan ==
  /\ pc = "refused"
  /\ Close([Caused(rec, "NOT_ALLOWLISTED") EXCEPT !.outcome = "REJECTED"], 0)
  /\ Quiet /\ UNCHANGED cur

HighRiskRefused == HighRisk(lines) /\ ~req.armed

(* The two gates after planning, then the first line is in sight.          *)
GateChange ==
  /\ pc = "gate"
  /\ \/ /\ HighRiskRefused
        /\ Close([Caused(rec, "HIGH_RISK_NOT_AUTHORIZED")
                  EXCEPT !.outcome = "REJECTED"], 0)
     \/ /\ ~HighRiskRefused /\ req.dryRun
        /\ Close([Caused(rec, "DRY_RUN_ONLY") EXCEPT !.outcome = "DRY_RUN"], 0)
     \/ /\ ~HighRiskRefused /\ ~req.dryRun
        /\ Continue("baseline", 0) /\ UNCHANGED rec
  /\ Quiet /\ UNCHANGED cur

(* Phase 1: baseline evidence.                                             *)
ReadBaseline ==
  /\ pc = "baseline"
  /\ \E h \in Reads(fam, dev) :
       /\ Continue("apply", h.fault)
       /\ rec' = [rec EXCEPT !.before = h.hash]
  /\ Quiet /\ UNCHANGED cur

-----------------------------------------------------------------------------
(* Phase 2: the lines, one by one. A failed command rolls the change back. *)

Line == lines[cur.next]
Applying == pc = "apply" /\ cur.next <= Len(lines)
Advance(depth) == cur' = [cur EXCEPT !.next = @ + 1, !.depth = depth]

SkipComment ==
  /\ Applying /\ Line.kind = "COMMENT"
  /\ Advance(cur.depth)
  /\ UNCHANGED <<pc, rec, ledger, faults, calm>> /\ Quiet

SendMode ==
  /\ Applying /\ Line.kind = "MODE"
  /\ \E a \in Answers(fam, dev, LineCommand(Line)) :
       /\ dev' = a.dev
       /\ \/ /\ a.reply # "error"
             /\ Continue("apply", a.fault) /\ UNCHANGED rec
             /\ Advance(IF Line.op = "exit" THEN Line.depth ELSE cur.depth)
          \/ /\ a.reply = "error"
             /\ StartRollback(Caused(rec, "COMMAND_FAILED"), cur.depth, a.fault)
  /\ UNCHANGED <<fam, req, lines, plan, changes, base>>

(* Variant of SendLine: only the last refusal is remembered.               *)
SendLineLastMark ==
  /\ Applying /\ Line.kind = "CONFIG"
  /\ \E a \in Answers(fam, dev, LineCommand(Line)) :
       /\ dev' = a.dev
       /\ \/ /\ a.reply # "error"
             /\ Continue("apply", a.fault) /\ UNCHANGED rec
             /\ cur' = [cur EXCEPT !.next = @ + 1,
                          !.depth = Line.depth + (IF Line.enters THEN 1 ELSE 0),
                          !.marked = a.reply = "marker"]
          \/ /\ a.reply = "error"
             /\ StartRollback(Caused(rec, "COMMAND_FAILED"), cur.depth, a.fault)
  /\ UNCHANGED <<fam, req, lines, plan, changes, base>>

SendLine ==
  /\ Applying /\ Line.kind = "CONFIG"
  /\ \E a \in Answers(fam, dev, LineCommand(Line)) :
       /\ dev' = a.dev
       /\ \/ /\ a.reply # "error"
             /\ Continue("apply", a.fault) /\ UNCHANGED rec
             /\ cur' = [cur EXCEPT !.next = @ + 1,
                          !.depth = Line.depth + (IF Line.enters THEN 1 ELSE 0),
                          !.marked = @ \/ a.reply = "marker"]
          \/ /\ a.reply = "error"
             /\ StartRollback(Caused(rec, "COMMAND_FAILED"), cur.depth, a.fault)
  /\ UNCHANGED <<fam, req, lines, plan, changes, base>>

(* Variant of ReadAfter: the change is saved, then verified.               *)
ReadAfterThenSave ==
  /\ pc = "apply" /\ cur.next > Len(lines)
  /\ \E h \in Reads(fam, dev) :
       /\ Continue("persist", h.fault)
       /\ rec' = [rec EXCEPT !.after = h.hash]
  /\ Quiet /\ UNCHANGED cur

(* All lines were sent: the hash after the change.                         *)
ReadAfter ==
  /\ pc = "apply" /\ cur.next > Len(lines)
  /\ \E h \in Reads(fam, dev) :
       /\ Continue(IF req.verify THEN "verify" ELSE "persist", h.fault)
       /\ rec' = [rec EXCEPT !.after = h.hash]
  /\ Quiet /\ UNCHANGED cur

-----------------------------------------------------------------------------
(* Phase 3: verification. The exit wrappers have run, so a rollback starts *)
(* with the mode depth taken to be 0.                                      *)

(* A line was answered with a refusal.                                     *)
VerifyRefused ==
  /\ pc = "verify" /\ cur.marked
  /\ StartRollback(Caused(rec, "VERIFY_FAILED"), 0, 0)
  /\ Quiet

(* The readback. Without one the change passes unverified.                 *)
VerifyState ==
  /\ pc = "verify" /\ ~cur.marked
  /\ \E h \in Reads(fam, dev) :
       LET absent == StateAbsent(Applied, Text(h.hash.config))
           r == [rec EXCEPT !.after = h.hash, !.checked = TRUE,
                   !.already = /\ rec.before.kind # "none" /\ absent = {}
                               /\ h.hash = rec.before]
       IN  \/ /\ h.hash.kind = "none"
              /\ Continue("persist", h.fault) /\ UNCHANGED rec
              /\ cur' = [cur EXCEPT !.verified = TRUE]
           \/ /\ h.hash.kind # "none"
              /\ Verified(rec.before, h.hash, absent)
              /\ Continue("persist", h.fault) /\ rec' = r
              /\ cur' = [cur EXCEPT !.verified = TRUE]
           \/ /\ h.hash.kind # "none"
              /\ ~Verified(rec.before, h.hash, absent)
              /\ StartRollback(Caused(r, "VERIFY_FAILED"), 0, h.fault)
  /\ Quiet

-----------------------------------------------------------------------------
(* Phase 4: saving, only now. At most one save command, as every renderer  *)
(* declares. Its reply's text is not looked at.                            *)

CloseUnsaved(n) ==
  Close([Caused(rec, "PERSIST_FAILED") EXCEPT !.outcome = "PERSIST_FAILED"], n)

FinishWithoutSave ==
  /\ pc = "persist" /\ req.persist # "save"
  /\ IF req.persist = "none"
     THEN Close([rec EXCEPT !.outcome = "APPLIED"], 0)
     ELSE CloseUnsaved(0)
  /\ Quiet /\ UNCHANGED cur

SaveChange ==
  /\ pc = "persist" /\ req.persist = "save"
  /\ \E a \in Answers(fam, dev, Save) :
       /\ dev' = a.dev
       /\ IF a.reply = "error" THEN CloseUnsaved(a.fault)
          ELSE Close([rec EXCEPT !.outcome = "APPLIED"], a.fault)
  /\ UNCHANGED <<fam, req, lines, plan, cur, changes, base>>

-----------------------------------------------------------------------------
(* Rollback: the inverses in reverse order, for every planned line.        *)

Undo == plan[cur.undo]
Undoing == pc = "rollback" /\ cur.undo > 0

(* A marker is recorded for the operator, never sent.                      *)
RecordManual ==
  /\ Undoing /\ Undo.manual
  /\ cur' = [cur EXCEPT !.undo = @ - 1, !.manual = TRUE]
  /\ rec' = Caused(rec, "MANUAL_ROLLBACK_REQUIRED")
  /\ UNCHANGED <<pc, ledger, faults, calm>> /\ Quiet

(* Leave sub-modes until the inverse's depth; an exit that fails ends the  *)
(* unwinding for this inverse.                                             *)
MustUnwindPast == cur.depth >= Undo.depth /\ ~cur.broken   \* off by one
MustUnwind == cur.depth > Undo.depth /\ ~cur.broken

Unwind ==
  /\ Undoing /\ ~Undo.manual /\ MustUnwind
  /\ \E a \in Answers(fam, dev, ModeExit) :
       /\ dev' = a.dev /\ Faults(a.fault)
       /\ cur' = [cur EXCEPT !.depth = @ - 1,
                    !.failed = @ \/ a.reply = "error",
                    !.broken = a.reply = "error"]
  /\ UNCHANGED <<fam, pc, req, lines, plan, rec, ledger, changes, base>>

SendInverse ==
  /\ Undoing /\ ~Undo.manual /\ ~MustUnwind
  /\ \E a \in Answers(fam, dev, InverseCommand(Undo)) :
       /\ dev' = a.dev /\ Faults(a.fault)
       /\ cur' = [cur EXCEPT !.undo = @ - 1, !.broken = FALSE,
                    !.failed = @ \/ a.reply = "error"]
  /\ UNCHANGED <<fam, pc, req, lines, plan, rec, ledger, changes, base>>

(* Variant of LeaveModes: the depth is not counted down.                   *)
LeaveModesForever ==
  /\ pc = "rollback" /\ cur.undo = 0 /\ cur.depth > 0
  /\ \E a \in Answers(fam, dev, ModeExit) : dev' = a.dev /\ Faults(a.fault)
  /\ UNCHANGED <<fam, pc, req, lines, plan, cur, rec, ledger, changes, base>>

(* The modes the session is still believed to be inside.                   *)
LeaveModes ==
  /\ pc = "rollback" /\ cur.undo = 0 /\ cur.depth > 0
  /\ \E a \in Answers(fam, dev, ModeExit) :
       /\ dev' = a.dev /\ Faults(a.fault)
       /\ cur' = [cur EXCEPT !.depth = @ - 1]
  /\ UNCHANGED <<fam, pc, req, lines, plan, rec, ledger, changes, base>>

(* Variant of ConfirmRollback: apply does not return, and goes on to save. *)
ConfirmAndGoOn ==
  /\ pc = "rollback" /\ cur.undo = 0 /\ cur.depth = 0
  /\ \E h \in Reads(fam, dev) :
       /\ Continue("persist", h.fault)
       /\ rec' = [rec EXCEPT !.undone = h.hash]
  /\ Quiet /\ UNCHANGED cur

(* The hash after the rollback decides the outcome.                        *)
ConfirmRollback ==
  /\ pc = "rollback" /\ cur.undo = 0 /\ cur.depth = 0
  /\ \E h \in Reads(fam, dev) :
       Close([rec EXCEPT !.undone = h.hash,
                !.outcome = RollbackOutcome(cur.manual, cur.failed,
                                            rec.before, h.hash),
                !.causes = @ \cup
                  CASE cur.failed -> {"ROLLBACK_COMMAND_FAILED"}
                    [] ~cur.failed /\ cur.manual -> {}
                    [] OTHER -> IF RollbackOutcome(FALSE, FALSE, rec.before,
                                                   h.hash) = "ROLLED_BACK"
                                THEN {} ELSE {"ROLLBACK_STATE_MISMATCH"}],
             h.fault)
  /\ Quiet /\ UNCHANGED cur

-----------------------------------------------------------------------------
(* The device reloads with its startup configuration.                      *)
Reload ==
  /\ pc \notin {"idle", "done"} /\ Faults(1)
  /\ dev' = [dev EXCEPT !.running = dev.startup, !.cfg = FALSE, !.path = << >>,
                       !.obeyed = FALSE]
  /\ UNCHANGED <<fam, pc, req, lines, plan, cur, rec, ledger, changes, base>>

(* No change is left to make.                                              *)
Finished == pc = "done" /\ changes = MaxChanges /\ UNCHANGED vars

Step == \/ RejectPlan \/ GateChange \/ ReadBaseline
        \/ SkipComment \/ SendMode \/ SendLine \/ ReadAfter
        \/ VerifyRefused \/ VerifyState
        \/ FinishWithoutSave \/ SaveChange
        \/ RecordManual \/ Unwind \/ SendInverse \/ LeaveModes \/ ConfirmRollback

Next == (\E r \in Requests : Call(r)) \/ Step \/ Reload \/ Finished

Spec == Init /\ [][Next]_vars

(* Every call of execute returns or raises within its timeout, and apply   *)
(* runs in its caller's thread: once called, it goes on.                   *)
FairSpec == Spec /\ WF_vars(Step)

-----------------------------------------------------------------------------
(* Properties.                                                             *)

TypeOK ==
  /\ fam \in Families /\ dev \in Device /\ pc \in Phases /\ req \in Requests
  /\ lines \in Seq(PlannedLine) /\ plan \in Seq(InverseStep)
  /\ cur \in Cursor /\ rec \in Record
  /\ ledger \in Seq([change : Nat, outcome : Outcomes])
  /\ changes \in 0 .. MaxChanges /\ faults \in 0 .. MaxFaults
  /\ base \in Config /\ calm \in BOOLEAN

(* Where line k of a plan belongs: the sections opened by the last lines   *)
(* above it at each lesser depth, and itself.                              *)
OpenedAt(ls, k, d) ==
  { m \in 1 .. (k - 1) : /\ ls[m].kind = "CONFIG" /\ ls[m].enters
                         /\ ls[m].depth = d }
SectionOf(ls, k) ==
  [j \in 1 .. ls[k].depth |-> ls[Max(OpenedAt(ls, k, j - 1))].item]
PathOf(ls, k) == Append(SectionOf(ls, k), ls[k].item)

(* Line k is in place, and the text of the configuration shows it: what it *)
(* sets is in its section (a section without inverse leaves in its text    *)
(* only what is inside it), what it removes is nowhere.                    *)
InPlace(ls, k, c) ==
  IF ls[k].op = "unset" THEN ls[k].item \notin Text(c)
  ELSE /\ ls[k].item \in Text(c)
       /\ PathOf(ls, k) \in c \/ (ls[k].enters /\ ls[k].inverse = "none")

(* The comment on phase 2: the session is always in the mode the next      *)
(* command expects. In an undisturbed change every configuration line is   *)
(* typed inside the sections the renderer indented it under, except that   *)
(* the session may still be inside a section the line before it opened and *)
(* left empty, from where the command falls back.                          *)
EmptySection(k) ==
  LET before == { m \in ConfigIndices(lines) : m < k }
  IN  /\ before # {} /\ lines[Max(before)].enters
      /\ lines[k].depth <= lines[Max(before)].depth
TypedInItsMode ==
  calm /\ Applying /\ Line.kind = "CONFIG" =>
    LET section == SectionOf(lines, cur.next)
    IN  /\ InConfig(fam, dev)
        /\ \/ dev.path = section
           \/ /\ EmptySection(cur.next)
              /\ dev.path # << >> /\ Butlast(dev.path) = section

(* Phase 4 runs only after phase 3: the startup configuration is only ever *)
(* written by the save command of a change, and what is written contains   *)
(* every line the change set, unless the configuration could not be read   *)
(* back. No half-applied or half-undone state is made permanent.           *)
SavedIsVerified ==
  [][dev'.startup # dev.startup =>
       /\ pc = "persist" /\ (req.verify => cur.verified)
       /\ rec.checked /\ rec.after.kind = "config" =>
            StateAbsent(Applied, Text(dev'.startup)) = {}]_vars

(* A change that was rolled back after lines were sent, with both hashes   *)
(* of a configuration, left the device as it found it (if it did not       *)
(* reload since the baseline): no half-undone device is reported clean.    *)
RolledBackIsClean ==
  /\ pc = "done" /\ rec.outcome = "ROLLED_BACK" /\ Applied # {}
  /\ rec.before.kind = "config" /\ rec.undone.kind = "config"
  => dev.running = rec.before.config

(* Applying again a change that is in place, on an undisturbed session     *)
(* whose readback was not refused, changes nothing, rolls nothing back and *)
(* is recognised by the readback as in place already (the bug measured in  *)
(* the comment of _verify_change: it used to delete the VLAN it was asked  *)
(* to create).                                                             *)
Misread == rec.checked /\ rec.after.kind = "refusal"
ReapplyIsIdempotent ==
  /\ pc = "done" /\ calm /\ ~Misread
  /\ \A k \in ConfigIndices(lines) : InPlace(lines, k, base)
  => /\ dev.running = base
     /\ rec.outcome \notin {"ROLLED_BACK", "ROLLBACK_FAILED"}
     /\ rec.checked => rec.already

(* The evidence ledger agrees with the record the caller gets: one event   *)
(* for each change, with the outcome of the record, or a record that says  *)
(* the event may be missing.                                               *)
EventsOf(c) == { k \in DOMAIN ledger : ledger[k].change = c }
LedgerAgrees ==
  /\ \A c \in 1 .. changes : Cardinality(EventsOf(c)) <= 1
  /\ pc = "done" /\ changes > 0 =>
       /\ \A k \in EventsOf(changes) : ledger[k].outcome = rec.outcome
       /\ EventsOf(changes) # {} \/ req.store = "none"
            \/ rec.causes \cap {"LEDGER_WRITE_FAILED",
                                "LEDGER_NOT_CONFIGURED"} # {}

(* A change that is reported APPLIED, with verification asked for, stands  *)
(* on the device line by line, each where the renderer indented it,        *)
(* although the readback looks for the text of a line anywhere: neither a  *)
(* refused line nor a lost command or reply is covered up by the same text *)
(* in another section, and no mode the session was left in puts a line     *)
(* elsewhere. (A line the device ignores without a word is beyond it.)     *)
Stands(k) ==
  IF lines[k].op = "unset"
  THEN \A p \in dev.running : ~IsPrefix(PathOf(lines, k), p)
  ELSE \/ PathOf(lines, k) \in dev.running
       \/ lines[k].enters /\ lines[k].inverse = "none"
Overrides(m, k) ==
  \/ /\ lines[m].op = "unset" /\ lines[k].op = "set"
     /\ IsPrefix(PathOf(lines, m), PathOf(lines, k))
  \/ /\ lines[m].op = "set" /\ lines[k].op = "unset"
     /\ IsPrefix(PathOf(lines, k), PathOf(lines, m))
AppliedIsInPlace ==
  pc = "done" /\ rec.outcome = "APPLIED" /\ req.verify /\ dev.obeyed =>
    \A k \in ConfigIndices(lines) :
      \/ Stands(k)
      \/ \E m \in ConfigIndices(lines) : m > k /\ Overrides(m, k)

(* Every call returns a record: no wait on the device and no unwinding of  *)
(* modes goes on forever.                                                  *)
EveryCallReturns == pc # "idle" ~> pc = "done"

(* apply keeps the protocol its callers rely on.                           *)
PhaseOf == CASE pc = "idle"                           -> "idle"
             [] pc \in {"refused", "gate"}            -> "asked"
             [] pc \in {"baseline", "apply", "verify"} -> "changing"
             [] pc = "rollback"                       -> "undoing"
             [] pc = "persist"                        -> "saving"
             [] pc = "done"                           -> "closed"
VerdictOf == IF pc = "done" THEN rec.outcome ELSE "none"

Protocol == INSTANCE ChangeProtocol
              WITH phase <- PhaseOf, verdict <- VerdictOf,
                   startup <- dev.startup, Config <- Config
KeepsProtocol == Protocol!Spec

-----------------------------------------------------------------------------
(* What a comment of the code promises, and the code does not.             *)

(* "rolled back AND confirmed clean" (the comment on ROLLED_BACK).         *)
RolledBackIsConfirmed ==
  pc = "done" /\ rec.outcome = "ROLLED_BACK" => dev.running = base
=============================================================================
