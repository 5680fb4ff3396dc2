------------------------------ MODULE ChangePlan ------------------------------
(***************************************************************************)
(* Planning of one configuration change, before anything is sent           *)
(* (access/executor.py, _plan and _build_rollback_plan): the rendered      *)
(* lines of a change, whose indentation encodes the CLI nesting, become    *)
(* the list of commands the executor will type, with the mode depth of     *)
(* each, and the list of inverse commands a rollback would type.           *)
(*                                                                         *)
(* A command's text is abstracted to an operation on an item; what the     *)
(* allowlist entry of the command says of it (class, whether it opens a    *)
(* sub-mode, whether it declares an inverse) is part of the line.          *)
(***************************************************************************)
EXTENDS Integers, Sequences, FiniteSetsExt

CONSTANT Items   \* what a configuration line sets: "vlan 10", "name users"...

Classes == {"CONFIG_REVERSIBLE", "CONFIG_HIGH_RISK", "OTHER"}
ConfigClasses == {"CONFIG_REVERSIBLE", "CONFIG_HIGH_RISK"}

(* A line of a change as the renderer wrote it, with its allowlist entry.  *)
(* inverse: "declared", or "none" when the entry declares no rollback. No  *)
(* entry of the allowlists for a `no' command opens a sub-mode.            *)
BodyLine == { l \in [kind : {"config", "comment"}, item : Items, indent : Nat,
                     op : {"set", "unset"}, enters : BOOLEAN,
                     cls : Classes, inverse : {"declared", "none"}] :
              l.op = "unset" => ~l.enters }

(* A line of the plan. MODE lines move between CLI modes: "enter" and      *)
(* "leave" are the wrappers (configure terminal, end), "exit" leaves one   *)
(* sub-mode.                                                               *)
LineOf(kind, ops) == [kind : {kind}, op : ops, item : Items, depth : Nat,
                      enters : BOOLEAN, cls : Classes,
                      inverse : {"declared", "none"}]
PlannedLine == LineOf("MODE", {"enter", "leave", "exit"})
               \cup LineOf("CONFIG", {"set", "unset"})
               \cup LineOf("COMMENT", {"none"})

(* An entry of the rollback plan: an inverse to type, or a marker saying   *)
(* a human has to do it.                                                   *)
InverseStep == [op : {"set", "unset"}, item : Items, depth : Nat,
                manual : BOOLEAN]

AnyItem == CHOOSE i \in Items : TRUE

ModeLine(op, depth) ==
  [kind |-> "MODE", op |-> op, item |-> AnyItem, depth |-> depth,
   enters |-> FALSE, cls |-> "OTHER", inverse |-> "none"]

(* The lines that leave the sub-modes from depth `from' down to depth      *)
(* `to'; none when the next line is not shallower.                         *)
Exits(from, to) ==
  IF from <= to THEN << >>
  ELSE [k \in 1 .. (from - to) |-> ModeLine("exit", from - k)]

NoPending == -1

(* The indent width of one nesting level: the smallest positive indent.    *)
IndentStep(body) ==
  LET positive == {body[k].indent : k \in DOMAIN body} \ {0}
  IN  IF positive = {} THEN 1 ELSE Min(positive)

(* A wrapper of the change, when the device's family has one.              *)
Wrapper(op, wrapped) == IF wrapped THEN << ModeLine(op, 0) >> ELSE << >>

PlanStart(wrapped) == [lines |-> Wrapper("enter", wrapped), level |-> 0,
                       pending |-> NoPending, ok |-> TRUE]

Refused(acc) == [acc EXCEPT !.ok = FALSE]

(* A line may be indented deeper than the session is only right after the  *)
(* line that opened that sub-mode.                                         *)
LegalIndent(acc, target) ==
  target > acc.level => /\ acc.pending # NoPending
                        /\ target = acc.pending + 1

(* Variant of PlanLine for the checks: a drop in indentation inserts no    *)
(* exit, as before the executor tracked mode depth.                        *)
PlanLineNoExits(acc, line, step) ==
  LET target == line.indent \div step
  IN  IF line.kind = "comment" \/ ~acc.ok THEN acc
      ELSE IF ~LegalIndent(acc, target) \/ line.cls \notin ConfigClasses
      THEN Refused(acc)
      ELSE [lines   |-> Append(acc.lines,
                         [kind |-> "CONFIG", op |-> line.op, item |-> line.item,
                          depth |-> target, enters |-> line.enters,
                          cls |-> line.cls, inverse |-> line.inverse]),
            level   |-> target,
            pending |-> IF line.enters THEN target ELSE NoPending,
            ok      |-> TRUE]

(* One line of the body. Planning stops at the first line refused.         *)
PlanLine(acc, line, step) ==
  LET target == line.indent \div step
  IN  CASE ~acc.ok -> acc
        [] acc.ok /\ line.kind = "comment" ->
             [acc EXCEPT !.lines = Append(@, [ModeLine("none", acc.level)
                                              EXCEPT !.kind = "COMMENT"])]
        [] acc.ok /\ line.kind = "config" ->
             IF ~LegalIndent(acc, target) \/ line.cls \notin ConfigClasses
             THEN Refused(acc)
             ELSE [lines   |-> Append(acc.lines \o Exits(acc.level, target),
                                 [kind |-> "CONFIG", op |-> line.op,
                                  item |-> line.item, depth |-> target,
                                  enters |-> line.enters, cls |-> line.cls,
                                  inverse |-> line.inverse]),
                   level   |-> target,
                   pending |-> IF line.enters THEN target ELSE NoPending,
                   ok      |-> TRUE]

(* What is planned after each line of the body.                            *)
Planning(body, wrapped) ==
  LET acc[k \in 0 .. Len(body)] ==
        IF k = 0 THEN PlanStart(wrapped)
        ELSE PlanLine(acc[k - 1], body[k], IndentStep(body))
  IN  acc

(* The whole plan of a body, between the wrappers of the device's family.  *)
PlanOf(body, wrapped) ==
  LET acc == Planning(body, wrapped)[Len(body)]
  IN  [ok    |-> acc.ok,
       lines |-> acc.lines \o Exits(acc.level, 0) \o Wrapper("leave", wrapped)]

(* The inverse of each configuration line, in the order of the change. A   *)
(* line that only opens a section and declares no inverse changed nothing; *)
(* any other line without one needs a human.                               *)
HasUndo(l) == l.kind = "CONFIG" /\ ~(l.inverse = "none" /\ l.enters)
UndoOf(l) == [op     |-> IF l.op = "set" THEN "unset" ELSE "set",
              item   |-> l.item, depth |-> l.depth,
              manual |-> l.inverse = "none"]

(* The inverses of the first lines, for each number of lines.              *)
Undoes(lines) ==
  LET plan[k \in 0 .. Len(lines)] ==
        IF k = 0 THEN << >>
        ELSE IF HasUndo(lines[k]) THEN Append(plan[k - 1], UndoOf(lines[k]))
             ELSE plan[k - 1]
  IN  plan
RollbackPlan(lines) == Undoes(lines)[Len(lines)]

HighRisk(lines) == \E k \in DOMAIN lines : lines[k].cls = "CONFIG_HIGH_RISK"
=============================================================================
