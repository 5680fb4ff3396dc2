--------------------------- MODULE MCConfigExecutor ---------------------------
(***************************************************************************)
(* A small instance of ConfigExecutor: two items that open a section, one  *)
(* that goes inside them, one global item.                                 *)
(***************************************************************************)
EXTENDS ConfigExecutor

CONSTANTS vlan10, vlan20, name, routing

MCItems == {vlan10, vlan20, name, routing}

Set(item, indent, enters) ==
  [kind |-> "config", item |-> item, indent |-> indent, op |-> "set",
   enters |-> enters, cls |-> "CONFIG_REVERSIBLE", inverse |-> "declared"]
Unset(item, indent) == [Set(item, indent, FALSE) EXCEPT !.op = "unset"]
Comment == [Set(routing, 0, FALSE) EXCEPT !.kind = "comment"]
WithoutInverse(l) == [l EXCEPT !.inverse = "none"]
Risky(l) == [l EXCEPT !.cls = "CONFIG_HIGH_RISK"]
Unlisted(l) == [l EXCEPT !.cls = "OTHER"]

Ask(body) == [body |-> body, dryRun |-> FALSE, armed |-> FALSE, verify |-> TRUE,
              persist |-> "save", store |-> "ok"]

(* Two sections with a line of the same text; a section and a global line; *)
(* a section opened and left empty; a section without inverse around a     *)
(* line (FortiOS); negations; a line without inverse; the refused plans.   *)
MCRequests ==
  { Ask(<<Set(vlan10, 0, TRUE), Set(name, 2, FALSE),
          Set(vlan20, 0, TRUE), Set(name, 2, FALSE)>>),
    Ask(<<Set(vlan10, 0, TRUE), Comment, Set(name, 1, FALSE),
          Set(routing, 0, FALSE)>>),
    Ask(<<Set(vlan10, 0, TRUE), Set(routing, 0, FALSE)>>),
    [Ask(<<WithoutInverse(Set(vlan10, 0, TRUE)), Set(name, 1, FALSE)>>)
       EXCEPT !.persist = "none", !.store = "nokey"],
    Ask(<<Unset(routing, 0)>>),
    Ask(<<Set(vlan10, 0, TRUE), Set(name, 1, FALSE), Unset(vlan10, 0)>>),
    [Ask(<<Unset(routing, 0), WithoutInverse(Set(vlan20, 0, FALSE))>>)
       EXCEPT !.persist = "unlisted"],
    [Ask(<<Risky(Set(routing, 0, FALSE))>>)
       EXCEPT !.armed = TRUE, !.verify = FALSE, !.store = "none"],
    Ask(<<Risky(Set(routing, 0, FALSE))>>),
    Ask(<<Unlisted(Set(routing, 0, FALSE))>>),
    Ask(<<Set(routing, 0, FALSE), Set(name, 1, FALSE)>>),
    [Ask(<<Set(vlan10, 0, TRUE)>>) EXCEPT !.dryRun = TRUE] }

MCFamilies == { [wrapped |-> TRUE,  capture |-> TRUE],
                [wrapped |-> FALSE, capture |-> TRUE],
                [wrapped |-> TRUE,  capture |-> FALSE] }

MCInitialConfigs == { {}, {<<vlan10>>, <<vlan10, name>>, <<routing>>} }
=============================================================================
