---------------------------- MODULE MCAutopilotRun ----------------------------
(***************************************************************************)
(* Three devices, the seed in the middle: one sorts before it and one      *)
(* after. The crawls: everything collected; one or both neighbours refused *)
(* for credentials; one without allowlist; one never probed; the seed only *)
(* partly collected.                                                       *)
(***************************************************************************)
EXTENDS AutopilotRun

CONSTANTS vlan, acl

MCDevices == 1..3
Found(a, b, c) == <<a, b, c>>
MCCrawls == { Found("complete", "complete", "complete"),
              Found("limited", "complete", "limited"),
              Found("complete", "complete", "limited"),
              Found("limited", "complete", "complete"),
              Found("ungated", "complete", "complete"),
              Found("complete", "complete", "not_probed"),
              Found("failed", "failed", "limited") }

MCRenderings == { <<"full", "full", "full">>, <<"full", "full", "partial">>,
                  <<"none", "full", "full">>, <<"partial", "full", "none">> }
MCRepairs == { {}, {2}, {1, 3} }

Replaceable1 == [id |-> vlan, reversibility |-> "REVERSIBLE_BY_REPLACE",
                 destructive |-> FALSE]
Manual1 == [id |-> acl, reversibility |-> "REVERSIBLE_MANUAL",
            destructive |-> FALSE]
MCApplied == { << >>, <<Replaceable1>>, <<Replaceable1, Manual1>> }
=============================================================================
