------------------------- MODULE MCChangeLifecycle -------------------------
(***************************************************************************)
(* Small instances of ChangeLifecycle: every gate, a change that is not    *)
(* modelled, one of unknown risk, an irreversible one, a site below M3 and *)
(* a platform without a rollback mechanism, over two recovery matrices.    *)
(***************************************************************************)
EXTENDS ChangeLifecycle, TLC

Plain == [gate |-> "LOW_RISK", irreversible |-> FALSE, modeled |-> TRUE,
          riskKnown |-> TRUE, controlled |-> TRUE, mechanism |-> "SUPPORTED",
          matrix |-> (3 :> "UNKNOWN" @@ 4 :> "SUPPORTED" @@ 5 :> "NOT_SUPPORTED")]

MCGivens ==
    {Plain,
     [Plain EXCEPT !.controlled = FALSE],
     [Plain EXCEPT !.modeled = FALSE],
     [Plain EXCEPT !.gate = "HIGH_RISK", !.riskKnown = FALSE],
     [Plain EXCEPT !.mechanism = "NOT_SUPPORTED"],
     [Plain EXCEPT !.mechanism = "UNKNOWN"],
     [Plain EXCEPT !.gate = "HIGH_RISK",
                   !.matrix = (3 :> "SUPPORTED" @@ 4 :> "NOT_SUPPORTED"
                                   @@ 5 :> "SUPPORTED")],
     [Plain EXCEPT !.gate = "IRREVERSIBLE", !.irreversible = TRUE],
     [Plain EXCEPT !.gate = "DESTRUCTIVE"]}

=============================================================================
