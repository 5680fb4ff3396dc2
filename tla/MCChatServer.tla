---------------------------- MODULE MCChatServer ----------------------------
(***************************************************************************)
(* Small scenarios for ChatServer.  Every message of a scenario may come   *)
(* over POST /chat or over the stream, which does not sync.                *)
(***************************************************************************)
EXTENDS ChatServer, TLC

CONSTANTS r1, r2, r3, u1, u2

MCRequests == {r1, r2, r3}
MCRuns == {u1, u2}
MCSimRuns == {u1}
MCVlans == {10}

Post(verb) == {[kind |-> "post", verb |-> verb]}
Stream(verb) == {[kind |-> "stream", verb |-> verb]}
Poll == {[kind |-> "poll", verb |-> "none"]}
Silence == {NoMessage}

Scenario(first, second, third, runs) ==
    {[asks |-> (r1 :> a) @@ (r2 :> b) @@ (r3 :> c), runs |-> runs] :
        a \in first, b \in second, c \in third}

(* Two clients confirm the plan of a third while a simulated run ends.     *)
TwoConfirms == Scenario(Stream("plan"), Post("confirm"), Stream("confirm"), {u1})

(* The site's own run and a plan of the chat after the same VLANs.         *)
PlanBesideRun == Scenario(Post("plan"), Post("confirm"), Poll, {u2})

(* Two runs end around a message that goes by the last one. *)
TwoRuns == Scenario(Post("query"), Silence, Silence, {u1, u2})

(* A discovery of the chat and a run end around such a message. *)
TwoReports == Scenario(Post("query"), Stream("discover"), Silence, {u2})

(* The chat applies, and takes back, while a run ends. *)
ApplyAndBack == Scenario(Post("apply"), Post("rollback"), Silence, {u1})

MCScenarios == TwoConfirms \cup PlanBesideRun \cup TwoRuns \cup TwoReports
                   \cup ApplyAndBack

(* For the counterexample: a simulated run beside a plan and its confirm.  *)
PlanBesideSim == Scenario(Stream("plan"), Stream("confirm"), Silence, {u1})

=============================================================================
