-------------------------- MODULE ChatServerProofs --------------------------
(***************************************************************************)
(* Proofs about the chat server, for every set of requests and runs, every *)
(* scenario and every set of VLANs.  The strengthening has four parts:     *)
(* Stages (what the stage of a thread says of its own record), Plans (a    *)
(* plan is in one place at a time), Polls and Context (what the context    *)
(* holds is not older than what a waiting message has seen).               *)
(***************************************************************************)
EXTENDS ChatServer, SequenceTheorems, TLAPS

----------------------------------------------------------------------------
(***************************************************************************)
(* Part 1: types, and what a stage says of the record of its thread.       *)
(***************************************************************************)

HasOp == Handling \cup {"sync", "sync run", "lock"}
Polling == {"final", "report"}

RequestFits(c) ==
    /\ c.at \in HasOp => c.op \in Requests
    /\ c.at \in Polling => c.polled \in Runs
    /\ c.at = "sync run" => c.latest \in Runs
    /\ c.latest # NoOne => c.at \in (HasOp \ {"sync"})
    /\ c.status # "none" => c.at \in Polling \cup {"done"}
    /\ c.status \in Verdicts /\ c.at \in {"report", "done"}
       => c.final = c.polled
    /\ c.status \in Verdicts /\ c.at = "done" => c.report = c.polled

Wiring == {"wire", "wire run", "swap"}

RunFits(u, c) ==
    /\ c.at \in Wiring => c.op \in Requests
    /\ c.at = "swap" => u \in SimRuns
    /\ c.at \in Wiring \cup {"look", "fill", "fill status"}
       => c.verdict \in Verdicts
    /\ c.status \in Verdicts => c.at = "done"
    /\ c.status \in Verdicts \/ c.at = "fill status"
       => c.final = u /\ c.report = u

(* A verdict a poll has read is still the status of the run it polls. *)
PollsFit ==
    \A r \in Requests :
        request[r].at \in Polling /\ request[r].status \in Verdicts
        => run[request[r].polled].status \in Verdicts

Fitting ==
    /\ TypeOK
    /\ PollsFit
    /\ \A r \in Requests : RequestFits(request[r])
    /\ \A u \in Runs : RunFits(u, run[u])

LEMMA NoOneApart == NoOne \notin Requests /\ NoOne \notin Runs
                    /\ Requests \cap Runs = {}
BY ChatAssumption

(* One thread of a request moves to a record that fits. *)
LEMMA OneRequest ==
    ASSUME Fitting, NEW r \in Requests, NEW c \in RequestRecords,
           RequestFits(c), Becomes(r, c), run' = run,
           c.at \in Polling /\ c.status \in Verdicts
           => run[c.polled].status \in Verdicts
    PROVE  /\ PollsFit'
           /\ request' \in [Requests -> RequestRecords]
           /\ \A q \in Requests : RequestFits(request'[q])
           /\ request'[r] = c
           /\ \A q \in Requests : q # r => request'[q] = request[q]
BY DEF Fitting, TypeOK, Becomes, PollsFit

(* One operator changes. *)
LEMMA OneOper ==
    ASSUME oper \in [Requests -> Operators], NEW o \in Requests,
           NEW c \in Operators, OperBecomes(o, c)
    PROVE  /\ oper' \in [Requests -> Operators]
           /\ oper'[o] = c
           /\ \A q \in Requests : q # o => oper'[q] = oper[q]
BY DEF OperBecomes

(* One worker moves to a record that fits. *)
LEMMA OneRun ==
    ASSUME Fitting, NEW u \in Runs, NEW c \in RunRecords,
           RunFits(u, c), WorkerBecomes(u, c), request' = request,
           run[u].status \in Verdicts => c.status \in Verdicts
    PROVE  /\ PollsFit'
           /\ run' \in [Runs -> RunRecords]
           /\ \A w \in Runs : RunFits(w, run'[w])
           /\ run'[u] = c
           /\ \A w \in Runs : w # u => run'[w] = run[w]
<1>1. /\ run' \in [Runs -> RunRecords]
      /\ run'[u] = c
      /\ \A w \in Runs : w # u => run'[w] = run[w]
      BY DEF Fitting, TypeOK, WorkerBecomes
<1>2. \A w \in Runs : RunFits(w, run'[w])
      BY <1>1 DEF Fitting
<1>3. \A r \in Requests : request[r].at \in Polling
                          => request[r].polled \in Runs
      BY DEF Fitting, RequestFits
<1>4. PollsFit'
      BY <1>1, <1>3 DEF Fitting, PollsFit
<1> QED BY <1>1, <1>2, <1>4

(* A record whose stage alone changes. *)
LEMMA StageMoves ==
    ASSUME NEW c \in RequestRecords, RequestFits(c), NEW s \in Stages,
           s \in HasOp => c.op \in Requests,
           s \notin Polling, s # "done", s # "sync run",
           c.at \notin Polling \cup {"done"},
           c.latest # NoOne => s \in (HasOp \ {"sync"})
    PROVE  /\ [c EXCEPT !.at = s] \in RequestRecords
           /\ RequestFits([c EXCEPT !.at = s])
<1>1. [c EXCEPT !.at = s] \in RequestRecords
      BY ZenonT(60) DEF RequestRecords
<1>2. c.status = "none"
      BY DEF RequestFits
<1> QED BY <1>1, <1>2 DEF RequestRecords, RequestFits, Verdicts, Polling

LEMMA RequestGoes ==
    ASSUME Fitting, NEW r \in Requests, NEW s \in Stages, Goto(r, s),
           run' = run,
           s \in HasOp => request[r].op \in Requests,
           s \notin Polling, s # "done", s # "sync run",
           request[r].at \notin Polling \cup {"done"},
           request[r].latest # NoOne => s \in (HasOp \ {"sync"})
    PROVE  /\ PollsFit'
           /\ request' \in [Requests -> RequestRecords]
           /\ \A q \in Requests : RequestFits(request'[q])
           /\ request'[r] = [request[r] EXCEPT !.at = s]
           /\ \A q \in Requests : q # r => request'[q] = request[q]
<1>1. request[r] \in RequestRecords /\ RequestFits(request[r])
      BY DEF Fitting, TypeOK
<1>2. /\ [request[r] EXCEPT !.at = s] \in RequestRecords
      /\ RequestFits([request[r] EXCEPT !.at = s])
      BY <1>1, StageMoves
<1>3. [request[r] EXCEPT !.at = s].at \notin Polling
      BY <1>1 DEF RequestRecords
<1> QED BY <1>2, <1>3, OneRequest DEF Goto

----------------------------------------------------------------------------
(* The records the other steps of a request make. *)

LEMMA GetsOp ==
    ASSUME NEW c \in RequestRecords, RequestFits(c), NEW o \in Requests,
           NEW s \in {"sync", "lock"}, c.at \in {"new", "publish"}
    PROVE  /\ [c EXCEPT !.at = s, !.op = o] \in RequestRecords
           /\ RequestFits([c EXCEPT !.at = s, !.op = o])
           /\ [c EXCEPT !.at = s, !.op = o].at = s
<1>1. [c EXCEPT !.at = s, !.op = o] \in RequestRecords
      BY ZenonT(240) DEF RequestRecords, Stages
<1>2. c.status = "none" /\ c.latest = NoOne
      BY DEF RequestFits, HasOp, Polling, Handling
<1> QED BY <1>1, <1>2 DEF RequestRecords, RequestFits, Verdicts, Polling

LEMMA LatestTyped == ASSUME TypeOK PROVE Latest \in Runs \cup {NoOne}
<1>1. CASE ended = <<>>
      BY <1>1 DEF Latest
<1>2. CASE ended # <<>>
  <2>1. Len(ended) \in DOMAIN ended
        BY <1>2 DEF TypeOK
  <2> QED BY <2>1, <1>2 DEF Latest, TypeOK
<1> QED BY <1>1, <1>2

LEMMA Syncs ==
    ASSUME NEW c \in RequestRecords, RequestFits(c), c.at = "sync",
           NEW l \in Runs \cup {NoOne}, NEW s \in {"sync run", "lock"},
           s = "sync run" => l # NoOne
    PROVE  /\ [c EXCEPT !.at = s, !.latest = l] \in RequestRecords
           /\ RequestFits([c EXCEPT !.at = s, !.latest = l])
           /\ [c EXCEPT !.at = s, !.latest = l].at = s
<1>1. [c EXCEPT !.at = s, !.latest = l] \in RequestRecords
      BY ZenonT(240) DEF RequestRecords, Stages
<1>2. c.status = "none" /\ c.op \in Requests
      BY DEF RequestFits, HasOp, Polling, Handling
<1> QED BY <1>1, <1>2 DEF RequestRecords, RequestFits, Verdicts, Polling,
                           HasOp

(* Where the sync leaves the request: the record is not looked into. *)
LEMMA SyncedAt ==
    ASSUME NEW c \in RequestRecords, NEW s, NEW l
    PROVE  [c EXCEPT !.at = s, !.latest = l].at = s
<1>1. "at" \in DOMAIN c
      BY DEF RequestRecords
<1> QED BY <1>1

LEMMA SyncGoes ==
    ASSUME NEW r \in Requests, request \in [Requests -> RequestRecords], Sync(r)
    PROVE  request'[r].at =
             IF Latest = NoOne \/ Broken(Oper(r)) \/ Oper(r).run = Latest
             THEN "lock" ELSE "sync run"
<1>1. CASE Latest = NoOne \/ Broken(Oper(r)) \/ Oper(r).run = Latest
  <2>1. request'[r] = [request[r] EXCEPT !.at = "lock", !.latest = Latest]
        BY <1>1 DEF Sync, Becomes
  <2> QED BY <2>1, <1>1, SyncedAt
<1>2. CASE ~(Latest = NoOne \/ Broken(Oper(r)) \/ Oper(r).run = Latest)
  <2>1. request'[r] = [request[r] EXCEPT !.at = "sync run", !.latest = Latest]
        BY <1>2 DEF Sync, Becomes
  <2> QED BY <2>1, <1>2, SyncedAt
<1> QED BY <1>1, <1>2

LEMMA Replies ==
    ASSUME NEW c \in RequestRecords, RequestFits(c), c.at = "reply"
    PROVE  /\ [c EXCEPT !.at = "done", !.plan = NoPlan, !.latest = NoOne]
                 \in RequestRecords
           /\ RequestFits([c EXCEPT !.at = "done", !.plan = NoPlan,
                                     !.latest = NoOne])
           /\ [c EXCEPT !.at = "done", !.plan = NoPlan, !.latest = NoOne].at
                 = "done"
<1>1. [c EXCEPT !.at = "done", !.plan = NoPlan, !.latest = NoOne]
        \in RequestRecords
      BY ZenonT(60) DEF RequestRecords, Stages, Plans
<1>2. c.status = "none"
      BY DEF RequestFits, Polling
<1> QED BY <1>1, <1>2 DEF RequestRecords, RequestFits, Verdicts, Polling,
                           HasOp, Handling

LEMMA TakesPlan ==
    ASSUME NEW c \in RequestRecords, RequestFits(c), c.at = "handle",
           NEW p \in Plans, NEW s \in {"store", "clear"}
    PROVE  /\ [c EXCEPT !.at = s, !.plan = p] \in RequestRecords
           /\ RequestFits([c EXCEPT !.at = s, !.plan = p])
           /\ [c EXCEPT !.at = s, !.plan = p].at = s
<1>1. [c EXCEPT !.at = s, !.plan = p] \in RequestRecords
      BY ZenonT(60) DEF RequestRecords, Stages, Handling
<1>2. c.status = "none" /\ c.op \in Requests
      BY DEF RequestFits, HasOp, Polling, Handling
<1> QED BY <1>1, <1>2 DEF RequestRecords, RequestFits, Verdicts, Polling,
                           HasOp, Handling

LEMMA KeepsVlan ==
    ASSUME NEW c \in RequestRecords, RequestFits(c), c.at = "keep applied",
           NEW v \in Vlans
    PROVE  /\ [c EXCEPT !.at = "reply", !.vlan = v] \in RequestRecords
           /\ RequestFits([c EXCEPT !.at = "reply", !.vlan = v])
           /\ [c EXCEPT !.at = "reply", !.vlan = v].at = "reply"
<1>1. [c EXCEPT !.at = "reply", !.vlan = v] \in RequestRecords
      BY ZenonT(60) DEF RequestRecords, Stages, Handling
<1>2. c.status = "none" /\ c.op \in Requests
      BY DEF RequestFits, HasOp, Polling, Handling
<1> QED BY <1>1, <1>2 DEF RequestRecords, RequestFits, Verdicts, Polling,
                           HasOp, Handling

LEMMA ReadsStatus ==
    ASSUME NEW c \in RequestRecords, RequestFits(c), c.at = "new",
           NEW u \in Runs, NEW w \in RunRecords
    PROVE  /\ [c EXCEPT !.at = "final", !.polled = u, !.status = w.status]
                 \in RequestRecords
           /\ RequestFits([c EXCEPT !.at = "final", !.polled = u,
                                     !.status = w.status])
<1>1. [c EXCEPT !.at = "final", !.polled = u, !.status = w.status]
        \in RequestRecords
      BY ZenonT(60) DEF RequestRecords, RunRecords, Stages
<1>2. c.latest = NoOne
      BY DEF RequestFits, HasOp, Handling
<1> QED BY <1>1, <1>2 DEF RequestRecords, RequestFits, Polling, HasOp,
                          Handling

LEMMA ReadsFinal ==
    ASSUME NEW c \in RequestRecords, RequestFits(c), c.at = "final",
           NEW f \in Runs \cup {NoOne}, c.status \in Verdicts => f = c.polled
    PROVE  /\ [c EXCEPT !.at = "report", !.final = f] \in RequestRecords
           /\ RequestFits([c EXCEPT !.at = "report", !.final = f])
<1>1. [c EXCEPT !.at = "report", !.final = f] \in RequestRecords
      BY ZenonT(60) DEF RequestRecords, Stages
<1>2. c.latest = NoOne
      BY DEF RequestFits, HasOp, Handling
<1> QED BY <1>1, <1>2 DEF RequestRecords, RequestFits, Polling, HasOp,
                          Handling

LEMMA ReadsReport ==
    ASSUME NEW c \in RequestRecords, RequestFits(c), c.at = "report",
           NEW f \in Runs \cup {NoOne}, c.status \in Verdicts => f = c.polled
    PROVE  /\ [c EXCEPT !.at = "done", !.report = f] \in RequestRecords
           /\ RequestFits([c EXCEPT !.at = "done", !.report = f])
           /\ [c EXCEPT !.at = "done", !.report = f].at = "done"
<1>1. [c EXCEPT !.at = "done", !.report = f] \in RequestRecords
      BY ZenonT(60) DEF RequestRecords, Stages
<1>2. c.latest = NoOne
      BY DEF RequestFits, HasOp, Handling
<1> QED BY <1>1, <1>2 DEF RequestRecords, RequestFits, Polling, HasOp,
                          Handling

(* What a poll reads of a record with a verdict. *)
LEMMA PolledIsFilled ==
    ASSUME Fitting, NEW r \in Requests, request[r].at \in Polling
    PROVE  LET p == request[r].polled IN
           /\ p \in Runs
           /\ run[p] \in RunRecords
           /\ request[r].status \in Verdicts
              => run[p].final = p /\ run[p].report = p
<1>1. request[r].polled \in Runs
      BY DEF Fitting, RequestFits
<1> QED BY <1>1 DEF Fitting, TypeOK, PollsFit, RunFits

(* The records of a run's worker. *)
LEMMA WorkerMoves ==
    ASSUME NEW u \in Runs, NEW c \in RunRecords, RunFits(u, c),
           NEW s \in RunStages, c.at # "done", s # "fill status",
           s \in Wiring => c.op \in Requests,
           s = "swap" => u \in SimRuns,
           s \in Wiring \cup {"look", "fill"} => c.verdict \in Verdicts
    PROVE  /\ [c EXCEPT !.at = s] \in RunRecords
           /\ RunFits(u, [c EXCEPT !.at = s])
           /\ [c EXCEPT !.at = s].at = s
BY ZenonT(60) DEF RunRecords, RunFits

LEMMA WorkerReports ==
    ASSUME NEW u \in Runs, NEW c \in RunRecords, RunFits(u, c), c.at # "done",
           NEW s \in RunStages, NEW t \in {"PENDING", "RUNNING", "ERROR"},
           s \in {"pending", "engine", "done"}
    PROVE  /\ [c EXCEPT !.at = s, !.status = t] \in RunRecords
           /\ RunFits(u, [c EXCEPT !.at = s, !.status = t])
BY ZenonT(60) DEF RunRecords, RunFits, Wiring, Verdicts

LEMMA WorkerJudges ==
    ASSUME NEW u \in Runs, NEW c \in RunRecords, RunFits(u, c),
           c.at = "engine",
           NEW s \in {"look", "fill"}, NEW v \in Verdicts
    PROVE  /\ [c EXCEPT !.at = s, !.verdict = v] \in RunRecords
           /\ RunFits(u, [c EXCEPT !.at = s, !.verdict = v])
BY ZenonT(60) DEF RunRecords, RunFits, Wiring, RunStages

LEMMA WorkerApplies ==
    ASSUME NEW u \in Runs, NEW c \in RunRecords, RunFits(u, c),
           c.at = "engine",
           NEW v \in Verdicts, NEW x \in Vlans
    PROVE  /\ [c EXCEPT !.at = "look", !.verdict = v, !.vlan = x]
                 \in RunRecords
           /\ RunFits(u, [c EXCEPT !.at = "look", !.verdict = v,
                                    !.vlan = x])
BY ZenonT(60) DEF RunRecords, RunFits, Wiring, RunStages

LEMMA WorkerLooks ==
    ASSUME NEW u \in Runs, NEW c \in RunRecords, RunFits(u, c),
           c.at = "look", NEW o \in Requests
    PROVE  /\ [c EXCEPT !.at = "wire", !.op = o] \in RunRecords
           /\ RunFits(u, [c EXCEPT !.at = "wire", !.op = o])
BY ZenonT(60) DEF RunRecords, RunFits, Wiring, RunStages

LEMMA WorkerFills ==
    ASSUME NEW u \in Runs, NEW c \in RunRecords, RunFits(u, c),
           c.at = "fill"
    PROVE  /\ [c EXCEPT !.at = "fill status", !.report = u, !.final = u]
                 \in RunRecords
           /\ RunFits(u, [c EXCEPT !.at = "fill status", !.report = u,
                                    !.final = u])
BY ZenonT(60) DEF RunRecords, RunFits, Wiring, RunStages

LEMMA WorkerEnds ==
    ASSUME NEW u \in Runs, NEW c \in RunRecords, RunFits(u, c),
           c.at = "fill status"
    PROVE  /\ [c EXCEPT !.at = "done", !.status = c.verdict] \in RunRecords
           /\ RunFits(u, [c EXCEPT !.at = "done", !.status = c.verdict])
BY ZenonT(60) DEF RunRecords, RunFits, Wiring, RunStages, Verdicts

----------------------------------------------------------------------------
(* Steps of requests. *)

LEMMA Named ==
    ASSUME Fitting, NEW r \in Requests, request[r].at \in HasOp
    PROVE  /\ request[r].op \in Requests
           /\ Oper(r) = oper[request[r].op]
           /\ Oper(r) \in Operators
BY DEF Fitting, TypeOK, RequestFits, Oper

LEMMA OneTaken ==
    ASSUME TypeOK, NEW d \in Devices, NEW v \in Vlans \cup {NoOne},
           NEW x \in Requests \cup Runs \cup {NoOne},
           taken' \in {taken, [taken EXCEPT ![d][v] = x]}
    PROVE  taken' \in [Devices -> [Vlans -> Requests \cup Runs \cup {NoOne}]]
<1>1. taken[d] \in [Vlans -> Requests \cup Runs \cup {NoOne}]
      BY DEF TypeOK
<1>2. [taken[d] EXCEPT ![v] = x]
        \in [Vlans -> Requests \cup Runs \cup {NoOne}]
      BY <1>1
<1>3. [taken EXCEPT ![d] = [taken[d] EXCEPT ![v] = x]]
        \in [Devices -> [Vlans -> Requests \cup Runs \cup {NoOne}]]
      BY <1>2 DEF TypeOK
<1>4. [taken EXCEPT ![d][v] = x]
        = [taken EXCEPT ![d] = [taken[d] EXCEPT ![v] = x]]
      OBVIOUS
<1>5. taken \in [Devices -> [Vlans -> Requests \cup Runs \cup {NoOne}]]
      BY DEF TypeOK
<1> QED BY <1>3, <1>4, <1>5

LEMMA ServeFits ==
    ASSUME Fitting, NEW r \in Requests, Serve(r)
    PROVE  Fitting'
<1> DEFINE RequestsFit ==
             /\ PollsFit'
             /\ request' \in [Requests -> RequestRecords]
             /\ \A q \in Requests : RequestFits(request'[q])
<1>0. /\ request[r] \in RequestRecords
      /\ RequestFits(request[r])
      /\ request[r].at \in Stages
      BY DEF Fitting, TypeOK, RequestRecords
<1>a. ASSUME RequestsFit, UNCHANGED <<run, ended>>,
             shared' \in Requests \cup {NoOne},
             oper' \in [Requests -> Operators],
             chatLock' \in Requests \cup {NoOne},
             runsLock' \in Requests \cup Runs \cup {NoOne},
             taken' \in [Devices -> [Vlans -> Requests \cup Runs \cup {NoOne}]],
             sent' \in [Requests -> [plan : Plans, on : Devices \cup {NoOne}]]
      PROVE  Fitting'
      BY <1>a DEF Fitting, TypeOK
<1>b. ASSUME request[r].at \in Handling, NEW s \in Handling,
             Goto(r, s), run' = run
      PROVE  RequestsFit
  <2>1. request[r].op \in Requests
        BY <1>b, Named DEF HasOp
  <2> QED BY <2>1, <1>b, <1>0, RequestGoes, ZenonT(60)
             DEF HasOp, Handling, Polling, Stages
<1>1. ASSUME GetOp(r) PROVE Fitting'
  <2>1. CASE shared = NoOne
    <3>1. Goto(r, "make") /\ run' = run
          BY <1>1, <2>1 DEF GetOp
    <3>2. request[r].latest = NoOne
          BY <1>0, <1>1 DEF GetOp, RequestFits, HasOp, Handling
    <3>3. RequestsFit
          BY <3>1, <3>2, <1>0, <1>1, RequestGoes
             DEF GetOp, HasOp, Handling, Polling, Stages
    <3> HIDE DEF RequestsFit
    <3> QED BY <3>3, <1>1, <1>a DEF GetOp, Fitting, TypeOK
  <2>2. CASE shared # NoOne
    <3>1. shared \in Requests
          BY <2>2 DEF Fitting, TypeOK
    <3> DEFINE c == [request[r] EXCEPT !.at = AfterGet(r), !.op = shared]
    <3>2. AfterGet(r) \in {"sync", "lock"}
          BY DEF AfterGet
    <3>3. c \in RequestRecords /\ RequestFits(c) /\ c.at \notin Polling
          BY <1>0, <1>1, <3>1, <3>2, GetsOp DEF GetOp, Polling
    <3>4. Becomes(r, c) /\ run' = run
          BY <1>1, <2>2 DEF GetOp
    <3> HIDE DEF c
    <3>5. RequestsFit
          BY <3>3, <3>4, OneRequest
    <3> HIDE DEF RequestsFit
    <3> QED BY <3>5, <1>1, <1>a DEF GetOp, Fitting, TypeOK
  <2> QED BY <2>1, <2>2
<1>2. ASSUME MakeOp(r) PROVE Fitting'
  <2>1. Latest \in Reports \cup {NoOne}
        BY LatestTyped DEF Fitting, Reports
  <2>2. [oper[r] EXCEPT !.run = Latest, !.discovery = Latest] \in Operators
    <3>1. oper[r] \in Operators
          BY DEF Fitting, TypeOK
    <3> QED BY <3>1, <2>1 DEF Operators
  <2>3. oper' \in [Requests -> Operators]
        BY <2>2, <1>2, OneOper DEF MakeOp, Fitting, TypeOK
  <2>4. request[r].latest = NoOne
        BY <1>0, <1>2 DEF MakeOp, RequestFits, HasOp, Handling
  <2>5. RequestsFit
        BY <2>4, <1>0, <1>2, RequestGoes
           DEF MakeOp, HasOp, Handling, Polling, Stages
  <2> HIDE DEF RequestsFit
  <2> QED BY <2>3, <2>5, <1>2, <1>a DEF MakeOp, Fitting, TypeOK
<1>3. ASSUME MakeBroken(r) PROVE Fitting'
  <2>1. [oper[r] EXCEPT !.is = "_Broken"] \in Operators
        BY ZenonT(60) DEF Fitting, TypeOK, Operators
  <2>2. oper' \in [Requests -> Operators]
        BY <2>1, <1>3, OneOper DEF MakeBroken, Fitting, TypeOK
  <2>3. request[r].latest = NoOne
        BY <1>0, <1>3 DEF MakeBroken, RequestFits, HasOp, Handling
  <2>4. RequestsFit
        BY <2>3, <1>0, <1>3, RequestGoes
           DEF MakeBroken, HasOp, Handling, Polling, Stages
  <2> HIDE DEF RequestsFit
  <2> QED BY <2>2, <2>4, <1>3, <1>a DEF MakeBroken, Fitting, TypeOK
<1>4. ASSUME PublishOp(r) PROVE Fitting'
  <2> DEFINE c == [request[r] EXCEPT !.at = AfterGet(r), !.op = r]
  <2>1. AfterGet(r) \in {"sync", "lock"}
        BY DEF AfterGet
  <2>2. c \in RequestRecords /\ RequestFits(c) /\ c.at \notin Polling
        BY <1>0, <1>4, <2>1, GetsOp DEF PublishOp, Polling
  <2>3. Becomes(r, c) /\ run' = run
        BY <1>4 DEF PublishOp
  <2> HIDE DEF c
  <2>4. RequestsFit
        BY <2>2, <2>3, OneRequest
  <2> HIDE DEF RequestsFit
  <2> QED BY <2>4, <1>4, <1>a, SMTT(60) DEF PublishOp, Fitting, TypeOK
<1>5. ASSUME Sync(r) PROVE Fitting'
  <2>1. Latest \in Runs \cup {NoOne} /\ Latest \in Reports \cup {NoOne}
        BY LatestTyped DEF Fitting, Reports
  <2>2. Oper(r) \in Operators /\ request[r].op \in Requests
        BY <1>5, Named DEF Sync, HasOp
  <2>3. CASE Latest = NoOne \/ Broken(Oper(r)) \/ Oper(r).run = Latest
    <3> DEFINE c == [request[r] EXCEPT !.at = "lock", !.latest = Latest]
    <3>1. c \in RequestRecords /\ RequestFits(c) /\ c.at \notin Polling
          BY <1>0, <1>5, <2>1, Syncs, ZenonT(60) DEF Sync, Polling
    <3>2. Becomes(r, c) /\ run' = run /\ UNCHANGED <<oper, runsLock>>
          BY <1>5, <2>3 DEF Sync
    <3> HIDE DEF c
    <3>3. RequestsFit
          BY <3>1, <3>2, OneRequest
    <3> HIDE DEF RequestsFit
    <3> QED BY <3>2, <3>3, <1>5, <1>a, SMTT(60) DEF Sync, Fitting, TypeOK
  <2>4. CASE ~(Latest = NoOne \/ Broken(Oper(r)) \/ Oper(r).run = Latest)
    <3> DEFINE c == [request[r] EXCEPT !.at = "sync run", !.latest = Latest]
    <3>1. c \in RequestRecords /\ RequestFits(c) /\ c.at \notin Polling
          BY <1>0, <1>5, <2>1, <2>4, Syncs DEF Sync, Polling
    <3>2. Becomes(r, c) /\ run' = run /\ runsLock' = r
          BY <1>5, <2>4 DEF Sync
    <3> HIDE DEF c
    <3>3. RequestsFit
          BY <3>1, <3>2, OneRequest
    <3>4. [Oper(r) EXCEPT !.discovery = Latest] \in Operators
          BY <2>1, <2>2 DEF Operators
    <3>5. oper' \in [Requests -> Operators]
          BY <2>2, <2>4, <3>4, <1>5, OneOper DEF Sync, Fitting, TypeOK
    <3> HIDE DEF RequestsFit
    <3> QED BY <3>2, <3>3, <3>5, <1>5, <1>a DEF Sync, Fitting, TypeOK
  <2> QED BY <2>3, <2>4
<1>6. ASSUME SyncRun(r) PROVE Fitting'
  <2>1. Oper(r) \in Operators /\ request[r].op \in Requests
        BY <1>6, Named DEF SyncRun, HasOp
  <2>2. request[r].latest \in Reports
        BY <1>0, <1>6 DEF SyncRun, RequestFits, Reports
  <2>3. [Oper(r) EXCEPT !.run = request[r].latest] \in Operators
        BY <2>1, <2>2 DEF Operators
  <2>4. oper' \in [Requests -> Operators]
        BY <2>1, <2>3, <1>6, OneOper DEF SyncRun, Fitting, TypeOK
  <2>5. RequestsFit
        BY <2>1, <1>0, <1>6, RequestGoes
           DEF SyncRun, HasOp, Handling, Polling, Stages
  <2> HIDE DEF RequestsFit
  <2> QED BY <2>4, <2>5, <1>6, <1>a DEF SyncRun, Fitting, TypeOK
<1>7. ASSUME Lock(r) PROVE Fitting'
  <2>1. request[r].op \in Requests
        BY <1>7, Named DEF Lock, HasOp
  <2> DEFINE s == IF Broken(Oper(r)) THEN "reply" ELSE "handle"
  <2>2. s \in {"reply", "handle"} /\ Goto(r, s) /\ run' = run
        BY <1>7 DEF Lock
  <2> HIDE DEF s
  <2>3. RequestsFit
        BY <2>1, <2>2, <1>0, <1>7, RequestGoes
           DEF Lock, HasOp, Handling, Polling, Stages
  <2> HIDE DEF RequestsFit
  <2> QED BY <2>3, <1>7, <1>a DEF Lock, Fitting, TypeOK
<1>8. ASSUME Reply(r) PROVE Fitting'
  <2> DEFINE c == [request[r] EXCEPT !.at = "done", !.plan = NoPlan,
                                     !.latest = NoOne]
  <2>1. c \in RequestRecords /\ RequestFits(c) /\ c.at \notin Polling
        BY <1>0, <1>8, Replies DEF Reply, Polling
  <2>2. Becomes(r, c) /\ run' = run
        BY <1>8 DEF Reply
  <2> HIDE DEF c
  <2>3. RequestsFit
        BY <2>1, <2>2, OneRequest
  <2> HIDE DEF RequestsFit
  <2> QED BY <2>3, <1>8, <1>a DEF Reply, Fitting, TypeOK
<1>9. ASSUME Refuse(r) PROVE Fitting'
  <2>1. RequestsFit
        BY <1>9, <1>b DEF Refuse, Handling
  <2> HIDE DEF RequestsFit
  <2> QED BY <2>1, <1>9, <1>a DEF Refuse, Fitting, TypeOK
<1>10. ASSUME ReadDevice(r) PROVE Fitting'
  <2>1. request[r].at = "handle"
        BY <1>10 DEF ReadDevice, Handles
  <2>2. Oper(r).device \in Devices
        BY <2>1, Named DEF HasOp, Handling, Operators
  <2>3. PICK v \in Free(Oper(r).device) :
          Becomes(r, [request[r] EXCEPT
                        !.at = "store",
                        !.plan = [by |-> r, vlan |-> v, on |-> Oper(r).device]])
        BY <1>10 DEF ReadDevice
  <2> DEFINE pl == [by |-> r, vlan |-> v, on |-> Oper(r).device]
  <2>4. pl \in Plans
        BY <2>2 DEF Plans, Free
  <2> HIDE DEF pl
  <2> DEFINE c == [request[r] EXCEPT !.at = "store", !.plan = pl]
  <2>5. c \in RequestRecords /\ RequestFits(c) /\ c.at \notin Polling
        BY <1>0, <2>1, <2>4, TakesPlan DEF Polling
  <2>6. Becomes(r, c) /\ run' = run
        BY <2>3, <1>10 DEF ReadDevice, pl
  <2> HIDE DEF c
  <2>7. RequestsFit
        BY <2>5, <2>6, OneRequest
  <2> HIDE DEF RequestsFit
  <2> QED BY <2>7, <1>10, <1>a DEF ReadDevice, Fitting, TypeOK
<1>11. ASSUME StorePlan(r) PROVE Fitting'
  <2>1. Oper(r) \in Operators /\ request[r].op \in Requests
        BY <1>11, Named DEF StorePlan, HasOp, Handling
  <2>2. [Oper(r) EXCEPT !.pending = request[r].plan] \in Operators
        BY <2>1, <1>0 DEF Operators, RequestRecords
  <2>3. oper' \in [Requests -> Operators]
        BY <2>1, <2>2, <1>11, OneOper DEF StorePlan, Fitting, TypeOK
  <2>4. RequestsFit
        BY <1>11, <1>b DEF StorePlan, Handling
  <2> HIDE DEF RequestsFit
  <2> QED BY <2>3, <2>4, <1>11, <1>a DEF StorePlan, Fitting, TypeOK
<1>12. ASSUME ReadPending(r) PROVE Fitting'
  <2>1. request[r].at = "handle"
        BY <1>12 DEF ReadPending, Handles
  <2>2. Oper(r).pending \in Plans
        BY <2>1, Named, ZenonT(60) DEF HasOp, Handling, Operators
  <2> DEFINE c == [request[r] EXCEPT !.at = "clear", !.plan = Oper(r).pending]
  <2>3. c \in RequestRecords /\ RequestFits(c) /\ c.at \notin Polling
        BY <1>0, <2>1, <2>2, TakesPlan DEF Polling
  <2>4. Becomes(r, c) /\ run' = run
        BY <1>12 DEF ReadPending
  <2> HIDE DEF c
  <2>5. RequestsFit
        BY <2>3, <2>4, OneRequest
  <2> HIDE DEF RequestsFit
  <2> QED BY <2>5, <1>12, <1>a DEF ReadPending, Fitting, TypeOK
<1>13. ASSUME ClearPending(r) PROVE Fitting'
  <2>1. Oper(r) \in Operators /\ request[r].op \in Requests
        BY <1>13, Named DEF ClearPending, HasOp, Handling
  <2>2. [Oper(r) EXCEPT !.pending = NoPlan] \in Operators
        BY <2>1 DEF Operators, Plans
  <2>3. oper' \in [Requests -> Operators]
        BY <2>1, <2>2, <1>13, OneOper DEF ClearPending, Fitting, TypeOK
  <2>4. RequestsFit
        BY <1>13, <1>b DEF ClearPending, Handling
  <2> HIDE DEF RequestsFit
  <2> QED BY <2>3, <2>4, <1>13, <1>a DEF ClearPending, Fitting, TypeOK
<1>14. ASSUME NoSession(r) PROVE Fitting'
  <2>1. RequestsFit
        BY <1>14, <1>b DEF NoSession, Handling
  <2> HIDE DEF RequestsFit
  <2> QED BY <2>1, <1>14, <1>a DEF NoSession, Fitting, TypeOK
<1>15. ASSUME Send(r) PROVE Fitting'
  <2>1. Oper(r) \in Operators
        BY <1>15, Named DEF Send, HasOp, Handling
  <2>2. Oper(r).device \in Devices /\ request[r].plan \in Plans
        BY <2>1, <1>0 DEF Operators, RequestRecords
  <2>3. request[r].plan.vlan \in Vlans \cup {NoOne}
        BY <2>2 DEF Plans, NoPlan
  <2>4. taken' \in [Devices -> [Vlans -> Requests \cup Runs \cup {NoOne}]]
    <3>1. /\ taken' \in {taken, [taken EXCEPT
                                   ![Oper(r).device][request[r].plan.vlan] = r]}
          /\ TypeOK
          BY <1>15 DEF Send, Fitting
    <3> DEFINE d == Oper(r).device
               v == request[r].plan.vlan
    <3>2. /\ taken' \in {taken, [taken EXCEPT ![d][v] = r]}
          /\ d \in Devices
          /\ v \in Vlans \cup {NoOne}
          BY <2>2, <2>3, <3>1
    <3> HIDE DEF d, v
    <3> QED BY <3>1, <3>2, OneTaken
  <2>5. sent' \in [Requests -> [plan : Plans, on : Devices \cup {NoOne}]]
        BY <2>2, <1>15 DEF Send, Fitting, TypeOK
  <2>6. RequestsFit
        BY <1>15, <1>b DEF Send, Handling
  <2> HIDE DEF RequestsFit
  <2> QED BY <2>4, <2>5, <2>6, <1>15, <1>a DEF Send, Fitting, TypeOK
<1>16. ASSUME Discover(r) PROVE Fitting'
  <2>1. RequestsFit
        BY <1>16, <1>b DEF Discover, Handles, Handling
  <2> HIDE DEF RequestsFit
  <2> QED BY <2>1, <1>16, <1>a DEF Discover, Fitting, TypeOK
<1>17. ASSUME KeepRun(r) PROVE Fitting'
  <2>1. Oper(r) \in Operators /\ request[r].op \in Requests
        BY <1>17, Named DEF KeepRun, HasOp, Handling
  <2>2. [Oper(r) EXCEPT !.run = r] \in Operators
        BY <2>1 DEF Operators, Reports
  <2>3. oper' \in [Requests -> Operators]
        BY <2>1, <2>2, <1>17, OneOper DEF KeepRun, Fitting, TypeOK
  <2>4. RequestsFit
        BY <1>17, <1>b DEF KeepRun, Handling
  <2> HIDE DEF RequestsFit
  <2> QED BY <2>3, <2>4, <1>17, <1>a DEF KeepRun, Fitting, TypeOK
<1>18. ASSUME KeepDiscovery(r) PROVE Fitting'
  <2>1. Oper(r) \in Operators /\ request[r].op \in Requests
        BY <1>18, Named DEF KeepDiscovery, HasOp, Handling
  <2>2. [Oper(r) EXCEPT !.discovery = r] \in Operators
        BY <2>1 DEF Operators, Reports
  <2>3. oper' \in [Requests -> Operators]
        BY <2>1, <2>2, <1>18, OneOper DEF KeepDiscovery, Fitting, TypeOK
  <2>4. RequestsFit
        BY <1>18, <1>b DEF KeepDiscovery, Handling
  <2> HIDE DEF RequestsFit
  <2> QED BY <2>3, <2>4, <1>18, <1>a DEF KeepDiscovery, Fitting, TypeOK
<1>19. ASSUME Design(r) PROVE Fitting'
  <2>1. Oper(r) \in Operators /\ request[r].op \in Requests
        BY <1>19, Named DEF Design, Handles, HasOp, Handling
  <2>2. [Oper(r) EXCEPT !.run = r] \in Operators
        BY <2>1 DEF Operators, Reports
  <2>3. oper' \in [Requests -> Operators]
        BY <2>1, <2>2, <1>19, OneOper DEF Design, Fitting, TypeOK
  <2>4. RequestsFit
        BY <1>19, <1>b DEF Design, Handles, Handling
  <2> HIDE DEF RequestsFit
  <2> QED BY <2>3, <2>4, <1>19, <1>a DEF Design, Fitting, TypeOK
<1>20. ASSUME NotApplied(r) PROVE Fitting'
  <2>1. RequestsFit
        BY <1>20, <1>b DEF NotApplied, Handling
  <2> HIDE DEF RequestsFit
  <2> QED BY <2>1, <1>20, <1>a DEF NotApplied, Fitting, TypeOK
<1>21. ASSUME Apply(r) PROVE Fitting'
  <2>1. RequestsFit
        BY <1>21, <1>b DEF Apply, Handling
  <2> HIDE DEF RequestsFit
  <2> QED BY <2>1, <1>21, <1>a DEF Apply, Fitting, TypeOK
<1>22. ASSUME KeepApplied(r) PROVE Fitting'
  <2>1. Oper(r) \in Operators /\ request[r].op \in Requests
        BY <1>22, Named DEF KeepApplied, HasOp, Handling
  <2>2. [Oper(r) EXCEPT !.run = r] \in Operators
        BY <2>1 DEF Operators, Reports
  <2>3. oper' \in [Requests -> Operators]
        BY <2>1, <2>2, <1>22, OneOper DEF KeepApplied, Fitting, TypeOK
  <2>4. PICK v \in Vlans :
          Becomes(r, [request[r] EXCEPT !.at = "reply", !.vlan = v])
        BY <1>22 DEF KeepApplied
  <2> DEFINE c == [request[r] EXCEPT !.at = "reply", !.vlan = v]
  <2>5. c \in RequestRecords /\ RequestFits(c) /\ c.at \notin Polling
        BY <1>0, <1>22, KeepsVlan DEF KeepApplied, Polling
  <2>6. Becomes(r, c) /\ run' = run
        BY <2>4, <1>22 DEF KeepApplied
  <2> HIDE DEF c
  <2>7. RequestsFit
        BY <2>5, <2>6, OneRequest
  <2> HIDE DEF RequestsFit
  <2> QED BY <2>3, <2>7, <1>22, <1>a DEF KeepApplied, Fitting, TypeOK
<1>23. ASSUME Rollback(r) PROVE Fitting'
  <2>1. Oper(r) \in Operators
        BY <1>23, Named DEF Rollback, Handles, HasOp, Handling
  <2>2. Oper(r).device \in Devices /\ Oper(r).run \in Reports \cup {NoOne}
        BY <2>1 DEF Operators
  <2>3. Claimed(Oper(r).run) \in Vlans \cup {NoOne}
        BY <2>2, <1>23 DEF Rollback, Claimed, Reports, Fitting, TypeOK,
                           RunRecords, RequestRecords
  <2> DEFINE v == Claimed(Oper(r).run)
             d == Oper(r).device
  <2>4. taken' \in {taken, [taken EXCEPT ![d][v] = NoOne]}
        BY <1>23 DEF Rollback
  <2>5. d \in Devices /\ v \in Vlans \cup {NoOne}
        BY <2>2, <2>3
  <2> HIDE DEF d, v
  <2>6. taken' \in [Devices -> [Vlans -> Requests \cup Runs \cup {NoOne}]]
    <3>1. TypeOK /\ NoOne \in Requests \cup Runs \cup {NoOne}
          BY DEF Fitting
    <3> QED BY <2>4, <2>5, <3>1, OneTaken
  <2>7. RequestsFit
        BY <1>23, <1>b DEF Rollback, Handles, Handling
  <2> HIDE DEF RequestsFit
  <2> QED BY <2>6, <2>7, <1>23, <1>a DEF Rollback, Fitting, TypeOK
<1>24. ASSUME ReadStatus(r) PROVE Fitting'
  <2>1. PICK u \in Runs :
          /\ run[u].status # "none"
          /\ Becomes(r, [request[r] EXCEPT !.at = "final", !.polled = u,
                                           !.status = run[u].status])
        BY <1>24 DEF ReadStatus
  <2> DEFINE c == [request[r] EXCEPT !.at = "final", !.polled = u,
                                     !.status = run[u].status]
  <2>2. run[u] \in RunRecords
        BY DEF Fitting, TypeOK
  <2>3. c \in RequestRecords /\ RequestFits(c)
        BY <1>0, <2>2, <1>24, ReadsStatus DEF ReadStatus
  <2>4. c.polled = u /\ c.status = run[u].status
        BY <1>0 DEF RequestRecords
  <2>5. Becomes(r, c) /\ run' = run
        BY <2>1, <1>24 DEF ReadStatus
  <2> HIDE DEF c
  <2>6. RequestsFit
        BY <2>3, <2>4, <2>5, OneRequest
  <2> HIDE DEF RequestsFit
  <2> QED BY <2>6, <1>24, <1>a DEF ReadStatus, Fitting, TypeOK
<1>25. ASSUME ReadFinal(r) PROVE Fitting'
  <2> DEFINE f == run[request[r].polled].final
             c == [request[r] EXCEPT !.at = "report", !.final = f]
  <2>1. /\ f \in Runs \cup {NoOne}
        /\ request[r].status \in Verdicts => f = request[r].polled
        BY <1>25, PolledIsFilled DEF ReadFinal, Polling, RunRecords
  <2>2. /\ request[r].at \in Polling /\ request[r].status \in Verdicts
           => run[request[r].polled].status \in Verdicts
        BY DEF Fitting, PollsFit
  <2>3. Becomes(r, c) /\ run' = run /\ request[r].at = "final"
        BY <1>25 DEF ReadFinal
  <2> HIDE DEF f
  <2>4. c \in RequestRecords /\ RequestFits(c)
        BY <1>0, <2>1, <2>3, ReadsFinal
  <2>5. c.polled = request[r].polled /\ c.status = request[r].status
        BY <1>0 DEF RequestRecords
  <2> HIDE DEF c
  <2>6. RequestsFit
        BY <2>2, <2>3, <2>4, <2>5, OneRequest DEF Polling
  <2> HIDE DEF RequestsFit
  <2> QED BY <2>6, <1>25, <1>a DEF ReadFinal, Fitting, TypeOK
<1>26. ASSUME ReadReport(r) PROVE Fitting'
  <2> DEFINE f == run[request[r].polled].report
             c == [request[r] EXCEPT !.at = "done", !.report = f]
  <2>1. /\ f \in Runs \cup {NoOne}
        /\ request[r].status \in Verdicts => f = request[r].polled
        BY <1>26, PolledIsFilled DEF ReadReport, Polling, RunRecords
  <2>2. Becomes(r, c) /\ run' = run /\ request[r].at = "report"
        BY <1>26 DEF ReadReport
  <2> HIDE DEF f
  <2>3. c \in RequestRecords /\ RequestFits(c) /\ c.at \notin Polling
        BY <1>0, <2>1, <2>2, ReadsReport DEF Polling
  <2> HIDE DEF c
  <2>4. RequestsFit
        BY <2>2, <2>3, OneRequest
  <2> HIDE DEF RequestsFit
  <2> QED BY <2>4, <1>26, <1>a DEF ReadReport, Fitting, TypeOK
<1> QED BY <1>1, <1>2, <1>3, <1>4, <1>5, <1>6, <1>7, <1>8, <1>9, <1>10,
           <1>11, <1>12, <1>13, <1>14, <1>15, <1>16, <1>17, <1>18, <1>19,
           <1>20, <1>21, <1>22, <1>23, <1>24, <1>25, <1>26 DEF Serve

(* Steps of the runs. *)

LEMMA WorkFits ==
    ASSUME Fitting, NEW u \in Runs, PostRun(u) \/ Work(u)
    PROVE  Fitting'
<1> DEFINE RunsFit ==
             /\ PollsFit'
             /\ run' \in [Runs -> RunRecords]
             /\ \A w \in Runs : RunFits(w, run'[w])
<1>0. /\ run[u] \in RunRecords
      /\ RunFits(u, run[u])
      BY DEF Fitting, TypeOK
<1>a. ASSUME RunsFit, UNCHANGED <<request, shared, chatLock, sent>>,
             oper' \in [Requests -> Operators],
             runsLock' \in Requests \cup Runs \cup {NoOne},
             ended' \in Seq(Runs),
             taken' \in [Devices -> [Vlans -> Requests \cup Runs \cup {NoOne}]]
      PROVE  Fitting'
      BY <1>a DEF Fitting, TypeOK
<1>b. ASSUME NEW c \in RunRecords, RunFits(u, c), WorkerBecomes(u, c),
             request' = request, run[u].at # "done"
      PROVE  RunsFit
  <2>1. run[u].status \notin Verdicts
        BY <1>0, <1>b DEF RunFits
  <2> QED BY <2>1, <1>b, OneRun
<1>1. ASSUME PostRun(u) PROVE Fitting'
  <2>1. /\ [run[u] EXCEPT !.at = "pending", !.status = "PENDING"]
             \in RunRecords
        /\ RunFits(u, [run[u] EXCEPT !.at = "pending", !.status = "PENDING"])
        BY <1>0, <1>1, WorkerReports, ZenonT(60) DEF PostRun, RunStages
  <2>2. RunsFit
        BY <2>1, <1>b, <1>1 DEF PostRun
  <2> HIDE DEF RunsFit
  <2> QED BY <2>2, <1>1, <1>a, SMTT(60) DEF PostRun, Fitting, TypeOK
<1>2. ASSUME StartRun(u) PROVE Fitting'
  <2>1. /\ [run[u] EXCEPT !.at = "engine", !.status = "RUNNING"]
             \in RunRecords
        /\ RunFits(u, [run[u] EXCEPT !.at = "engine", !.status = "RUNNING"])
        BY <1>0, <1>2, WorkerReports, ZenonT(60) DEF StartRun, RunStages
  <2>2. RunsFit
        BY <2>1, <1>b, <1>2 DEF StartRun
  <2> HIDE DEF RunsFit
  <2> QED BY <2>2, <1>2, <1>a, SMTT(60) DEF StartRun, Fitting, TypeOK
<1>3. ASSUME EngineReturns(u) PROVE Fitting'
  <2> DEFINE d == IF u \in SimRuns THEN u ELSE "site"
  <2>0. d \in Devices /\ run[u].at = "engine"
        BY <1>3 DEF EngineReturns, Devices
  <2>1. CASE /\ WorkerBecomes(u, [run[u] EXCEPT !.at = "fill",
                                                !.verdict = "BLOCKED"])
             /\ UNCHANGED taken
    <3>1. /\ [run[u] EXCEPT !.at = "fill", !.verdict = "BLOCKED"]
               \in RunRecords
          /\ RunFits(u, [run[u] EXCEPT !.at = "fill", !.verdict = "BLOCKED"])
          BY <1>0, <2>0, WorkerJudges, ZenonT(60) DEF Verdicts
    <3>2. RunsFit
          BY <3>1, <2>0, <2>1, <1>b, <1>3 DEF EngineReturns
    <3> HIDE DEF RunsFit
    <3> QED BY <3>2, <2>1, <1>3, <1>a, ZenonT(60) DEF EngineReturns, Fitting, TypeOK
  <2>2. ASSUME NEW verdict \in Verdicts,
               WorkerBecomes(u, [run[u] EXCEPT !.at = "look",
                                               !.verdict = verdict]),
               UNCHANGED taken
        PROVE  Fitting'
    <3>1. /\ [run[u] EXCEPT !.at = "look", !.verdict = verdict]
               \in RunRecords
          /\ RunFits(u, [run[u] EXCEPT !.at = "look", !.verdict = verdict])
          BY <1>0, <2>0, WorkerJudges
    <3>2. RunsFit
          BY <3>1, <2>0, <2>2, <1>b, <1>3 DEF EngineReturns
    <3> HIDE DEF RunsFit
    <3> QED BY <3>2, <2>2, <1>3, <1>a DEF EngineReturns, Fitting, TypeOK
  <2>3. ASSUME NEW verdict \in Verdicts, NEW v \in Vlans,
               WorkerBecomes(u, [run[u] EXCEPT !.at = "look",
                                               !.verdict = verdict,
                                               !.vlan = v]),
               taken' = [taken EXCEPT ![d][v] = u]
        PROVE  Fitting'
    <3>1. /\ [run[u] EXCEPT !.at = "look", !.verdict = verdict, !.vlan = v]
               \in RunRecords
          /\ RunFits(u, [run[u] EXCEPT !.at = "look", !.verdict = verdict,
                                       !.vlan = v])
          BY <1>0, <2>0, WorkerApplies
    <3>2. RunsFit
          BY <3>1, <2>0, <2>3, <1>b, <1>3 DEF EngineReturns
    <3>3. TypeOK
          BY DEF Fitting
    <3>4. taken' \in {taken, [taken EXCEPT ![d][v] = u]}
          BY <2>3
    <3> HIDE DEF RunsFit, d
    <3>5. taken' \in [Devices -> [Vlans -> Requests \cup Runs \cup {NoOne}]]
          BY <3>3, <3>4, <2>0, OneTaken
    <3> QED BY <3>2, <3>5, <1>3, <1>a DEF EngineReturns, Fitting, TypeOK
  <2> QED BY <1>3, <2>1, <2>2, <2>3 DEF EngineReturns
<1>4. ASSUME EngineRaises(u) PROVE Fitting'
  <2>1. /\ [run[u] EXCEPT !.at = "error"] \in RunRecords
        /\ RunFits(u, [run[u] EXCEPT !.at = "error"])
        BY <1>0, <1>4, WorkerMoves, ZenonT(60) DEF EngineRaises, RunStages, Wiring
  <2>2. RunsFit
        BY <2>1, <1>b, <1>4 DEF EngineRaises
  <2> HIDE DEF RunsFit
  <2> QED BY <2>2, <1>4, <1>a DEF EngineRaises, Fitting, TypeOK
<1>5. ASSUME FillError(u) PROVE Fitting'
  <2>1. /\ [run[u] EXCEPT !.at = "done", !.status = "ERROR"] \in RunRecords
        /\ RunFits(u, [run[u] EXCEPT !.at = "done", !.status = "ERROR"])
        BY <1>0, <1>5, WorkerReports, ZenonT(60) DEF FillError, RunStages
  <2>2. RunsFit
        BY <2>1, <1>b, <1>5 DEF FillError
  <2> HIDE DEF RunsFit
  <2> QED BY <2>2, <1>5, <1>a DEF FillError, Fitting, TypeOK
<1>6. ASSUME LookAtShared(u) PROVE Fitting'
  <2>1. CASE shared = NoOne
    <3>1. run[u].verdict \in Verdicts
          BY <1>0, <1>6 DEF LookAtShared, RunFits
    <3>2. /\ [run[u] EXCEPT !.at = "fill"] \in RunRecords
          /\ RunFits(u, [run[u] EXCEPT !.at = "fill"])
          BY <3>1, <1>0, <1>6, WorkerMoves DEF LookAtShared, RunStages, Wiring
    <3>3. RunsFit
          BY <3>2, <2>1, <1>b, <1>6 DEF LookAtShared
    <3> HIDE DEF RunsFit
    <3> QED BY <3>3, <1>6, <1>a DEF LookAtShared, Fitting, TypeOK
  <2>2. CASE shared # NoOne
    <3>1. shared \in Requests
          BY <2>2 DEF Fitting, TypeOK
    <3>2. /\ [run[u] EXCEPT !.at = "wire", !.op = shared] \in RunRecords
          /\ RunFits(u, [run[u] EXCEPT !.at = "wire", !.op = shared])
          BY <3>1, <1>0, <1>6, WorkerLooks DEF LookAtShared
    <3>3. RunsFit
          BY <3>2, <2>2, <1>b, <1>6 DEF LookAtShared
    <3> HIDE DEF RunsFit
    <3> QED BY <3>3, <1>6, <1>a DEF LookAtShared, Fitting, TypeOK
  <2> QED BY <2>1, <2>2
<1>c. ASSUME run[u].at \in Wiring
      PROVE  /\ run[u].op \in Requests
             /\ run[u].verdict \in Verdicts
             /\ oper[run[u].op] \in Operators
      BY <1>0, <1>c DEF RunFits, Fitting, TypeOK
<1>7. ASSUME WireDiscovery(u) PROVE Fitting'
  <2>1. /\ run[u].op \in Requests
        /\ run[u].verdict \in Verdicts
        /\ oper[run[u].op] \in Operators
        BY <1>7, <1>c DEF WireDiscovery, Wiring
  <2>2. [oper[run[u].op] EXCEPT !.discovery = u] \in Operators
        BY <2>1 DEF Operators, Reports
  <2>3. oper' \in [Requests -> Operators]
        BY <2>1, <2>2, <1>7, OneOper DEF WireDiscovery, Fitting, TypeOK
  <2>4. /\ [run[u] EXCEPT !.at = "wire run"] \in RunRecords
        /\ RunFits(u, [run[u] EXCEPT !.at = "wire run"])
        BY <2>1, <1>0, <1>7, WorkerMoves DEF WireDiscovery, RunStages, Wiring
  <2>5. RunsFit
        BY <2>4, <1>b, <1>7 DEF WireDiscovery
  <2> HIDE DEF RunsFit
  <2> QED BY <2>3, <2>5, <1>7, <1>a DEF WireDiscovery, Fitting, TypeOK
<1>8. ASSUME WireRun(u) PROVE Fitting'
  <2>1. /\ run[u].op \in Requests
        /\ run[u].verdict \in Verdicts
        /\ oper[run[u].op] \in Operators
        BY <1>8, <1>c DEF WireRun, Wiring
  <2>2. [oper[run[u].op] EXCEPT !.run = u] \in Operators
        BY <2>1 DEF Operators, Reports
  <2>3. oper' \in [Requests -> Operators]
        BY <2>1, <2>2, <1>8, OneOper DEF WireRun, Fitting, TypeOK
  <2> DEFINE s == IF u \in SimRuns THEN "swap" ELSE "fill"
  <2>4. /\ s \in {"swap", "fill"}
        /\ s = "swap" => u \in SimRuns
        /\ WorkerBecomes(u, [run[u] EXCEPT !.at = s])
        BY <1>8 DEF WireRun
  <2> HIDE DEF s
  <2>5. /\ [run[u] EXCEPT !.at = s] \in RunRecords
        /\ RunFits(u, [run[u] EXCEPT !.at = s])
        BY <2>1, <2>4, <1>0, <1>8, WorkerMoves, ZenonT(60) DEF WireRun, RunStages, Wiring
  <2>6. RunsFit
        BY <2>4, <2>5, <1>b, <1>8 DEF WireRun
  <2> HIDE DEF RunsFit
  <2> QED BY <2>3, <2>6, <1>8, <1>a DEF WireRun, Fitting, TypeOK
<1>9. ASSUME SwapRunner(u) PROVE Fitting'
  <2>1. /\ run[u].op \in Requests
        /\ run[u].verdict \in Verdicts
        /\ oper[run[u].op] \in Operators
        BY <1>9, <1>c DEF SwapRunner, Wiring
  <2>2. u \in Devices
        BY <1>0, <1>9 DEF SwapRunner, RunFits, Devices
  <2>3. [oper[run[u].op] EXCEPT !.device = u] \in Operators
        BY <2>1, <2>2 DEF Operators
  <2>4. oper' \in [Requests -> Operators]
        BY <2>1, <2>3, <1>9, OneOper DEF SwapRunner, Fitting, TypeOK
  <2>5. /\ [run[u] EXCEPT !.at = "fill"] \in RunRecords
        /\ RunFits(u, [run[u] EXCEPT !.at = "fill"])
        BY <2>1, <1>0, <1>9, WorkerMoves DEF SwapRunner, RunStages, Wiring
  <2>6. RunsFit
        BY <2>5, <1>b, <1>9 DEF SwapRunner
  <2> HIDE DEF RunsFit
  <2> QED BY <2>4, <2>6, <1>9, <1>a DEF SwapRunner, Fitting, TypeOK
<1>10. ASSUME FillReport(u) PROVE Fitting'
  <2>1. /\ [run[u] EXCEPT !.at = "fill status", !.report = u, !.final = u]
             \in RunRecords
        /\ RunFits(u, [run[u] EXCEPT !.at = "fill status", !.report = u,
                                     !.final = u])
        BY <1>0, <1>10, WorkerFills DEF FillReport
  <2>2. RunsFit
        BY <2>1, <1>b, <1>10 DEF FillReport
  <2> HIDE DEF RunsFit
  <2> QED BY <2>2, <1>10, <1>a DEF FillReport, Fitting, TypeOK
<1>11. ASSUME FillStatus(u) PROVE Fitting'
  <2>1. /\ [run[u] EXCEPT !.at = "done", !.status = run[u].verdict]
             \in RunRecords
        /\ RunFits(u, [run[u] EXCEPT !.at = "done",
                                     !.status = run[u].verdict])
        BY <1>0, <1>11, WorkerEnds DEF FillStatus
  <2>2. RunsFit
        BY <2>1, <1>b, <1>11 DEF FillStatus
  <2>3. ended' \in Seq(Runs)
    <3>1. ended \in Seq(Runs)
          BY DEF Fitting, TypeOK
    <3>2. ended' = ended \/ ended' = Append(ended, u)
          BY <1>11 DEF FillStatus
    <3> QED BY <3>1, <3>2
  <2> HIDE DEF RunsFit
  <2> QED BY <2>2, <2>3, <1>11, <1>a DEF FillStatus, Fitting, TypeOK
<1> QED BY <1>1, <1>2, <1>3, <1>4, <1>5, <1>6, <1>7, <1>8, <1>9, <1>10,
           <1>11 DEF Work

LEMMA InitFits == Init => Fitting
<1> SUFFICES ASSUME Init PROVE Fitting
    OBVIOUS
<1>0. PICK s \in Scenarios :
        /\ request = [r \in Requests |->
                        [at |-> IF s.asks[r] = NoMessage THEN "done" ELSE "new",
                         kind |-> s.asks[r].kind, verb |-> s.asks[r].verb,
                         op |-> NoOne, latest |-> NoOne, plan |-> NoPlan,
                         vlan |-> NoOne, polled |-> NoOne, status |-> "none",
                         final |-> NoOne, report |-> NoOne]]
        /\ run = [u \in Runs |->
                    [at |-> IF u \in s.runs THEN "new" ELSE "done",
                     op |-> NoOne, verdict |-> "none",
                     vlan |-> NoOne, status |-> "none", final |-> NoOne,
                     report |-> NoOne]]
      BY DEF Init
<1>1. s.asks \in [Requests -> Messages \cup {NoMessage}]
      BY <1>0, ChatAssumption
<1>2. NoPlan \in Plans
      BY DEF Plans
<1>3. ASSUME NEW r \in Requests
      PROVE  /\ request[r] \in RequestRecords
             /\ RequestFits(request[r])
             /\ request[r].at \notin Polling
  <2>1. /\ s.asks[r].kind \in Kinds \cup {"none"}
        /\ s.asks[r].verb \in Verbs \cup {"none"}
        BY <1>1 DEF Messages, NoMessage
  <2> DEFINE a == IF s.asks[r] = NoMessage THEN "done" ELSE "new"
  <2>2. a \in {"done", "new"}
        OBVIOUS
  <2>3. request[r] = [at |-> a,
                      kind |-> s.asks[r].kind, verb |-> s.asks[r].verb,
                      op |-> NoOne, latest |-> NoOne, plan |-> NoPlan,
                      vlan |-> NoOne, polled |-> NoOne, status |-> "none",
                      final |-> NoOne, report |-> NoOne]
        BY <1>0
  <2> HIDE DEF a
  <2>4. [at |-> a,
         kind |-> s.asks[r].kind, verb |-> s.asks[r].verb,
         op |-> NoOne, latest |-> NoOne, plan |-> NoPlan,
         vlan |-> NoOne, polled |-> NoOne, status |-> "none",
         final |-> NoOne, report |-> NoOne] \in RequestRecords
        BY <2>1, <2>2, <1>2 DEF RequestRecords, Stages
  <2>5. /\ request[r].at \in {"done", "new"}
        /\ request[r].latest = NoOne
        /\ request[r].status = "none"
        BY <2>2, <2>3
  <2> QED BY <2>3, <2>4, <2>5 DEF RequestFits, Polling, HasOp, Handling, Verdicts
<1>4. ASSUME NEW u \in Runs
      PROVE  run[u] \in RunRecords /\ RunFits(u, run[u])
  <2> DEFINE a == IF u \in s.runs THEN "new" ELSE "done"
  <2>1. a \in {"done", "new"}
        OBVIOUS
  <2>2. run[u] = [at |-> a, op |-> NoOne, verdict |-> "none",
                  vlan |-> NoOne, status |-> "none", final |-> NoOne,
                  report |-> NoOne]
        BY <1>0
  <2> HIDE DEF a
  <2>3. [at |-> a, op |-> NoOne, verdict |-> "none",
         vlan |-> NoOne, status |-> "none", final |-> NoOne,
         report |-> NoOne] \in RunRecords
        BY <2>1 DEF RunRecords, RunStages
  <2>4. run[u].at \in {"done", "new"} /\ run[u].status = "none"
        BY <2>1, <2>2
  <2> QED BY <2>2, <2>3, <2>4 DEF RunFits, Wiring, Verdicts
<1>5. request \in [Requests -> RequestRecords] /\ run \in [Runs -> RunRecords]
      BY <1>0, <1>3, <1>4
<1>6. FreshOper \in Operators
      BY <1>2 DEF FreshOper, Operators, Devices
<1>7. oper \in [Requests -> Operators]
      BY <1>6 DEF Init
<1>8. sent \in [Requests -> [plan : Plans, on : Devices \cup {NoOne}]]
      BY <1>2 DEF Init
<1>9. TypeOK
      BY <1>5, <1>7, <1>8 DEF Init, TypeOK
<1> QED BY <1>3, <1>4, <1>9 DEF Fitting, PollsFit

LEMMA NextFits == Fitting /\ [Next]_vars => Fitting'
<1> SUFFICES ASSUME Fitting, [Next]_vars PROVE Fitting'
    OBVIOUS
<1>1. ASSUME UNCHANGED vars PROVE Fitting'
      BY <1>1 DEF vars, Fitting, TypeOK, PollsFit
<1> QED BY <1>1, ServeFits, WorkFits DEF Next

LEMMA FittingHolds == Spec => []Fitting
BY InitFits, NextFits, PTL DEF Spec

(* Type correctness, for every scenario of any number of requests and runs *)
(* in threads of their own (server.py, post_chat to _run_autopilot_worker). *)
THEOREM ChatTyped == Spec => []TypeOK
<1>1. Fitting => TypeOK
      BY DEF Fitting
<1> QED BY <1>1, FittingHolds, PTL

(* get_run puts its answer together without the lock a record is filled    *)
(* under; an answer with a verdict still has the final and the report that *)
(* go with it, because the worker writes the status last and nothing moves *)
(* a record that has a verdict.                                            *)
THEOREM AnswersAreWhole == Spec => []PollsAreWhole
<1>1. Fitting => PollsAreWhole
      BY DEF Fitting, RequestFits, PollsAreWhole, Verdicts
<1> QED BY <1>1, FittingHolds, PTL

----------------------------------------------------------------------------
(***************************************************************************)
(* Part 2: a plan is in one place: with the request that makes it, pending *)
(* in one operator, with the confirm that has taken it, or sent.           *)
(***************************************************************************)

Pending(o) == oper[o].pending

LockHeld == \A r \in Requests : request[r].at \in Handling => chatLock = r

(* The plan of a request that has not stored one is nowhere. *)
Unseen ==
    \A r \in Requests : request[r].at \notin {"reply", "done"} =>
        \A q \in Requests :
            /\ Pending(q).by # r
            /\ sent[q].plan.by # r
            /\ request[q].at \in {"clear", "send"} => request[q].plan.by # r

PlacesApart ==
    /\ \A r \in Requests : request[r].at = "store" => request[r].plan.by = r
    /\ \A r \in Requests : request[r].at = "clear" =>
            request[r].plan # NoPlan
            /\ Pending(request[r].op) = request[r].plan
    /\ \A r, q \in Requests : request[r].at = "send" =>
            /\ request[r].plan # NoPlan
            /\ Pending(q) # request[r].plan
            /\ sent[q].plan # request[r].plan
    /\ \A o, q \in Requests : Pending(o) # NoPlan =>
            /\ o # q => Pending(o) # Pending(q)
            /\ sent[q].plan # Pending(o)

PlanInv == LockHeld /\ Unseen /\ PlacesApart /\ PlansOnce

(* A step that neither takes, moves nor leaves a plan. *)
LEMMA PlansKept ==
    ASSUME Fitting, PlanInv, NEW r \in Requests,
           \A q \in Requests : q # r => request'[q] = request[q],
           \A q \in Requests : Pending(q)' = Pending(q),
           UNCHANGED sent, LockHeld',
           request'[r].at \notin {"store", "clear", "send"},
           request[r].at \in {"reply", "done"}
           => request'[r].at \in {"reply", "done"}
    PROVE  PlanInv'
<1>1. \A q \in Requests : request[q].at \in {"clear"} => request[q].op \in Requests
      BY DEF Fitting, RequestFits, HasOp, Handling
<1>3. Unseen'
  <2> SUFFICES ASSUME NEW p \in Requests, NEW q \in Requests,
                      request'[p].at \notin {"reply", "done"}
               PROVE  /\ Pending(q)'.by # p
                      /\ sent'[q].plan.by # p
                      /\ request'[q].at \in {"clear", "send"}
                         => request'[q].plan.by # p
      BY DEF Unseen
  <2>1. request[p].at \notin {"reply", "done"}
        OBVIOUS
  <2> QED BY <2>1 DEF PlanInv, Unseen
<1>4. PlacesApart'
      BY <1>1 DEF PlanInv, PlacesApart
<1>5. PlansOnce'
      BY SMTT(60) DEF PlanInv, PlansOnce
<1> QED BY <1>3, <1>4, <1>5 DEF PlanInv

(* What one step of a request leaves alone. *)
LEMMA OthersKept ==
    ASSUME Fitting, NEW r \in Requests, Serve(r)
    PROVE  \A q \in Requests : q # r => request'[q] = request[q]
<1>1. request \in [Requests -> RequestRecords]
      BY DEF Fitting, TypeOK
<1> HIDE DEF RequestRecords
<1> QED BY <1>1 DEF Serve, GetOp, MakeOp, MakeBroken, PublishOp, Sync, SyncRun,
           Lock, Refuse, ReadDevice, StorePlan, ReadPending, ClearPending,
           NoSession, Send, Discover, KeepRun, KeepDiscovery, Design,
           NotApplied, Apply, KeepApplied, Rollback, Reply, ReadStatus,
           ReadFinal, ReadReport, Goto, Becomes

(* The pending plans, after a step that changes other fields. *)
LEMMA PendingKept ==
    ASSUME oper \in [Requests -> Operators], NEW o \in Requests,
           NEW c \in Operators, OperBecomes(o, c), c.pending = Pending(o)
    PROVE  \A q \in Requests : Pending(q)' = Pending(q)
BY DEF OperBecomes, Pending

LEMMA QuietKept ==
    ASSUME Fitting, PlanInv, NEW r \in Requests, Serve(r),
           \A q \in Requests : Pending(q)' = Pending(q),
           UNCHANGED <<sent, chatLock>>,
           NEW s \in Stages \ {"store", "clear", "send"}, request'[r].at = s,
           s \in Handling => request[r].at \in Handling,
           request[r].at \notin {"reply", "done"}
    PROVE  PlanInv'
<1>1. \A q \in Requests : q # r => request'[q] = request[q]
      BY OthersKept
<1>2. LockHeld'
      BY <1>1 DEF PlanInv, LockHeld
<1> QED BY <1>1, <1>2, PlansKept

LEMMA ServePlans ==
    ASSUME Fitting, PlanInv, NEW r \in Requests, Serve(r)
    PROVE  PlanInv'
<1>0. /\ request \in [Requests -> RequestRecords]
      /\ request[r] \in RequestRecords
      /\ oper \in [Requests -> Operators]
      BY DEF Fitting, TypeOK
<1>a. \A q \in Requests : q # r => request'[q] = request[q]
      BY OthersKept
<1>b. ASSUME NEW s \in Stages, Goto(r, s)
      PROVE  /\ request'[r] = [request[r] EXCEPT !.at = s]
             /\ request'[r].at = s
             /\ request'[r].op = request[r].op
             /\ request'[r].plan = request[r].plan
      BY <1>b, <1>0 DEF Goto, Becomes, RequestRecords
<1>c. ASSUME UNCHANGED oper
      PROVE  \A q \in Requests : Pending(q)' = Pending(q)
      BY <1>c DEF Pending
<1>1. ASSUME GetOp(r) PROVE PlanInv'
  <2> DEFINE s == request'[r].at
  <2>1. s \in {"make", "sync", "lock"}
    <3>1. CASE shared = NoOne
      <4>1. Goto(r, "make") /\ "make" \in Stages
            BY <3>1, <1>1 DEF GetOp, Stages
      <4> QED BY <4>1, <1>b
    <3>2. CASE shared # NoOne
      <4>1. AfterGet(r) \in {"sync", "lock"}
            BY DEF AfterGet
      <4>2. request'[r] = [request[r] EXCEPT !.at = AfterGet(r), !.op = shared]
            BY <3>2, <1>1, <1>0 DEF GetOp, Becomes
      <4> QED BY <4>1, <4>2, <1>0 DEF RequestRecords
    <3> QED BY <3>1, <3>2
  <2> QED BY <2>1, <1>1, <1>c, QuietKept DEF GetOp, Stages, Handling
<1>2. ASSUME MakeOp(r) PROVE PlanInv'
  <2>1. [oper[r] EXCEPT !.run = Latest, !.discovery = Latest].pending
          = Pending(r)
        BY <1>0 DEF Operators, Pending
  <2>2. \A q \in Requests : Pending(q)' = Pending(q)
        BY <2>1, <1>2, <1>0 DEF MakeOp, OperBecomes, Pending
  <2>3. request'[r].at = "publish"
        BY <1>2, <1>b DEF MakeOp, Stages
  <2> QED BY <2>2, <2>3, <1>2, QuietKept DEF MakeOp, Stages, Handling
<1>3. ASSUME MakeBroken(r) PROVE PlanInv'
  <2>1. [oper[r] EXCEPT !.is = "_Broken"].pending = Pending(r)
        BY <1>0 DEF Operators, Pending
  <2>2. \A q \in Requests : Pending(q)' = Pending(q)
        BY <2>1, <1>3, <1>0 DEF MakeBroken, OperBecomes, Pending
  <2>3. request'[r].at = "publish"
        BY <1>3, <1>b DEF MakeBroken, Stages
  <2> QED BY <2>2, <2>3, <1>3, QuietKept DEF MakeBroken, Stages, Handling
<1>4. ASSUME PublishOp(r) PROVE PlanInv'
  <2> DEFINE s == request'[r].at
  <2>1. s \in {"sync", "lock"}
        BY <1>4, <1>0 DEF PublishOp, Becomes, AfterGet, RequestRecords
  <2> QED BY <2>1, <1>4, <1>c, QuietKept DEF PublishOp, Stages, Handling
<1>d. ASSUME request[r].at \in HasOp
      PROVE  request[r].op \in Requests /\ Oper(r) = oper[request[r].op]
             /\ Oper(r) \in Operators
      BY <1>d, Named
<1>5. ASSUME Sync(r) PROVE PlanInv'
  <2> DEFINE s == request'[r].at
  <2>1. s \in {"sync run", "lock"}
        BY <1>5, <1>0, SyncGoes
  <2>2. request[r].op \in Requests /\ Oper(r) = oper[request[r].op]
        /\ Oper(r) \in Operators
        BY <1>5, <1>d DEF Sync, HasOp
  <2>3. [Oper(r) EXCEPT !.discovery = Latest].pending = Pending(request[r].op)
        BY <2>2 DEF Operators, Pending
  <2>4. \A q \in Requests : Pending(q)' = Pending(q)
        BY <2>2, <2>3, <1>5, <1>0, <1>c DEF Sync, OperBecomes, Pending
  <2> QED BY <2>1, <2>4, <1>5, QuietKept DEF Sync, Stages, Handling
<1>6. ASSUME SyncRun(r) PROVE PlanInv'
  <2>1. request[r].op \in Requests /\ Oper(r) = oper[request[r].op]
        /\ Oper(r) \in Operators
        BY <1>6, <1>d DEF SyncRun, HasOp
  <2>2. [Oper(r) EXCEPT !.run = request[r].latest].pending
          = Pending(request[r].op)
        BY <2>1 DEF Operators, Pending
  <2>3. \A q \in Requests : Pending(q)' = Pending(q)
        BY <2>1, <2>2, <1>6, <1>0 DEF SyncRun, OperBecomes, Pending
  <2>4. request'[r].at = "lock"
        BY <1>6, <1>b DEF SyncRun, Stages
  <2> QED BY <2>3, <2>4, <1>6, QuietKept DEF SyncRun, Stages, Handling
<1>7. ASSUME Lock(r) PROVE PlanInv'
  <2>1. request'[r].at \in {"reply", "handle"}
        BY <1>7, <1>b DEF Lock, Stages, Handling
  <2>2. LockHeld'
    <3>1. \A q \in Requests : request[q].at \notin Handling
          BY <1>7, NoOneApart DEF Lock, PlanInv, LockHeld
    <3>2. chatLock' = r
          BY <1>7 DEF Lock
    <3> QED BY <3>1, <3>2, <1>a DEF LockHeld
  <2> QED BY <2>1, <2>2, <1>7, <1>a, <1>c, PlansKept DEF Lock
<1>8. ASSUME Reply(r) PROVE PlanInv'
  <2>1. request'[r].at = "done"
        BY <1>8, <1>0 DEF Reply, Becomes, RequestRecords
  <2>2. LockHeld'
    <3>1. \A q \in Requests : q # r => request[q].at \notin Handling
          BY <1>8 DEF Reply, PlanInv, LockHeld, Handling
    <3> QED BY <3>1, <2>1, <1>a DEF LockHeld, Handling
  <2> QED BY <2>1, <2>2, <1>8, <1>a, <1>c, PlansKept DEF Reply
<1>e. ASSUME request[r].at \in Handling, UNCHANGED <<sent, chatLock>>,
             \A q \in Requests : Pending(q)' = Pending(q),
             request[r].at # "reply",
             NEW s \in Handling \ {"store", "clear", "send"}, Goto(r, s)
      PROVE  PlanInv'
  <2>1. request'[r].at = s
        BY <1>e, <1>b DEF Stages
  <2> QED BY <2>1, <1>e, QuietKept DEF Stages, Handling
<1>9. ASSUME Refuse(r) PROVE PlanInv'
      BY <1>9, <1>c, <1>e DEF Refuse, Handling
<1>14. ASSUME NoSession(r) PROVE PlanInv'
      BY <1>14, <1>c, <1>e DEF NoSession, Handling
<1>16. ASSUME Discover(r) PROVE PlanInv'
      BY <1>16, <1>c, <1>e DEF Discover, Handles, Handling
<1>20. ASSUME NotApplied(r) PROVE PlanInv'
      BY <1>20, <1>c, <1>e DEF NotApplied, Handling
<1>21. ASSUME Apply(r) PROVE PlanInv'
      BY <1>21, <1>c, <1>e DEF Apply, Handling
<1>23. ASSUME Rollback(r) PROVE PlanInv'
      BY <1>23, <1>c, <1>e DEF Rollback, Handles, Handling
<1>f. ASSUME request[r].at \in Handling, NEW x \in Reports,
             \/ OperBecomes(request[r].op, [Oper(r) EXCEPT !.run = x])
             \/ OperBecomes(request[r].op, [Oper(r) EXCEPT !.discovery = x])
      PROVE  \A q \in Requests : Pending(q)' = Pending(q)
  <2>1. request[r].op \in Requests /\ Oper(r) = oper[request[r].op]
        /\ Oper(r) \in Operators
        BY <1>f, <1>d DEF HasOp
  <2>2. /\ [Oper(r) EXCEPT !.run = x] \in Operators
        /\ [Oper(r) EXCEPT !.discovery = x] \in Operators
        /\ [Oper(r) EXCEPT !.run = x].pending = Pending(request[r].op)
        /\ [Oper(r) EXCEPT !.discovery = x].pending = Pending(request[r].op)
        BY <2>1 DEF Operators, Pending
  <2> QED BY <2>1, <2>2, <1>0, <1>f, PendingKept
<1>17. ASSUME KeepRun(r) PROVE PlanInv'
  <2>1. \A q \in Requests : Pending(q)' = Pending(q)
        BY <1>17, <1>f DEF KeepRun, Handling, Reports
  <2> QED BY <2>1, <1>17, <1>e DEF KeepRun, Handling
<1>18. ASSUME KeepDiscovery(r) PROVE PlanInv'
  <2>1. \A q \in Requests : Pending(q)' = Pending(q)
        BY <1>18, <1>f DEF KeepDiscovery, Handling, Reports
  <2> QED BY <2>1, <1>18, <1>e DEF KeepDiscovery, Handling
<1>19. ASSUME Design(r) PROVE PlanInv'
  <2>1. \A q \in Requests : Pending(q)' = Pending(q)
        BY <1>19, <1>c, <1>f DEF Design, Handles, Handling, Reports
  <2> QED BY <2>1, <1>19, <1>e DEF Design, Handles, Handling
<1>22. ASSUME KeepApplied(r) PROVE PlanInv'
  <2>1. \A q \in Requests : Pending(q)' = Pending(q)
        BY <1>22, <1>f DEF KeepApplied, Handling, Reports
  <2>2. request'[r].at = "reply"
        BY <1>22, <1>0 DEF KeepApplied, Becomes, RequestRecords
  <2> QED BY <2>1, <2>2, <1>22, QuietKept DEF KeepApplied, Stages, Handling
<1>24. ASSUME ReadStatus(r) PROVE PlanInv'
  <2>1. request'[r].at = "final"
        BY <1>24, <1>0 DEF ReadStatus, Becomes, RequestRecords
  <2> QED BY <2>1, <1>24, <1>c, QuietKept DEF ReadStatus, Stages, Handling
<1>25. ASSUME ReadFinal(r) PROVE PlanInv'
  <2>1. request'[r].at = "report"
        BY <1>25, <1>0 DEF ReadFinal, Becomes, RequestRecords
  <2> QED BY <2>1, <1>25, <1>c, QuietKept DEF ReadFinal, Stages, Handling
<1>26. ASSUME ReadReport(r) PROVE PlanInv'
  <2>1. request'[r].at = "done"
        BY <1>26, <1>0 DEF ReadReport, Becomes, RequestRecords
  <2> QED BY <2>1, <1>26, <1>c, QuietKept DEF ReadReport, Stages, Handling
<1>g. ASSUME request[r].at \in Handling, request'[r].at \in Handling,
             UNCHANGED chatLock
      PROVE  /\ LockHeld'
             /\ \A q \in Requests : request[q].at \in Handling => q = r
             /\ \A q \in Requests : request'[q].at \in Handling => q = r
  <2>1. \A q \in Requests : request[q].at \in Handling => q = r
        BY <1>g DEF PlanInv, LockHeld
  <2>2. \A q \in Requests : request'[q].at \in Handling => q = r
        BY <2>1, <1>a
  <2> QED BY <2>1, <2>2, <1>g DEF PlanInv, LockHeld
<1>10. ASSUME ReadDevice(r) PROVE PlanInv'
  <2>1. /\ request'[r].at = "store"
        /\ request'[r].plan.by = r
        BY <1>10, <1>0 DEF ReadDevice, Becomes, RequestRecords
  <2>2. request[r].at = "handle" /\ UNCHANGED <<oper, sent, chatLock>>
        BY <1>10 DEF ReadDevice, Handles
  <2>3. LockHeld' /\ \A q \in Requests : request'[q].at \in Handling => q = r
        BY <2>1, <2>2, <1>g DEF Handling
  <2>4. \A q \in Requests : Pending(q)' = Pending(q)
        BY <2>2, <1>c
  <2>5. Unseen'
        BY <2>1, <2>2, <2>4, <1>a DEF PlanInv, Unseen
  <2>6. \A q \in Requests : request'[q].at \notin {"clear", "send"}
        BY <2>1, <2>3 DEF Handling
  <2>8. \A q \in Requests : request'[q].at = "store" => q = r
        BY <2>3 DEF Handling
  <2>9. PlacesApart'
        BY <2>1, <2>2, <2>4, <2>6, <2>8 DEF PlanInv, PlacesApart
  <2>7. PlansOnce'
        BY <2>2 DEF PlanInv, PlansOnce
  <2> QED BY <2>3, <2>5, <2>7, <2>9 DEF PlanInv
<1>11. ASSUME StorePlan(r) PROVE PlanInv'
  <2>0. PICK o \in Requests, p \in Plans :
           o = request[r].op /\ p = request[r].plan
        BY <1>11, <1>0, <1>d DEF StorePlan, HasOp, Handling, RequestRecords
  <2>1. /\ request[r].at = "store" /\ request'[r].at = "reply"
        /\ UNCHANGED <<sent, chatLock>>
        BY <1>11, <1>b DEF StorePlan, Stages, Handling
  <2>2. Oper(r) = oper[o] /\ Oper(r) \in Operators
        BY <2>0, <2>1, <1>d DEF HasOp, Handling
  <2>3. /\ Pending(o)' = p
        /\ \A q \in Requests : q # o => Pending(q)' = Pending(q)
        BY <2>0, <2>2, <1>11, <1>0 DEF StorePlan, OperBecomes, Operators, Pending
  <2>4. LockHeld' /\ \A q \in Requests : request'[q].at \in Handling => q = r
        BY <2>1, <1>g DEF Handling
  <2>5. p.by = r
        BY <2>0, <2>1 DEF PlanInv, PlacesApart
  <2>6. \A q \in Requests : Pending(q).by # r /\ sent[q].plan.by # r
        BY <2>1 DEF PlanInv, Unseen
  <2>7. \A q \in Requests :
           request'[q].at \notin {"store", "clear", "send"}
        BY <2>1, <2>4 DEF Handling
  <2>8. Unseen'
    <3> SUFFICES ASSUME NEW a \in Requests, NEW q \in Requests,
                        request'[a].at \notin {"reply", "done"}
                 PROVE  /\ Pending(q)'.by # a
                        /\ sent'[q].plan.by # a
        BY <2>7 DEF Unseen
    <3>1. a # r /\ request[a].at \notin {"reply", "done"}
          BY <2>1, <1>a
    <3>2. Pending(q).by # a /\ sent[q].plan.by # a
          BY <3>1 DEF PlanInv, Unseen
    <3> QED BY <2>1, <2>3, <2>5, <3>1, <3>2
  <2>9. PlacesApart'
    <3> SUFFICES ASSUME NEW a \in Requests, NEW q \in Requests,
                        Pending(a)' # NoPlan
                 PROVE  /\ a # q => Pending(a)' # Pending(q)'
                        /\ sent'[q].plan # Pending(a)'
        BY <2>7 DEF PlacesApart
    <3>1. Pending(a) # NoPlan => /\ a # q => Pending(a) # Pending(q)
                                 /\ sent[q].plan # Pending(a)
          BY DEF PlanInv, PlacesApart
    <3> QED BY <2>1, <2>3, <2>5, <2>6, <3>1
  <2>10. PlansOnce'
        BY <2>1 DEF PlanInv, PlansOnce
  <2> QED BY <2>4, <2>8, <2>9, <2>10 DEF PlanInv
<1>12. ASSUME ReadPending(r) PROVE PlanInv'
  <2>1. /\ request[r].at = "handle" /\ request'[r].at = "clear"
        /\ request'[r].op = request[r].op
        /\ request'[r].plan = Oper(r).pending
        /\ Oper(r).pending # NoPlan
        /\ UNCHANGED <<oper, sent, chatLock>>
        BY <1>12, <1>0 DEF ReadPending, Handles, Becomes, RequestRecords
  <2>2. request[r].op \in Requests /\ Oper(r) = oper[request[r].op]
        BY <2>1, <1>d DEF HasOp, Handling
  <2>3. LockHeld' /\ \A q \in Requests : request'[q].at \in Handling => q = r
        BY <2>1, <1>g DEF Handling
  <2>4. \A q \in Requests : Pending(q)' = Pending(q)
        BY <2>1, <1>c
  <2>5. request'[r].plan = Pending(request[r].op)
        BY <2>1, <2>2 DEF Pending
  <2>6. \A q \in Requests :
           /\ request'[q].at \notin {"store", "send"}
           /\ request'[q].at = "clear" => q = r
        BY <2>1, <2>3 DEF Handling
  <2>7. Unseen'
    <3> SUFFICES ASSUME NEW a \in Requests, NEW q \in Requests,
                        request'[a].at \notin {"reply", "done"}
                 PROVE  /\ Pending(q)'.by # a
                        /\ sent'[q].plan.by # a
                        /\ request'[q].at = "clear" => request'[q].plan.by # a
        BY <2>6 DEF Unseen
    <3>1. request[a].at \notin {"reply", "done"}
          BY <2>1, <1>a
    <3>2. /\ Pending(q).by # a /\ sent[q].plan.by # a
          /\ Pending(request[r].op).by # a
          BY <3>1, <2>2 DEF PlanInv, Unseen
    <3> QED BY <2>1, <2>4, <2>5, <2>6, <3>2
  <2>8. PlacesApart'
    <3>1. /\ request'[r].plan # NoPlan
          /\ Pending(request[r].op)' = request'[r].plan
          BY <2>1, <2>2 DEF Pending
    <3> QED BY <2>1, <2>4, <2>6, <3>1 DEF PlanInv, PlacesApart
  <2>9. PlansOnce'
        BY <2>1 DEF PlanInv, PlansOnce
  <2> QED BY <2>3, <2>7, <2>8, <2>9 DEF PlanInv
<1>13. ASSUME ClearPending(r) PROVE PlanInv'
  <2>0. PICK o \in Requests, p \in Plans :
           o = request[r].op /\ p = request[r].plan
        BY <1>13, <1>0, <1>d DEF ClearPending, HasOp, Handling, RequestRecords
  <2>1. /\ request[r].at = "clear" /\ request'[r].at = "send"
        /\ request'[r].plan = p
        /\ UNCHANGED <<sent, chatLock>>
        BY <2>0, <1>13, <1>b DEF ClearPending, Stages, Handling
  <2>2. Oper(r) = oper[o] /\ Oper(r) \in Operators
        BY <2>0, <2>1, <1>d DEF HasOp, Handling
  <2>3. /\ Pending(o)' = NoPlan
        /\ \A q \in Requests : q # o => Pending(q)' = Pending(q)
        BY <2>0, <2>2, <1>13, <1>0 DEF ClearPending, OperBecomes, Operators, Pending
  <2>4. LockHeld' /\ \A q \in Requests : request'[q].at \in Handling => q = r
        BY <2>1, <1>g DEF Handling
  <2>5. p # NoPlan /\ Pending(o) = p
        BY <2>0, <2>1 DEF PlanInv, PlacesApart
  <2>6. \A q \in Requests :
           /\ request'[q].at \notin {"store", "clear"}
           /\ request'[q].at = "send" => q = r
        BY <2>1, <2>4 DEF Handling
  <2>7. NoPlan.by \notin Requests
        BY NoOneApart DEF NoPlan
  <2>8. Unseen'
    <3> SUFFICES ASSUME NEW a \in Requests, NEW q \in Requests,
                        request'[a].at \notin {"reply", "done"}
                 PROVE  /\ Pending(q)'.by # a
                        /\ sent'[q].plan.by # a
                        /\ request'[q].at = "send" => request'[q].plan.by # a
        BY <2>6 DEF Unseen
    <3>1. request[a].at \notin {"reply", "done"}
          BY <2>1, <1>a
    <3>2. /\ Pending(q).by # a /\ sent[q].plan.by # a
          /\ Pending(o).by # a
          BY <3>1, <2>2 DEF PlanInv, Unseen
    <3> QED BY <2>1, <2>3, <2>5, <2>6, <2>7, <3>2
  <2>9. PlacesApart'
    <3>1. ASSUME NEW q \in Requests
          PROVE  Pending(q)' # p /\ sent'[q].plan # p
      <4>1. /\ q # o => Pending(q) # p
            /\ sent[q].plan # p
            BY <2>2, <2>5 DEF PlanInv, PlacesApart
      <4> QED BY <4>1, <2>1, <2>3, <2>5
    <3>2. ASSUME NEW a \in Requests, NEW q \in Requests,
                 Pending(a)' # NoPlan
          PROVE  /\ a # q => Pending(a)' # Pending(q)'
                 /\ sent'[q].plan # Pending(a)'
      <4>1. a # o /\ Pending(a)' = Pending(a)
            BY <2>3, <3>2
      <4>2. /\ a # q => Pending(a) # Pending(q)
            /\ sent[q].plan # Pending(a)
            BY <4>1, <3>2 DEF PlanInv, PlacesApart
      <4> QED BY <4>1, <4>2, <3>2, <2>1, <2>3
    <3> QED BY <2>1, <2>5, <2>6, <3>1, <3>2 DEF PlacesApart
  <2>10. PlansOnce'
        BY <2>1 DEF PlanInv, PlansOnce
  <2> QED BY <2>4, <2>8, <2>9, <2>10 DEF PlanInv
<1>15. ASSUME Send(r) PROVE PlanInv'
  <2> DEFINE p == request[r].plan
  <2>1. /\ request[r].at = "send" /\ request'[r].at = "reply"
        /\ UNCHANGED <<oper, chatLock>>
        BY <1>15, <1>b DEF Send, Stages, Handling
  <2>2. /\ sent'[r].plan = p
        /\ \A q \in Requests : q # r => sent'[q] = sent[q]
        BY <1>15 DEF Send, Fitting, TypeOK
  <2>3. LockHeld' /\ \A q \in Requests : request'[q].at \in Handling => q = r
        BY <2>1, <1>g DEF Handling
  <2>4. \A q \in Requests : Pending(q)' = Pending(q)
        BY <2>1, <1>c
  <2>5. /\ p # NoPlan
        /\ \A q \in Requests : Pending(q) # p /\ sent[q].plan # p
        BY <2>1 DEF PlanInv, PlacesApart
  <2>6. \A q \in Requests :
           request'[q].at \notin {"store", "clear", "send"}
        BY <2>1, <2>3 DEF Handling
  <2>7. Unseen'
    <3> SUFFICES ASSUME NEW a \in Requests, NEW q \in Requests,
                        request'[a].at \notin {"reply", "done"}
                 PROVE  Pending(q)'.by # a /\ sent'[q].plan.by # a
        BY <2>6 DEF Unseen
    <3>1. request[a].at \notin {"reply", "done"}
          BY <2>1, <1>a
    <3>2. /\ Pending(q).by # a /\ sent[q].plan.by # a
          /\ p.by # a
          BY <3>1, <2>1 DEF PlanInv, Unseen
    <3> QED BY <2>2, <2>4, <3>2
  <2> HIDE DEF p
  <2>8. PlacesApart'
    <3> SUFFICES ASSUME NEW a \in Requests, NEW q \in Requests,
                        Pending(a)' # NoPlan
                 PROVE  /\ a # q => Pending(a)' # Pending(q)'
                        /\ sent'[q].plan # Pending(a)'
        BY <2>6 DEF PlacesApart
    <3>1. /\ a # q => Pending(a) # Pending(q)
          /\ sent[q].plan # Pending(a)
          BY <2>4 DEF PlanInv, PlacesApart
    <3> QED BY <2>2, <2>4, <2>5, <3>1
  <2>9. PlansOnce'
        BY <2>2, <2>5 DEF PlanInv, PlansOnce
  <2> QED BY <2>3, <2>7, <2>8, <2>9 DEF PlanInv
<1> QED BY <1>1, <1>2, <1>3, <1>4, <1>5, <1>6, <1>7, <1>8, <1>9, <1>10,
           <1>11, <1>12, <1>13, <1>14, <1>15, <1>16, <1>17, <1>18, <1>19,
           <1>20, <1>21, <1>22, <1>23, <1>24, <1>25, <1>26 DEF Serve

(* The runs touch neither the plans nor the lock of the chat. *)
LEMMA WorkPlans ==
    ASSUME Fitting, PlanInv, NEW u \in Runs, PostRun(u) \/ Work(u)
    PROVE  PlanInv'
<1>1. UNCHANGED <<request, chatLock, sent>>
      BY DEF PostRun, Work, StartRun, EngineReturns, EngineRaises, FillError,
             LookAtShared, WireDiscovery, WireRun, SwapRunner, FillReport,
             FillStatus
<1>2. \A q \in Requests : Pending(q)' = Pending(q)
  <2>1. ASSUME run[u].at \in Wiring,
               NEW x \in Reports, NEW d \in Devices,
               \/ OperBecomes(run[u].op, [oper[run[u].op] EXCEPT !.run = x])
               \/ OperBecomes(run[u].op,
                              [oper[run[u].op] EXCEPT !.discovery = x])
               \/ OperBecomes(run[u].op, [oper[run[u].op] EXCEPT !.device = d])
        PROVE  \A q \in Requests : Pending(q)' = Pending(q)
    <3>1. run[u].op \in Requests /\ oper[run[u].op] \in Operators
          /\ oper \in [Requests -> Operators]
          BY <2>1 DEF Fitting, TypeOK, RunFits
    <3>2. PICK o \in Requests : o = run[u].op
          BY <3>1
    <3>3. /\ [oper[o] EXCEPT !.run = x] \in Operators
          /\ [oper[o] EXCEPT !.discovery = x] \in Operators
          /\ [oper[o] EXCEPT !.device = d] \in Operators
          /\ [oper[o] EXCEPT !.run = x].pending = Pending(o)
          /\ [oper[o] EXCEPT !.discovery = x].pending = Pending(o)
          /\ [oper[o] EXCEPT !.device = d].pending = Pending(o)
          BY <3>1, <3>2 DEF Operators, Pending
    <3> QED BY <2>1, <3>1, <3>2, <3>3, PendingKept
  <2>2. u \in Reports /\ "site" \in Devices
        BY DEF Reports, Devices
  <2>3. ASSUME UNCHANGED oper
        PROVE  \A q \in Requests : Pending(q)' = Pending(q)
        BY <2>3 DEF Pending
  <2>4. CASE WireDiscovery(u)
        BY <2>4, <2>1, <2>2, <2>3 DEF WireDiscovery, Wiring
  <2>5. CASE WireRun(u)
        BY <2>5, <2>1, <2>2, <2>3 DEF WireRun, Wiring
  <2>6. CASE SwapRunner(u)
    <3>1. run[u].at = "swap" /\ u \in Devices
          BY <2>6 DEF SwapRunner, Fitting, RunFits, Devices
    <3> QED BY <2>6, <2>1, <2>2, <3>1 DEF SwapRunner, Wiring
  <2>7. CASE ~WireDiscovery(u) /\ ~WireRun(u) /\ ~SwapRunner(u)
    <3>1. UNCHANGED oper
          BY <2>7 DEF PostRun, Work, StartRun, EngineReturns, EngineRaises,
                FillError, LookAtShared, FillReport, FillStatus
    <3> QED BY <3>1, <2>3
  <2> QED BY <2>4, <2>5, <2>6, <2>7
<1>3. LockHeld' /\ Unseen'
      BY <1>1, <1>2 DEF PlanInv, LockHeld, Unseen
<1>4. PlacesApart'
  <2>1. \A r \in Requests : request[r].at = "clear" => request[r].op \in Requests
        BY DEF Fitting, RequestFits, HasOp, Handling
  <2> QED BY <1>1, <1>2, <2>1 DEF PlanInv, PlacesApart
<1>5. PlansOnce'
      BY <1>1 DEF PlanInv, PlansOnce
<1> QED BY <1>3, <1>4, <1>5, SMTT(60) DEF PlanInv

LEMMA PlansStart == Init => PlanInv
<1> SUFFICES ASSUME Init PROVE PlanInv
    OBVIOUS
<1>1. /\ \A r \in Requests : request[r].at \in {"new", "done"}
      /\ \A q \in Requests : Pending(q) = NoPlan /\ sent[q].plan = NoPlan
      BY DEF Init, FreshOper, Pending
<1>2. NoPlan.by \notin Requests
      BY NoOneApart DEF NoPlan
<1> QED BY <1>1, <1>2 DEF PlanInv, LockHeld, Unseen, PlacesApart, PlansOnce,
                          Handling

LEMMA PlanInvHolds == Spec => []PlanInv
<1>1. Fitting /\ PlanInv /\ [Next]_vars => PlanInv'
  <2> SUFFICES ASSUME Fitting, PlanInv, [Next]_vars PROVE PlanInv'
      OBVIOUS
  <2>1. ASSUME UNCHANGED vars PROVE PlanInv'
        BY <2>1 DEF vars, PlanInv, LockHeld, Unseen, PlacesApart, PlansOnce,
                    Pending
  <2> QED BY <2>1, ServePlans, WorkPlans DEF Next, vars
<1> QED BY <1>1, FittingHolds, PlansStart, PTL DEF Spec

(* A planned change is sent at most once, however many clients confirm it, *)
(* through however many operators the unguarded test of _get_chat_op has   *)
(* made: the plan is cleared before it is sent, and both under one lock.   *)
THEOREM PlansAreSentOnce == Spec => []PlansOnce
<1>1. PlanInv => PlansOnce
      BY DEF PlanInv
<1> QED BY <1>1, PlanInvHolds, PTL

----------------------------------------------------------------------------
(***************************************************************************)
(* Part 3: what the context holds while a message waits or is handled.     *)
(***************************************************************************)

Waiting == Handling \cup {"lock"}

(* A report that is not older than any run of the table. *)
Newest(x) == x # NoOne /\ \A u \in Runs : NotOlder(x, u)

EndedRuns ==
    /\ \A i \in DOMAIN ended : run[ended[i]].at = "done"
    /\ \A i, j \in DOMAIN ended : ended[i] = ended[j] => i = j

RunsLockHeld ==
    /\ \A u \in Runs : run[u].at = "fill status" => runsLock = u
    /\ \A r \in Requests : request[r].at = "sync run" =>
            runsLock = r /\ request[r].latest = Latest

Seen == \A r \in Requests : request[r].latest # NoOne =>
            \E j \in DOMAIN ended : ended[j] = request[r].latest

Current ==
    \A r \in Requests :
        /\ request[r].at \in Waiting
        /\ request[r].latest # NoOne
        /\ ~Broken(Oper(r))
        => Oper(r).run # NoOne /\ NotOlder(Oper(r).run, request[r].latest)

ContextInv == EndedRuns /\ RunsLockHeld /\ Seen /\ Current

LEMMA LatestIsNewest ==
    ASSUME Fitting, ContextInv, ended # <<>>
    PROVE  Newest(Latest)
<1>1. ended \in Seq(Runs)
      BY DEF Fitting, TypeOK
<1>2. /\ Len(ended) \in Nat
      /\ DOMAIN ended = 1..Len(ended)
      /\ Len(ended) \in DOMAIN ended
      /\ Latest = ended[Len(ended)]
      /\ Latest \in Runs
      BY <1>1 DEF Latest
<1>3. ASSUME NEW i \in DOMAIN ended, NEW j \in DOMAIN ended,
             ended[i] = Latest
      PROVE  i >= j
  <2>1. i = Len(ended)
        BY <1>2, <1>3 DEF ContextInv, EndedRuns
  <2> QED BY <2>1, <1>2
<1> QED BY <1>2, <1>3, NoOneApart DEF Newest, NotOlder

LEMMA OthersAreNewest ==
    ASSUME ContextInv,
           NEW x \in Reports, x \in Requests \/ run[x].at # "done"
    PROVE  Newest(x)
BY NoOneApart DEF ContextInv, EndedRuns, Newest, NotOlder, Reports

(* The operators' contexts hold what they held, or something newer. *)
OperKept ==
    \A o \in Requests :
        /\ Broken(oper[o]) => Broken(oper'[o])
        /\ oper'[o].run = oper[o].run \/ Newest(oper'[o].run) \/ ended = <<>>

LEMMA ContextKept ==
    ASSUME Fitting, ContextInv, ended' = ended, OperKept,
           \A u \in Runs : run[u].at = "done" => run'[u].at = "done",
           RunsLockHeld',
           \A r \in Requests : request'[r].latest # NoOne =>
               \E j \in DOMAIN ended : ended[j] = request'[r].latest,
           \A r \in Requests :
               request'[r].at \in Waiting /\ request'[r].latest # NoOne =>
               /\ request'[r].op \in Requests
               /\ \/ Newest(oper'[request'[r].op].run)
                  \/ Broken(oper'[request'[r].op])
                  \/ /\ request[r].at \in Waiting
                     /\ request'[r].op = request[r].op
                     /\ request'[r].latest = request[r].latest
    PROVE  ContextInv'
<1>1. ended \in Seq(Runs)
      BY DEF Fitting, TypeOK
<1>2. EndedRuns'
      BY <1>1 DEF ContextInv, EndedRuns
<1>3. Seen'
      BY DEF Seen
<1>4. Current'
  <2> SUFFICES ASSUME NEW r \in Requests,
                      request'[r].at \in Waiting,
                      request'[r].latest # NoOne,
                      ~Broken(oper'[request'[r].op])
               PROVE  /\ oper'[request'[r].op].run # NoOne
                      /\ NotOlder(oper'[request'[r].op].run,
                                  request'[r].latest)
      BY DEF Current, Oper, NotOlder, Broken
  <2>1. PICK j \in DOMAIN ended : ended[j] = request'[r].latest
        OBVIOUS
  <2>2. request'[r].latest \in Runs /\ ended # <<>>
        BY <1>1, <2>1
  <2>3. PICK o \in Requests : o = request'[r].op
        OBVIOUS
  <2>4. CASE Newest(oper'[o].run)
        BY <2>2, <2>3, <2>4 DEF Newest
  <2>5. CASE /\ request[r].at \in Waiting
             /\ request'[r].op = request[r].op
             /\ request'[r].latest = request[r].latest
    <3>1. ~Broken(oper[o])
          BY <2>3 DEF OperKept
    <3>2. oper[o].run # NoOne /\ NotOlder(oper[o].run, request[r].latest)
          BY <2>3, <2>5, <3>1 DEF ContextInv, Current, Oper
    <3>3. oper'[o].run = oper[o].run \/ Newest(oper'[o].run)
          BY <2>2 DEF OperKept
    <3> QED BY <2>3, <2>4, <2>5, <3>2, <3>3
  <2> QED BY <2>3, <2>4, <2>5
<1> QED BY <1>2, <1>3, <1>4 DEF ContextInv

(* One operator changes to a context that is no older, or is broken. *)
LEMMA OperIsKept ==
    ASSUME oper \in [Requests -> Operators], NEW o \in Requests,
           NEW c \in Operators, OperBecomes(o, c),
           c.is = oper[o].is \/ c.is = "_Broken",
           c.run = oper[o].run \/ Newest(c.run) \/ ended = <<>>
    PROVE  OperKept
<1>1. oper'[o] = c /\ \A q \in Requests : q # o => oper'[q] = oper[q]
      BY OneOper
<1> QED BY <1>1 DEF OperKept, Broken

(* A step of a request that leaves the table of runs alone. *)
LEMMA ContextServe ==
    ASSUME Fitting, ContextInv, NEW r \in Requests, Serve(r),
           UNCHANGED <<run, runsLock, ended>>, OperKept,
           NEW c \in RequestRecords, request'[r] = c, c.at # "sync run",
           c.latest \in {request[r].latest, NoOne},
           c.at \in Waiting /\ c.latest # NoOne =>
               /\ c.op \in Requests
               /\ \/ Newest(oper'[c.op].run)
                  \/ Broken(oper'[c.op])
                  \/ request[r].at \in Waiting /\ c.op = request[r].op
    PROVE  ContextInv'
<1>1. \A q \in Requests : q # r => request'[q] = request[q]
      BY OthersKept
<1>2. RunsLockHeld'
      BY <1>1 DEF ContextInv, RunsLockHeld, Latest
<1>3. \A q \in Requests : request'[q].latest # NoOne =>
           \E j \in DOMAIN ended : ended[j] = request'[q].latest
      BY <1>1 DEF ContextInv, Seen
<1>4. \A q \in Requests : request[q].at \in Waiting => request[q].op \in Requests
      BY DEF Fitting, RequestFits, HasOp, Waiting
<1>5. \A q \in Requests :
           request'[q].at \in Waiting /\ request'[q].latest # NoOne =>
           /\ request'[q].op \in Requests
           /\ \/ Newest(oper'[request'[q].op].run)
              \/ Broken(oper'[request'[q].op])
              \/ /\ request[q].at \in Waiting
                 /\ request'[q].op = request[q].op
                 /\ request'[q].latest = request[q].latest
      BY <1>1, <1>4
<1> QED BY <1>2, <1>3, <1>5, ContextKept

LEMMA ServeContext ==
    ASSUME Fitting, ContextInv, NEW r \in Requests, Serve(r)
    PROVE  ContextInv'
<1>0. /\ request \in [Requests -> RequestRecords]
      /\ request[r] \in RequestRecords
      /\ RequestFits(request[r])
      /\ oper \in [Requests -> Operators]
      BY DEF Fitting, TypeOK
<1>a. \A q \in Requests : q # r => request'[q] = request[q]
      BY OthersKept
<1>b. request'[r] \in RequestRecords
      BY ServeFits DEF Fitting, TypeOK
<1>c. ASSUME UNCHANGED oper PROVE OperKept
      BY <1>c DEF OperKept
<1>d. ASSUME NEW s \in Stages, Goto(r, s)
      PROVE  /\ request'[r].at = s
             /\ request'[r].op = request[r].op
             /\ request'[r].latest = request[r].latest
      BY <1>d, <1>0 DEF Goto, Becomes, RequestRecords
<1>e. ASSUME request[r].at \notin HasOp PROVE request[r].latest = NoOne
      BY <1>e, <1>0 DEF RequestFits
<1>f. ASSUME request[r].at \in HasOp
      PROVE  request[r].op \in Requests /\ Oper(r) = oper[request[r].op]
             /\ Oper(r) \in Operators
      BY <1>f, Named
(* Steps outside the handling of a message: nothing is seen. *)
<1>g. ASSUME request'[r].latest = NoOne, request'[r].at # "sync run",
             UNCHANGED <<run, runsLock, ended>>, OperKept
      PROVE  ContextInv'
      BY <1>g, <1>b, ContextServe
(* Steps of the handling of a message. *)
<1>h. ASSUME request[r].at \in Waiting, request'[r].at \in Handling,
             request'[r].op = request[r].op,
             request'[r].latest = request[r].latest,
             UNCHANGED <<run, runsLock, ended>>, OperKept
      PROVE  ContextInv'
  <2>1. request[r].op \in Requests
        BY <1>h, <1>f DEF Waiting, HasOp
  <2> QED BY <2>1, <1>h, <1>b, ContextServe DEF Handling
<1>1. ASSUME GetOp(r) PROVE ContextInv'
  <2>1. request'[r].latest = NoOne /\ request'[r].at # "sync run"
    <3>1. request[r].latest = NoOne
          BY <1>1, <1>e DEF GetOp, HasOp, Handling
    <3>2. CASE shared = NoOne
      <4>1. Goto(r, "make") /\ "make" \in Stages
            BY <3>2, <1>1 DEF GetOp, Stages
      <4> QED BY <4>1, <3>1, <1>d
    <3>3. CASE shared # NoOne
      <4>1. AfterGet(r) \in {"sync", "lock"}
            BY DEF AfterGet
      <4>2. request'[r] = [request[r] EXCEPT !.at = AfterGet(r), !.op = shared]
            BY <3>3, <1>1, <1>0 DEF GetOp, Becomes
      <4> QED BY <4>1, <4>2, <3>1, <1>0 DEF RequestRecords
    <3> QED BY <3>2, <3>3
  <2> QED BY <2>1, <1>1, <1>c, <1>g DEF GetOp
<1>2. ASSUME MakeOp(r) PROVE ContextInv'
  <2>1. request'[r].latest = NoOne /\ request'[r].at # "sync run"
    <3>1. Goto(r, "publish") /\ "publish" \in Stages
          BY <1>2 DEF MakeOp, Stages
    <3>2. request[r].latest = NoOne
          BY <1>2, <1>e DEF MakeOp, HasOp, Handling
    <3> QED BY <3>1, <3>2, <1>d
  <2> DEFINE c == [oper[r] EXCEPT !.run = Latest, !.discovery = Latest]
  <2>2. Latest \in Reports \cup {NoOne}
        BY LatestTyped DEF Fitting, Reports
  <2>3. oper[r] \in Operators
        BY <1>0
  <2>4. c \in Operators /\ c.run = Latest /\ c.is = oper[r].is
        BY <2>2, <2>3 DEF Operators
  <2>5. OperBecomes(r, c)
        BY <1>2 DEF MakeOp
  <2> HIDE DEF c
  <2>6. OperKept
        BY <2>4, <2>5, <1>0, LatestIsNewest, OperIsKept
  <2> QED BY <2>1, <2>6, <1>2, <1>g DEF MakeOp
<1>3. ASSUME MakeBroken(r) PROVE ContextInv'
  <2>1. request'[r].latest = NoOne /\ request'[r].at # "sync run"
    <3>1. Goto(r, "publish") /\ "publish" \in Stages
          BY <1>3 DEF MakeBroken, Stages
    <3>2. request[r].latest = NoOne
          BY <1>3, <1>e DEF MakeBroken, HasOp, Handling
    <3> QED BY <3>1, <3>2, <1>d
  <2> DEFINE c == [oper[r] EXCEPT !.is = "_Broken"]
  <2>2. oper[r] \in Operators
        BY <1>0
  <2>3. c \in Operators /\ c.run = oper[r].run /\ c.is = "_Broken"
        BY <2>2 DEF Operators
  <2>4. OperBecomes(r, c)
        BY <1>3 DEF MakeBroken
  <2> HIDE DEF c
  <2>5. OperKept
        BY <2>3, <2>4, <1>0, OperIsKept
  <2> QED BY <2>1, <2>5, <1>3, <1>g DEF MakeBroken
<1>4. ASSUME PublishOp(r) PROVE ContextInv'
  <2>1. request[r].latest = NoOne
        BY <1>4, <1>e DEF PublishOp, HasOp, Handling
  <2>2. AfterGet(r) \in {"sync", "lock"}
        BY DEF AfterGet
  <2>3. request'[r] = [request[r] EXCEPT !.at = AfterGet(r), !.op = r]
        BY <1>4, <1>0 DEF PublishOp, Becomes
  <2>4. request'[r].latest = NoOne /\ request'[r].at # "sync run"
        BY <2>1, <2>2, <2>3, <1>0 DEF RequestRecords
  <2> QED BY <2>4, <1>4, <1>c, <1>g DEF PublishOp
<1>7. ASSUME Lock(r) PROVE ContextInv'
  <2> DEFINE s == IF Broken(Oper(r)) THEN "reply" ELSE "handle"
  <2>1. s \in Handling /\ s \in Stages /\ Goto(r, s)
        BY <1>7 DEF Lock, Stages, Handling
  <2> HIDE DEF s
  <2> QED BY <2>1, <1>7, <1>c, <1>d, <1>h DEF Lock, Waiting
<1>8. ASSUME Reply(r) PROVE ContextInv'
  <2>1. request'[r] = [request[r] EXCEPT !.at = "done", !.plan = NoPlan,
                                         !.latest = NoOne]
        BY <1>8, <1>0 DEF Reply, Becomes
  <2>2. request'[r].latest = NoOne /\ request'[r].at # "sync run"
        BY <2>1, <1>0 DEF RequestRecords
  <2> QED BY <2>2, <1>8, <1>c, <1>g DEF Reply
<1>i. ASSUME request[r].at \in Waiting, NEW s \in Handling, Goto(r, s),
             UNCHANGED <<run, runsLock, ended>>, OperKept
      PROVE  ContextInv'
      BY <1>i, <1>d, <1>h DEF Stages
<1>9. ASSUME Refuse(r) PROVE ContextInv'
      BY <1>9, <1>c, <1>i DEF Refuse, Waiting, Handling
<1>10. ASSUME ReadDevice(r) PROVE ContextInv'
  <2>1. /\ request'[r].at = "store"
        /\ request'[r].op = request[r].op
        /\ request'[r].latest = request[r].latest
        BY <1>10, <1>0 DEF ReadDevice, Becomes, RequestRecords
  <2> QED BY <2>1, <1>10, <1>c, <1>h DEF ReadDevice, Handles, Waiting, Handling
<1>j. ASSUME request[r].at \in Handling, NEW c \in Operators,
             OperBecomes(request[r].op, c), c.is = Oper(r).is,
             c.run = Oper(r).run \/ c.run = r
      PROVE  OperKept
  <2>1. request[r].op \in Requests /\ Oper(r) = oper[request[r].op]
        BY <1>j, <1>f DEF HasOp
  <2>2. PICK o \in Requests : o = request[r].op
        BY <2>1
  <2>3. Newest(r)
        BY OthersAreNewest DEF Reports
  <2> QED BY <2>1, <2>2, <2>3, <1>0, <1>j, OperIsKept
<1>11. ASSUME StorePlan(r) PROVE ContextInv'
  <2> DEFINE c == [Oper(r) EXCEPT !.pending = request[r].plan]
  <2>1. Oper(r) \in Operators
        BY <1>11, <1>f DEF StorePlan, HasOp, Handling
  <2>2. c \in Operators /\ c.is = Oper(r).is /\ c.run = Oper(r).run
        BY <2>1, <1>0 DEF Operators, RequestRecords
  <2>3. OperBecomes(request[r].op, c) /\ request[r].at = "store"
        BY <1>11 DEF StorePlan
  <2> HIDE DEF c
  <2>4. OperKept
        BY <2>2, <2>3, <1>j DEF Handling
  <2> QED BY <2>3, <2>4, <1>11, <1>i DEF StorePlan, Waiting, Handling
<1>12. ASSUME ReadPending(r) PROVE ContextInv'
  <2>1. /\ request'[r].at = "clear"
        /\ request'[r].op = request[r].op
        /\ request'[r].latest = request[r].latest
        BY <1>12, <1>0 DEF ReadPending, Becomes, RequestRecords
  <2> QED BY <2>1, <1>12, <1>c, <1>h DEF ReadPending, Handles, Waiting, Handling
<1>13. ASSUME ClearPending(r) PROVE ContextInv'
  <2> DEFINE c == [Oper(r) EXCEPT !.pending = NoPlan]
  <2>1. Oper(r) \in Operators
        BY <1>13, <1>f DEF ClearPending, HasOp, Handling
  <2>2. c \in Operators /\ c.is = Oper(r).is /\ c.run = Oper(r).run
        BY <2>1 DEF Operators, Plans
  <2>3. OperBecomes(request[r].op, c) /\ request[r].at = "clear"
        BY <1>13 DEF ClearPending
  <2> HIDE DEF c
  <2>4. OperKept
        BY <2>2, <2>3, <1>j DEF Handling
  <2> QED BY <2>3, <2>4, <1>13, <1>i DEF ClearPending, Waiting, Handling
<1>14. ASSUME NoSession(r) PROVE ContextInv'
      BY <1>14, <1>c, <1>i DEF NoSession, Waiting, Handling
<1>15. ASSUME Send(r) PROVE ContextInv'
      BY <1>15, <1>c, <1>i DEF Send, Waiting, Handling
<1>16. ASSUME Discover(r) PROVE ContextInv'
      BY <1>16, <1>c, <1>i DEF Discover, Handles, Waiting, Handling
<1>k. ASSUME request[r].at \in Handling
      PROVE  /\ [Oper(r) EXCEPT !.run = r] \in Operators
             /\ [Oper(r) EXCEPT !.run = r].is = Oper(r).is
             /\ [Oper(r) EXCEPT !.run = r].run = r
             /\ [Oper(r) EXCEPT !.discovery = r] \in Operators
             /\ [Oper(r) EXCEPT !.discovery = r].is = Oper(r).is
             /\ [Oper(r) EXCEPT !.discovery = r].run = Oper(r).run
  <2>1. Oper(r) \in Operators
        BY <1>k, <1>f DEF HasOp
  <2> QED BY <2>1 DEF Operators, Reports
<1>17. ASSUME KeepRun(r) PROVE ContextInv'
  <2>1. OperKept
        BY <1>17, <1>j, <1>k DEF KeepRun, Handling
  <2> QED BY <2>1, <1>17, <1>i DEF KeepRun, Waiting, Handling
<1>18. ASSUME KeepDiscovery(r) PROVE ContextInv'
  <2>1. OperKept
        BY <1>18, <1>j, <1>k DEF KeepDiscovery, Handling
  <2> QED BY <2>1, <1>18, <1>i DEF KeepDiscovery, Waiting, Handling
<1>19. ASSUME Design(r) PROVE ContextInv'
  <2>1. OperKept
        BY <1>19, <1>c, <1>j, <1>k DEF Design, Handles, Handling
  <2> QED BY <2>1, <1>19, <1>i DEF Design, Handles, Waiting, Handling
<1>20. ASSUME NotApplied(r) PROVE ContextInv'
      BY <1>20, <1>c, <1>i DEF NotApplied, Waiting, Handling
<1>21. ASSUME Apply(r) PROVE ContextInv'
      BY <1>21, <1>c, <1>i DEF Apply, Waiting, Handling
<1>22. ASSUME KeepApplied(r) PROVE ContextInv'
  <2>1. OperKept
        BY <1>22, <1>j, <1>k DEF KeepApplied, Handling
  <2>2. /\ request'[r].at = "reply"
        /\ request'[r].op = request[r].op
        /\ request'[r].latest = request[r].latest
        BY <1>22, <1>0, ZenonT(60) DEF KeepApplied, Becomes, RequestRecords
  <2> QED BY <2>1, <2>2, <1>22, <1>h DEF KeepApplied, Waiting, Handling
<1>23. ASSUME Rollback(r) PROVE ContextInv'
      BY <1>23, <1>c, <1>i DEF Rollback, Handles, Waiting, Handling
<1>24. ASSUME ReadStatus(r) PROVE ContextInv'
  <2>1. request[r].latest = NoOne
        BY <1>24, <1>e DEF ReadStatus, HasOp, Handling
  <2>2. request'[r].latest = NoOne /\ request'[r].at # "sync run"
        BY <2>1, <1>24, <1>0 DEF ReadStatus, Becomes, RequestRecords
  <2> QED BY <2>2, <1>24, <1>c, <1>g DEF ReadStatus
<1>25. ASSUME ReadFinal(r) PROVE ContextInv'
  <2>1. request[r].latest = NoOne
        BY <1>25, <1>e DEF ReadFinal, HasOp, Handling
  <2>2. request'[r].latest = NoOne /\ request'[r].at # "sync run"
        BY <2>1, <1>25, <1>0 DEF ReadFinal, Becomes, RequestRecords
  <2> QED BY <2>2, <1>25, <1>c, <1>g DEF ReadFinal
<1>26. ASSUME ReadReport(r) PROVE ContextInv'
  <2>1. request[r].latest = NoOne
        BY <1>26, <1>e DEF ReadReport, HasOp, Handling
  <2>2. request'[r].latest = NoOne /\ request'[r].at # "sync run"
        BY <2>1, <1>26, <1>0 DEF ReadReport, Becomes, RequestRecords
  <2> QED BY <2>2, <1>26, <1>c, <1>g DEF ReadReport
<1>5. ASSUME Sync(r) PROVE ContextInv'
  <2>0. /\ request[r].at = "sync"
        /\ request[r].op \in Requests
        /\ Oper(r) = oper[request[r].op]
        /\ Oper(r) \in Operators
        /\ runsLock = NoOne
        BY <1>5, <1>f DEF Sync, HasOp
  <2>1. PICK o \in Requests, l \in Runs \cup {NoOne} :
           o = request[r].op /\ l = Latest
        BY <2>0, LatestTyped DEF Fitting
  <2>2. l # NoOne => /\ ended # <<>>
                     /\ Newest(l)
                     /\ \E j \in DOMAIN ended : ended[j] = l
    <3>1. ended \in Seq(Runs)
          BY DEF Fitting, TypeOK
    <3>2. ended # <<>> => Latest = ended[Len(ended)]
                          /\ Len(ended) \in DOMAIN ended
          BY <3>1 DEF Latest
    <3>3. ended = <<>> => Latest = NoOne
          BY DEF Latest
    <3> QED BY <3>2, <3>3, <2>1, LatestIsNewest
  <2>3. /\ \A u \in Runs : run[u].at # "fill status"
        /\ \A q \in Requests : request[q].at # "sync run"
        BY <2>0, NoOneApart DEF ContextInv, RunsLockHeld
  <2>4. /\ request'[r].latest = l
        /\ request'[r].op = o
        /\ request'[r].at \in {"sync run", "lock"}
    <3>1. \/ request'[r] = [request[r] EXCEPT !.at = "lock", !.latest = l]
          \/ request'[r] = [request[r] EXCEPT !.at = "sync run", !.latest = l]
          BY <2>1, <1>5, <1>0 DEF Sync, Becomes
    <3> QED BY <3>1, <2>1, <1>0 DEF RequestRecords
  <2>5. /\ UNCHANGED <<run, ended>>
        /\ Latest' = Latest
        BY <1>5 DEF Sync, Latest
  <2>6. OperKept /\ oper'[o].is = oper[o].is /\ oper'[o].run = oper[o].run
    <3>1. CASE UNCHANGED oper
          BY <3>1, <1>c
    <3>2. CASE OperBecomes(request[r].op, [Oper(r) EXCEPT !.discovery = Latest])
      <4> DEFINE c == [Oper(r) EXCEPT !.discovery = Latest]
      <4>1. Latest \in Reports \cup {NoOne}
            BY LatestTyped DEF Fitting, Reports
      <4>2. c \in Operators /\ c.is = oper[o].is /\ c.run = oper[o].run
            BY <4>1, <2>0, <2>1 DEF Operators
      <4>3. OperBecomes(o, c)
            BY <3>2, <2>1
      <4> HIDE DEF c
      <4>4. oper'[o] = c
            BY <4>2, <4>3, <1>0, OneOper
      <4>5. OperKept
            BY <4>2, <4>3, <1>0, OperIsKept
      <4> QED BY <4>2, <4>4, <4>5
    <3> QED BY <3>1, <3>2, <1>5 DEF Sync
  <2>7. request'[r].at = "sync run" => runsLock' = r
        BY <1>5, <1>0, SyncGoes DEF Sync
  <2>8. request'[r].at = "lock" /\ l # NoOne
        => Broken(oper'[o]) \/ oper'[o].run = l
    <3>1. CASE Latest = NoOne \/ Broken(Oper(r)) \/ Oper(r).run = Latest
          BY <3>1, <2>0, <2>1, <2>6 DEF Broken
    <3>2. CASE ~(Latest = NoOne \/ Broken(Oper(r)) \/ Oper(r).run = Latest)
      <4>1. request'[r].at = "sync run"
            BY <3>2, <1>5, <1>0, SyncGoes
      <4> QED BY <4>1
    <3> QED BY <3>1, <3>2
  <2>9. RunsLockHeld'
        BY <2>1, <2>3, <2>4, <2>5, <2>7, <1>a DEF RunsLockHeld
  <2>10. \A q \in Requests : request'[q].latest # NoOne =>
            \E j \in DOMAIN ended : ended[j] = request'[q].latest
        BY <2>2, <2>4, <1>a DEF ContextInv, Seen
  <2>11. \A q \in Requests : request[q].at \in Waiting
                              => request[q].op \in Requests
        BY DEF Fitting, RequestFits, HasOp, Waiting
  <2>12. ASSUME NEW q \in Requests, request'[q].at \in Waiting,
                request'[q].latest # NoOne
         PROVE  /\ request'[q].op \in Requests
                /\ \/ Newest(oper'[request'[q].op].run)
                   \/ Broken(oper'[request'[q].op])
                   \/ /\ request[q].at \in Waiting
                      /\ request'[q].op = request[q].op
                      /\ request'[q].latest = request[q].latest
    <3>1. CASE q = r
      <4>1. request'[r].at = "lock"
            BY <3>1, <2>4, <2>12 DEF Waiting, Handling
      <4> QED BY <4>1, <3>1, <2>2, <2>4, <2>8, <2>12
    <3>2. CASE q # r
          BY <3>2, <2>11, <2>12, <1>a
    <3> QED BY <3>1, <3>2
  <2> QED BY <2>5, <2>6, <2>9, <2>10, <2>12, ContextKept
<1>6. ASSUME SyncRun(r) PROVE ContextInv'
  <2>0. /\ request[r].at = "sync run"
        /\ request[r].op \in Requests
        /\ Oper(r) = oper[request[r].op]
        /\ Oper(r) \in Operators
        /\ request[r].latest \in Runs
        /\ runsLock = r
        /\ request[r].latest = Latest
        BY <1>6, <1>0, <1>f DEF SyncRun, HasOp, RequestFits, ContextInv,
                                RunsLockHeld
  <2>1. PICK o \in Requests, l \in Runs :
           o = request[r].op /\ l = request[r].latest
        BY <2>0
  <2>2. Newest(l)
    <3>1. ended # <<>>
          BY <2>0, NoOneApart DEF Latest
    <3> QED BY <3>1, <2>0, <2>1, LatestIsNewest
  <2>3. /\ \A u \in Runs : run[u].at # "fill status"
        /\ \A q \in Requests : q # r => request[q].at # "sync run"
        BY <2>0, NoOneApart DEF ContextInv, RunsLockHeld
  <2>4. /\ request'[r].latest = l
        /\ request'[r].op = o
        /\ request'[r].at = "lock"
        BY <2>1, <1>6, <1>d DEF SyncRun, Stages
  <2>5. UNCHANGED <<run, ended>>
        BY <1>6 DEF SyncRun
  <2> DEFINE c == [Oper(r) EXCEPT !.run = l]
  <2>6. c \in Operators /\ c.is = oper[o].is /\ c.run = l
        BY <2>0, <2>1 DEF Operators, Reports
  <2>7. OperBecomes(o, c)
        BY <2>1, <1>6 DEF SyncRun
  <2> HIDE DEF c
  <2>8. OperKept /\ oper'[o].run = l
    <3>1. oper'[o] = c
          BY <2>6, <2>7, <1>0, OneOper
    <3>2. OperKept
          BY <2>2, <2>6, <2>7, <1>0, OperIsKept
    <3> QED BY <3>1, <3>2, <2>6
  <2>9. RunsLockHeld'
        BY <2>3, <2>4, <2>5, <1>a DEF RunsLockHeld
  <2>10. \A q \in Requests : request'[q].latest # NoOne =>
            \E j \in DOMAIN ended : ended[j] = request'[q].latest
        BY <2>1, <2>4, <1>a DEF ContextInv, Seen
  <2>11. \A q \in Requests : request[q].at \in Waiting
                              => request[q].op \in Requests
        BY DEF Fitting, RequestFits, HasOp, Waiting
  <2>12. \A q \in Requests :
           request'[q].at \in Waiting /\ request'[q].latest # NoOne =>
           /\ request'[q].op \in Requests
           /\ \/ Newest(oper'[request'[q].op].run)
              \/ Broken(oper'[request'[q].op])
              \/ /\ request[q].at \in Waiting
                 /\ request'[q].op = request[q].op
                 /\ request'[q].latest = request[q].latest
        BY <2>2, <2>4, <2>8, <2>11, <1>a
  <2> QED BY <2>5, <2>8, <2>9, <2>10, <2>12, ContextKept
<1> QED BY <1>1, <1>2, <1>3, <1>4, <1>5, <1>6, <1>7, <1>8, <1>9, <1>10,
           <1>11, <1>12, <1>13, <1>14, <1>15, <1>16, <1>17, <1>18, <1>19,
           <1>20, <1>21, <1>22, <1>23, <1>24, <1>25, <1>26 DEF Serve

(* A step of a worker that leaves the table of ended runs alone. *)
LEMMA ContextWork ==
    ASSUME Fitting, ContextInv, NEW u \in Runs, run[u].at # "done",
           UNCHANGED <<request, ended>>, OperKept,
           \A w \in Runs : w # u => run'[w] = run[w],
           \/ runsLock' = runsLock /\ run'[u].at # "fill status"
           \/ runsLock = NoOne /\ runsLock' = u
    PROVE  ContextInv'
<1>1. RunsLockHeld'
  <2>1. CASE runsLock' = runsLock /\ run'[u].at # "fill status"
        BY <2>1 DEF ContextInv, RunsLockHeld, Latest
  <2>2. CASE runsLock = NoOne /\ runsLock' = u
    <3>1. /\ \A w \in Runs : run[w].at # "fill status"
          /\ \A r \in Requests : request[r].at # "sync run"
          BY <2>2, NoOneApart DEF ContextInv, RunsLockHeld
    <3> QED BY <3>1, <2>2 DEF RunsLockHeld
  <2> QED BY <2>1, <2>2
<1>2. \A w \in Runs : run[w].at = "done" => run'[w].at = "done"
      OBVIOUS
<1>3. \A r \in Requests : request'[r].latest # NoOne =>
           \E j \in DOMAIN ended : ended[j] = request'[r].latest
      BY DEF ContextInv, Seen
<1>4. \A r \in Requests :
           request'[r].at \in Waiting /\ request'[r].latest # NoOne =>
           /\ request'[r].op \in Requests
           /\ \/ Newest(oper'[request'[r].op].run)
              \/ Broken(oper'[request'[r].op])
              \/ /\ request[r].at \in Waiting
                 /\ request'[r].op = request[r].op
                 /\ request'[r].latest = request[r].latest
      BY DEF Fitting, RequestFits, HasOp, Waiting
<1> QED BY <1>1, <1>2, <1>3, <1>4, ContextKept

LEMMA OneMore ==
    ASSUME NEW n \in Nat
    PROVE  /\ \A i \in 1..(n + 1) : i \in 1..n \/ i = n + 1
           /\ \A i \in 1..n : i \in 1..(n + 1) /\ n + 1 >= i
OBVIOUS

LEMMA AppendFacts ==
    ASSUME NEW S, NEW s \in Seq(S), NEW x \in S
    PROVE  /\ Len(s) \in Nat
           /\ DOMAIN s = 1..Len(s)
           /\ DOMAIN Append(s, x) = 1..(Len(s) + 1)
           /\ Append(s, x)[Len(s) + 1] = x
           /\ \A i \in 1..Len(s) : Append(s, x)[i] = s[i]
<1>1. Len(s) \in Nat /\ DOMAIN s = 1..Len(s)
      OBVIOUS
<1>2. /\ Append(s, x) \in Seq(S)
      /\ Len(Append(s, x)) = Len(s) + 1
      BY AppendProperties
<1>3. DOMAIN Append(s, x) = 1..(Len(s) + 1)
      BY <1>2
<1>4. /\ Append(s, x)[Len(s) + 1] = x
      /\ \A i \in 1..Len(s) : Append(s, x)[i] = s[i]
      BY AppendProperties
<1> QED BY <1>1, <1>3, <1>4

(* A COMPLETE record: the run that ends is newer than what anybody has seen. *)
LEMMA ContextEnds ==
    ASSUME Fitting, ContextInv, NEW u \in Runs, FillStatus(u)
    PROVE  ContextInv'
<1>a. ended \in Seq(Runs)
      BY DEF Fitting, TypeOK
<1>0. /\ run[u] \in RunRecords
      /\ run \in [Runs -> RunRecords]
      /\ run[u].at = "fill status"
      /\ runsLock = u
      /\ UNCHANGED <<request, oper>>
      BY DEF FillStatus, Fitting, TypeOK, ContextInv, RunsLockHeld
<1>1. run'[u].at = "done" /\ \A w \in Runs : w # u => run'[w] = run[w]
      BY <1>0 DEF FillStatus, WorkerBecomes, RunRecords
<1>2. RunsLockHeld'
  <2>1. /\ \A w \in Runs : run[w].at = "fill status" => w = u
        /\ \A r \in Requests : request[r].at # "sync run"
        BY <1>0, NoOneApart DEF ContextInv, RunsLockHeld
  <2> QED BY <2>1, <1>0, <1>1 DEF RunsLockHeld
<1>3. \A i \in DOMAIN ended : ended[i] # u /\ run[ended[i]].at = "done"
      BY <1>0 DEF ContextInv, EndedRuns
<1>4. /\ \A i \in DOMAIN ended : i \in DOMAIN ended' /\ ended'[i] = ended[i]
      /\ \A i \in DOMAIN ended' : i \in DOMAIN ended \/ ended'[i] = u
      /\ \A i, j \in DOMAIN ended' :
            i \notin DOMAIN ended /\ j \in DOMAIN ended => i >= j
      /\ \A i, j \in DOMAIN ended' :
            i \notin DOMAIN ended /\ j \notin DOMAIN ended => i = j
  <2>1. CASE ended' = ended
        BY <2>1, <1>0
  <2>2. CASE ended' = Append(ended, u)
    <3>1. /\ Len(ended) \in Nat
          /\ DOMAIN ended = 1..Len(ended)
          /\ DOMAIN ended' = 1..(Len(ended) + 1)
          /\ ended'[Len(ended) + 1] = u
          /\ \A i \in 1..Len(ended) : ended'[i] = ended[i]
          BY <2>2, <1>a, AppendFacts
    <3>2. /\ \A i \in 1..(Len(ended) + 1) :
                i \in 1..Len(ended) \/ i = Len(ended) + 1
          /\ \A i \in 1..Len(ended) :
                i \in 1..(Len(ended) + 1) /\ Len(ended) + 1 >= i
          BY <3>1, OneMore
    <3>3. \A i \in DOMAIN ended :
                i \in DOMAIN ended' /\ ended'[i] = ended[i]
          BY <3>1, <3>2
    <3>5. ASSUME NEW i \in DOMAIN ended', i \notin DOMAIN ended
          PROVE  ended'[i] = u
          BY <3>1, <3>2, <3>5
    <3>4. /\ \A i \in DOMAIN ended' :
                i \notin DOMAIN ended => i = Len(ended) + 1
          /\ \A j \in DOMAIN ended : Len(ended) + 1 >= j
          BY <3>1, <3>2
    <3> QED BY <3>3, <3>4, <3>5
  <2> QED BY <2>1, <2>2 DEF FillStatus
<1>5. EndedRuns'
  <2>1. ASSUME NEW i \in DOMAIN ended'
        PROVE  run'[ended'[i]].at = "done"
    <3>1. CASE i \in DOMAIN ended
      <4>1. ended'[i] = ended[i]
            BY <3>1, <1>4
      <4>2. ended[i] \in Runs
            BY <3>1, <1>a
      <4>3. ended[i] # u /\ run[ended[i]].at = "done"
            BY <3>1, <1>3
      <4> QED BY <4>1, <4>2, <4>3, <1>1
    <3>2. CASE i \notin DOMAIN ended
      <4>1. \A j \in DOMAIN ended' : j \in DOMAIN ended \/ ended'[j] = u
            BY <1>4
      <4>2. ended'[i] = u
            BY <4>1, <3>2, <2>1
      <4> QED BY <4>2, <1>1
    <3> QED BY <3>1, <3>2
  <2>2. \A i, j \in DOMAIN ended' : ended'[i] = ended'[j] => i = j
        BY <1>3, <1>4 DEF ContextInv, EndedRuns
  <2> QED BY <2>1, <2>2 DEF EndedRuns
<1>6. Seen'
      BY <1>0, <1>4 DEF ContextInv, Seen
<1>7. ASSUME NEW x, NEW w, NotOlder(x, w),
             \E j \in DOMAIN ended : ended[j] = w
      PROVE  NotOlder(x, w)'
  <2> SUFFICES ASSUME NEW i \in DOMAIN ended', NEW j \in DOMAIN ended',
                      x \notin Requests, ended'[i] = x, ended'[j] = w
               PROVE  i >= j
      BY DEF NotOlder
  <2>1. w # u
        BY <1>3, <1>7
  <2>2. j \in DOMAIN ended /\ ended[j] = w
        BY <2>1, <1>4
  <2>3. CASE i \in DOMAIN ended
        BY <2>2, <2>3, <1>4, <1>7 DEF NotOlder
  <2>4. CASE i \notin DOMAIN ended
        BY <2>2, <2>4, <1>4
  <2> QED BY <2>3, <2>4
<1>8. Current'
  <2> SUFFICES ASSUME NEW r \in Requests,
                      request[r].at \in Waiting,
                      request[r].latest # NoOne,
                      ~Broken(Oper(r))
               PROVE  /\ Oper(r).run # NoOne
                      /\ NotOlder(Oper(r).run, request[r].latest)'
      BY <1>0 DEF Current, Oper, NotOlder, Broken
  <2>1. /\ Oper(r).run # NoOne
        /\ NotOlder(Oper(r).run, request[r].latest)
        BY DEF ContextInv, Current
  <2>2. PICK x, w : x = Oper(r).run /\ w = request[r].latest
        OBVIOUS
  <2>3. /\ NotOlder(x, w)
        /\ \E j \in DOMAIN ended : ended[j] = w
        BY <2>1, <2>2 DEF ContextInv, Seen
  <2>4. NotOlder(x, w)'
        BY <2>3, <1>7
  <2> QED BY <2>1, <2>2, <2>4, <1>0 DEF NotOlder, Oper
<1> QED BY <1>2, <1>5, <1>6, <1>8 DEF ContextInv

LEMMA WorkContext ==
    ASSUME Fitting, ContextInv, NEW u \in Runs, PostRun(u) \/ Work(u)
    PROVE  ContextInv'
<1>0. /\ run \in [Runs -> RunRecords]
      /\ run[u] \in RunRecords
      /\ RunFits(u, run[u])
      /\ oper \in [Requests -> Operators]
      BY DEF Fitting, TypeOK
<1>a. ASSUME UNCHANGED oper PROVE OperKept
      BY <1>a DEF OperKept
<1>b. ASSUME run[u].at # "done", UNCHANGED <<request, ended, runsLock>>,
             NEW c, WorkerBecomes(u, c), c.at # "fill status", OperKept
      PROVE  ContextInv'
  <2>1. run'[u] = c /\ \A w \in Runs : w # u => run'[w] = run[w]
        BY <1>b, <1>0 DEF WorkerBecomes
  <2> QED BY <2>1, <1>b, ContextWork
<1>c. ASSUME NEW s \in RunStages
      PROVE  [run[u] EXCEPT !.at = s].at = s
      BY <1>0 DEF RunRecords
<1>1. ASSUME PostRun(u) PROVE ContextInv'
  <2>1. [run[u] EXCEPT !.at = "pending", !.status = "PENDING"].at = "pending"
        BY <1>0 DEF RunRecords
  <2> QED BY <2>1, <1>1, <1>a, <1>b DEF PostRun
<1>2. ASSUME StartRun(u) PROVE ContextInv'
  <2>1. [run[u] EXCEPT !.at = "engine", !.status = "RUNNING"].at = "engine"
        BY <1>0 DEF RunRecords
  <2> QED BY <2>1, <1>2, <1>a, <1>b DEF StartRun
<1>3. ASSUME EngineReturns(u) PROVE ContextInv'
  <2>1. \E c : WorkerBecomes(u, c) /\ c.at # "fill status"
    <3>1. \A v \in Verdicts, x \in Vlans :
             /\ [run[u] EXCEPT !.at = "fill", !.verdict = "BLOCKED"].at = "fill"
             /\ [run[u] EXCEPT !.at = "look", !.verdict = v].at = "look"
             /\ [run[u] EXCEPT !.at = "look", !.verdict = v,
                               !.vlan = x].at = "look"
          BY <1>0 DEF RunRecords
    <3>2. \A v \in Verdicts :
             [run[u] EXCEPT !.at = "look", !.verdict = v].at = "look"
          BY <1>0 DEF RunRecords
    <3>3. [run[u] EXCEPT !.at = "fill", !.verdict = "BLOCKED"].at = "fill"
          BY <1>0 DEF RunRecords
    <3> QED BY <3>1, <3>2, <3>3, <1>3 DEF EngineReturns
  <2> QED BY <2>1, <1>3, <1>a, <1>b DEF EngineReturns
<1>4. ASSUME EngineRaises(u) PROVE ContextInv'
      BY <1>4, <1>a, <1>b, <1>c DEF EngineRaises, RunStages
<1>5. ASSUME FillError(u) PROVE ContextInv'
  <2>1. [run[u] EXCEPT !.at = "done", !.status = "ERROR"].at = "done"
        BY <1>0 DEF RunRecords
  <2> QED BY <2>1, <1>5, <1>a, <1>b DEF FillError
<1>6. ASSUME LookAtShared(u) PROVE ContextInv'
  <2>1. CASE shared = NoOne
        BY <2>1, <1>6, <1>a, <1>b, <1>c DEF LookAtShared, RunStages
  <2>2. CASE shared # NoOne
    <3>1. [run[u] EXCEPT !.at = "wire", !.op = shared].at = "wire"
          BY <1>0 DEF RunRecords
    <3> QED BY <2>2, <3>1, <1>6, <1>a, <1>b DEF LookAtShared
  <2> QED BY <2>1, <2>2
<1>d. ASSUME run[u].at \in Wiring,
             \/ UNCHANGED oper
             \/ OperBecomes(run[u].op, [oper[run[u].op] EXCEPT !.discovery = u])
             \/ OperBecomes(run[u].op, [oper[run[u].op] EXCEPT !.run = u])
             \/ /\ OperBecomes(run[u].op, [oper[run[u].op] EXCEPT !.device = u])
                /\ u \in Devices
      PROVE  OperKept
  <2>1. run[u].op \in Requests
        BY <1>d, <1>0 DEF RunFits
  <2>2. PICK o \in Requests : o = run[u].op
        BY <2>1
  <2>3. oper[o] \in Operators /\ u \in Reports
        BY <1>0 DEF Reports
  <2>4. Newest(u)
        BY <2>3, <1>d, OthersAreNewest DEF Wiring
  <2>5. CASE OperBecomes(o, [oper[o] EXCEPT !.discovery = u])
    <3>1. /\ [oper[o] EXCEPT !.discovery = u] \in Operators
          /\ [oper[o] EXCEPT !.discovery = u].is = oper[o].is
          /\ [oper[o] EXCEPT !.discovery = u].run = oper[o].run
          BY <2>3 DEF Operators
    <3> QED BY <3>1, <2>5, <1>0, OperIsKept
  <2>6. CASE OperBecomes(o, [oper[o] EXCEPT !.run = u])
    <3>1. /\ [oper[o] EXCEPT !.run = u] \in Operators
          /\ [oper[o] EXCEPT !.run = u].is = oper[o].is
          /\ [oper[o] EXCEPT !.run = u].run = u
          BY <2>3 DEF Operators
    <3> QED BY <3>1, <2>4, <2>6, <1>0, OperIsKept
  <2>7. CASE /\ OperBecomes(o, [oper[o] EXCEPT !.device = u])
             /\ u \in Devices
    <3>1. /\ [oper[o] EXCEPT !.device = u] \in Operators
          /\ [oper[o] EXCEPT !.device = u].is = oper[o].is
          /\ [oper[o] EXCEPT !.device = u].run = oper[o].run
          BY <2>3, <2>7 DEF Operators
    <3> QED BY <3>1, <2>7, <1>0, OperIsKept
  <2> QED BY <2>2, <2>5, <2>6, <2>7, <1>a, <1>d
<1>7. ASSUME WireDiscovery(u) PROVE ContextInv'
  <2>1. OperKept
        BY <1>7, <1>d DEF WireDiscovery, Wiring
  <2> QED BY <2>1, <1>7, <1>b, <1>c DEF WireDiscovery, RunStages
<1>8. ASSUME WireRun(u) PROVE ContextInv'
  <2>1. OperKept
        BY <1>8, <1>d DEF WireRun, Wiring
  <2>2. PICK s \in {"swap", "fill"} :
           WorkerBecomes(u, [run[u] EXCEPT !.at = s])
    <3>1. CASE u \in SimRuns
          BY <3>1, <1>8 DEF WireRun
    <3>2. CASE u \notin SimRuns
          BY <3>2, <1>8 DEF WireRun
    <3> QED BY <3>1, <3>2
  <2>3. s \in RunStages /\ s # "fill status"
        BY DEF RunStages
  <2> QED BY <2>1, <2>2, <2>3, <1>8, <1>b, <1>c DEF WireRun
<1>9. ASSUME SwapRunner(u) PROVE ContextInv'
  <2>1. u \in Devices
        BY <1>9, <1>0 DEF SwapRunner, RunFits, Devices
  <2>2. OperKept
        BY <2>1, <1>9, <1>d DEF SwapRunner, Wiring
  <2> QED BY <2>2, <1>9, <1>b, <1>c DEF SwapRunner, RunStages
<1>10. ASSUME FillReport(u) PROVE ContextInv'
  <2>1. \A w \in Runs : w # u => run'[w] = run[w]
        BY <1>10, <1>0 DEF FillReport, WorkerBecomes
  <2> QED BY <2>1, <1>10, <1>a, ContextWork DEF FillReport
<1> QED BY <1>1, <1>2, <1>3, <1>4, <1>5, <1>6, <1>7, <1>8, <1>9, <1>10,
           ContextEnds DEF Work

LEMMA ContextStart == Init => ContextInv
<1> SUFFICES ASSUME Init PROVE ContextInv
    OBVIOUS
<1>1. /\ \A r \in Requests : /\ request[r].at \in {"new", "done"}
                            /\ request[r].latest = NoOne
      /\ \A u \in Runs : run[u].at \in {"new", "done"}
      /\ ended = <<>>
      BY DEF Init
<1>2. DOMAIN ended = {}
      BY <1>1
<1> QED BY <1>1, <1>2 DEF ContextInv, EndedRuns, RunsLockHeld, Seen, Current,
                    Waiting, Handling

LEMMA ContextInvHolds == Spec => []ContextInv
<1>1. Fitting /\ ContextInv /\ [Next]_vars => ContextInv'
  <2> SUFFICES ASSUME Fitting, ContextInv, [Next]_vars PROVE ContextInv'
      OBVIOUS
  <2>1. ASSUME UNCHANGED vars PROVE ContextInv'
        BY <2>1 DEF vars, ContextInv, EndedRuns, RunsLockHeld, Seen, Current,
                    NotOlder, Oper, Latest
  <2> QED BY <2>1, ServeContext, WorkContext DEF Next
<1> QED BY <1>1, FittingHolds, ContextStart, PTL DEF Spec

(* A message of POST /chat is handled with the latest COMPLETE run there   *)
(* was when its request synced the context (post_chat, server.py:1302-1326)*)
(* or with a newer one, although the workers of finished runs wire the     *)
(* context without the lock and other requests replace the run meanwhile.  *)
THEOREM MessagesAreUpToDate == Spec => []HandledUpToDate
<1>1. ContextInv => HandledUpToDate
      BY DEF ContextInv, Current, HandledUpToDate, Waiting
<1> QED BY <1>1, ContextInvHolds, PTL

============================================================================
