----------------------------- MODULE ChatServer -----------------------------
(***************************************************************************)
(* The web surface and the chat operator behind it.  web/server.py serves  *)
(* every request and every autopilot run in a thread of its own; all of    *)
(* them share one ChatOperator (create_app._shared_chat_op), whose context *)
(* holds the last run, the last discovery and the one pending change, and  *)
(* the table of runs (_RUNS).                                              *)
(*                                                                         *)
(* Two locks exist.  _chat_state_lock is held while a message is handled;  *)
(* _RUNS_LOCK while the table of runs is searched or a record is filled.   *)
(* What is done outside both, or under one of them to data the other is    *)
(* meant for, interleaves here as it does there: the making of the shared  *)
(* operator, the sync of POST /chat, and the wiring of a finished run into *)
(* the context.                                                            *)
(*                                                                         *)
(* The site is one real device (NETOPS_SEED_PORT names a serial port); a   *)
(* simulated run has a fabric of its own, and the runs the chat starts     *)
(* itself have one each that nothing else reaches, because the operator of *)
(* the server is built with the default seed port.                         *)
(***************************************************************************)
EXTENDS Naturals, Sequences, FiniteSets

CONSTANTS Requests,  \* HTTP requests, each answered once
          Runs,      \* POST /runs
          SimRuns,   \* those with sim=true
          Scenarios, \* which requests and runs come, and what they ask
          Vlans,     \* VLAN ids of a device
          NoOne

(* POST /chat and GET /chat/stream with a message of one of these intents; *)
(* GET /runs/{id}, a poll, has none.                                       *)
Kinds == {"post", "stream", "poll"}
Verbs == {"query", "plan", "confirm", "discover", "apply", "rollback"}
Messages == [kind : Kinds, verb : Verbs \cup {"none"}]
NoMessage == [kind |-> "none", verb |-> "none"]

ASSUME ChatAssumption ==
    /\ SimRuns \subseteq Runs
    /\ Scenarios \subseteq [asks : [Requests -> Messages \cup {NoMessage}],
                            runs : SUBSET Runs]
    /\ Requests \cap Runs = {}
    /\ NoOne \notin Requests \cup Runs

VARIABLES request,   \* the thread of each request
          shared,    \* create_app._shared_chat_op, named by its maker
          oper,      \* the operators made, by maker
          chatLock,  \* _chat_state_lock
          run,       \* the record and the worker thread of each run
          runsLock,  \* _RUNS_LOCK
          ended,     \* the runs with a COMPLETE record, by finished_at
          taken,     \* the VLANs of every device, with who put them there
          sent       \* history: the plan each confirm sent

vars == <<request, shared, oper, chatLock, run, runsLock, ended, taken, sent>>

----------------------------------------------------------------------------
(***************************************************************************)
(* Values.                                                                 *)
(***************************************************************************)

(* Devices a command can reach: the site, and the fabrics of simulated runs. *)
Devices == {"site"} \cup SimRuns

(* Whose report a context field can hold: a run of the table, or the run a *)
(* chat request has started itself.                                        *)
Reports == Runs \cup Requests

NoPlan == [by |-> NoOne, vlan |-> NoOne, on |-> NoOne]

(* Stages of a request: while a message is handled, and around that. *)
Handling == {"handle", "store", "clear", "send", "keep run", "keep discovery",
             "apply", "keep applied", "reply"}

Stages == Handling \cup {"new", "make", "publish", "sync", "sync run",
                         "lock", "final", "report", "done"}

(* Stages of a run's worker. *)
RunStages == {"new", "pending", "engine", "look", "wire",
              "wire run", "swap", "fill", "fill status", "error", "done"}

FreshOper == [is |-> "ChatOperator", run |-> NoOne, discovery |-> NoOne,
              pending |-> NoPlan, device |-> "site"]

Broken(o) == o.is = "_Broken"

(* How a run ends, by the first word of its final. *)
Verdicts == {"COMPLETE", "BLOCKED"}

Latest == IF ended = <<>> THEN NoOne ELSE ended[Len(ended)]

Becomes(r, c) == request' = [request EXCEPT ![r] = c]

WorkerBecomes(u, c) == run' = [run EXCEPT ![u] = c]

OperBecomes(o, c) == oper' = [oper EXCEPT ![o] = c]

Goto(r, stage) == Becomes(r, [request[r] EXCEPT !.at = stage])

Oper(r) == oper[request[r].op]

Free(d) == {v \in Vlans : taken[d][v] = NoOne}

(* A request or a run that the scenario leaves out is done from the start. *)
Init == \E s \in Scenarios :
    /\ request = [r \in Requests |->
                    [at |-> IF s.asks[r] = NoMessage THEN "done" ELSE "new",
                     kind |-> s.asks[r].kind, verb |-> s.asks[r].verb,
                     op |-> NoOne, latest |-> NoOne, plan |-> NoPlan,
                     vlan |-> NoOne, polled |-> NoOne, status |-> "none",
                     final |-> NoOne, report |-> NoOne]]
    /\ shared = NoOne
    /\ oper = [r \in Requests |-> FreshOper]
    /\ chatLock = NoOne
    /\ run = [u \in Runs |->
                [at |-> IF u \in s.runs THEN "new" ELSE "done",
                 op |-> NoOne, verdict |-> "none",
                 vlan |-> NoOne, status |-> "none", final |-> NoOne,
                 report |-> NoOne]]
    /\ runsLock = NoOne
    /\ ended = <<>>
    /\ taken = [d \in Devices |-> [v \in Vlans |-> NoOne]]
    /\ sent = [r \in Requests |-> [plan |-> NoPlan, on |-> NoOne]]

----------------------------------------------------------------------------
(***************************************************************************)
(* A chat request comes and gets the operator.                             *)
(***************************************************************************)

AfterGet(r) == IF request[r].kind = "post" THEN "sync" ELSE "lock"

(* _get_chat_op: the test of the shared attribute, under no lock. *)
GetOp(r) ==
    /\ request[r].at = "new"
    /\ request[r].kind # "poll"
    /\ IF shared = NoOne
       THEN Goto(r, "make")
       ELSE Becomes(r, [request[r] EXCEPT !.at = AfterGet(r), !.op = shared])
    /\ UNCHANGED <<shared, oper, chatLock, run, runsLock, ended, taken, sent>>

(* A new operator, wired to the latest COMPLETE run of the table. *)
MakeOp(r) ==
    /\ request[r].at = "make"
    /\ runsLock = NoOne
    /\ OperBecomes(r, [oper[r] EXCEPT !.run = Latest, !.discovery = Latest])
    /\ Goto(r, "publish")
    /\ UNCHANGED <<shared, chatLock, run, runsLock, ended, taken, sent>>

(* The construction raises: a _Broken operator takes the place for good. *)
MakeBroken(r) ==
    /\ request[r].at = "make"
    /\ OperBecomes(r, [oper[r] EXCEPT !.is = "_Broken"])
    /\ Goto(r, "publish")
    /\ UNCHANGED <<shared, chatLock, run, runsLock, ended, taken, sent>>

(* setattr, over an operator another request has set since. *)
PublishOp(r) ==
    /\ request[r].at = "publish"
    /\ shared' = r
    /\ Becomes(r, [request[r] EXCEPT !.at = AfterGet(r), !.op = r])
    /\ UNCHANGED <<oper, chatLock, run, runsLock, ended, taken, sent>>

(* Mutant: a wrong sync, of a context that holds no run only. *)
SyncEmptyOnly(r) ==
    /\ request[r].at = "sync"
    /\ runsLock = NoOne
    /\ IF Latest = NoOne \/ Broken(Oper(r)) \/ Oper(r).run # NoOne
       THEN /\ Becomes(r, [request[r] EXCEPT !.at = "lock", !.latest = Latest])
            /\ UNCHANGED <<oper, runsLock>>
       ELSE /\ OperBecomes(request[r].op,
                           [Oper(r) EXCEPT !.discovery = Latest])
            /\ runsLock' = r
            /\ Becomes(r, [request[r] EXCEPT !.at = "sync run",
                                             !.latest = Latest])
    /\ UNCHANGED <<shared, chatLock, run, ended, taken, sent>>

(* POST /chat: the context is brought to the latest COMPLETE run, unless   *)
(* the run it holds is that one.  The search and the writes are under      *)
(* _RUNS_LOCK; the context belongs to whoever handles a message.           *)
Sync(r) ==
    /\ request[r].at = "sync"
    /\ runsLock = NoOne
    /\ IF Latest = NoOne \/ Broken(Oper(r)) \/ Oper(r).run = Latest
       THEN /\ Becomes(r, [request[r] EXCEPT !.at = "lock", !.latest = Latest])
            /\ UNCHANGED <<oper, runsLock>>
       ELSE /\ OperBecomes(request[r].op,
                           [Oper(r) EXCEPT !.discovery = Latest])
            /\ runsLock' = r
            /\ Becomes(r, [request[r] EXCEPT !.at = "sync run",
                                             !.latest = Latest])
    /\ UNCHANGED <<shared, chatLock, run, ended, taken, sent>>

SyncRun(r) ==
    /\ request[r].at = "sync run"
    /\ OperBecomes(request[r].op, [Oper(r) EXCEPT !.run = request[r].latest])
    /\ runsLock' = NoOne
    /\ Goto(r, "lock")
    /\ UNCHANGED <<shared, chatLock, run, ended, taken, sent>>

(* "with _chat_state_lock"; a _Broken operator answers FAILURE at once. *)
Lock(r) ==
    /\ request[r].at = "lock"
    /\ chatLock = NoOne
    /\ chatLock' = r
    /\ Goto(r, IF Broken(Oper(r)) THEN "reply" ELSE "handle")
    /\ UNCHANGED <<shared, oper, run, runsLock, ended, taken, sent>>

(* Mutant: a wrong end, with the lock still held. *)
ReplyHolding(r) ==
    /\ request[r].at = "reply"
    /\ Becomes(r, [request[r] EXCEPT !.at = "done", !.plan = NoPlan,
                                     !.latest = NoOne])
    /\ UNCHANGED <<shared, oper, chatLock, run, runsLock, ended, taken, sent>>

(* The reply, and the end of the with block. *)
Reply(r) ==
    /\ request[r].at = "reply"
    /\ chatLock' = NoOne
    /\ Becomes(r, [request[r] EXCEPT !.at = "done", !.plan = NoPlan,
                                     !.latest = NoOne])
    /\ UNCHANGED <<shared, oper, run, runsLock, ended, taken, sent>>

----------------------------------------------------------------------------
(***************************************************************************)
(* ChatOperator.handle: the intents that read or change what is shared.    *)
(* Every one of them may also be refused, or fail, on data not kept here.  *)
(***************************************************************************)

Handles(r, verb) == request[r].at = "handle" /\ request[r].verb = verb

(* A handler that returns or raises before it has changed anything. *)
Refuse(r) ==
    /\ request[r].at = "handle"
    /\ Goto(r, "reply")
    /\ UNCHANGED <<shared, oper, chatLock, run, runsLock, ended, taken, sent>>

(* create_vlan: a device is known from the discovery; its VLAN table is    *)
(* read and a free id taken from it.                                       *)
ReadDevice(r) ==
    /\ Handles(r, "plan")
    /\ Oper(r).discovery # NoOne
    /\ \E v \in Free(Oper(r).device) :
          Becomes(r, [request[r] EXCEPT
                        !.at = "store",
                        !.plan = [by |-> r, vlan |-> v, on |-> Oper(r).device]])
    /\ UNCHANGED <<shared, oper, chatLock, run, runsLock, ended, taken, sent>>

(* Also the end of add_dhcp and isolate. *)
StorePlan(r) ==
    /\ request[r].at = "store"
    /\ OperBecomes(request[r].op, [Oper(r) EXCEPT !.pending = request[r].plan])
    /\ Goto(r, "reply")
    /\ UNCHANGED <<shared, chatLock, run, runsLock, ended, taken, sent>>

(* confirm: the pending plan is read, then cleared, then sent. *)
ReadPending(r) ==
    /\ Handles(r, "confirm")
    /\ Oper(r).pending # NoPlan
    /\ Becomes(r, [request[r] EXCEPT !.at = "clear", !.plan = Oper(r).pending])
    /\ UNCHANGED <<shared, oper, chatLock, run, runsLock, ended, taken, sent>>

(* Mutant: a wrong confirm, which leaves the plan pending. *)
ClearNothing(r) ==
    /\ request[r].at = "clear"
    /\ Goto(r, "send")
    /\ UNCHANGED <<shared, oper, chatLock, run, runsLock, ended, taken, sent>>

ClearPending(r) ==
    /\ request[r].at = "clear"
    /\ OperBecomes(request[r].op, [Oper(r) EXCEPT !.pending = NoPlan])
    /\ Goto(r, "send")
    /\ UNCHANGED <<shared, chatLock, run, runsLock, ended, taken, sent>>

(* No session to the device: nothing is sent, and the plan is gone. *)
NoSession(r) ==
    /\ request[r].at = "send"
    /\ Goto(r, "reply")
    /\ UNCHANGED <<shared, oper, chatLock, run, runsLock, ended, taken, sent>>

(* execute_change, to the device the runner reaches now: the plan lands,   *)
(* or the executor undoes it.                                              *)
Send(r) ==
    LET d == Oper(r).device
        v == request[r].plan.vlan IN
    /\ request[r].at = "send"
    /\ sent' = [sent EXCEPT ![r] = [plan |-> request[r].plan, on |-> d]]
    /\ taken' \in {taken, [taken EXCEPT ![d][v] = r]}
    /\ Goto(r, "reply")
    /\ UNCHANGED <<shared, oper, chatLock, run, runsLock, ended>>

(* discover: the engine's report goes into the context field by field. *)
Discover(r) ==
    /\ Handles(r, "discover")
    /\ Goto(r, "keep run")
    /\ UNCHANGED <<shared, oper, chatLock, run, runsLock, ended, taken, sent>>

KeepRun(r) ==
    /\ request[r].at = "keep run"
    /\ OperBecomes(request[r].op, [Oper(r) EXCEPT !.run = r])
    /\ Goto(r, "keep discovery")
    /\ UNCHANGED <<shared, chatLock, run, runsLock, ended, taken, sent>>

KeepDiscovery(r) ==
    /\ request[r].at = "keep discovery"
    /\ OperBecomes(request[r].op, [Oper(r) EXCEPT !.discovery = r])
    /\ Goto(r, "reply")
    /\ UNCHANGED <<shared, chatLock, run, runsLock, ended, taken, sent>>

(* apply: needs a run; with a network type named, a run that designs it    *)
(* replaces that one in the context first.                                 *)
Design(r) ==
    /\ Handles(r, "apply")
    /\ Oper(r).run # NoOne
    /\ \/ UNCHANGED oper
       \/ OperBecomes(request[r].op, [Oper(r) EXCEPT !.run = r])
    /\ Goto(r, "apply")
    /\ UNCHANGED <<shared, chatLock, run, runsLock, ended, taken, sent>>

(* The design the context holds now is blocked, or the engine fails. *)
NotApplied(r) ==
    /\ request[r].at = "apply"
    /\ Goto(r, "reply")
    /\ UNCHANGED <<shared, oper, chatLock, run, runsLock, ended, taken, sent>>

(* The engine has configured the devices of its fabric. *)
Apply(r) ==
    /\ request[r].at = "apply"
    /\ Goto(r, "keep applied")
    /\ UNCHANGED <<shared, oper, chatLock, run, runsLock, ended, taken, sent>>

KeepApplied(r) ==
    /\ request[r].at = "keep applied"
    /\ OperBecomes(request[r].op, [Oper(r) EXCEPT !.run = r])
    /\ \E v \in Vlans :
          Becomes(r, [request[r] EXCEPT !.at = "reply", !.vlan = v])
    /\ UNCHANGED <<shared, chatLock, run, runsLock, ended, taken, sent>>

(* The VLAN a run configured, by the change records of its report. *)
Claimed(report) == IF report \in Runs THEN run[report].vlan
                                      ELSE request[report].vlan

(* rollback: the inverses of the run the context holds now, if it applied, *)
(* sent to the device the runner reaches now; each may fail.               *)
Rollback(r) ==
    /\ Handles(r, "rollback")
    /\ Oper(r).run # NoOne
    /\ Claimed(Oper(r).run) # NoOne
    /\ taken' \in {taken, [taken EXCEPT ![Oper(r).device]
                                          [Claimed(Oper(r).run)] = NoOne]}
    /\ Goto(r, "reply")
    /\ UNCHANGED <<shared, oper, chatLock, run, runsLock, ended, sent>>

----------------------------------------------------------------------------
(***************************************************************************)
(* GET /runs/{id}: the fields are read one by one, under no lock.          *)
(***************************************************************************)

ReadStatus(r) ==
    /\ request[r].at = "new"
    /\ request[r].kind = "poll"
    /\ \E u \in Runs :
          /\ run[u].status # "none"
          /\ Becomes(r, [request[r] EXCEPT !.at = "final", !.polled = u,
                                           !.status = run[u].status])
    /\ UNCHANGED <<shared, oper, chatLock, run, runsLock, ended, taken, sent>>

ReadFinal(r) ==
    /\ request[r].at = "final"
    /\ Becomes(r, [request[r] EXCEPT !.at = "report",
                                     !.final = run[request[r].polled].final])
    /\ UNCHANGED <<shared, oper, chatLock, run, runsLock, ended, taken, sent>>

ReadReport(r) ==
    /\ request[r].at = "report"
    /\ Becomes(r, [request[r] EXCEPT !.at = "done",
                                     !.report = run[request[r].polled].report])
    /\ UNCHANGED <<shared, oper, chatLock, run, runsLock, ended, taken, sent>>

----------------------------------------------------------------------------
(***************************************************************************)
(* POST /runs and _run_autopilot_worker.                                   *)
(***************************************************************************)

PostRun(u) ==
    /\ run[u].at = "new"
    /\ runsLock = NoOne
    /\ WorkerBecomes(u, [run[u] EXCEPT !.at = "pending", !.status = "PENDING"])
    /\ UNCHANGED <<request, shared, oper, chatLock, runsLock, ended, taken,
                   sent>>

StartRun(u) ==
    /\ run[u].at = "pending"
    /\ runsLock = NoOne
    /\ WorkerBecomes(u, [run[u] EXCEPT !.at = "engine", !.status = "RUNNING"])
    /\ UNCHANGED <<request, shared, oper, chatLock, runsLock, ended, taken,
                   sent>>

(* engine.run returns: without a crawl, which is never wired into the chat; *)
(* or with one, COMPLETE or not, and the site or the run's own fabric      *)
(* configured or left alone.                                               *)
EngineReturns(u) ==
    LET d == IF u \in SimRuns THEN u ELSE "site" IN
    /\ run[u].at = "engine"
    /\ \/ /\ WorkerBecomes(u, [run[u] EXCEPT !.at = "fill",
                                                !.verdict = "BLOCKED"])
          /\ UNCHANGED taken
       \/ \E verdict \in Verdicts :
             /\ WorkerBecomes(u, [run[u] EXCEPT !.at = "look",
                                                !.verdict = verdict])
             /\ UNCHANGED taken
       \/ \E verdict \in Verdicts, v \in Vlans :
             /\ WorkerBecomes(u, [run[u] EXCEPT !.at = "look",
                                                !.verdict = verdict,
                                                !.vlan = v])
             /\ taken' = [taken EXCEPT ![d][v] = u]
    /\ UNCHANGED <<request, shared, oper, chatLock, runsLock, ended, sent>>

EngineRaises(u) ==
    /\ run[u].at = "engine"
    /\ WorkerBecomes(u, [run[u] EXCEPT !.at = "error"])
    /\ UNCHANGED <<request, shared, oper, chatLock, runsLock, ended, taken,
                   sent>>

FillError(u) ==
    /\ run[u].at = "error"
    /\ runsLock = NoOne
    /\ WorkerBecomes(u, [run[u] EXCEPT !.at = "done", !.status = "ERROR"])
    /\ UNCHANGED <<request, shared, oper, chatLock, runsLock, ended, taken,
                   sent>>

(* The shared operator as it is now is the one the run is wired into. *)
LookAtShared(u) ==
    /\ run[u].at = "look"
    /\ IF shared = NoOne
       THEN WorkerBecomes(u, [run[u] EXCEPT !.at = "fill"])
       ELSE WorkerBecomes(u, [run[u] EXCEPT !.at = "wire", !.op = shared])
    /\ UNCHANGED <<request, shared, oper, chatLock, runsLock, ended, taken,
                   sent>>

(* Mutant: a wrong wiring, which swaps the runner after every run. *)
WireRunAndRunner(u) ==
    /\ run[u].at = "wire run"
    /\ IF Broken(oper[run[u].op])
       THEN UNCHANGED oper
       ELSE OperBecomes(run[u].op, [oper[run[u].op] EXCEPT !.run = u])
    /\ WorkerBecomes(u, [run[u] EXCEPT !.at = "swap"])
    /\ UNCHANGED <<request, shared, chatLock, runsLock, ended, taken, sent>>

(* The context, field by field, under no lock.  A _Broken operator makes a *)
(* context for every reading of it, and the writes are lost.               *)
WireDiscovery(u) ==
    /\ run[u].at = "wire"
    /\ IF Broken(oper[run[u].op])
       THEN UNCHANGED oper
       ELSE OperBecomes(run[u].op, [oper[run[u].op] EXCEPT !.discovery = u])
    /\ WorkerBecomes(u, [run[u] EXCEPT !.at = "wire run"])
    /\ UNCHANGED <<request, shared, chatLock, runsLock, ended, taken, sent>>

WireRun(u) ==
    /\ run[u].at = "wire run"
    /\ IF Broken(oper[run[u].op])
       THEN UNCHANGED oper
       ELSE OperBecomes(run[u].op, [oper[run[u].op] EXCEPT !.run = u])
    /\ WorkerBecomes(u, [run[u] EXCEPT
                            !.at = IF u \in SimRuns THEN "swap" ELSE "fill"])
    /\ UNCHANGED <<request, shared, chatLock, runsLock, ended, taken, sent>>

(* A simulated run gives the operator a runner into its own fabric. *)
SwapRunner(u) ==
    /\ run[u].at = "swap"
    /\ OperBecomes(run[u].op, [oper[run[u].op] EXCEPT !.device = u])
    /\ WorkerBecomes(u, [run[u] EXCEPT !.at = "fill"])
    /\ UNCHANGED <<request, shared, chatLock, runsLock, ended, taken, sent>>

(* Mutant: a wrong order, the status before the report. *)
FillStatusFirst(u) ==
    /\ run[u].at = "fill"
    /\ runsLock = NoOne
    /\ runsLock' = u
    /\ WorkerBecomes(u, [run[u] EXCEPT !.at = "fill status",
                                       !.status = run[u].verdict])
    /\ UNCHANGED <<request, shared, oper, chatLock, ended, taken, sent>>

(* The record, under _RUNS_LOCK: report and final, then status and the time. *)
FillReport(u) ==
    /\ run[u].at = "fill"
    /\ runsLock = NoOne
    /\ runsLock' = u
    /\ WorkerBecomes(u, [run[u] EXCEPT !.at = "fill status", !.report = u,
                                       !.final = u])
    /\ UNCHANGED <<request, shared, oper, chatLock, ended, taken, sent>>

FillStatus(u) ==
    /\ run[u].at = "fill status"
    /\ runsLock' = NoOne
    /\ WorkerBecomes(u, [run[u] EXCEPT !.at = "done",
                                       !.status = run[u].verdict])
    /\ ended' = IF run[u].verdict = "COMPLETE" THEN Append(ended, u) ELSE ended
    /\ UNCHANGED <<request, shared, oper, chatLock, taken, sent>>

----------------------------------------------------------------------------
(* What one thread of the server does next. *)
Serve(r) ==
    \/ GetOp(r)
    \/ MakeOp(r)
    \/ MakeBroken(r)
    \/ PublishOp(r)
    \/ Sync(r)
    \/ SyncRun(r)
    \/ Lock(r)
    \/ Refuse(r)
    \/ ReadDevice(r)
    \/ StorePlan(r)
    \/ ReadPending(r)
    \/ ClearPending(r)
    \/ NoSession(r)
    \/ Send(r)
    \/ Discover(r)
    \/ KeepRun(r)
    \/ KeepDiscovery(r)
    \/ Design(r)
    \/ NotApplied(r)
    \/ Apply(r)
    \/ KeepApplied(r)
    \/ Rollback(r)
    \/ Reply(r)
    \/ ReadStatus(r)
    \/ ReadFinal(r)
    \/ ReadReport(r)

Work(u) ==
    \/ StartRun(u)
    \/ EngineReturns(u)
    \/ EngineRaises(u)
    \/ FillError(u)
    \/ LookAtShared(u)
    \/ WireDiscovery(u)
    \/ WireRun(u)
    \/ SwapRunner(u)
    \/ FillReport(u)
    \/ FillStatus(u)

(* Nobody is left to move: the only state in which the server may rest.    *)
AllDone ==
    /\ \A r \in Requests : request[r].at \in {"new", "done"}
    /\ \A u \in Runs : run[u].at \in {"new", "done"}

Next ==
    \/ \E r \in Requests : Serve(r)
    \/ \E u \in Runs : PostRun(u) \/ Work(u)
    \/ AllDone /\ UNCHANGED vars

(* Threads that are in the server run on.  Requests are finitely many, so  *)
(* a lock that is taken again and again is at last free to the one waiting. *)
Fairness ==
    /\ \A r \in Requests : WF_vars(request[r].at # "new" /\ Serve(r))
    /\ \A u \in Runs : WF_vars(Work(u))

Spec == Init /\ [][Next]_vars /\ Fairness

----------------------------------------------------------------------------
(***************************************************************************)
(* Properties.                                                             *)
(***************************************************************************)

Plans == [by : Requests, vlan : Vlans, on : Devices] \cup {NoPlan}

RequestRecords ==
    [at : Stages, kind : Kinds \cup {"none"}, verb : Verbs \cup {"none"},
     op : Requests \cup {NoOne}, latest : Runs \cup {NoOne}, plan : Plans,
     vlan : Vlans \cup {NoOne}, polled : Runs \cup {NoOne},
     status : {"none", "PENDING", "RUNNING", "COMPLETE", "BLOCKED", "ERROR"},
     final : Runs \cup {NoOne}, report : Runs \cup {NoOne}]

Operators ==
    [is : {"ChatOperator", "_Broken"}, run : Reports \cup {NoOne},
     discovery : Reports \cup {NoOne}, pending : Plans, device : Devices]

RunRecords ==
    [at : RunStages, op : Requests \cup {NoOne}, verdict : Verdicts \cup {"none"},
     vlan : Vlans \cup {NoOne}, final : Runs \cup {NoOne},
     report : Runs \cup {NoOne},
     status : {"none", "PENDING", "RUNNING", "COMPLETE", "BLOCKED", "ERROR"}]

(* Every variable keeps its type. *)
TypeOK ==
    /\ request \in [Requests -> RequestRecords]
    /\ shared \in Requests \cup {NoOne}
    /\ oper \in [Requests -> Operators]
    /\ chatLock \in Requests \cup {NoOne}
    /\ run \in [Runs -> RunRecords]
    /\ runsLock \in Requests \cup Runs \cup {NoOne}
    /\ ended \in Seq(Runs)
    /\ taken \in [Devices -> [Vlans -> Requests \cup Runs \cup {NoOne}]]
    /\ sent \in [Requests -> [plan : Plans, on : Devices \cup {NoOne}]]

(* A planned change is sent at most once, however many clients confirm it, *)
(* and through however many operators: _do_confirm_change clears the plan  *)
(* before it sends it, and _chat_state_lock keeps the reading and the      *)
(* clearing of two confirms apart.                                         *)
PlansOnce ==
    \A r, q \in Requests :
        r # q /\ sent[r].plan # NoPlan => sent[r].plan # sent[q].plan

NotOlder(report, u) ==
    \/ report \in Requests
    \/ \A i, j \in DOMAIN ended : ended[i] = report /\ ended[j] = u => i >= j

(* A POST is handled with the latest COMPLETE run there was at its sync,   *)
(* or a newer one, in the context, whatever the threads that wire finished *)
(* runs and the other requests do while it waits for the lock.             *)
HandledUpToDate ==
    \A r \in Requests :
        /\ request[r].kind = "post"
        /\ request[r].at \in Handling
        /\ request[r].latest # NoOne
        /\ ~Broken(Oper(r))
        => Oper(r).run # NoOne /\ NotOlder(Oper(r).run, request[r].latest)

(* A client that polls a run and reads COMPLETE or BLOCKED reads its final *)
(* and its report in the same answer, although the answer is put together  *)
(* without the lock the record is filled under.                            *)
PollsAreWhole ==
    \A r \in Requests :
        request[r].at = "done" /\ request[r].status \in {"COMPLETE", "BLOCKED"}
        => /\ request[r].final = request[r].polled
           /\ request[r].report = request[r].polled

(* The session used to write is one to the device the plan was read from.  *)
OneSource ==
    \A r \in Requests :
        sent[r].plan # NoPlan => sent[r].on = sent[r].plan.on

(* Every request is answered and every accepted run ends: the server comes *)
(* to rest, and nobody waits for a lock for good.                          *)
AllEnd == <>[]AllDone

============================================================================
