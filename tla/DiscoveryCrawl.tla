----------------------------- MODULE DiscoveryCrawl -----------------------------
(***************************************************************************)
(* DiscoveryCrawlEngine.crawl (engines/discovery_crawl.py): a breadth-     *)
(* first walk over what devices say of their neighbours. Each wave is      *)
(* collected by a pool of worker threads and then admitted, one device at  *)
(* a time, in the order of the device references; afterwards the addresses *)
(* nobody advertised are probed one by one. The engine may crawl again     *)
(* (AutopilotEngine's access retry): the digital twin outlives a crawl.    *)
(*                                                                         *)
(* Devices answer as they like: a session may be refused, a command may    *)
(* fail, and session, collector or parser may raise.                       *)
(***************************************************************************)
EXTENDS Naturals, Sequences, FiniteSets, Functions

CONSTANTS
  Devices,     \* device references, numbered in the order the crawl sorts them
  Seed,        \* the device the crawl starts from
  Endpoints,   \* references of devices known only by an address, after Devices
  Neighbours,  \* the devices the neighbour table of a device names
  Advertised,  \* the endpoints whose address that table advertises
  Hosts,       \* the endpoints in the ARP and MAC tables of a device
  Plans,       \* the commands that may be readable for a family, in order
  Calls,       \* the limits a crawl may be called with
  MaxCrawls,   \* bound: how many crawls one engine makes
  MaxFaults    \* bound: how many answers of devices are not as hoped

Refs == Devices \cup Endpoints

(* What a device is asked for: its neighbours, its ARP and MAC tables.     *)
Commands == {"neighbors", "hosts"}

Statuses == {"COMPLETE", "PARTIAL", "BLOCKED", "UNREACHABLE", "NO_PLAN",
             "NOT_PROBED"}

ASSUME DevicesAssumption ==
  /\ Devices \subseteq Nat /\ IsFiniteSet(Devices) /\ Seed \in Devices
  /\ Endpoints \subseteq Nat /\ IsFiniteSet(Endpoints)
  /\ \A d \in Devices, e \in Endpoints : d < e
ASSUME FabricAssumption ==
  /\ Neighbours \in [Devices -> SUBSET Devices]
  /\ Advertised \in [Devices -> SUBSET Endpoints]
  /\ Hosts \in [Devices -> SUBSET Endpoints]
ASSUME PlansAssumption == Plans \subseteq Seq(Commands)
ASSUME CallsAssumption ==
  /\ Calls \subseteq [devices : Nat, probes : Nat, workers : Nat \ {0}]
  /\ MaxCrawls \in Nat /\ MaxFaults \in Nat

VARIABLES
  pc,          \* where crawl is
  args,        \* max_devices, max_l3_probes and workers of this crawl
  visited,     \* the report: the status of each reference, "none" if absent
  wave,        \* the number of the wave
  frontier,    \* the devices of the next wave
  following,   \* those the wave being admitted names
  unprobed,    \* those the device budget left out
  batch,       \* the devices of this wave that are not admitted yet
  job,         \* what collecting a device has yielded
  twin,        \* the devices whose neighbour table is in the digital twin
  candidates,  \* the pairs (endpoint, device that saw it) still to look at
  recorded,    \* those in the report
  refused,     \* those in the report as not probed
  crawls,      \* how many crawls were begun
  faults,      \* how many faults happened
  depth,       \* history: the wave in which a device was selected
  admitted,    \* history: the devices in the order their evidence was admitted
  events       \* history: the signed events of this crawl, as appended

walk == <<visited, wave, frontier, following, unprobed, batch, depth>>
l3   == <<candidates, recorded, refused>>
vars == <<pc, args, walk, job, twin, l3, crawls, faults, admitted, events>>

Fault == faults < MaxFaults /\ faults' = faults + 1

-----------------------------------------------------------------------------
Visited == {r \in Refs : visited[r] # "none"}
Crawled == {r \in Refs : visited[r] \notin {"none", "NOT_PROBED"}}
Probed  == Visited \cap Endpoints

Least(S) == CHOOSE x \in S : \A y \in S : x <= y

(* The candidates go by address, then by the device that saw them.         *)
Before(a, b) == a[1] < b[1] \/ (a[1] = b[1] /\ a[2] <= b[2])
First == CHOOSE c \in candidates : \A o \in candidates : Before(c, o)

(* The n least elements of S.                                              *)
FirstOf(S, n) == {x \in S : Cardinality({y \in S : y < x}) < n}

(* The neighbour tables the report rests on, and the addresses they        *)
(* explain.                                                                *)
Tables    == Devices \cap Crawled \cap twin
Explained == UNION {Advertised[d] : d \in Tables}

(* plan: the commands to send; issued: how many were; got: those           *)
(* collected; told: those that parsed as a table; status: once ended.      *)
Job == [at : {"idle", "queued", "open", "ended"}, plan : Plans \cup {<< >>},
        issued : Nat, got : SUBSET Commands, told : SUBSET Commands,
        status : Statuses \cup {"none"}]
Idle == [at |-> "idle", plan |-> << >>, issued |-> 0, got |-> {}, told |-> {},
         status |-> "none"]
Queued      == [Idle EXCEPT !.at = "queued"]
Unreachable == [Idle EXCEPT !.at = "ended", !.status = "UNREACHABLE"]

StatusOf(plan, got) == IF plan = << >> THEN "NO_PLAN"
                       ELSE IF got = Range(plan) THEN "COMPLETE"
                       ELSE IF got # {} THEN "PARTIAL" ELSE "BLOCKED"

(* The state of a job after its session was opened or a command answered:  *)
(* with nothing left to ask it ends, and the session is closed.            *)
Proceed(j) == IF j.issued < Len(j.plan) THEN [j EXCEPT !.at = "open"]
              ELSE [j EXCEPT !.at = "ended", !.status = StatusOf(j.plan, j.got)]

Waiting == {r \in Refs : job[r].at = "queued"}
Running == {r \in Refs : job[r].at = "open"}

Unseen == [r \in Refs |-> "none"]
Undone == [r \in Refs |-> Idle]

Init ==
  /\ pc = "select" /\ args \in Calls /\ twin = {} /\ crawls = 1 /\ faults = 0
  /\ visited = Unseen /\ wave = 0 /\ depth = [r \in Refs |-> 0]
  /\ frontier = {Seed} /\ following = {} /\ unprobed = {} /\ batch = {}
  /\ job = Undone /\ candidates = {} /\ recorded = {} /\ refused = {}
  /\ admitted = << >> /\ events = << >>

-----------------------------------------------------------------------------
(* The walk, wave by wave.                                                 *)

(* Selected up front, in order; what exceeds the budget is kept.           *)
SelectWave ==
  /\ pc = "select" /\ frontier # {} /\ Cardinality(Visited) < args.devices
  /\ LET new    == frontier \ Visited
         chosen == FirstOf(new, args.devices - Cardinality(Visited))
     IN  /\ batch' = chosen /\ unprobed' = unprobed \cup (new \ chosen)
         /\ job' = [r \in Refs |-> IF r \in chosen THEN Queued ELSE job[r]]
         /\ depth' = [r \in Refs |-> IF r \in chosen THEN wave ELSE depth[r]]
  /\ pc' = "collect"
  /\ UNCHANGED <<args, visited, wave, frontier, following, twin, l3, crawls,
       faults, admitted, events>>

(* The pool has as many threads as workers or devices, whichever is less.  *)
Parallel == args.workers > 1 /\ Cardinality(batch) > 1
Width    == IF args.workers <= Cardinality(batch) THEN args.workers
            ELSE Cardinality(batch)

(* Mutant: a thread for each device of the wave.                           *)
MayStartAtOnce(r) == pc \in {"collect", "probe"} /\ job[r].at = "queued"

(* Jobs start in the order they were submitted.                            *)
MayStart(r) ==
  /\ pc \in {"collect", "probe"} /\ job[r].at = "queued"
  /\ pc = "collect" => r = Least(Waiting) /\ Cardinality(Running) < Width

OpenSession(r) ==
  /\ MayStart(r)
  /\ \E plan \in Plans :
       job' = [job EXCEPT ![r] = Proceed([job[r] EXCEPT !.plan = plan])]
  /\ UNCHANGED <<pc, args, walk, twin, l3, crawls, faults, admitted, events>>

SessionRefused(r) ==
  /\ MayStart(r) /\ Fault
  /\ job' = [job EXCEPT ![r] = Unreachable]
  /\ UNCHANGED <<pc, args, walk, twin, l3, crawls, admitted, events>>

NextCommand(r) == job[r].plan[job[r].issued + 1]

(* One more command was sent: what it gave, and what parsed as a table.    *)
After(r, got, told) ==
  Proceed([job[r] EXCEPT !.issued = job[r].issued + 1,
                         !.got = job[r].got \cup got,
                         !.told = job[r].told \cup told])

(* The collector appends the signed event; the output may not parse.       *)
CommandCollected(r) ==
  /\ job[r].at = "open"
  /\ \E told \in {{}, {NextCommand(r)}} :
       /\ IF told = {} THEN Fault ELSE UNCHANGED faults
       /\ job' = [job EXCEPT ![r] = After(r, {NextCommand(r)}, told)]
  /\ events' = Append(events, <<r, NextCommand(r)>>)
  /\ UNCHANGED <<pc, args, walk, twin, l3, crawls, admitted>>

(* A typed Failure of the collector, a timeout or a lost connection: the   *)
(* next command is tried all the same.                                     *)
CommandFailed(r) ==
  /\ job[r].at = "open" /\ Fault
  /\ job' = [job EXCEPT ![r] = After(r, {}, {})]
  /\ UNCHANGED <<pc, args, walk, twin, l3, crawls, admitted, events>>

(* Mutant: the pool keeps nothing of a worker that raised.                 *)
RaiseLost(r) ==
  /\ MayStart(r) \/ job[r].at = "open"
  /\ Fault
  /\ job' = [job EXCEPT ![r] = Idle]
  /\ pc' = IF pc = "collect" /\ Parallel THEN pc ELSE "raised"
  /\ UNCHANGED <<args, walk, twin, l3, crawls, admitted, events>>

(* Any other exception, before or after the event of the command was       *)
(* appended. In a pool it is the result of its device; a serial wave, and  *)
(* the probe of an endpoint, let it through.                               *)
Raise(r) ==
  /\ MayStart(r) \/ job[r].at = "open"
  /\ Fault
  /\ job' = [job EXCEPT ![r] = Unreachable]
  /\ pc' = IF pc = "collect" /\ Parallel THEN pc ELSE "raised"
  /\ \/ UNCHANGED events
     \/ job[r].at = "open" /\ events' = Append(events, <<r, NextCommand(r)>>)
  /\ UNCHANGED <<args, walk, twin, l3, crawls, admitted>>

EndCollection ==
  /\ pc = "collect" /\ \A r \in batch : job[r].at = "ended"
  /\ pc' = "admit"
  /\ UNCHANGED <<args, walk, job, twin, l3, crawls, faults, admitted, events>>

(* Evidence is admitted only of a device that was asked something.         *)
AdmitEvidence(r) ==
  /\ admitted' = IF job[r].plan # << >> THEN Append(admitted, r) ELSE admitted
  /\ twin' = IF "neighbors" \in job[r].told THEN twin \cup {r} ELSE twin

EnqueueNeighbours(d) ==
  following' = following \cup
    (IF d \in twin' THEN {n \in Neighbours[d] : visited'[n] = "none"} ELSE {})

AdmitOne(d) ==
  /\ pc = "admit" /\ d \in batch
  /\ visited' = [visited EXCEPT ![d] = job[d].status]
  /\ batch' = batch \ {d}
  /\ AdmitEvidence(d) /\ EnqueueNeighbours(d)
  /\ UNCHANGED <<pc, args, wave, frontier, unprobed, job, l3, crawls, faults,
       depth, events>>

(* Mutant: whichever device comes first.                                   *)
AdmitAny == \E d \in batch : AdmitOne(d)

Admit == batch # {} /\ AdmitOne(Least(batch))

(* The ledger or the claim factory raises.                                 *)
AdmissionFails ==
  /\ \/ pc = "admit" /\ batch # {}
     \/ pc = "probe" /\ job[First[1]].at = "ended"
  /\ pc' = "failed" /\ Fault
  /\ UNCHANGED <<args, walk, job, twin, l3, crawls, admitted, events>>

EndWave ==
  /\ pc = "admit" /\ batch = {} /\ pc' = "select"
  /\ frontier' = following /\ following' = {} /\ wave' = wave + 1
  /\ UNCHANGED <<args, visited, unprobed, batch, depth, job, twin, l3, crawls,
       faults, admitted, events>>

-----------------------------------------------------------------------------
(* What no neighbour table announced.                                      *)

(* Mutant: the devices the budget cut out of a wave are dropped.           *)
LeftOverOfFrontier == frontier \ Visited

LeftOver == (unprobed \cup frontier) \ Visited

(* The walk is over: what the budget left is reported as never probed.     *)
CloseWalk ==
  /\ pc = "select" /\ (frontier = {} \/ Cardinality(Visited) >= args.devices)
  /\ visited' = [r \in Refs |-> IF r \in LeftOver THEN "NOT_PROBED" ELSE visited[r]]
  /\ candidates' = {c \in Endpoints \X (Devices \cap Crawled) :
                      /\ "hosts" \in job[c[2]].told
                      /\ c[1] \in Hosts[c[2]] \ Explained}
  /\ pc' = "l3"
  /\ UNCHANGED <<args, wave, frontier, following, unprobed, batch, depth, job, twin,
       recorded, refused, crawls, faults, admitted, events>>

Record == /\ candidates' = candidates \ {First}
          /\ recorded' = recorded \cup {First}

NoBudget == \/ Cardinality(Visited) >= args.devices
            \/ Cardinality(Probed) >= args.probes

RecordKnown ==
  /\ pc = "l3" /\ candidates # {} /\ First[1] \in Visited
  /\ Record /\ UNCHANGED refused
  /\ UNCHANGED <<pc, args, walk, job, twin, crawls, faults, admitted, events>>

(* Mutant: an endpoint the budget refuses is counted, and left out.        *)
DropRefused ==
  /\ pc = "l3" /\ candidates # {} /\ First[1] \notin Visited /\ NoBudget
  /\ candidates' = candidates \ {First} /\ refused' = refused \cup {First}
  /\ UNCHANGED <<pc, args, walk, job, twin, recorded, crawls, faults, admitted,
       events>>

RecordRefused ==
  /\ pc = "l3" /\ candidates # {} /\ First[1] \notin Visited /\ NoBudget
  /\ Record /\ refused' = refused \cup {First}
  /\ UNCHANGED <<pc, args, walk, job, twin, crawls, faults, admitted, events>>

Probe ==
  /\ pc = "l3" /\ candidates # {} /\ First[1] \notin Visited /\ ~NoBudget
  /\ pc' = "probe" /\ job' = [job EXCEPT ![First[1]] = Queued]
  /\ UNCHANGED <<args, walk, twin, l3, crawls, faults, admitted, events>>

AdmitProbed ==
  /\ pc = "probe" /\ candidates # {} /\ job[First[1]].at = "ended"
  /\ pc' = "l3"
  /\ visited' = [visited EXCEPT ![First[1]] = job[First[1]].status]
  /\ AdmitEvidence(First[1]) /\ Record
  /\ UNCHANGED <<args, wave, frontier, following, unprobed, batch, depth, job,
       refused, crawls, faults, events>>

EndCrawl == /\ pc = "l3" /\ candidates = {} /\ pc' = "done"
            /\ UNCHANGED <<args, walk, job, twin, l3, crawls, faults, admitted, events>>

CrawlAgain ==
  /\ pc = "done" /\ crawls < MaxCrawls /\ crawls' = crawls + 1
  /\ pc' = "select" /\ args' \in Calls
  /\ visited' = Unseen /\ wave' = 0 /\ depth' = [r \in Refs |-> 0]
  /\ frontier' = {Seed} /\ following' = {} /\ unprobed' = {} /\ batch' = {}
  /\ job' = Undone /\ candidates' = {} /\ recorded' = {} /\ refused' = {}
  /\ admitted' = << >> /\ events' = << >>
  /\ UNCHANGED <<twin, faults>>

-----------------------------------------------------------------------------
Collection == \E r \in Refs : \/ OpenSession(r) \/ SessionRefused(r)
                              \/ CommandCollected(r) \/ CommandFailed(r)
                              \/ Raise(r)
Walking == SelectWave \/ EndCollection \/ Admit \/ AdmissionFails \/ EndWave
Probing == \/ CloseWalk \/ RecordKnown \/ RecordRefused \/ Probe \/ AdmitProbed
           \/ EndCrawl

Next == Collection \/ Walking \/ Probing \/ CrawlAgain

Spec == Init /\ [][Next]_vars

(* Every call of a session returns or times out, and a thread that can run *)
(* runs.                                                                   *)
FairSpec == Spec /\ WF_vars(Next)
-----------------------------------------------------------------------------
TypeOK ==
  /\ pc \in {"select", "collect", "admit", "l3", "probe", "done", "raised",
             "failed"}
  /\ args \in Calls /\ crawls \in Nat /\ faults \in Nat
  /\ wave \in Nat
  /\ visited \in [Refs -> Statuses \cup {"none"}]
  /\ frontier \subseteq Devices /\ following \subseteq Devices
  /\ unprobed \subseteq Devices /\ batch \subseteq Devices
  /\ job \in [Refs -> Job] /\ twin \subseteq Refs
  /\ candidates \subseteq Endpoints \X Devices
  /\ recorded \subseteq Endpoints \X Devices /\ refused \subseteq recorded
  /\ depth \in [Refs -> Nat]
  /\ admitted \in Seq(Refs) /\ events \in Seq(Refs \X Commands)

(* A discovery that silently omits equipment it can see is worse than one  *)
(* that admits it stopped: every device a neighbour table names is in the  *)
(* report, and every address no table explains is recorded with a verdict. *)
NamedIsReported ==
  pc = "done" =>
    /\ \A d \in Tables : Neighbours[d] \subseteq Visited
    /\ \A d \in Devices \cap Crawled : "hosts" \in job[d].told =>
         \A e \in Hosts[d] \ Explained : <<e, d>> \in recorded

(* The budgets bound what is crawled and probed, and nothing else stops a  *)
(* crawl short: a device is NOT_PROBED, an endpoint refused, only when a   *)
(* budget is used up.                                                      *)
OnlyTheBudgetStops ==
  /\ Cardinality(Crawled) <= args.devices /\ Cardinality(Probed) <= args.probes
  /\ (\E d \in Devices : visited[d] = "NOT_PROBED") =>
       Cardinality(Devices \cap Crawled) = args.devices
  /\ refused # {} => NoBudget

(* Evidence is admitted wave by wave and in each wave in the order of the  *)
(* references, the probed endpoints last, whichever worker was first.      *)
InOrder(r, s) == \/ r \in Devices /\ s \in Endpoints
                 \/ r \in Endpoints /\ s \in Endpoints /\ r < s
                 \/ r \in Devices /\ s \in Devices
                    /\ (depth[r] < depth[s] \/ (depth[r] = depth[s] /\ r < s))
AdmittedInOrder ==
  \A i, j \in DOMAIN admitted : i < j => InOrder(admitted[i], admitted[j])

(* Breadth first: a crawled device other than the seed was named by one of *)
(* the wave before, and by none of an earlier wave.                        *)
NearestFirst ==
  \A d \in (Devices \cap Crawled) \ {Seed} :
    /\ \E p \in Tables : d \in Neighbours[p] /\ depth[d] = depth[p] + 1
    /\ \A p \in Tables : d \in Neighbours[p] => depth[d] <= depth[p] + 1

(* Sessions are scarce: never more at once than workers, and none is left  *)
(* open once a wave is collected or the crawl is over.                     *)
SessionsBounded ==
  /\ Cardinality(Running) <= args.workers
  /\ pc \notin {"collect", "probe"} => Running = {}

(* None of the limits a crawl is called with is exceeded.                  *)
LimitsAreKept == OnlyTheBudgetStops /\ SessionsBounded

(* Nothing enters the claims of a device without a signed event for each   *)
(* command it answered.                                                    *)
EvidenceIsSigned ==
  \A r \in Range(admitted) : \A c \in job[r].got : <<r, c>> \in Range(events)

(* The number of workers changes how long a wave takes, never what it      *)
(* records.                                                                *)
PhaseOf == CASE pc = "select"                       -> "select"
             [] pc \in {"collect", "admit"}         -> "visit"
             [] pc \in {"l3", "probe"}              -> "probe"
             [] pc \in {"done", "raised", "failed"} -> "over"
Serial == INSTANCE SerialCrawl
            WITH phase <- PhaseOf, budget <- args.devices, report <- visited,
                 left <- unprobed, wave <- batch, known <- twin,
                 order <- admitted, Budgets <- {c.devices : c \in Calls}
RecordsLikeSerial == Serial!Spec

(* Every crawl ends.                                                       *)
CrawlEnds == pc = "select" ~> pc \in {"done", "raised", "failed"}

-----------------------------------------------------------------------------
(* What the source says of a crawl, and does not hold.                     *)

(* "every ledger append ... one at a time in sorted device_ref order": the *)
(* events of the commands are appended in the order of the devices.        *)
EventsInOrder ==
  \A i, j \in DOMAIN events :
    i < j => events[i][1] = events[j][1] \/ InOrder(events[i][1], events[j][1])
=============================================================================
