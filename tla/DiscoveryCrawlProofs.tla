------------------------- MODULE DiscoveryCrawlProofs -------------------------
(***************************************************************************)
(* Proofs about DiscoveryCrawl, for any fabric, any limits and any number  *)
(* of worker threads: that its evidence is signed, what it reports, in     *)
(* which order it admits evidence, and how many sessions it holds.         *)
(***************************************************************************)
EXTENDS DiscoveryCrawl, TLAPS, WellFoundedInduction, FiniteSetTheorems

-----------------------------------------------------------------------------
(* The order devices and candidates are taken in.                          *)

LEMMA RefsAreNat == Refs \subseteq Nat /\ Devices \cap Endpoints = {}
BY DevicesAssumption DEF Refs

LEMMA LeastExists ==
  ASSUME NEW S \in SUBSET Nat, S # {}
  PROVE  \E x \in S : \A y \in S : x <= y
<1>1. PICK d \in S : \A e \in S : ~ (<<e, d>> \in OpToRel(<, Nat))
  <2> HIDE DEF OpToRel
  <2> QED BY NatLessThanWellFounded, WFMin
<1>2. \A e \in S : ~ (e < d)
  BY <1>1, Zenon DEF OpToRel
<1>3. \A e \in S : d <= e
  BY <1>2
<1> QED BY <1>3

LEMMA LeastIsLeast ==
  ASSUME NEW S \in SUBSET Refs, S # {}
  PROVE  Least(S) \in S /\ \A e \in S : Least(S) <= e
BY LeastExists, RefsAreNat DEF Least

LEMMA FirstIsFirst ==
  ASSUME candidates \in SUBSET (Endpoints \X Devices), candidates # {}
  PROVE  /\ First \in candidates /\ First[1] \in Endpoints
         /\ \A o \in candidates : Before(First, o)
<1> DEFINE A == {c[1] : c \in candidates}
<1>1. A \in SUBSET Nat /\ A # {}
  BY RefsAreNat DEF Refs
<1>2. PICK a \in A : \A y \in A : a <= y
  BY <1>1, LeastExists
<1> DEFINE B == {c[2] : c \in {x \in candidates : x[1] = a}}
<1>3. B \in SUBSET Nat /\ B # {}
  BY RefsAreNat DEF Refs
<1>4. PICK b \in B : \A y \in B : b <= y
  BY <1>3, LeastExists
<1>5. PICK c \in candidates : c[1] = a /\ c[2] = b
  BY <1>4
<1>6. \A o \in candidates : Before(c, o)
  <2> SUFFICES ASSUME NEW o \in candidates PROVE Before(c, o)
    OBVIOUS
  <2>1. o[1] \in A /\ o[1] \in Nat /\ a \in Nat
    BY <1>1
  <2>2. CASE o[1] = a
    <3>1. o[2] \in B
      BY <2>2
    <3> QED BY <1>4, <1>5, <2>2, <3>1 DEF Before
  <2>3. CASE o[1] # a
    BY <1>2, <1>5, <2>1, <2>3 DEF Before
  <2> QED BY <2>2, <2>3
<1>7. First \in candidates /\ \A o \in candidates : Before(First, o)
  BY <1>6 DEF First
<1> QED BY <1>7

-----------------------------------------------------------------------------
(* Type correctness.                                                       *)

(* The statuses of a device that was asked.                                *)
Answers == Statuses \ {"NOT_PROBED"}

(* A job in progress has a command left to send; one that is over has a    *)
(* status.                                                                 *)
JobInv ==
  \A r \in Refs :
    /\ job[r].at = "open" => job[r].issued < Len(job[r].plan)
    /\ job[r].at = "ended" => job[r].status \in Answers

TypeInv == TypeOK /\ JobInv

LEMMA PlanType == \A p \in Plans \cup {<< >>} : p \in Seq(Commands)
<1>1. << >> \in Seq(Commands)
  OBVIOUS
<1> QED BY <1>1, PlansAssumption, Zenon

LEMMA ProceedType ==
  ASSUME NEW j \in Job
  PROVE  /\ Proceed(j) \in Job
         /\ Proceed(j).at = "open" => Proceed(j).issued < Len(Proceed(j).plan)
         /\ Proceed(j).at = "ended" => Proceed(j).status \in Answers
         /\ Proceed(j).at \in {"open", "ended"}
         /\ Proceed(j).got = j.got /\ Proceed(j).told = j.told
         /\ Proceed(j).plan = j.plan
<1>1. StatusOf(j.plan, j.got) \in Answers
  BY DEF StatusOf, Answers, Statuses
<1>2. CASE j.issued < Len(j.plan)
  <2>1. Proceed(j) = [j EXCEPT !.at = "open"]
    BY <1>2 DEF Proceed
  <2> QED BY <1>2, <2>1 DEF Job
<1>3. CASE ~(j.issued < Len(j.plan))
  <2>1. Proceed(j) = [j EXCEPT !.at = "ended", !.status = StatusOf(j.plan, j.got)]
    BY <1>3 DEF Proceed
  <2> QED BY <1>1, <1>3, <2>1, ZenonT(60) DEF Job, Answers
<1> QED BY <1>2, <1>3

(* What a job has yielded, whatever is left to send.                       *)
LEMMA AfterType ==
  ASSUME NEW r \in Refs, job[r] \in Job,
         NEW got \in SUBSET Commands, NEW told \in SUBSET Commands
  PROVE  /\ After(r, got, told) \in Job
         /\ After(r, got, told).at = "open" =>
              After(r, got, told).issued < Len(After(r, got, told).plan)
         /\ After(r, got, told).at = "ended" =>
              After(r, got, told).status \in Answers
         /\ After(r, got, told).at \in {"open", "ended"}
<1> DEFINE j == [job[r] EXCEPT !.issued = job[r].issued + 1,
                               !.got = job[r].got \cup got,
                               !.told = job[r].told \cup told]
<1>0. /\ job[r].got \cup got \in SUBSET Commands
      /\ job[r].told \cup told \in SUBSET Commands
      /\ job[r].issued + 1 \in Nat
  BY DEF Job
<1>1. j \in Job
  BY <1>0 DEF Job
<1>2. After(r, got, told) = Proceed(j)
  BY DEF After
<1> HIDE DEF j
<1> QED BY <1>1, <1>2, ProceedType

LEMMA AfterGot ==
  ASSUME NEW r \in Refs, job[r] \in Job,
         NEW got \in SUBSET Commands, NEW told \in SUBSET Commands
  PROVE  After(r, got, told).got = job[r].got \cup got
<1> DEFINE j == [job[r] EXCEPT !.issued = job[r].issued + 1,
                               !.got = job[r].got \cup got,
                               !.told = job[r].told \cup told]
<1>0. /\ job[r].got \cup got \in SUBSET Commands
      /\ job[r].told \cup told \in SUBSET Commands
      /\ job[r].issued + 1 \in Nat
  BY DEF Job
<1>1. j \in Job /\ j.got = job[r].got \cup got
  BY <1>0 DEF Job
<1>2. After(r, got, told) = Proceed(j)
  BY DEF After
<1> HIDE DEF j
<1> QED BY <1>1, <1>2, ProceedType

LEMMA ConstantJobs ==
  /\ Idle \in Job /\ Queued \in Job /\ Unreachable \in Job
  /\ Idle.at = "idle" /\ Queued.at = "queued" /\ Unreachable.at = "ended"
  /\ Unreachable.status \in Answers
  /\ Idle.got = {} /\ Queued.got = {} /\ Unreachable.got = {}
  /\ Idle.told = {} /\ Queued.told = {} /\ Unreachable.told = {}
BY DEF Idle, Queued, Unreachable, Job, Statuses, Answers

(* The command an open job sends next is a command.                        *)
LEMMA NextCommandType ==
  ASSUME TypeInv, NEW r \in Refs, job[r].at = "open"
  PROVE  NextCommand(r) \in Commands
<1>1. job[r] \in Job /\ job[r].issued < Len(job[r].plan)
  BY DEF TypeInv, TypeOK, JobInv
<1>2. job[r].plan \in Seq(Commands) /\ job[r].issued \in Nat
  BY <1>1, PlanType DEF Job
<1>3. job[r].issued + 1 \in 1 .. Len(job[r].plan)
  BY <1>1, <1>2
<1> QED BY <1>2, <1>3 DEF NextCommand

LEMMA TypeInit == Init => TypeInv
<1> SUFFICES ASSUME Init PROVE TypeInv
  OBVIOUS
<1>1. job \in [Refs -> Job] /\ JobInv
  BY ConstantJobs DEF Init, Undone, JobInv
<1>2. visited \in [Refs -> Statuses \cup {"none"}]
  BY DEF Init, Unseen
<1> QED BY <1>1, <1>2, DevicesAssumption DEF Init, TypeInv, TypeOK

(* What a step of a job does to the types.                                 *)
LEMMA JobStep ==
  ASSUME TypeInv, NEW r \in Refs, NEW j \in Job,
         job' = [job EXCEPT ![r] = j],
         j.at = "open" => j.issued < Len(j.plan),
         j.at = "ended" => j.status \in Answers
  PROVE  job' \in [Refs -> Job] /\ JobInv'
BY DEF TypeInv, TypeOK, JobInv

LEMMA CollectionJob ==
  ASSUME TypeInv, NEW r \in Refs,
         OpenSession(r) \/ SessionRefused(r) \/ CommandCollected(r)
           \/ CommandFailed(r) \/ Raise(r)
  PROVE  \E j \in Job : /\ job' = [job EXCEPT ![r] = j]
                        /\ j.at = "open" => j.issued < Len(j.plan)
                        /\ j.at = "ended" => j.status \in Answers
                        /\ j.at \in {"open", "ended"}
<1>0. job[r] \in Job /\ (job[r].at = "open" => NextCommand(r) \in Commands)
  BY NextCommandType DEF TypeInv, TypeOK
<1>1. CASE OpenSession(r)
  <2>1. PICK plan \in Plans :
          job' = [job EXCEPT ![r] = Proceed([job[r] EXCEPT !.plan = plan])]
    BY <1>1 DEF OpenSession
  <2>2. [job[r] EXCEPT !.plan = plan] \in Job
    BY <1>0 DEF Job
  <2> QED BY <2>1, <2>2, ProceedType
<1>2. CASE SessionRefused(r) \/ Raise(r)
  <2>1. job' = [job EXCEPT ![r] = Unreachable]
    BY <1>2 DEF SessionRefused, Raise
  <2> QED BY <2>1, ConstantJobs
<1>3. CASE CommandCollected(r)
  <2>0. NextCommand(r) \in Commands
    BY <1>0, <1>3 DEF CommandCollected
  <2>1. PICK told \in {{}, {NextCommand(r)}} :
          job' = [job EXCEPT ![r] = After(r, {NextCommand(r)}, told)]
    BY <1>3 DEF CommandCollected
  <2>2. told \in SUBSET Commands
    BY <2>0
  <2> QED BY <1>0, <2>0, <2>1, <2>2, AfterType
<1>4. CASE CommandFailed(r)
  BY <1>0, <1>4, AfterType DEF CommandFailed
<1> QED BY <1>1, <1>2, <1>3, <1>4

LEMMA TypeCollection == ASSUME TypeInv, Collection PROVE TypeInv'
<1>1. PICK r \in Refs : OpenSession(r) \/ SessionRefused(r)
           \/ CommandCollected(r) \/ CommandFailed(r) \/ Raise(r)
  BY DEF Collection
<1>2. job' \in [Refs -> Job] /\ JobInv'
  BY <1>1, CollectionJob, JobStep
<1>3. events' \in Seq(Refs \X Commands)
  <2>1. job[r].at = "open" => <<r, NextCommand(r)>> \in Refs \X Commands
    BY NextCommandType
  <2>2. events \in Seq(Refs \X Commands)
    BY DEF TypeInv, TypeOK
  <2>3. \/ events' = events
        \/ job[r].at = "open" /\ events' = Append(events, <<r, NextCommand(r)>>)
    BY <1>1 DEF OpenSession, SessionRefused, CommandCollected, CommandFailed, Raise
  <2> QED BY <2>1, <2>2, <2>3
<1>4. faults' \in Nat
  BY <1>1 DEF TypeInv, TypeOK, Fault, OpenSession, SessionRefused,
              CommandCollected, CommandFailed, Raise
<1>5. pc' \in {pc, "raised"}
  BY <1>1 DEF OpenSession, SessionRefused, CommandCollected, CommandFailed, Raise
<1>6. UNCHANGED <<args, walk, twin, l3, crawls, admitted>>
  BY <1>1 DEF OpenSession, SessionRefused, CommandCollected, CommandFailed, Raise
<1> QED BY <1>2, <1>3, <1>4, <1>5, <1>6 DEF TypeInv, TypeOK, walk, l3

LEMMA AdmitEvidenceType ==
  ASSUME TypeInv, NEW r \in Refs, AdmitEvidence(r)
  PROVE  admitted' \in Seq(Refs) /\ twin' \subseteq Refs
BY DEF TypeInv, TypeOK, AdmitEvidence

LEMMA JobStatus ==
  ASSUME TypeInv, NEW r \in Refs
  PROVE  job[r].status \in Statuses \cup {"none"}
BY DEF TypeInv, TypeOK, Job

LEMMA TypeWalking == ASSUME TypeInv, Walking PROVE TypeInv'
<1> USE DEF TypeInv, TypeOK
<1>1. CASE SelectWave
  <2> DEFINE new    == frontier \ Visited
             chosen == FirstOf(new, args.devices - Cardinality(Visited))
  <2>1. chosen \subseteq Devices /\ chosen \subseteq Refs
    BY DEF FirstOf, Refs
  <2>2. /\ batch' = chosen /\ unprobed' = unprobed \cup (new \ chosen)
        /\ job' = [r \in Refs |-> IF r \in chosen THEN Queued ELSE job[r]]
        /\ depth' = [r \in Refs |-> IF r \in chosen THEN wave ELSE depth[r]]
    BY <1>1 DEF SelectWave
  <2>3. batch' \subseteq Devices /\ unprobed' \subseteq Devices
    BY <2>1, <2>2
  <2> HIDE DEF chosen
  <2>4. job' \in [Refs -> Job] /\ JobInv'
    BY <2>2, ConstantJobs DEF JobInv
  <2>5. depth' \in [Refs -> Nat]
    BY <2>2
  <2> QED BY <1>1, <2>3, <2>4, <2>5 DEF SelectWave, l3
<1>2. CASE EndCollection
  BY <1>2 DEF EndCollection, walk, l3, JobInv
<1>3. CASE Admit
  <2> DEFINE d == Least(batch)
  <2>1. d \in Refs /\ AdmitOne(d)
    BY <1>3, LeastIsLeast DEF Admit, Refs
  <2> HIDE DEF d
  <2>2. visited' \in [Refs -> Statuses \cup {"none"}]
    BY <2>1, JobStatus DEF AdmitOne
  <2>3. admitted' \in Seq(Refs) /\ twin' \subseteq Refs
    BY <2>1, AdmitEvidenceType DEF AdmitOne
  <2>4. d \in Devices /\ following' \subseteq Devices /\ batch' \subseteq Devices
    BY <2>1, FabricAssumption DEF AdmitOne, EnqueueNeighbours
  <2> QED BY <2>1, <2>2, <2>3, <2>4 DEF AdmitOne, l3, JobInv
<1>4. CASE AdmissionFails
  BY <1>4 DEF AdmissionFails, walk, l3, JobInv, Fault
<1>5. CASE EndWave
  BY <1>5 DEF EndWave, l3, JobInv
<1> QED BY <1>1, <1>2, <1>3, <1>4, <1>5 DEF Walking

LEMMA TypeProbing == ASSUME TypeInv, Probing PROVE TypeInv'
<1> USE DEF TypeInv, TypeOK
<1>0. candidates # {} => First \in candidates /\ First[1] \in Refs
  BY FirstIsFirst DEF Refs
<1>1. CASE CloseWalk
  <2>1. visited' \in [Refs -> Statuses \cup {"none"}]
    BY <1>1 DEF CloseWalk, Statuses
  <2>2. candidates' \subseteq Endpoints \X Devices
    BY <1>1 DEF CloseWalk
  <2> QED BY <1>1, <2>1, <2>2 DEF CloseWalk, JobInv
<1>2. CASE RecordKnown
  BY <1>0, <1>2 DEF RecordKnown, Record, walk, JobInv
<1>3. CASE RecordRefused
  BY <1>0, <1>3 DEF RecordRefused, Record, walk, JobInv
<1>4. CASE Probe
  <2>1. job' \in [Refs -> Job] /\ JobInv'
    BY <1>0, <1>4, ConstantJobs, JobStep DEF Probe
  <2> QED BY <1>4, <2>1 DEF Probe, walk, l3
<1>5. CASE AdmitProbed
  <2>1. visited' \in [Refs -> Statuses \cup {"none"}]
    BY <1>0, <1>5, JobStatus DEF AdmitProbed
  <2>2. admitted' \in Seq(Refs) /\ twin' \subseteq Refs
    BY <1>0, <1>5, AdmitEvidenceType DEF AdmitProbed
  <2> QED BY <1>0, <1>5, <2>1, <2>2 DEF AdmitProbed, Record, JobInv
<1>6. CASE EndCrawl
  BY <1>6 DEF EndCrawl, walk, l3, JobInv
<1> QED BY <1>1, <1>2, <1>3, <1>4, <1>5, <1>6 DEF Probing

LEMMA TypeAgain == ASSUME TypeInv, CrawlAgain PROVE TypeInv'
<1>1. job' \in [Refs -> Job] /\ JobInv'
  BY ConstantJobs DEF CrawlAgain, Undone, JobInv
<1>2. visited' \in [Refs -> Statuses \cup {"none"}]
  BY DEF CrawlAgain, Unseen
<1>3. faults' \in Nat /\ twin' \subseteq Refs /\ crawls' \in Nat
  BY DEF TypeInv, TypeOK, CrawlAgain
<1> QED BY <1>1, <1>2, <1>3, DevicesAssumption DEF CrawlAgain, TypeInv, TypeOK

LEMMA TypeStep == TypeInv /\ [Next]_vars => TypeInv'
<1> SUFFICES ASSUME TypeInv, [Next]_vars PROVE TypeInv'
  OBVIOUS
<1>1. CASE UNCHANGED vars
  BY <1>1 DEF TypeInv, TypeOK, JobInv, vars, walk, l3
<1>2. CASE Next
  BY <1>2, TypeCollection, TypeWalking, TypeProbing, TypeAgain DEF Next
<1> QED BY <1>1, <1>2

(* Every variable keeps its type, and no answer of a device, no exception  *)
(* and no order of the threads leads a crawl out of its states.            *)
THEOREM TypeCorrect == Spec => []TypeOK
<1>1. Init => TypeInv
  BY TypeInit
<1>2. TypeInv /\ [Next]_vars => TypeInv'
  BY TypeStep
<1>3. TypeInv => TypeOK
  BY DEF TypeInv
<1> QED BY <1>1, <1>2, <1>3, PTL DEF Spec


-----------------------------------------------------------------------------
(* Where a crawl is: which jobs are under way, and where the devices of    *)
(* the wave and of the next are.                                           *)

WalkPhases == {"select", "collect", "admit"}
LatePhases == {"l3", "probe", "done"}
UnderWay(r) == job[r].at \in {"queued", "open"}

(* Only the devices of the wave, or the endpoint being probed, have a job  *)
(* under way.                                                              *)
PlaceInv ==
  /\ pc \in WalkPhases \cup LatePhases \cup {"failed"} =>
       \A r \in Refs : UnderWay(r) => \/ pc = "collect" /\ r \in batch
                                      \/ pc = "probe" /\ r = First[1]
  /\ pc = "admit" => \A d \in batch : job[d].at = "ended"
  /\ pc = "probe" => candidates # {} /\ First[1] \notin Visited

(* The frontier is used up by the wave, and the next one is gathered while *)
(* the wave is admitted. The devices of a wave are not in the report yet.  *)
WaveInv ==
  /\ pc \in LatePhases \cup {"select"} => batch = {} /\ following = {}
  /\ pc = "collect" => following = {}
  /\ pc \in {"collect", "admit"} => frontier \subseteq Visited \cup batch \cup unprobed
  /\ pc \in WalkPhases => /\ Visited \subseteq Devices /\ Visited \cap batch = {}
                          /\ \A d \in batch : depth[d] = wave
                          /\ candidates = {} /\ recorded = {} /\ refused = {}
  /\ pc \in LatePhases => unprobed \cup frontier \subseteq Visited

CoreInv == TypeInv /\ PlaceInv /\ WaveInv

LEMMA CollectionKeeps ==
  ASSUME TypeInv, NEW r \in Refs,
         OpenSession(r) \/ SessionRefused(r) \/ CommandCollected(r)
           \/ CommandFailed(r) \/ Raise(r)
  PROVE  /\ UNCHANGED <<args, walk, twin, l3, crawls, admitted>>
         /\ pc' \in {pc, "raised"}
         /\ UnderWay(r)
         /\ \A s \in Refs \ {r} : job'[s] = job[s]
         /\ job'[r].at \in {"open", "ended"}
<1>1. PICK j \in Job : job' = [job EXCEPT ![r] = j] /\ j.at \in {"open", "ended"}
  BY CollectionJob
<1>2. UnderWay(r)
  BY DEF OpenSession, SessionRefused, CommandCollected, CommandFailed, Raise,
         MayStart, UnderWay
<1>3. pc' \in {pc, "raised"}
  BY DEF OpenSession, SessionRefused, CommandCollected, CommandFailed, Raise
<1>4. UNCHANGED <<args, walk, twin, l3, crawls, admitted>>
  BY DEF OpenSession, SessionRefused, CommandCollected, CommandFailed, Raise
<1> QED BY <1>1, <1>2, <1>3, <1>4 DEF TypeInv, TypeOK

LEMMA CoreInit == Init => CoreInv
<1> SUFFICES ASSUME Init PROVE CoreInv
  OBVIOUS
<1>1. Visited = {}
  BY DEF Init, Unseen, Visited
<1>2. \A r \in Refs : ~UnderWay(r)
  BY ConstantJobs DEF Init, Undone, UnderWay
<1> QED BY <1>1, <1>2, TypeInit DEF Init, CoreInv, PlaceInv, WaveInv, LatePhases

LEMMA CoreCollection ==
  ASSUME CoreInv, Collection PROVE PlaceInv' /\ WaveInv'
<1>1. PICK r \in Refs : OpenSession(r) \/ SessionRefused(r)
           \/ CommandCollected(r) \/ CommandFailed(r) \/ Raise(r)
  BY DEF Collection
<1>2. /\ UNCHANGED <<args, walk, twin, l3, crawls, admitted>>
      /\ pc' \in {pc, "raised"} /\ UnderWay(r)
      /\ \A s \in Refs \ {r} : job'[s] = job[s]
      /\ job'[r].at \in {"open", "ended"}
  BY <1>1, CollectionKeeps DEF CoreInv
<1>3. CASE pc' = "raised"
  BY <1>3 DEF PlaceInv, WaveInv, WalkPhases, LatePhases
<1>4. CASE pc' = pc /\ pc # "raised"
  <2>1. pc \in WalkPhases \cup LatePhases \cup {"failed"}
    BY <1>4 DEF CoreInv, TypeInv, TypeOK, WalkPhases, LatePhases
  <2>2. \/ pc = "collect" /\ r \in batch
        \/ pc = "probe" /\ r = First[1]
    BY <1>2, <2>1 DEF CoreInv, PlaceInv
  <2>3. First' = First /\ Visited' = Visited
    BY <1>2 DEF First, Visited, Before, walk, l3
  <2>4. PlaceInv'
    BY <1>2, <1>4, <2>1, <2>2, <2>3 DEF CoreInv, PlaceInv, UnderWay, walk, l3
  <2>5. WaveInv'
    BY <1>2, <1>4, <2>3 DEF CoreInv, WaveInv, walk, l3
  <2> QED BY <2>4, <2>5
<1> QED BY <1>2, <1>3, <1>4

(* What a wave is made of.                                                 *)
LEMMA SelectWaveIs ==
  ASSUME SelectWave
  PROVE  /\ pc = "select" /\ pc' = "collect"
         /\ batch' = FirstOf(frontier \ Visited,
                             args.devices - Cardinality(Visited))
         /\ batch' \subseteq frontier \ Visited
         /\ unprobed' = unprobed \cup ((frontier \ Visited) \ batch')
         /\ job' = [r \in Refs |-> IF r \in batch' THEN Queued ELSE job[r]]
         /\ depth' = [r \in Refs |-> IF r \in batch' THEN wave ELSE depth[r]]
         /\ Visited' = Visited
         /\ UNCHANGED <<args, visited, wave, frontier, following, twin, l3,
                        crawls, faults, admitted, events>>
BY DEF SelectWave, FirstOf, Visited

LEMMA AdmitIs ==
  ASSUME TypeInv, Admit
  PROVE  LET d == Least(batch)
         IN  /\ d \in batch /\ d \in Refs /\ d \in Devices
             /\ \A e \in batch : d <= e
             /\ AdmitOne(d)
<1>1. batch # {} /\ batch \subseteq Devices /\ batch \subseteq Refs
  BY DEF Admit, TypeInv, TypeOK, Refs
<1> QED BY <1>1, LeastIsLeast DEF Admit

(* The report grows by the device that is admitted.                        *)
LEMMA AdmitReports ==
  ASSUME CoreInv, NEW d \in batch, d \in Refs, AdmitOne(d)
  PROVE  /\ visited'[d] \in Answers
         /\ Visited' = Visited \cup {d} /\ Crawled' = Crawled \cup {d}
         /\ \A r \in Refs \ {d} : visited'[r] = visited[r]
<1>1. job[d].status \in Answers
  BY DEF CoreInv, PlaceInv, AdmitOne, TypeInv, JobInv
<1>2. visited' = [visited EXCEPT ![d] = job[d].status]
      /\ visited \in [Refs -> Statuses \cup {"none"}]
  BY DEF CoreInv, TypeInv, TypeOK, AdmitOne
<1>3. "none" \notin Answers /\ "NOT_PROBED" \notin Answers
  BY DEF Answers, Statuses
<1> QED BY <1>1, <1>2, <1>3 DEF Visited, Crawled

LEMMA CoreWalking ==
  ASSUME CoreInv, Walking PROVE PlaceInv' /\ WaveInv'
<1> USE DEF CoreInv
<1>1. CASE SelectWave
  <2>1. PlaceInv'
    BY <1>1, SelectWaveIs DEF PlaceInv, UnderWay, WalkPhases, LatePhases
  <2>2. frontier' \subseteq Visited' \cup batch' \cup unprobed'
    BY <1>1, SelectWaveIs
  <2>3. \A d \in batch' : depth'[d] = wave'
    BY <1>1, SelectWaveIs DEF TypeInv, TypeOK, Refs
  <2> QED BY <1>1, <2>1, <2>2, <2>3, SelectWaveIs
          DEF WaveInv, WalkPhases, LatePhases, l3
<1>2. CASE EndCollection
  <2>1. Visited' = Visited
    BY <1>2 DEF EndCollection, Visited, walk
  <2>2. PlaceInv'
    BY <1>2 DEF EndCollection, PlaceInv, UnderWay, WalkPhases, LatePhases, walk
  <2> QED BY <1>2, <2>1, <2>2
          DEF EndCollection, WaveInv, WalkPhases, LatePhases, walk, l3
<1>3. CASE Admit
  <2> DEFINE d == Least(batch)
  <2>1. d \in batch /\ d \in Refs /\ d \in Devices /\ AdmitOne(d)
    BY <1>3, AdmitIs
  <2> HIDE DEF d
  <2>2. Visited' = Visited \cup {d}
    BY <2>1, AdmitReports
  <2>3. PlaceInv'
    BY <2>1 DEF AdmitOne, PlaceInv, UnderWay, WalkPhases, LatePhases
  <2>4. WaveInv'
    BY <2>1, <2>2 DEF AdmitOne, WaveInv, WalkPhases, LatePhases, l3
  <2> QED BY <2>3, <2>4
<1>4. CASE AdmissionFails
  <2>1. \A r \in Refs : ~UnderWay(r)
    BY <1>4 DEF AdmissionFails, PlaceInv, UnderWay, WalkPhases, LatePhases
  <2> QED BY <1>4, <2>1
          DEF AdmissionFails, PlaceInv, WaveInv, UnderWay, WalkPhases, LatePhases
<1>5. CASE EndWave
  <2>1. Visited' = Visited
    BY <1>5 DEF EndWave, Visited
  <2> QED BY <1>5, <2>1 DEF EndWave, PlaceInv, WaveInv, UnderWay, WalkPhases,
                            LatePhases, l3
<1> QED BY <1>1, <1>2, <1>3, <1>4, <1>5 DEF Walking

LEMMA CloseWalkReports ==
  ASSUME CoreInv, CloseWalk
  PROVE  /\ Visited' = Visited \cup LeftOver
         /\ Crawled' = Crawled
         /\ LeftOver \subseteq Devices /\ LeftOver \subseteq Refs
<1>1. LeftOver \subseteq Devices /\ LeftOver \subseteq Refs
      /\ LeftOver \cap Visited = {}
  BY DEF CoreInv, TypeInv, TypeOK, LeftOver, Refs
<1>2. \A r \in Refs : visited'[r] = IF r \in LeftOver THEN "NOT_PROBED" ELSE visited[r]
  BY DEF CloseWalk
<1>3. Visited' = Visited \cup LeftOver
  BY <1>1, <1>2 DEF Visited
<1>4. Crawled' = Crawled
  BY <1>1, <1>2 DEF Visited, Crawled
<1> QED BY <1>1, <1>3, <1>4

(* A probed endpoint enters the report.                                    *)
LEMMA ProbeReports ==
  ASSUME CoreInv, AdmitProbed
  PROVE  /\ First \in candidates /\ First[1] \in Endpoints
         /\ First[1] \in Refs \ Devices
         /\ \A o \in candidates : Before(First, o)
         /\ First[1] \notin Visited
         /\ Visited' = Visited \cup {First[1]} /\ Crawled' = Crawled \cup {First[1]}
<1>1. /\ First \in candidates /\ First[1] \in Endpoints
      /\ First[1] \in Refs \ Devices
      /\ \A o \in candidates : Before(First, o)
  BY FirstIsFirst, RefsAreNat DEF CoreInv, TypeInv, TypeOK, AdmitProbed, Refs
<1>2. First[1] \notin Visited
  BY DEF CoreInv, PlaceInv, AdmitProbed
<1>3. job[First[1]].status \in Answers
  BY <1>1 DEF CoreInv, TypeInv, JobInv, AdmitProbed
<1>4. visited' = [visited EXCEPT ![First[1]] = job[First[1]].status]
      /\ visited \in [Refs -> Statuses \cup {"none"}]
  BY DEF CoreInv, TypeInv, TypeOK, AdmitProbed
<1>5. "none" \notin Answers /\ "NOT_PROBED" \notin Answers
  BY DEF Answers, Statuses
<1>6. Visited' = Visited \cup {First[1]} /\ Crawled' = Crawled \cup {First[1]}
  BY <1>1, <1>3, <1>4, <1>5 DEF Visited, Crawled
<1> QED BY <1>1, <1>2, <1>6

LEMMA CoreProbing ==
  ASSUME CoreInv, Probing PROVE PlaceInv' /\ WaveInv'
<1> USE DEF CoreInv
<1>1. CASE CloseWalk
  <2>1. unprobed \cup frontier \subseteq Visited'
    BY <1>1, CloseWalkReports DEF LeftOver
  <2> QED BY <1>1, <2>1 DEF CloseWalk, PlaceInv, WaveInv, UnderWay, WalkPhases,
                            LatePhases
<1>2. CASE RecordKnown \/ RecordRefused
  <2>1. Visited' = Visited
    BY <1>2 DEF RecordKnown, RecordRefused, Visited, walk
  <2> QED BY <1>2, <2>1 DEF RecordKnown, RecordRefused, PlaceInv, WaveInv,
                            UnderWay, WalkPhases, LatePhases, walk
<1>3. CASE Probe
  <2>1. First' = First /\ Visited' = Visited
    BY <1>3 DEF Probe, First, Before, Visited, walk, l3
  <2>2. First[1] \in Refs
    BY <1>3, FirstIsFirst DEF TypeInv, TypeOK, Probe, Refs
  <2>3. \A r \in Refs : UnderWay(r)' => r = First[1]
    BY <1>3, <2>2 DEF TypeInv, TypeOK, Probe, PlaceInv, UnderWay, WalkPhases, LatePhases
  <2> QED BY <1>3, <2>1, <2>3 DEF Probe, PlaceInv, WaveInv, WalkPhases,
                                  LatePhases, walk, l3
<1>4. CASE AdmitProbed
  <2>1. Visited \subseteq Visited'
    BY <1>4, ProbeReports
  <2>2. \A r \in Refs : ~UnderWay(r)'
    BY <1>4 DEF AdmitProbed, PlaceInv, UnderWay, WalkPhases, LatePhases
  <2> QED BY <1>4, <2>1, <2>2 DEF AdmitProbed, PlaceInv, WaveInv, WalkPhases,
                                  LatePhases
<1>5. CASE EndCrawl
  <2>1. Visited' = Visited
    BY <1>5 DEF EndCrawl, Visited, walk
  <2> QED BY <1>5, <2>1 DEF EndCrawl, PlaceInv, WaveInv, UnderWay, WalkPhases,
                            LatePhases, walk, l3
<1> QED BY <1>1, <1>2, <1>3, <1>4, <1>5 DEF Probing

LEMMA CoreStep == CoreInv /\ [Next]_vars => CoreInv'
<1> SUFFICES ASSUME CoreInv, [Next]_vars PROVE CoreInv'
  OBVIOUS
<1>0. TypeInv'
  BY TypeStep DEF CoreInv
<1>1. CASE UNCHANGED vars
  BY <1>0, <1>1 DEF CoreInv, PlaceInv, WaveInv, UnderWay, First, Before, Visited,
                    vars, walk, l3
<1>2. CASE Collection
  BY <1>0, <1>2, CoreCollection DEF CoreInv
<1>3. CASE Walking
  BY <1>0, <1>3, CoreWalking DEF CoreInv
<1>4. CASE Probing
  BY <1>0, <1>4, CoreProbing DEF CoreInv
<1>5. CASE CrawlAgain
  <2>1. Visited' = {}
    BY <1>5 DEF CrawlAgain, Unseen, Visited
  <2>2. \A r \in Refs : ~UnderWay(r)'
    BY <1>5, ConstantJobs DEF CrawlAgain, Undone, UnderWay
  <2> QED BY <1>0, <1>5, <2>1, <2>2 DEF CrawlAgain, CoreInv, PlaceInv, WaveInv,
                                        LatePhases
<1> QED BY <1>1, <1>2, <1>3, <1>4, <1>5 DEF Next

-----------------------------------------------------------------------------
(* Evidence.                                                               *)

(* Also a job that is not admitted yet has an event for each command.      *)
EvidenceInv == \A r \in Refs : \A c \in job[r].got : <<r, c>> \in Range(events)

LEMMA RangeOfAppend ==
  ASSUME NEW S, NEW s \in Seq(S), NEW x \in S
  PROVE  Range(Append(s, x)) = Range(s) \cup {x}
<1>1. /\ DOMAIN Append(s, x) = 1 .. (Len(s) + 1)
      /\ \A i \in 1 .. Len(s) : Append(s, x)[i] = s[i]
      /\ Append(s, x)[Len(s) + 1] = x
      /\ DOMAIN s = 1 .. Len(s) /\ Len(s) \in Nat
  OBVIOUS
<1> QED BY <1>1 DEF Range

LEMMA EvidenceStep ==
  ASSUME TypeInv, EvidenceInv, [Next]_vars PROVE EvidenceInv'
<1>1. CASE UNCHANGED vars
  BY <1>1 DEF EvidenceInv, vars, walk, Range
<1>2. CASE Collection
  <2>1. PICK r \in Refs : OpenSession(r) \/ SessionRefused(r)
             \/ CommandCollected(r) \/ CommandFailed(r) \/ Raise(r)
    BY <1>2 DEF Collection
  <2>2. \A s \in Refs \ {r} : job'[s] = job[s]
    BY <2>1, CollectionKeeps
  <2>3. job[r] \in Job /\ job \in [Refs -> Job] /\ events \in Seq(Refs \X Commands)
        /\ (job[r].at = "open" => NextCommand(r) \in Commands)
    BY NextCommandType DEF TypeInv, TypeOK
  <2>4. \/ events' = events
        \/ /\ job[r].at = "open"
           /\ events' = Append(events, <<r, NextCommand(r)>>)
    BY <2>1 DEF OpenSession, SessionRefused, CommandCollected, CommandFailed, Raise
  <2>5. Range(events) \subseteq Range(events')
    <3>1. CASE job[r].at = "open" /\ events' = Append(events, <<r, NextCommand(r)>>)
      <4>1. <<r, NextCommand(r)>> \in Refs \X Commands
        BY <2>3, <3>1
      <4> QED BY <2>3, <3>1, <4>1, RangeOfAppend
    <3>2. CASE events' = events
      BY <3>2
    <3> QED BY <2>4, <3>1, <3>2
  <2>6. \A c \in job'[r].got : <<r, c>> \in Range(events')
    <3>1. CASE OpenSession(r)
      <4>1. PICK plan \in Plans :
              job' = [job EXCEPT ![r] = Proceed([job[r] EXCEPT !.plan = plan])]
        BY <3>1 DEF OpenSession
      <4>2. [job[r] EXCEPT !.plan = plan] \in Job
            /\ [job[r] EXCEPT !.plan = plan].got = job[r].got
        BY <2>3 DEF Job
      <4>3. job'[r].got = job[r].got
        BY <2>3, <4>1, <4>2, ProceedType
      <4> QED BY <2>5, <4>3 DEF EvidenceInv
    <3>2. CASE SessionRefused(r) \/ Raise(r)
      BY <2>3, <3>2, ConstantJobs DEF SessionRefused, Raise
    <3>3. CASE CommandCollected(r)
      <4>1. NextCommand(r) \in Commands
        BY <2>3, <3>3 DEF CommandCollected
      <4>2. PICK told \in {{}, {NextCommand(r)}} :
              job' = [job EXCEPT ![r] = After(r, {NextCommand(r)}, told)]
        BY <3>3 DEF CommandCollected
      <4>3. told \in SUBSET Commands
        BY <4>1
      <4>a. After(r, {NextCommand(r)}, told).got = job[r].got \cup {NextCommand(r)}
        <5>1. {NextCommand(r)} \in SUBSET Commands
          BY <4>1
        <5> QED BY <2>3, <4>3, <5>1, AfterGot
      <4>4. job'[r].got = job[r].got \cup {NextCommand(r)}
        BY <2>3, <4>2, <4>a
      <4>5. events' = Append(events, <<r, NextCommand(r)>>)
        BY <3>3 DEF CommandCollected
      <4>6. <<r, NextCommand(r)>> \in Range(events')
        BY <2>3, <4>1, <4>5, RangeOfAppend
      <4> QED BY <2>5, <4>4, <4>6 DEF EvidenceInv
    <3>4. CASE CommandFailed(r)
      <4>a. After(r, {}, {}).got = job[r].got
        <5>1. {} \in SUBSET Commands
          OBVIOUS
        <5>2. After(r, {}, {}).got = job[r].got \cup {}
          BY <2>3, <5>1, AfterGot
        <5> QED BY <5>2
      <4>1. job'[r].got = job[r].got
        BY <2>3, <3>4, <4>a DEF CommandFailed
      <4> QED BY <2>5, <4>1 DEF EvidenceInv
    <3> QED BY <2>1, <3>1, <3>2, <3>3, <3>4
  <2>7. \A s \in Refs \ {r} : \A c \in job'[s].got : <<s, c>> \in Range(events')
    BY <2>2, <2>5 DEF EvidenceInv
  <2>8. \A s \in Refs : \A c \in job'[s].got : <<s, c>> \in Range(events')
    BY <2>6, <2>7
  <2>9. Range(events') = Range(events)'
    BY DEF Range
  <2> QED BY <2>8, <2>9 DEF EvidenceInv
<1>3. CASE SelectWave
  BY <1>3, SelectWaveIs, ConstantJobs DEF EvidenceInv, Range
<1>4. CASE Probe
  <2>1. First[1] \in Refs
    BY <1>4, FirstIsFirst DEF TypeInv, TypeOK, Probe, Refs
  <2> QED BY <1>4, <2>1, ConstantJobs DEF TypeInv, TypeOK, Probe, EvidenceInv, Range
<1>5. CASE CrawlAgain
  BY <1>5, ConstantJobs DEF CrawlAgain, Undone, EvidenceInv
<1>6. CASE EndCollection \/ Admit \/ AdmissionFails \/ EndWave \/ CloseWalk
           \/ RecordKnown \/ RecordRefused \/ AdmitProbed \/ EndCrawl
  <2>1. UNCHANGED <<job, events>>
    BY <1>6 DEF EndCollection, Admit, AdmitOne, AdmissionFails, EndWave, CloseWalk,
                RecordKnown, RecordRefused, AdmitProbed, EndCrawl
  <2> QED BY <2>1 DEF EvidenceInv, Range
<1> QED BY <1>1, <1>2, <1>3, <1>4, <1>5, <1>6 DEF Next, Walking, Probing

(* Whatever the threads do, and whatever raises, the claims of a device    *)
(* rest on a signed event for each command that was collected from it.     *)
THEOREM AdmittedIsSigned == Spec => []EvidenceIsSigned
<1>1. Init => TypeInv /\ EvidenceInv
  BY TypeInit, ConstantJobs DEF Init, Undone, EvidenceInv
<1>2. TypeInv /\ EvidenceInv /\ [Next]_vars => TypeInv' /\ EvidenceInv'
  BY TypeStep, EvidenceStep
<1>3. TypeInv /\ EvidenceInv => EvidenceIsSigned
  <2> SUFFICES ASSUME TypeInv, EvidenceInv PROVE EvidenceIsSigned
    OBVIOUS
  <2>1. Range(admitted) \subseteq Refs
    BY DEF TypeInv, TypeOK, Range
  <2> QED BY <2>1 DEF EvidenceInv, EvidenceIsSigned
<1> QED BY <1>1, <1>2, <1>3, PTL DEF Spec

-----------------------------------------------------------------------------
(* What is reported.                                                       *)

(* During the walk a device that was named is in the report or is kept in  *)
(* one of the sets the crawl still goes through; afterwards it is in the   *)
(* report. An address no table explains is a candidate until it is         *)
(* recorded.                                                               *)
Kept == Visited \cup batch \cup frontier \cup following \cup unprobed
ReportInv ==
  /\ pc \in WalkPhases => \A d \in Tables : Neighbours[d] \subseteq Kept
  /\ pc \in LatePhases =>
       /\ \A d \in Tables : Neighbours[d] \subseteq Visited
       /\ \A d \in Devices \cap Crawled : "hosts" \in job[d].told =>
            \A e \in Hosts[d] \ Explained : <<e, d>> \in recorded \cup candidates
  /\ pc = "done" => candidates = {}

LEMMA ReportCollection ==
  ASSUME CoreInv, ReportInv, Collection PROVE ReportInv'
<1>1. PICK r \in Refs : OpenSession(r) \/ SessionRefused(r)
           \/ CommandCollected(r) \/ CommandFailed(r) \/ Raise(r)
  BY DEF Collection
<1>2. /\ UNCHANGED <<args, walk, twin, l3, crawls, admitted>>
      /\ pc' \in {pc, "raised"} /\ UnderWay(r)
      /\ \A s \in Refs \ {r} : job'[s] = job[s]
  BY <1>1, CollectionKeeps DEF CoreInv
<1>3. /\ Visited' = Visited /\ Crawled' = Crawled /\ Tables' = Tables
      /\ Explained' = Explained /\ Kept' = Kept
  BY <1>2 DEF Visited, Crawled, Tables, Explained, Kept, walk
<1>4. CASE pc' = "raised"
  BY <1>4 DEF ReportInv, WalkPhases, LatePhases
<1>5. CASE pc' = pc /\ pc \in WalkPhases
  BY <1>3, <1>5 DEF ReportInv, WalkPhases, LatePhases
<1>6. CASE pc' = pc /\ pc \in LatePhases
  <2>1. pc = "probe" /\ r = First[1] /\ candidates # {}
    BY <1>2, <1>6 DEF CoreInv, PlaceInv, WalkPhases, LatePhases
  <2>2. r \notin Devices
    BY <2>1, FirstIsFirst, RefsAreNat DEF CoreInv, TypeInv, TypeOK
  <2>3. \A d \in Devices : job'[d] = job[d]
    BY <1>2, <2>2 DEF Refs
  <2> QED BY <1>2, <1>3, <1>6, <2>1, <2>3 DEF ReportInv, l3, WalkPhases
<1>7. CASE pc' = pc /\ pc \in {"failed"}
  BY <1>7 DEF ReportInv, WalkPhases, LatePhases
<1> QED BY <1>2, <1>4, <1>5, <1>6, <1>7
        DEF CoreInv, TypeInv, TypeOK, WalkPhases, LatePhases

LEMMA ReportWalking ==
  ASSUME CoreInv, ReportInv, Walking PROVE ReportInv'
<1> USE DEF CoreInv
<1>1. CASE SelectWave
  <2>1. Tables' = Tables
    BY <1>1, SelectWaveIs DEF Tables, Crawled
  <2>2. Kept \subseteq Kept'
    <3>1. /\ Visited' = Visited /\ batch = {} /\ frontier' = frontier
          /\ following' = following /\ unprobed \subseteq unprobed'
      BY <1>1, SelectWaveIs DEF WaveInv
    <3> QED BY <3>1 DEF Kept
  <2> QED BY <1>1, <2>1, <2>2, SelectWaveIs DEF ReportInv, WalkPhases, LatePhases
<1>2. CASE EndCollection
  <2>1. Tables' = Tables /\ Kept' = Kept
    BY <1>2 DEF EndCollection, Tables, Crawled, Visited, Kept, walk
  <2> QED BY <1>2, <2>1 DEF EndCollection, ReportInv, WalkPhases, LatePhases
<1>3. CASE Admit
  <2> DEFINE d == Least(batch)
  <2>1. d \in batch /\ d \in Refs /\ d \in Devices /\ AdmitOne(d)
    BY <1>3, AdmitIs
  <2> HIDE DEF d
  <2>2. Visited' = Visited \cup {d} /\ Crawled' = Crawled \cup {d}
    BY <2>1, AdmitReports
  <2>3. /\ pc = "admit" /\ pc' = pc /\ batch' = batch \ {d}
        /\ UNCHANGED <<frontier, unprobed>>
        /\ twin \subseteq twin' /\ twin' \subseteq twin \cup {d}
    BY <2>1 DEF AdmitOne, AdmitEvidence
  <2>4. following \subseteq following'
    BY <2>1 DEF AdmitOne, EnqueueNeighbours
  <2>5. Kept \subseteq Kept'
    BY <2>2, <2>3, <2>4 DEF Kept
  <2>6. Tables' \subseteq Tables \cup {d}
    BY <2>2, <2>3 DEF Tables
  <2>7. d \in Tables' => Neighbours[d] \subseteq Kept'
    <3> SUFFICES ASSUME d \in Tables', NEW n \in Neighbours[d], n \notin Visited'
                 PROVE  n \in following'
      BY DEF Kept
    <3>1. n \in Refs /\ d \in twin'
      BY <2>1, FabricAssumption DEF Refs, Tables
    <3>2. visited'[n] = "none"
      BY <3>1 DEF Visited
    <3> QED BY <2>1, <3>1, <3>2 DEF AdmitOne, EnqueueNeighbours
  <2> QED BY <2>3, <2>5, <2>6, <2>7 DEF ReportInv, WalkPhases, LatePhases
<1>4. CASE AdmissionFails
  BY <1>4 DEF AdmissionFails, ReportInv, WalkPhases, LatePhases
<1>5. CASE EndWave
  <2>1. Tables' = Tables /\ Visited' = Visited
    BY <1>5 DEF EndWave, Tables, Crawled, Visited
  <2>2. Kept \subseteq Kept'
    BY <1>5, <2>1 DEF EndWave, Kept, WaveInv
  <2> QED BY <1>5, <2>1, <2>2 DEF EndWave, ReportInv, WalkPhases, LatePhases
<1> QED BY <1>1, <1>2, <1>3, <1>4, <1>5 DEF Walking

LEMMA ReportProbing ==
  ASSUME CoreInv, ReportInv, Probing PROVE ReportInv'
<1> USE DEF CoreInv
<1>1. CASE CloseWalk
  <2>1. /\ Visited' = Visited \cup LeftOver /\ Crawled' = Crawled
        /\ Tables' = Tables /\ Explained' = Explained
    BY <1>1, CloseWalkReports DEF CloseWalk, Tables, Explained
  <2>2. Kept \subseteq Visited'
    BY <1>1, <2>1 DEF CloseWalk, Kept, LeftOver, WaveInv, LatePhases
  <2>3. pc \in WalkPhases /\ pc' = "l3" /\ job' = job
        /\ candidates' = {c \in Endpoints \X (Devices \cap Crawled) :
                      /\ "hosts" \in job[c[2]].told
                      /\ c[1] \in Hosts[c[2]] \ Explained}
    BY <1>1 DEF CloseWalk, WalkPhases
  <2>4. ASSUME NEW d \in Devices \cap Crawled, "hosts" \in job[d].told,
               NEW e \in Hosts[d] \ Explained
        PROVE  <<e, d>> \in candidates'
    BY <2>3, <2>4, FabricAssumption
  <2> QED BY <2>1, <2>2, <2>3, <2>4 DEF ReportInv, WalkPhases
<1>2. CASE RecordKnown \/ RecordRefused
  <2>1. /\ Visited' = Visited /\ Crawled' = Crawled /\ Tables' = Tables
        /\ Explained' = Explained /\ job' = job /\ pc' = "l3" /\ pc = "l3"
    BY <1>2 DEF RecordKnown, RecordRefused, Visited, Crawled, Tables, Explained, walk
  <2>2. recorded \cup candidates \subseteq recorded' \cup candidates'
    BY <1>2 DEF RecordKnown, RecordRefused, Record
  <2> QED BY <2>1, <2>2 DEF ReportInv, WalkPhases, LatePhases
<1>3. CASE Probe
  <2>1. First[1] \notin Devices
    BY <1>3, FirstIsFirst, RefsAreNat DEF Probe, TypeInv, TypeOK
  <2>2. \A d \in Devices : job'[d] = job[d]
    BY <1>3, <2>1 DEF Probe, TypeInv, TypeOK, Refs
  <2>3. /\ Visited' = Visited /\ Crawled' = Crawled /\ Tables' = Tables
        /\ Explained' = Explained
    BY <1>3 DEF Probe, Visited, Crawled, Tables, Explained, walk
  <2> QED BY <1>3, <2>2, <2>3 DEF Probe, ReportInv, WalkPhases, LatePhases, l3
<1>4. CASE AdmitProbed
  <2>1. /\ First[1] \notin Devices /\ Visited' = Visited \cup {First[1]}
        /\ Crawled' = Crawled \cup {First[1]}
    BY <1>4, ProbeReports
  <2>2. Devices \cap Crawled' = Devices \cap Crawled
    BY <2>1
  <2>3. Tables' = Tables /\ Explained' = Explained
    BY <1>4, <2>1, <2>2 DEF AdmitProbed, AdmitEvidence, Tables, Explained
  <2>4. recorded \cup candidates \subseteq recorded' \cup candidates'
    BY <1>4 DEF AdmitProbed, Record
  <2>5. pc = "probe" /\ pc' = "l3" /\ job' = job
    BY <1>4 DEF AdmitProbed
  <2> QED BY <2>1, <2>2, <2>3, <2>4, <2>5 DEF ReportInv, WalkPhases, LatePhases
<1>5. CASE EndCrawl
  <2>1. /\ Visited' = Visited /\ Crawled' = Crawled /\ Tables' = Tables
        /\ Explained' = Explained
    BY <1>5 DEF EndCrawl, Visited, Crawled, Tables, Explained, walk
  <2> QED BY <1>5, <2>1 DEF EndCrawl, ReportInv, WalkPhases, LatePhases, l3
<1> QED BY <1>1, <1>2, <1>3, <1>4, <1>5 DEF Probing

LEMMA ReportStep ==
  ASSUME CoreInv, ReportInv, [Next]_vars PROVE ReportInv'
<1>1. CASE UNCHANGED vars
  <2>1. /\ Visited' = Visited /\ Crawled' = Crawled /\ Tables' = Tables
        /\ Explained' = Explained /\ Kept' = Kept
    BY <1>1 DEF vars, walk, Visited, Crawled, Tables, Explained, Kept
  <2> QED BY <1>1, <2>1 DEF vars, l3, ReportInv
<1>2. CASE CrawlAgain
  <2>1. Crawled' = {}
    BY <1>2 DEF CrawlAgain, Unseen, Crawled
  <2> QED BY <1>2, <2>1 DEF CrawlAgain, ReportInv, Tables, LatePhases
<1> QED BY <1>1, <1>2, ReportCollection, ReportWalking, ReportProbing DEF Next

(* Whatever the budgets, the answers of the devices and the order of the   *)
(* threads, a crawl that is done left out no device a neighbour table      *)
(* names, and no address that table leaves unexplained.                    *)
THEOREM NothingIsOmitted == Spec => []NamedIsReported
<1>1. Init => CoreInv /\ ReportInv
  <2>1. Init => Crawled = {}
    BY DEF Init, Unseen, Crawled
  <2> QED BY <2>1, CoreInit DEF Init, ReportInv, Tables, LatePhases
<1>2. CoreInv /\ ReportInv /\ [Next]_vars => CoreInv' /\ ReportInv'
  BY CoreStep, ReportStep
<1>3. CoreInv /\ ReportInv => NamedIsReported
  BY DEF ReportInv, NamedIsReported, LatePhases
<1> QED BY <1>1, <1>2, <1>3, PTL DEF Spec

-----------------------------------------------------------------------------
(* The order of the evidence.                                              *)

(* What was admitted during the walk is of an earlier wave, or of this one *)
(* and before everything that is still to be admitted; afterwards, what    *)
(* was admitted of an endpoint is of one before every candidate.           *)
OrderInv ==
  /\ AdmittedInOrder
  /\ pc \in WalkPhases \cup LatePhases => Range(admitted) \subseteq Visited
  /\ pc \in WalkPhases =>
       \A r \in Range(admitted) :
         \/ depth[r] < wave
         \/ pc = "admit" /\ depth[r] = wave /\ \A b \in batch : r < b
  /\ pc \in LatePhases =>
       \A r \in Range(admitted) \cap Endpoints : \A c \in candidates : r <= c[1]

(* The order stays as it is when the depth of what was admitted does.      *)
LEMMA OrderKept ==
  ASSUME AdmittedInOrder, admitted' = admitted,
         \A r \in Range(admitted) : depth'[r] = depth[r]
  PROVE  AdmittedInOrder'
<1> SUFFICES ASSUME NEW i \in DOMAIN admitted, NEW j \in DOMAIN admitted, i < j
             PROVE  InOrder(admitted[i], admitted[j])'
  BY DEF AdmittedInOrder
<1>1. InOrder(admitted[i], admitted[j])
  BY DEF AdmittedInOrder
<1>2. admitted[i] \in Range(admitted) /\ admitted[j] \in Range(admitted)
  BY DEF Range
<1> QED BY <1>1, <1>2 DEF InOrder

(* Appending what comes after everything keeps the order.                  *)
LEMMA OrderExtended ==
  ASSUME AdmittedInOrder, admitted \in Seq(Refs), NEW r \in Refs,
         admitted' = Append(admitted, r), depth' = depth,
         \A s \in Range(admitted) : InOrder(s, r)
  PROVE  AdmittedInOrder'
<1> SUFFICES ASSUME NEW i \in DOMAIN admitted', NEW j \in DOMAIN admitted', i < j
             PROVE  InOrder(admitted[i], admitted[j])'
  BY DEF AdmittedInOrder
<1>1. /\ DOMAIN admitted' = 1 .. (Len(admitted) + 1) /\ Len(admitted) \in Nat
      /\ DOMAIN admitted = 1 .. Len(admitted)
      /\ \A k \in 1 .. Len(admitted) : admitted'[k] = admitted[k]
      /\ admitted'[Len(admitted) + 1] = r
  OBVIOUS
<1>2. i \in DOMAIN admitted /\ admitted'[i] = admitted[i]
  BY <1>1
<1>3. CASE j \in DOMAIN admitted
  <2>1. InOrder(admitted[i], admitted[j]) /\ admitted'[j] = admitted[j]
    BY <1>1, <1>2, <1>3 DEF AdmittedInOrder
  <2> QED BY <1>2, <2>1 DEF InOrder
<1>4. CASE j = Len(admitted) + 1
  <2>1. admitted'[j] = r
    BY <1>1, <1>4
  <2>2. InOrder(admitted[i], r)
    BY <1>2 DEF Range
  <2> QED BY <1>2, <2>1, <2>2 DEF InOrder
<1> QED BY <1>1, <1>3, <1>4

(* Admitting evidence appends the reference, or nothing.                   *)
LEMMA AdmittedGrows ==
  ASSUME TypeInv, NEW r \in Refs, AdmitEvidence(r)
  PROVE  /\ admitted \in Seq(Refs)
         /\ admitted' \in {admitted, Append(admitted, r)}
         /\ Range(admitted)' \subseteq Range(admitted) \cup {r}
<1>1. admitted \in Seq(Refs) /\ admitted' \in {admitted, Append(admitted, r)}
  BY DEF TypeInv, TypeOK, AdmitEvidence
<1>2. Range(admitted)' = Range(admitted')
  BY DEF Range
<1>3. Range(Append(admitted, r)) = Range(admitted) \cup {r}
  BY <1>1, RangeOfAppend
<1> QED BY <1>1, <1>2, <1>3

LEMMA AdmittedRefs == ASSUME TypeInv PROVE Range(admitted) \subseteq Refs
BY DEF TypeInv, TypeOK, Range

LEMMA OrderWalking ==
  ASSUME CoreInv, OrderInv, Walking PROVE OrderInv'
<1> USE DEF CoreInv
<1>0. Range(admitted) \subseteq Refs
  BY AdmittedRefs
<1>1. CASE SelectWave
  <2>1. Range(admitted) \cap batch' = {} /\ Range(admitted)' = Range(admitted)
    BY <1>1, SelectWaveIs DEF OrderInv, WalkPhases, Range
  <2>2. \A r \in Range(admitted) : depth'[r] = depth[r]
    BY <1>0, <1>1, <2>1, SelectWaveIs
  <2>3. AdmittedInOrder'
    BY <1>1, <2>2, SelectWaveIs, OrderKept DEF OrderInv
  <2>4. \A r \in Range(admitted) : depth[r] < wave
    BY <1>1, SelectWaveIs DEF OrderInv, WalkPhases
  <2> QED BY <1>1, <2>1, <2>2, <2>3, <2>4, SelectWaveIs
          DEF OrderInv, WalkPhases, LatePhases
<1>2. CASE EndCollection
  <2>1. /\ Range(admitted)' = Range(admitted) /\ Visited' = Visited
        /\ AdmittedInOrder'
    BY <1>2, OrderKept DEF EndCollection, Range, Visited, walk, OrderInv
  <2> QED BY <1>2, <2>1 DEF EndCollection, OrderInv, WalkPhases, LatePhases, walk
<1>3. CASE Admit
  <2> DEFINE d == Least(batch)
  <2>1. /\ d \in batch /\ d \in Refs /\ d \in Devices /\ AdmitOne(d)
        /\ \A e \in batch : d <= e
    BY <1>3, AdmitIs
  <2> HIDE DEF d
  <2>2. Visited' = Visited \cup {d}
    BY <2>1, AdmitReports
  <2>3. /\ pc = "admit" /\ pc' = pc /\ batch' = batch \ {d}
        /\ AdmitEvidence(d) /\ depth' = depth /\ wave' = wave
    BY <2>1 DEF AdmitOne
  <2>4. /\ admitted \in Seq(Refs)
        /\ admitted' \in {admitted, Append(admitted, d)}
        /\ Range(admitted)' \subseteq Range(admitted) \cup {d}
    BY <2>1, <2>3, AdmittedGrows
  <2>5. /\ depth[d] = wave /\ Range(admitted) \subseteq Visited
        /\ Visited \subseteq Devices
        /\ \A r \in Range(admitted) :
             depth[r] < wave \/ (depth[r] = wave /\ \A b \in batch : r < b)
    BY <2>1, <2>3 DEF OrderInv, WaveInv, WalkPhases
  <2>6. \A r \in Range(admitted) : InOrder(r, d)
    BY <2>1, <2>5 DEF InOrder
  <2>7. AdmittedInOrder'
    <3>1. CASE admitted' = admitted
      BY <2>3, <3>1, OrderKept DEF OrderInv
    <3>2. CASE admitted' = Append(admitted, d)
      BY <2>1, <2>3, <2>4, <2>6, <3>2, OrderExtended DEF OrderInv
    <3> QED BY <2>4, <3>1, <3>2
  <2>8. \A b \in batch' : d < b
    <3>1. batch \subseteq Nat /\ d \in Nat
      BY <2>1, RefsAreNat DEF TypeInv, TypeOK, Refs
    <3> QED BY <2>1, <2>3, <3>1
  <2>9. \A r \in Range(admitted)' :
          depth[r] < wave \/ (depth[r] = wave /\ \A b \in batch' : r < b)
    BY <2>3, <2>4, <2>5, <2>8
  <2> QED BY <2>2, <2>3, <2>4, <2>5, <2>7, <2>9 DEF OrderInv, WalkPhases, LatePhases
<1>4. CASE AdmissionFails
  <2>1. AdmittedInOrder'
    BY <1>4, OrderKept DEF AdmissionFails, OrderInv, walk
  <2> QED BY <1>4, <2>1 DEF AdmissionFails, OrderInv, WalkPhases, LatePhases
<1>5. CASE EndWave
  <2>1. /\ Range(admitted)' = Range(admitted) /\ Visited' = Visited
        /\ AdmittedInOrder'
    BY <1>5, OrderKept DEF EndWave, Range, Visited, OrderInv
  <2>2. \A r \in Range(admitted) : depth[r] \in Nat /\ wave \in Nat
    BY <1>0 DEF TypeInv, TypeOK
  <2>3. \A r \in Range(admitted) : depth[r] < wave + 1
    BY <1>5, <2>2 DEF EndWave, OrderInv, WalkPhases
  <2> QED BY <1>5, <2>1, <2>3 DEF EndWave, OrderInv, WalkPhases, LatePhases
<1> QED BY <1>1, <1>2, <1>3, <1>4, <1>5 DEF Walking

LEMMA OrderProbing ==
  ASSUME CoreInv, OrderInv, Probing PROVE OrderInv'
<1> USE DEF CoreInv
<1>0. Range(admitted) \subseteq Refs
  BY AdmittedRefs
<1>1. CASE CloseWalk
  <2>1. /\ Visited' = Visited \cup LeftOver /\ Range(admitted)' = Range(admitted)
        /\ AdmittedInOrder'
    BY <1>1, CloseWalkReports, OrderKept DEF CloseWalk, Range, OrderInv
  <2>2. Range(admitted) \subseteq Visited /\ Visited \cap Endpoints = {}
    BY <1>1, RefsAreNat DEF CloseWalk, OrderInv, WaveInv, WalkPhases
  <2> QED BY <1>1, <2>1, <2>2 DEF CloseWalk, OrderInv, WalkPhases, LatePhases
<1>2. CASE RecordKnown \/ RecordRefused \/ Probe \/ EndCrawl
  <2>1. /\ Visited' = Visited /\ Range(admitted)' = Range(admitted)
        /\ AdmittedInOrder'
    BY <1>2, OrderKept DEF RecordKnown, RecordRefused, Probe, EndCrawl, Visited,
                           Range, OrderInv, walk
  <2>2. /\ candidates' \subseteq candidates
        /\ pc \in LatePhases /\ pc' \in LatePhases /\ pc' \notin WalkPhases
    BY <1>2 DEF RecordKnown, RecordRefused, Probe, EndCrawl, Record, LatePhases,
                WalkPhases, l3
  <2> QED BY <2>1, <2>2 DEF OrderInv
<1>3. CASE AdmitProbed
  <2>1. /\ First \in candidates /\ First[1] \in Endpoints
        /\ First[1] \in Refs \ Devices
        /\ \A o \in candidates : Before(First, o)
        /\ First[1] \notin Visited
        /\ Visited' = Visited \cup {First[1]}
    BY <1>3, ProbeReports
  <2> DEFINE e == First[1]
  <2>2. /\ pc = "probe" /\ pc' = "l3" /\ AdmitEvidence(e) /\ depth' = depth
        /\ candidates' = candidates \ {First}
    BY <1>3 DEF AdmitProbed, Record
  <2>3. /\ admitted \in Seq(Refs)
        /\ admitted' \in {admitted, Append(admitted, e)}
        /\ Range(admitted)' \subseteq Range(admitted) \cup {e}
    BY <2>1, <2>2, AdmittedGrows
  <2>4. /\ Range(admitted) \subseteq Visited
        /\ \A r \in Range(admitted) \cap Endpoints :
             \A c \in candidates : r <= c[1]
    BY <2>2 DEF OrderInv, LatePhases
  <2>5. \A r \in Range(admitted) : InOrder(r, e)
    <3> SUFFICES ASSUME NEW r \in Range(admitted), r \in Endpoints PROVE r < e
      BY <1>0, <2>1 DEF InOrder, Refs
    <3>1. r <= e /\ r # e /\ r \in Nat /\ e \in Nat
      BY <1>0, <2>1, <2>4, RefsAreNat DEF Refs
    <3> QED BY <3>1
  <2>6. AdmittedInOrder'
    <3>1. CASE admitted' = admitted
      BY <2>2, <3>1, OrderKept DEF OrderInv
    <3>2. CASE admitted' = Append(admitted, e)
      <4>1. e \in Refs /\ AdmittedInOrder
        BY <2>1 DEF OrderInv
      <4> HIDE DEF e
      <4> QED BY <2>2, <2>3, <2>5, <3>2, <4>1, OrderExtended
    <3> QED BY <2>3, <3>1, <3>2
  <2>7. \A c \in candidates' : e <= c[1]
    <3> SUFFICES ASSUME NEW c \in candidates PROVE e <= c[1]
      BY <2>2
    <3>1. Before(First, c) /\ e \in Nat
      BY <2>1, RefsAreNat
    <3>2. c[1] \in Nat
      BY RefsAreNat DEF TypeInv, TypeOK, Refs
    <3> QED BY <3>1, <3>2 DEF Before
  <2> HIDE DEF e
  <2>8. \A r \in Range(admitted)' \cap Endpoints : \A c \in candidates' : r <= c[1]
    BY <2>2, <2>3, <2>4, <2>7
  <2>9. Range(admitted)' \subseteq Visited'
    BY <2>1, <2>3, <2>4 DEF e
  <2> QED BY <2>2, <2>6, <2>8, <2>9 DEF OrderInv, WalkPhases, LatePhases
<1> QED BY <1>1, <1>2, <1>3 DEF Probing

LEMMA OrderStep ==
  ASSUME CoreInv, OrderInv, [Next]_vars PROVE OrderInv'
<1>1. CASE UNCHANGED vars
  <2>1. /\ Visited' = Visited /\ Range(admitted)' = Range(admitted)
        /\ AdmittedInOrder'
    BY <1>1, OrderKept DEF vars, walk, Visited, Range, OrderInv
  <2> QED BY <1>1, <2>1 DEF vars, walk, l3, OrderInv
<1>2. CASE Collection
  <2>1. UNCHANGED <<walk, l3, admitted>> /\ pc' \in {pc, "raised"}
    BY <1>2, CollectionKeeps DEF Collection, CoreInv
  <2>2. /\ Visited' = Visited /\ Range(admitted)' = Range(admitted)
        /\ AdmittedInOrder'
    BY <2>1, OrderKept DEF walk, Visited, Range, OrderInv
  <2>3. UNCHANGED <<wave, depth, batch, candidates>>
    BY <2>1 DEF walk, l3
  <2>4. CASE pc' = "raised"
    BY <2>2, <2>4 DEF OrderInv, WalkPhases, LatePhases
  <2>5. CASE pc' = pc
    BY <2>2, <2>3, <2>5 DEF OrderInv
  <2> QED BY <2>1, <2>4, <2>5
<1>3. CASE CrawlAgain
  <2>1. DOMAIN admitted' = {} /\ Range(admitted)' = {}
    BY <1>3 DEF CrawlAgain, Range
  <2> QED BY <1>3, <2>1 DEF OrderInv, AdmittedInOrder
<1> QED BY <1>1, <1>2, <1>3, OrderWalking, OrderProbing DEF Next

(* The evidence of a crawl has one order, whatever the number of worker    *)
(* threads and whichever of them is first: wave by wave, in each wave by   *)
(* reference, and the probed endpoints after all devices.                  *)
THEOREM OneOrderOfEvidence == Spec => []AdmittedInOrder
<1>1. Init => CoreInv /\ OrderInv
  <2>1. Init => DOMAIN admitted = {} /\ Range(admitted) = {}
    BY DEF Init, Range
  <2> QED BY <2>1, CoreInit DEF OrderInv, AdmittedInOrder
<1>2. CoreInv /\ OrderInv /\ [Next]_vars => CoreInv' /\ OrderInv'
  BY CoreStep, OrderStep
<1>3. OrderInv => AdmittedInOrder
  BY DEF OrderInv
<1> QED BY <1>1, <1>2, <1>3, PTL DEF Spec

-----------------------------------------------------------------------------
(* The sessions that are open.                                             *)

(* A wave has at most as many sessions open as its pool has threads, and   *)
(* an exception that leaves the crawl leaves none.                         *)
SessionInv ==
  /\ pc = "collect" => Cardinality(Running) <= Width
  /\ pc = "raised" => Running = {}

LEMMA RunningFinite ==
  ASSUME TypeInv
  PROVE  /\ IsFiniteSet(Running) /\ Cardinality(Running) \in Nat
         /\ IsFiniteSet(batch) /\ Cardinality(batch) \in Nat
         /\ Width \in Nat /\ Width <= args.workers /\ args.workers \in Nat \ {0}
         /\ (~Parallel => Width <= 1)
<1>1. IsFiniteSet(Refs)
  BY DevicesAssumption, FS_Union DEF Refs
<1>2. Running \in SUBSET Refs /\ batch \in SUBSET Devices
  BY DEF Running, TypeInv, TypeOK
<1>3. IsFiniteSet(Running) /\ IsFiniteSet(batch)
  BY <1>1, <1>2, FS_Subset, DevicesAssumption
<1>4. Cardinality(Running) \in Nat /\ Cardinality(batch) \in Nat
  BY <1>3, FS_CardinalityType
<1>5. args.workers \in Nat \ {0}
  BY CallsAssumption DEF TypeInv, TypeOK
<1>6. Width \in Nat /\ Width <= args.workers /\ (~Parallel => Width <= 1)
  BY <1>4, <1>5 DEF Width, Parallel
<1> QED BY <1>3, <1>4, <1>5, <1>6

(* A job that goes on keeps its session, and one that starts takes one     *)
(* only when there is a thread for it.                                     *)
LEMMA SessionTaken ==
  ASSUME CoreInv, SessionInv, pc = "collect", NEW r \in Refs,
         OpenSession(r) \/ SessionRefused(r) \/ CommandCollected(r)
           \/ CommandFailed(r) \/ Raise(r)
  PROVE  Cardinality(Running \cup {r}) <= Width
<1>1. IsFiniteSet(Running) /\ Cardinality(Running) \in Nat /\ Width \in Nat
  BY RunningFinite DEF CoreInv
<1>2. CASE r \in Running
  <2>1. Running \cup {r} = Running
    BY <1>2
  <2> QED BY <2>1 DEF SessionInv
<1>3. CASE r \notin Running
  <2>1. MayStart(r)
    BY <1>3 DEF Running, OpenSession, SessionRefused, CommandCollected,
                CommandFailed, Raise
  <2>2. Cardinality(Running) < Width
    BY <2>1 DEF MayStart
  <2>3. Cardinality(Running \cup {r}) = Cardinality(Running) + 1
    BY <1>1, <1>3, FS_AddElement
  <2> QED BY <1>1, <2>2, <2>3
<1> QED BY <1>2, <1>3

LEMMA SessionStep ==
  ASSUME CoreInv, SessionInv, [Next]_vars PROVE SessionInv'
<1>1. CASE UNCHANGED vars
  BY <1>1 DEF vars, walk, SessionInv, Running, Width
<1>2. CASE Collection
  <2>1. PICK r \in Refs : OpenSession(r) \/ SessionRefused(r)
           \/ CommandCollected(r) \/ CommandFailed(r) \/ Raise(r)
    BY <1>2 DEF Collection
  <2>2. /\ UNCHANGED <<args, walk, twin, l3, crawls, admitted>>
        /\ pc' \in {pc, "raised"} /\ UnderWay(r)
        /\ \A s \in Refs \ {r} : job'[s] = job[s]
        /\ job'[r].at \in {"open", "ended"}
    BY <2>1, CollectionKeeps DEF CoreInv
  <2>3. Running' \subseteq Running \cup {r} /\ Width' = Width
    BY <2>2 DEF Running, Width, walk
  <2>4. IsFiniteSet(Running \cup {r}) /\ Cardinality(Running') <= Cardinality(Running \cup {r})
        /\ Cardinality(Running') \in Nat /\ Cardinality(Running \cup {r}) \in Nat
    <3>1. IsFiniteSet(Running \cup {r})
      BY RunningFinite, FS_AddElement DEF CoreInv
    <3>2. IsFiniteSet(Running') /\ Cardinality(Running') <= Cardinality(Running \cup {r})
      BY <2>3, <3>1, FS_Subset
    <3> QED BY <3>1, <3>2, FS_CardinalityType
  <2>5. Width \in Nat
    BY RunningFinite DEF CoreInv
  <2>6. CASE pc' = pc /\ pc = "collect"
    <3>1. Cardinality(Running \cup {r}) <= Width
      BY <2>1, <2>6, SessionTaken
    <3>2. Cardinality(Running') <= Width'
      BY <2>3, <2>4, <2>5, <3>1
    <3>3. Cardinality(Running)' = Cardinality(Running')
      OBVIOUS
    <3> QED BY <2>6, <3>2, <3>3 DEF SessionInv
  <2>7. CASE pc' = pc /\ pc # "collect" /\ pc # "raised"
    BY <2>7 DEF SessionInv
  <2>8. CASE pc = "raised"
    <3>1. job[r].at = "open" \/ MayStart(r)
      BY <2>1 DEF OpenSession, SessionRefused, CommandCollected, CommandFailed, Raise
    <3>2. r \notin Running /\ ~MayStart(r)
      BY <2>8 DEF SessionInv, MayStart
    <3> QED BY <3>1, <3>2 DEF Running
  <2>9. CASE pc' = "raised" /\ pc # "raised"
    <3>1. Raise(r)
      BY <2>1, <2>9 DEF OpenSession, SessionRefused, CommandCollected, CommandFailed
    <3>2. job' = [job EXCEPT ![r] = Unreachable] /\ ~(pc = "collect" /\ Parallel)
      BY <2>9, <3>1 DEF Raise
    <3>3. r \notin Running' /\ Running' \subseteq Running
      <4>1. job'[r] = Unreachable
        BY <3>2 DEF CoreInv, TypeInv, TypeOK
      <4>2. r \notin Running'
        BY <4>1, ConstantJobs DEF Running
      <4> QED BY <2>3, <4>2
    <3>4. Running \subseteq {r}
      <4>1. CASE pc = "collect"
        <5>1. Cardinality(Running \cup {r}) <= 1
          <6>1. Cardinality(Running \cup {r}) <= Width /\ Width <= 1
            BY <2>1, <3>2, <4>1, SessionTaken, RunningFinite DEF CoreInv
          <6> QED BY <2>4, <2>5, <6>1
        <5>2. Cardinality({r}) = 1 /\ IsFiniteSet({r})
          BY FS_Singleton
        <5>3. {r} \in SUBSET (Running \cup {r})
          OBVIOUS
        <5>4. Cardinality({r}) <= Cardinality(Running \cup {r})
              /\ (Cardinality(Running \cup {r}) = Cardinality({r}) =>
                    Running \cup {r} = {r})
          BY <2>4, <5>3, FS_Subset
        <5>5. Cardinality(Running \cup {r}) = Cardinality({r})
          BY <2>4, <5>1, <5>2, <5>4
        <5> QED BY <5>4, <5>5
      <4>2. CASE pc # "collect"
        <5>1. pc \in WalkPhases \cup LatePhases \cup {"failed"}
          BY <2>9 DEF CoreInv, TypeInv, TypeOK, WalkPhases, LatePhases
        <5>2. r = First[1] /\ \A s \in Refs : UnderWay(s) => s = First[1]
          BY <2>2, <4>2, <5>1 DEF CoreInv, PlaceInv
        <5> QED BY <5>2 DEF Running, UnderWay
      <4> QED BY <4>1, <4>2
    <3>5. Running' = {}
      BY <3>3, <3>4
    <3> QED BY <2>9, <3>5 DEF SessionInv
  <2> QED BY <2>2, <2>6, <2>7, <2>8, <2>9
<1>3. CASE SelectWave
  <2>1. Running' = {}
    <3>1. Running = {}
      BY <1>3, SelectWaveIs DEF CoreInv, PlaceInv, Running, UnderWay, WalkPhases
    <3>2. \A s \in Refs : job'[s].at # "open"
      BY <1>3, <3>1, SelectWaveIs, ConstantJobs DEF Running
    <3> QED BY <3>2 DEF Running
  <2>2. Cardinality(Running)' = 0
    BY <2>1, FS_EmptySet
  <2>3. Width' \in Nat
    <3>1. batch' \in SUBSET Devices /\ args' = args
      BY <1>3, SelectWaveIs DEF CoreInv, TypeInv, TypeOK
    <3>2. Cardinality(batch') \in Nat
      BY <3>1, FS_Subset, FS_CardinalityType, DevicesAssumption
    <3> QED BY <3>1, <3>2, RunningFinite DEF CoreInv, Width
  <2> QED BY <1>3, <2>2, <2>3, SelectWaveIs DEF SessionInv
<1>4. CASE EndCollection \/ Admit \/ AdmissionFails \/ EndWave \/ Probing \/ CrawlAgain
  BY <1>4 DEF EndCollection, Admit, AdmitOne, AdmissionFails, EndWave, Probing,
              CloseWalk, RecordKnown, RecordRefused, Probe, AdmitProbed, EndCrawl,
              CrawlAgain, SessionInv
<1> QED BY <1>1, <1>2, <1>3, <1>4 DEF Next, Walking

(* Never more sessions at once than workers, none open between two waves,  *)
(* and none left open when a crawl is done, stopped or raised.             *)
THEOREM NoSessionIsLeftOpen == Spec => []SessionsBounded
<1>1. Init => CoreInv /\ SessionInv
  BY CoreInit DEF Init, SessionInv
<1>2. CoreInv /\ SessionInv /\ [Next]_vars => CoreInv' /\ SessionInv'
  BY CoreStep, SessionStep
<1>3. CoreInv /\ SessionInv => SessionsBounded
  <2> SUFFICES ASSUME CoreInv, SessionInv PROVE SessionsBounded
    OBVIOUS
  <2>1. /\ Cardinality(Running) \in Nat /\ Width \in Nat /\ Width <= args.workers
        /\ args.workers \in Nat \ {0}
    BY RunningFinite DEF CoreInv
  <2>2. CASE pc = "collect"
    BY <2>1, <2>2 DEF SessionInv, SessionsBounded
  <2>3. CASE pc = "probe"
    <3>0. \A r \in Refs : UnderWay(r) => r = First[1]
      BY <2>3 DEF CoreInv, PlaceInv, LatePhases
    <3>1. Running \in SUBSET {First[1]}
      BY <3>0 DEF Running, UnderWay
    <3>2. IsFiniteSet({First[1]}) /\ Cardinality({First[1]}) = 1
      BY FS_Singleton
    <3>3. Cardinality(Running) <= 1
      BY <3>1, <3>2, FS_Subset
    <3> QED BY <2>1, <2>3, <3>3 DEF SessionsBounded
  <2>4. CASE pc \notin {"collect", "probe"}
    <3>1. Running = {}
      BY <2>4 DEF CoreInv, PlaceInv, TypeInv, TypeOK, SessionInv, Running, UnderWay,
                  WalkPhases, LatePhases
    <3>2. Cardinality(Running) = 0
      BY <3>1, FS_EmptySet
    <3> QED BY <2>1, <3>1, <3>2 DEF SessionsBounded
  <2> QED BY <2>2, <2>3, <2>4
<1> QED BY <1>1, <1>2, <1>3, PTL DEF Spec
=============================================================================
