------------------------- MODULE DiscoverySerialProofs -------------------------
(***************************************************************************)
(* More proofs about DiscoveryCrawl, for any fabric, any limits and any    *)
(* number of worker threads: what stops a crawl, that it is breadth first, *)
(* and that it records what a crawl of one device after another does.      *)
(***************************************************************************)
EXTENDS DiscoveryCrawlProofs

-----------------------------------------------------------------------------
(* The devices of a wave: as many as the budget allows, the least first.   *)

Rank(S, x) == Cardinality({y \in S : y < x})

LEMMA RankType ==
  ASSUME NEW S \in SUBSET Nat, IsFiniteSet(S), NEW x
  PROVE  /\ IsFiniteSet({y \in S : y < x}) /\ Rank(S, x) \in Nat
<1>1. {y \in S : y < x} \in SUBSET S
  OBVIOUS
<1>2. IsFiniteSet({y \in S : y < x})
  BY <1>1, FS_Subset
<1> QED BY <1>2, FS_CardinalityType DEF Rank

LEMMA RankGrows ==
  ASSUME NEW S \in SUBSET Nat, IsFiniteSet(S), NEW x \in S, NEW y \in S, x < y
  PROVE  Rank(S, x) + 1 <= Rank(S, y)
<1> DEFINE X == {z \in S : z < x}
           Y == {z \in S : z < y}
<1>1. IsFiniteSet(X) /\ IsFiniteSet(Y) /\ Rank(S, x) \in Nat /\ Rank(S, y) \in Nat
  BY RankType
<1>2. x \notin X /\ X \cup {x} \in SUBSET Y
  <2>1. x \in Nat /\ y \in Nat /\ \A z \in S : z \in Nat
    OBVIOUS
  <2>2. \A z \in X : z \in S /\ z < y
    BY <2>1
  <2>3. x \notin X
    BY <2>1
  <2>4. X \subseteq Y
    BY <2>2
  <2>5. x \in Y
    OBVIOUS
  <2> HIDE DEF X, Y
  <2> QED BY <2>3, <2>4, <2>5
<1>3. IsFiniteSet(X \cup {x}) /\ Cardinality(X \cup {x}) = Cardinality(X) + 1
  BY <1>1, <1>2, FS_AddElement
<1>4. Cardinality(X \cup {x}) <= Cardinality(Y)
  BY <1>1, <1>2, FS_Subset
<1>5. Rank(S, x) = Cardinality(X) /\ Rank(S, y) = Cardinality(Y)
  BY DEF Rank
<1> QED BY <1>3, <1>4, <1>5

(* What is left out comes after everything that is taken.                  *)
LEMMA FirstOfIsFirst ==
  ASSUME NEW S \in SUBSET Nat, IsFiniteSet(S), NEW n \in Nat,
         NEW x \in FirstOf(S, n), NEW y \in S \ FirstOf(S, n)
  PROVE  x < y
<1>1. x \in S /\ x \in Nat /\ y \in S /\ y \in Nat
  BY DEF FirstOf
<1>2. Rank(S, x) \in Nat /\ Rank(S, y) \in Nat
  BY RankType
<1>3. Rank(S, x) < n /\ ~(Rank(S, y) < n)
  BY DEF FirstOf, Rank
<1>4. ~(y < x)
  BY <1>1, <1>2, <1>3, RankGrows
<1>5. x # y
  OBVIOUS
<1> QED BY <1>1, <1>4, <1>5

(* No more than n are taken, and n when any is left out.                   *)
LEMMA FirstOfCounts ==
  ASSUME NEW S \in SUBSET Nat, IsFiniteSet(S), NEW n \in Nat
  PROVE  /\ IsFiniteSet(FirstOf(S, n)) /\ Cardinality(FirstOf(S, n)) \in Nat
         /\ Cardinality(FirstOf(S, n)) <= n
         /\ FirstOf(S, n) # S => Cardinality(FirstOf(S, n)) = n
<1> DEFINE F == FirstOf(S, n)
<1>1. F \in SUBSET S /\ \A x \in S : x \in F <=> Rank(S, x) < n
  BY DEF FirstOf, Rank
<1> HIDE DEF F
<1>2. IsFiniteSet(F) /\ Cardinality(F) \in Nat
  BY <1>1, FS_Subset, FS_CardinalityType
<1>3. Cardinality(F) <= n
  <2>1. CASE F = {}
    BY <2>1, FS_EmptySet
  <2>2. CASE F # {}
    <3> DEFINE R == {n - Rank(S, x) : x \in F}
    <3>1. R \in SUBSET Nat /\ R # {}
      <4>1. \A x \in F : Rank(S, x) \in Nat /\ Rank(S, x) < n
        BY <1>1, RankType
      <4>2. \A x \in F : n - Rank(S, x) \in Nat
        BY <4>1
      <4> QED BY <2>2, <4>2
    <3>2. PICK m \in R : \A k \in R : m <= k
      BY <3>1, LeastExists
    <3>3. PICK g \in F : m = n - Rank(S, g)
      BY <3>2
    <3>4. \A x \in F : Rank(S, x) <= Rank(S, g)
      <4> SUFFICES ASSUME NEW x \in F PROVE Rank(S, x) <= Rank(S, g)
        OBVIOUS
      <4>1. n - Rank(S, g) <= n - Rank(S, x)
        BY <3>2, <3>3
      <4>2. Rank(S, x) \in Nat /\ Rank(S, g) \in Nat
        BY RankType
      <4> QED BY <4>1, <4>2
    <3>5. \A x \in F \ {g} : x < g
      <4> SUFFICES ASSUME NEW x \in F, x # g PROVE x < g
        OBVIOUS
      <4>1. x \in S /\ g \in S /\ x \in Nat /\ g \in Nat
        BY <1>1
      <4>2. ~(g < x)
        <5>1. Rank(S, x) \in Nat /\ Rank(S, g) \in Nat
          BY RankType
        <5> QED BY <3>4, <4>1, <5>1, RankGrows
      <4> QED BY <4>1, <4>2
    <3> DEFINE G == {y \in S : y < g}
    <3>6. F \ {g} \in SUBSET G /\ IsFiniteSet(G)
      BY <1>1, <3>5, RankType
    <3>7. Cardinality(F \ {g}) <= Cardinality(G) /\ Cardinality(G) = Rank(S, g)
      BY <3>6, FS_Subset DEF Rank
    <3>8. Cardinality(F \ {g}) = Cardinality(F) - 1
      BY <1>2, FS_RemoveElement
    <3>9. Rank(S, g) < n /\ Rank(S, g) \in Nat
      BY <1>1, RankType
    <3> QED BY <1>2, <3>7, <3>8, <3>9
  <2> QED BY <2>1, <2>2
<1>4. ASSUME F # S PROVE Cardinality(F) >= n
  <2>1. S \ F # {} /\ S \ F \in SUBSET Nat
    BY <1>1, <1>4
  <2>2. PICK m \in S \ F : \A y \in S \ F : m <= y
    BY <2>1, LeastExists
  <2>3. {y \in S : y < m} \in SUBSET F
    <3> SUFFICES ASSUME NEW y \in S, y < m, y \notin F PROVE FALSE
      OBVIOUS
    <3>1. m <= y /\ m \in Nat /\ y \in Nat
      BY <2>2
    <3> QED BY <3>1
  <2>4. Rank(S, m) <= Cardinality(F)
    BY <1>2, <2>3, FS_Subset DEF Rank
  <2>5. ~(Rank(S, m) < n) /\ Rank(S, m) \in Nat
    BY <1>1, RankType
  <2> QED BY <1>2, <2>4, <2>5
<1> QED BY <1>2, <1>3, <1>4 DEF F

LEMMA OneMore ==
  ASSUME NEW S, IsFiniteSet(S), NEW x, NEW n \in Nat, Cardinality(S) < n
  PROVE  Cardinality(S \cup {x}) <= n
<1>1. Cardinality(S) \in Nat
  BY FS_CardinalityType
<1>2. Cardinality(S \cup {x}) = IF x \in S THEN Cardinality(S) ELSE Cardinality(S) + 1
  BY FS_AddElement
<1> QED BY <1>1, <1>2

LEMMA FiniteReport ==
  ASSUME NEW S \in SUBSET Refs
  PROVE  IsFiniteSet(S) /\ Cardinality(S) \in Nat /\ S \in SUBSET Nat
<1>1. IsFiniteSet(Refs)
  BY DevicesAssumption, FS_Union DEF Refs
<1> QED BY <1>1, FS_Subset, FS_CardinalityType, RefsAreNat

(* What a wave is made of.                                                 *)
LEMMA WaveCounts ==
  ASSUME CoreInv, SelectWave
  PROVE  /\ batch' \in SUBSET Devices /\ batch' \cap Visited = {}
         /\ batch' \subseteq frontier \ Visited
         /\ \A x \in batch', y \in (frontier \ Visited) \ batch' : x < y
         /\ Cardinality(batch') \in Nat /\ Cardinality(Visited) \in Nat
         /\ args.devices \in Nat /\ Cardinality(Visited) < args.devices
         /\ Cardinality(batch') <= args.devices - Cardinality(Visited)
         /\ batch' # frontier \ Visited =>
              Cardinality(batch') = args.devices - Cardinality(Visited)
         /\ Cardinality(Visited \cup batch') = Cardinality(Visited) + Cardinality(batch')
<1> DEFINE S == frontier \ Visited
           n == args.devices - Cardinality(Visited)
<1>1. S \in SUBSET Refs /\ S \in SUBSET Devices /\ Visited \in SUBSET Refs
  BY DEF CoreInv, TypeInv, TypeOK, Refs, Visited
<1>2. /\ IsFiniteSet(S) /\ S \in SUBSET Nat
      /\ IsFiniteSet(Visited) /\ Cardinality(Visited) \in Nat
  BY <1>1, FiniteReport
<1>3. args.devices \in Nat /\ Cardinality(Visited) < args.devices /\ n \in Nat
  <2>1. args.devices \in Nat
    BY CallsAssumption DEF CoreInv, TypeInv, TypeOK
  <2> QED BY <1>2, <2>1 DEF SelectWave
<1>4. batch' = FirstOf(S, n)
  BY SelectWaveIs
<1>5. batch' \in SUBSET S
  BY SelectWaveIs
<1> HIDE DEF S, n
<1>6. \A x \in batch', y \in S \ batch' : x < y
  BY <1>2, <1>3, <1>4, FirstOfIsFirst
<1>7. /\ IsFiniteSet(batch') /\ Cardinality(batch') \in Nat /\ Cardinality(batch') <= n
      /\ batch' # S => Cardinality(batch') = n
  BY <1>2, <1>3, <1>4, FirstOfCounts
<1>8. Visited \cap batch' = {}
  BY <1>5 DEF S
<1>9. Cardinality(Visited \cup batch') = Cardinality(Visited) + Cardinality(batch')
  <2>1. Cardinality(Visited \cup batch') =
          Cardinality(Visited) + Cardinality(batch') - Cardinality(Visited \cap batch')
    BY <1>2, <1>7, FS_Union
  <2>2. Cardinality(Visited \cap batch') = 0
    BY <1>8, FS_EmptySet
  <2> QED BY <1>2, <1>7, <2>1, <2>2
<1> QED BY <1>1, <1>2, <1>3, <1>5, <1>6, <1>7, <1>8, <1>9 DEF S, n

-----------------------------------------------------------------------------
(* What stops a crawl.                                                     *)

(* During the walk the report and the wave are within the device budget,   *)
(* and a device was left out only when they use it up. An endpoint is      *)
(* probed only while both budgets last.                                    *)
BudgetInv ==
  /\ OnlyTheBudgetStops
  /\ pc \in WalkPhases =>
       /\ Crawled = Visited
       /\ Cardinality(Visited \cup batch) <= args.devices
       /\ unprobed # {} => Cardinality(Visited \cup batch) = args.devices
  /\ pc = "probe" => ~NoBudget

NotProbed == \E d \in Devices : visited[d] = "NOT_PROBED"

(* OnlyTheBudgetStops rests on the report, the budgets and the refusals.   *)
LEMMA BudgetKept ==
  ASSUME OnlyTheBudgetStops, Visited' = Visited, Crawled' = Crawled, args' = args,
         NotProbed' => NotProbed, refused' # {} => refused # {}
  PROVE  OnlyTheBudgetStops' /\ NoBudget' = NoBudget
<1>1. Probed' = Probed
  BY DEF Probed
<1>2. NoBudget' = NoBudget
  BY <1>1 DEF NoBudget
<1> QED BY <1>1, <1>2 DEF OnlyTheBudgetStops, NotProbed

(* A step that leaves the report as it is.                                 *)
LEMMA ReportKept ==
  ASSUME visited' = visited
  PROVE  /\ Visited' = Visited /\ Crawled' = Crawled /\ NotProbed' = NotProbed
         /\ Probed' = Probed
BY DEF Visited, Crawled, NotProbed, Probed

LEMMA LimitsType ==
  ASSUME TypeInv PROVE args.devices \in Nat /\ args.probes \in Nat
BY CallsAssumption DEF TypeInv, TypeOK

LEMMA BudgetWalking ==
  ASSUME CoreInv, BudgetInv, Walking PROVE BudgetInv'
<1>1. CASE SelectWave
  <2>1. /\ pc = "select" /\ pc' = "collect" /\ visited' = visited
        /\ args' = args /\ refused' = refused
        /\ unprobed' = unprobed \cup ((frontier \ Visited) \ batch')
    BY <1>1, SelectWaveIs DEF l3
  <2>2. Visited' = Visited /\ Crawled' = Crawled /\ NotProbed' = NotProbed
    BY <2>1, ReportKept
  <2>3. OnlyTheBudgetStops'
    BY <2>1, <2>2, BudgetKept DEF BudgetInv
  <2>4. batch = {} /\ Visited \cup batch = Visited
    BY <2>1 DEF CoreInv, WaveInv
  <2>5. unprobed = {}
    BY <1>1, <2>1, <2>4, WaveCounts DEF BudgetInv, WalkPhases
  <2>6. unprobed' # {} => batch' # frontier \ Visited
    BY <2>1, <2>5
  <2>7. /\ Cardinality(Visited \cup batch') <= args.devices
        /\ unprobed' # {} => Cardinality(Visited \cup batch') = args.devices
    BY <1>1, <2>6, WaveCounts
  <2> QED BY <2>1, <2>2, <2>3, <2>7 DEF BudgetInv, WalkPhases
<1>2. CASE EndCollection \/ AdmissionFails
  <2>1. /\ pc' # "probe" /\ UNCHANGED <<visited, args, refused, batch, unprobed>>
        /\ pc' \in WalkPhases => pc \in WalkPhases
    BY <1>2 DEF EndCollection, AdmissionFails, WalkPhases, walk, l3
  <2>2. Visited' = Visited /\ Crawled' = Crawled /\ NotProbed' = NotProbed
    BY <2>1, ReportKept
  <2>3. OnlyTheBudgetStops'
    BY <2>1, <2>2, BudgetKept DEF BudgetInv
  <2> QED BY <2>1, <2>2, <2>3 DEF BudgetInv
<1>3. CASE Admit
  <2> DEFINE d == Least(batch)
  <2>1. d \in batch /\ d \in Refs /\ d \in Devices /\ AdmitOne(d)
    BY <1>3, AdmitIs DEF CoreInv
  <2> HIDE DEF d
  <2>2. /\ visited'[d] \in Answers
        /\ Visited' = Visited \cup {d} /\ Crawled' = Crawled \cup {d}
        /\ \A r \in Refs \ {d} : visited'[r] = visited[r]
    BY <2>1, AdmitReports
  <2>3. /\ pc = "admit" /\ pc' = pc /\ batch' = batch \ {d} /\ args' = args
        /\ unprobed' = unprobed /\ refused' = refused
    BY <2>1 DEF AdmitOne, l3
  <2>4. Visited' \cup batch' = Visited \cup batch
    BY <2>1, <2>2, <2>3
  <2>5. /\ Crawled' = Visited' /\ Visited' \subseteq Devices /\ refused = {}
        /\ Probed' = {}
    <3>1. Crawled = Visited /\ Visited \subseteq Devices /\ refused = {}
      BY <2>3 DEF BudgetInv, CoreInv, WaveInv, WalkPhases
    <3> QED BY <2>1, <2>2, <3>1, RefsAreNat DEF Probed
  <2>6. Cardinality(Visited') <= args.devices
    <3>1. Visited \cup batch \in SUBSET Refs /\ Visited' \in SUBSET (Visited \cup batch)
      BY <2>1, <2>2 DEF CoreInv, TypeInv, TypeOK, Visited, Refs
    <3>2. /\ IsFiniteSet(Visited \cup batch) /\ Cardinality(Visited \cup batch) \in Nat
          /\ Cardinality(Visited') <= Cardinality(Visited \cup batch)
      BY <3>1, FiniteReport, FS_Subset
    <3>3. IsFiniteSet(Visited') /\ Cardinality(Visited') \in Nat
      BY <3>1, <3>2, FS_Subset, FS_CardinalityType
    <3>4. Cardinality(Visited \cup batch) <= args.devices /\ args.devices \in Nat
      BY <2>3, LimitsType DEF BudgetInv, CoreInv, WalkPhases
    <3> QED BY <3>2, <3>3, <3>4
  <2>7. ~NotProbed'
    <3>1. \A r \in Devices : visited[r] # "NOT_PROBED"
      <4>1. Crawled = Visited
        BY <2>3 DEF BudgetInv, WalkPhases
      <4> QED BY <4>1 DEF Crawled, Visited, Refs
    <3>2. visited'[d] # "NOT_PROBED"
      BY <2>2 DEF Answers
    <3> QED BY <2>2, <3>1, <3>2 DEF NotProbed, Refs
  <2>8. OnlyTheBudgetStops'
    <3>1. Cardinality(Probed') <= args.probes
      BY <2>5, FS_EmptySet, LimitsType DEF CoreInv
    <3> QED BY <2>3, <2>5, <2>6, <2>7, <3>1 DEF OnlyTheBudgetStops, NotProbed
  <2> QED BY <2>3, <2>4, <2>5, <2>8 DEF BudgetInv, WalkPhases
<1>4. CASE EndWave
  <2>1. /\ pc = "admit" /\ pc' = "select" /\ batch' = batch
        /\ UNCHANGED <<visited, args, refused, unprobed>>
    BY <1>4 DEF EndWave, l3
  <2>2. Visited' = Visited /\ Crawled' = Crawled /\ NotProbed' = NotProbed
    BY <2>1, ReportKept
  <2>3. OnlyTheBudgetStops'
    BY <2>1, <2>2, BudgetKept DEF BudgetInv
  <2> QED BY <2>1, <2>2, <2>3 DEF BudgetInv, WalkPhases
<1> QED BY <1>1, <1>2, <1>3, <1>4 DEF Walking

(* The walk leaves a device out only when the report is full.              *)
LEMMA LeftOverMeansFull ==
  ASSUME CoreInv, BudgetInv, CloseWalk, LeftOver # {}
  PROVE  Cardinality(Devices \cap Crawled) = args.devices
<1>1. pc = "select" /\ (frontier = {} \/ Cardinality(Visited) >= args.devices)
  BY DEF CloseWalk
<1>2. /\ Crawled = Visited /\ Visited \cup batch = Visited
      /\ Devices \cap Crawled = Visited
      /\ Cardinality(Visited) <= args.devices
      /\ unprobed # {} => Cardinality(Visited) = args.devices
  <2>1. batch = {} /\ Visited \subseteq Devices /\ Crawled = Visited
    BY <1>1 DEF CoreInv, WaveInv, BudgetInv, WalkPhases
  <2>2. Visited \cup batch = Visited /\ Devices \cap Crawled = Visited
    BY <2>1
  <2> QED BY <1>1, <2>1, <2>2 DEF BudgetInv, WalkPhases
<1>3. args.devices \in Nat /\ Cardinality(Visited) \in Nat
  <2>1. Visited \in SUBSET Refs
    BY DEF Visited
  <2> QED BY <2>1, LimitsType, FiniteReport DEF CoreInv
<1>4. Cardinality(Visited) = args.devices
  <2>1. CASE Cardinality(Visited) >= args.devices
    BY <1>2, <1>3, <2>1
  <2>2. CASE frontier = {}
    <3>1. unprobed # {}
      BY <2>2 DEF LeftOver
    <3> QED BY <1>2, <3>1
  <2> QED BY <1>1, <2>1, <2>2
<1> QED BY <1>2, <1>4

LEMMA BudgetProbing ==
  ASSUME CoreInv, BudgetInv, Probing PROVE BudgetInv'
<1>1. CASE CloseWalk
  <2>1. /\ Visited' = Visited \cup LeftOver /\ Crawled' = Crawled
        /\ LeftOver \subseteq Devices
    BY <1>1, CloseWalkReports
  <2>2. /\ pc = "select" /\ pc' = "l3" /\ args' = args /\ refused' = refused
        /\ refused = {}
    BY <1>1 DEF CloseWalk, CoreInv, WaveInv, WalkPhases
  <2>3. Probed' = Probed
    BY <2>1, RefsAreNat DEF Probed
  <2>4. NotProbed' => LeftOver # {}
    <3>1. \A r \in Devices : visited[r] # "NOT_PROBED"
      <4>1. Crawled = Visited
        BY <2>2 DEF BudgetInv, WalkPhases
      <4> QED BY <4>1 DEF Crawled, Visited, Refs
    <3> QED BY <1>1, <3>1 DEF CloseWalk, NotProbed, Refs
  <2>5. NotProbed' => Cardinality(Devices \cap Crawled) = args.devices
    BY <1>1, <2>4, LeftOverMeansFull
  <2>6. OnlyTheBudgetStops'
    BY <2>1, <2>2, <2>3, <2>5 DEF BudgetInv, OnlyTheBudgetStops, NotProbed
  <2> QED BY <2>2, <2>6 DEF BudgetInv, WalkPhases
<1>2. CASE RecordKnown \/ Probe \/ EndCrawl
  <2>1. /\ pc = "l3" /\ pc' \in LatePhases
        /\ UNCHANGED <<visited, args, refused>>
        /\ pc' = "probe" => ~NoBudget
    BY <1>2 DEF RecordKnown, Probe, EndCrawl, LatePhases, walk, l3
  <2>2. OnlyTheBudgetStops' /\ NoBudget' = NoBudget
    BY <2>1, ReportKept, BudgetKept DEF BudgetInv
  <2> QED BY <2>1, <2>2 DEF BudgetInv, WalkPhases, LatePhases
<1>3. CASE RecordRefused
  <2>1. /\ pc' = "l3" /\ visited' = visited /\ args' = args /\ NoBudget
    BY <1>3 DEF RecordRefused, walk
  <2>2. Visited' = Visited /\ Crawled' = Crawled /\ NotProbed' = NotProbed
        /\ Probed' = Probed
    BY <2>1, ReportKept
  <2>3. NoBudget'
    BY <2>1, <2>2 DEF NoBudget
  <2>4. OnlyTheBudgetStops'
    BY <2>1, <2>2, <2>3 DEF BudgetInv, OnlyTheBudgetStops, NotProbed
  <2> QED BY <2>1, <2>4 DEF BudgetInv, WalkPhases
<1>4. CASE AdmitProbed
  <2> DEFINE e == First[1]
  <2>1. /\ e \in Endpoints /\ e \in Refs \ Devices /\ e \notin Visited
        /\ Visited' = Visited \cup {e} /\ Crawled' = Crawled \cup {e}
    BY <1>4, ProbeReports
  <2>2. /\ pc = "probe" /\ pc' = "l3" /\ args' = args /\ refused' = refused
        /\ \A d \in Devices : visited'[d] = visited[d]
    BY <1>4, <2>1 DEF AdmitProbed, CoreInv, TypeInv, TypeOK, Refs
  <2> HIDE DEF e
  <2>3. /\ ~NoBudget /\ refused = {} /\ args.devices \in Nat /\ args.probes \in Nat
    BY <2>2, LimitsType DEF BudgetInv, OnlyTheBudgetStops, CoreInv
  <2>4. /\ IsFiniteSet(Visited) /\ Cardinality(Visited) \in Nat
        /\ IsFiniteSet(Crawled) /\ Cardinality(Crawled) \in Nat
        /\ IsFiniteSet(Probed) /\ Cardinality(Probed) \in Nat
        /\ Cardinality(Crawled) <= Cardinality(Visited)
    <3>1. Visited \in SUBSET Refs /\ Crawled \in SUBSET Refs
          /\ Probed \in SUBSET Refs /\ Crawled \in SUBSET Visited
      BY DEF Visited, Crawled, Probed
    <3> QED BY <3>1, FiniteReport, FS_Subset
  <2>5. Cardinality(Crawled') <= args.devices
    <3>1. Cardinality(Crawled) < args.devices
      BY <2>3, <2>4 DEF NoBudget
    <3>2. Cardinality(Crawled \cup {e}) <= args.devices
      BY <2>3, <2>4, <3>1, OneMore
    <3> QED BY <2>1, <3>2
  <2>6. Cardinality(Probed') <= args.probes
    <3>1. Probed' = Probed \cup {e}
      BY <2>1 DEF Probed
    <3>2. Cardinality(Probed) < args.probes
      BY <2>3, <2>4 DEF NoBudget
    <3>3. Cardinality(Probed \cup {e}) <= args.probes
      BY <2>3, <2>4, <3>2, OneMore
    <3> QED BY <3>1, <3>3
  <2>7. Devices \cap Crawled' = Devices \cap Crawled /\ NotProbed' = NotProbed
    BY <2>1, <2>2 DEF NotProbed
  <2>8. OnlyTheBudgetStops'
    BY <2>2, <2>3, <2>5, <2>6, <2>7 DEF BudgetInv, OnlyTheBudgetStops, NotProbed
  <2> QED BY <2>2, <2>8 DEF BudgetInv, WalkPhases
<1> QED BY <1>1, <1>2, <1>3, <1>4 DEF Probing

LEMMA BudgetBegins ==
  ASSUME visited = Unseen, args \in Calls, unprobed = {}, batch = {}, refused = {},
         pc = "select"
  PROVE  BudgetInv
<1>1. Visited = {} /\ Crawled = {} /\ Probed = {} /\ ~NotProbed
  BY DEF Visited, Crawled, Probed, Unseen, NotProbed, Refs
<1>2. Cardinality({}) = 0 /\ args.devices \in Nat /\ args.probes \in Nat
  BY FS_EmptySet, CallsAssumption
<1>3. Visited \cup batch = {}
  BY <1>1
<1> QED BY <1>1, <1>2, <1>3 DEF BudgetInv, OnlyTheBudgetStops, NotProbed

LEMMA BudgetStep ==
  ASSUME CoreInv, BudgetInv, [Next]_vars PROVE BudgetInv'
<1>1. CASE UNCHANGED vars
  <2>1. UNCHANGED <<pc, args, visited, batch, unprobed, refused>>
    BY <1>1 DEF vars, walk, l3
  <2>2. /\ Visited' = Visited /\ Crawled' = Crawled
        /\ OnlyTheBudgetStops' /\ NoBudget' = NoBudget
    BY <2>1, ReportKept, BudgetKept DEF BudgetInv
  <2> QED BY <2>1, <2>2 DEF BudgetInv
<1>2. CASE Collection
  <2>1. UNCHANGED <<args, walk, l3>> /\ pc' \in {pc, "raised"}
    BY <1>2, CollectionKeeps DEF Collection, CoreInv
  <2>2. UNCHANGED <<args, visited, batch, unprobed, refused>>
    BY <2>1 DEF walk, l3
  <2>3. /\ Visited' = Visited /\ Crawled' = Crawled
        /\ OnlyTheBudgetStops' /\ NoBudget' = NoBudget
    BY <2>2, ReportKept, BudgetKept DEF BudgetInv
  <2>4. CASE pc' = "raised"
    BY <2>3, <2>4 DEF BudgetInv, WalkPhases
  <2>5. CASE pc' = pc
    BY <2>2, <2>3, <2>5 DEF BudgetInv
  <2> QED BY <2>1, <2>4, <2>5
<1>3. CASE CrawlAgain
  <2>1. Visited' = {} /\ Crawled' = {} /\ Probed' = {} /\ ~NotProbed'
    BY <1>3 DEF CrawlAgain, Visited, Crawled, Probed, Unseen, NotProbed, Refs
  <2>2. /\ Cardinality({}) = 0 /\ args'.devices \in Nat /\ args'.probes \in Nat
    BY <1>3, FS_EmptySet, CallsAssumption DEF CrawlAgain
  <2>3. Visited' \cup batch' = {}
    BY <1>3, <2>1 DEF CrawlAgain
  <2> QED BY <1>3, <2>1, <2>2, <2>3
          DEF CrawlAgain, BudgetInv, OnlyTheBudgetStops, NotProbed
<1> QED BY <1>1, <1>2, <1>3, BudgetWalking, BudgetProbing DEF Next

LEMMA BudgetInit == Init => CoreInv /\ BudgetInv
BY CoreInit, BudgetBegins DEF Init

(* No crawl exceeds its budgets, whatever devices name and hosts appear,   *)
(* and one that reports a device as never probed, or refuses an endpoint,  *)
(* has used a budget up.                                                   *)
THEOREM BudgetsAreKept == Spec => []OnlyTheBudgetStops
<1>1. CoreInv /\ BudgetInv /\ [Next]_vars => CoreInv' /\ BudgetInv'
  BY CoreStep, BudgetStep
<1>2. BudgetInv => OnlyTheBudgetStops
  BY DEF BudgetInv
<1> QED BY <1>1, <1>2, BudgetInit, PTL DEF Spec

(* All the limits at once: devices, probes and sessions.                   *)
THEOREM LimitsHold == Spec => []LimitsAreKept
<1>1. OnlyTheBudgetStops /\ SessionsBounded => LimitsAreKept
  BY DEF LimitsAreKept
<1> QED BY <1>1, BudgetsAreKept, NoSessionIsLeftOpen, PTL

-----------------------------------------------------------------------------
(* Breadth first.                                                          *)

(* A device of wave w is named by one of the wave before.                  *)
Named(d, w) == \E p \in Tables : d \in Neighbours[p] /\ depth[p] + 1 = w

(* The devices still to be crawled are named by one of the wave before,    *)
(* and by none of an earlier wave: those it names were selected, or left   *)
(* to the budget.                                                          *)
NearInv ==
  /\ NearestFirst
  /\ pc \in WalkPhases =>
       /\ \A r \in Visited : depth[r] < wave \/ (pc = "admit" /\ depth[r] = wave)
       /\ \A d \in batch \ {Seed} : Named(d, wave)
       /\ \A d \in following \ {Seed} : Named(d, wave + 1)
       /\ \A p \in Tables : \A n \in Neighbours[p] :
            n \in Visited \cup batch => depth[n] <= depth[p] + 1
  /\ pc = "select" =>
       /\ \A d \in frontier \ {Seed} : Named(d, wave)
       /\ \A p \in Tables : \A n \in Neighbours[p] \ (Visited \cup unprobed) :
            depth[p] + 1 = wave
  /\ pc = "admit" =>
       \A p \in Tables : \A n \in Neighbours[p] \ (Visited \cup batch \cup unprobed) :
         depth[p] = wave

(* NearestFirst rests on the tables and the depths of what is crawled.     *)
LEMMA NearestKept ==
  ASSUME NearestFirst, Devices \cap Crawled' = Devices \cap Crawled, Tables' = Tables,
         \A r \in Devices \cap Crawled : depth'[r] = depth[r]
  PROVE  NearestFirst'
<1>1. Tables \subseteq Devices \cap Crawled
  BY DEF Tables
<1>2. SUFFICES ASSUME NEW d \in (Devices \cap Crawled) \ {Seed}
      PROVE  /\ \E p \in Tables : d \in Neighbours[p] /\ depth'[d] = depth'[p] + 1
             /\ \A p \in Tables : d \in Neighbours[p] => depth'[d] <= depth'[p] + 1
  BY DEF NearestFirst
<1>3. /\ \E p \in Tables : d \in Neighbours[p] /\ depth[d] = depth[p] + 1
      /\ \A p \in Tables : d \in Neighbours[p] => depth[d] <= depth[p] + 1
  BY DEF NearestFirst
<1> QED BY <1>1, <1>3

LEMMA NearWalking ==
  ASSUME CoreInv, ReportInv, BudgetInv, NearInv, Walking PROVE NearInv'
<1>0. /\ depth \in [Refs -> Nat] /\ wave \in Nat /\ Tables \subseteq Devices
      /\ Devices \subseteq Refs /\ Visited \subseteq Refs /\ batch \subseteq Refs
      /\ \A p \in Tables : Neighbours[p] \subseteq Devices
  BY FabricAssumption DEF CoreInv, TypeInv, TypeOK, Tables, Visited, Refs
<1>1. CASE SelectWave
  <2>1. /\ pc = "select" /\ pc' = "collect" /\ visited' = visited
        /\ wave' = wave /\ following' = following /\ twin' = twin
        /\ batch' \subseteq frontier \ Visited
        /\ depth' = [r \in Refs |-> IF r \in batch' THEN wave ELSE depth[r]]
    BY <1>1, SelectWaveIs
  <2>2. /\ Visited' = Visited /\ Crawled' = Crawled /\ Tables' = Tables
    BY <2>1, ReportKept DEF Tables
  <2>3. /\ \A r \in Visited : depth'[r] = depth[r]
        /\ \A r \in batch' : depth'[r] = wave
        /\ Crawled \subseteq Visited /\ Tables \subseteq Visited
    <3>1. Crawled \subseteq Visited
      BY DEF Crawled, Visited
    <3>2. batch' \subseteq Refs
      BY <2>1 DEF CoreInv, TypeInv, TypeOK, Refs
    <3> QED BY <1>0, <2>1, <3>1, <3>2 DEF Tables
  <2>4. NearestFirst'
    BY <2>2, <2>3, NearestKept DEF NearInv
  <2>5. following = {} /\ batch = {} /\ unprobed = {}
    <3>1. following = {} /\ batch = {} /\ Visited \cup batch = Visited
      BY <2>1 DEF CoreInv, WaveInv
    <3> QED BY <1>1, <2>1, <3>1, WaveCounts DEF BudgetInv, WalkPhases
  <2>6. \A d \in batch' \ {Seed} : Named(d, wave)'
    BY <2>1, <2>2, <2>3 DEF NearInv, Named
  <2>7. ASSUME NEW p \in Tables, NEW n \in Neighbours[p], n \in Visited \cup batch'
        PROVE  depth'[n] <= depth'[p] + 1
    <3>1. CASE n \in Visited
      BY <2>1, <2>3, <2>7, <3>1 DEF NearInv, WalkPhases
    <3>2. CASE n \in batch'
      <4>1. depth[p] + 1 = wave /\ depth'[p] = depth[p] /\ depth'[n] = wave
        BY <2>1, <2>3, <2>5, <3>2 DEF NearInv
      <4> QED BY <1>0, <4>1
    <3> QED BY <2>7, <3>1, <3>2
  <2>8. \A r \in Visited : depth'[r] < wave
    BY <2>1, <2>3 DEF NearInv, WalkPhases
  <2> QED BY <2>1, <2>2, <2>4, <2>5, <2>6, <2>7, <2>8 DEF NearInv
<1>2. CASE EndCollection
  <2>1. /\ pc = "collect" /\ pc' = "admit"
        /\ UNCHANGED <<visited, wave, following, twin, batch, depth, unprobed, frontier>>
    BY <1>2 DEF EndCollection, walk
  <2>2. Visited' = Visited /\ Crawled' = Crawled /\ Tables' = Tables
    BY <2>1, ReportKept DEF Tables
  <2>3. NearestFirst'
    BY <2>1, <2>2, NearestKept DEF NearInv
  <2>4. \A p \in Tables : Neighbours[p] \subseteq Visited \cup batch \cup unprobed
    BY <2>1 DEF ReportInv, Kept, CoreInv, WaveInv, WalkPhases
  <2>5. /\ \A r \in Visited : depth[r] < wave
        /\ \A d \in batch \ {Seed} : Named(d, wave)'
        /\ \A d \in following \ {Seed} : Named(d, wave + 1)'
        /\ \A p \in Tables : \A n \in Neighbours[p] :
             n \in Visited \cup batch => depth[n] <= depth[p] + 1
    BY <2>1, <2>2 DEF NearInv, Named, WalkPhases
  <2> QED BY <2>1, <2>2, <2>3, <2>4, <2>5 DEF NearInv
<1>3. CASE Admit
  <2> DEFINE d == Least(batch)
  <2>1. d \in batch /\ d \in Refs /\ d \in Devices /\ AdmitOne(d)
    BY <1>3, AdmitIs DEF CoreInv
  <2> HIDE DEF d
  <2>2. Visited' = Visited \cup {d} /\ Crawled' = Crawled \cup {d}
    BY <2>1, AdmitReports
  <2>3. /\ pc = "admit" /\ pc' = pc /\ batch' = batch \ {d}
        /\ UNCHANGED <<wave, depth, unprobed>>
        /\ twin \subseteq twin' /\ twin' \subseteq twin \cup {d}
    BY <2>1 DEF AdmitOne, AdmitEvidence
  <2>4. /\ Tables \subseteq Tables' /\ Tables' \subseteq Tables \cup {d}
        /\ (d \in twin' => d \in Tables')
    BY <2>1, <2>2, <2>3 DEF Tables
  <2>5. Visited' \cup batch' = Visited \cup batch
    BY <2>1, <2>2, <2>3
  <2>6. /\ depth[d] = wave /\ \A b \in batch : depth[b] = wave
        /\ \A r \in Visited : depth[r] <= wave
        /\ Crawled = Visited
    <3>1. \A b \in batch : depth[b] = wave
      BY <2>3 DEF CoreInv, WaveInv, WalkPhases
    <3>2. \A r \in Visited : depth[r] <= wave
      BY <1>0, <2>3 DEF NearInv, WalkPhases
    <3> QED BY <2>1, <2>3, <3>1, <3>2 DEF BudgetInv, WalkPhases
  <2>7. ASSUME NEW p \in Tables', NEW n \in Neighbours[p], n \in Visited \cup batch
        PROVE  depth[n] <= depth[p] + 1
    <3>1. CASE p \in Tables
      BY <2>3, <2>7, <3>1 DEF NearInv, WalkPhases
    <3>2. CASE p = d
      <4>1. depth[n] <= wave /\ depth[n] \in Nat
        BY <1>0, <2>6, <2>7
      <4> QED BY <1>0, <2>6, <3>2, <4>1
    <3> QED BY <2>4, <3>1, <3>2
  <2>8. ASSUME NEW p \in Tables', NEW n \in Neighbours[p] \ (Visited \cup batch \cup unprobed)
        PROVE  depth[p] = wave
    <3>1. CASE p \in Tables
      BY <2>3, <3>1 DEF NearInv
    <3> QED BY <2>4, <2>6, <3>1
  <2>9. \A c, w : Named(c, w) => Named(c, w)'
    BY <2>3, <2>4 DEF Named
  <2>10. \A b \in batch \ {Seed} : Named(b, wave)'
    BY <2>3, <2>9 DEF NearInv, WalkPhases
  <2>11. \A c \in following' \ {Seed} : Named(c, wave + 1)'
    <3> SUFFICES ASSUME NEW c \in following', c # Seed PROVE Named(c, wave + 1)'
      OBVIOUS
    <3>1. CASE c \in following
      BY <2>3, <2>9, <3>1 DEF NearInv, WalkPhases
    <3>2. CASE c \notin following
      <4>1. d \in twin' /\ c \in Neighbours[d]
        BY <2>1, <3>2 DEF AdmitOne, EnqueueNeighbours
      <4> QED BY <2>3, <2>4, <2>6, <4>1 DEF Named
    <3> QED BY <3>1, <3>2
  <2>12. NearestFirst'
    <3> SUFFICES ASSUME NEW c \in (Devices \cap Crawled') \ {Seed}
        PROVE  /\ \E p \in Tables' : c \in Neighbours[p] /\ depth[c] = depth[p] + 1
               /\ \A p \in Tables' : c \in Neighbours[p] => depth[c] <= depth[p] + 1
      BY <2>3 DEF NearestFirst
    <3>1. c \in Visited \cup batch
      BY <2>1, <2>2, <2>6
    <3>2. \E p \in Tables' : c \in Neighbours[p] /\ depth[c] = depth[p] + 1
      <4>1. CASE c = d
        <5>1. Named(d, wave)
          BY <2>1, <2>3, <4>1 DEF NearInv, WalkPhases
        <5> QED BY <2>4, <2>6, <4>1, <5>1 DEF Named
      <4>2. CASE c # d
        BY <2>2, <2>4, <4>2 DEF NearInv, NearestFirst
      <4> QED BY <4>1, <4>2
    <3> QED BY <2>7, <3>1, <3>2
  <2>13. \A r \in Visited' : depth[r] < wave \/ depth[r] = wave
    BY <1>0, <2>2, <2>6
  <2> QED BY <2>3, <2>5, <2>7, <2>8, <2>10, <2>11, <2>12, <2>13 DEF NearInv
<1>4. CASE AdmissionFails
  <2>1. /\ pc' = "failed" /\ UNCHANGED <<visited, twin, depth>>
    BY <1>4 DEF AdmissionFails, walk
  <2>2. NearestFirst'
    BY <2>1, ReportKept, NearestKept DEF NearInv, Tables
  <2> QED BY <2>1, <2>2 DEF NearInv, WalkPhases
<1>5. CASE EndWave
  <2>1. /\ pc = "admit" /\ pc' = "select" /\ batch = {} /\ batch' = {}
        /\ frontier' = following /\ following' = {} /\ wave' = wave + 1
        /\ UNCHANGED <<visited, twin, depth, unprobed>>
    BY <1>5 DEF EndWave
  <2>2. Visited' = Visited /\ Crawled' = Crawled /\ Tables' = Tables
    BY <2>1, ReportKept DEF Tables
  <2>3. NearestFirst'
    BY <2>1, <2>2, NearestKept DEF NearInv
  <2>4. \A r \in Visited : depth[r] < wave + 1
    BY <1>0, <2>1 DEF NearInv, WalkPhases
  <2>5. \A d \in frontier' \ {Seed} : Named(d, wave)'
    BY <2>1, <2>2 DEF NearInv, Named, WalkPhases
  <2>6. \A p \in Tables : \A n \in Neighbours[p] \ (Visited \cup unprobed) :
          depth[p] + 1 = wave + 1
    BY <2>1 DEF NearInv
  <2>7. \A p \in Tables : \A n \in Neighbours[p] :
          n \in Visited \cup batch => depth[n] <= depth[p] + 1
    BY <2>1 DEF NearInv, WalkPhases
  <2> QED BY <2>1, <2>2, <2>3, <2>4, <2>5, <2>6, <2>7 DEF NearInv
<1> QED BY <1>1, <1>2, <1>3, <1>4, <1>5 DEF Walking

LEMMA NearStep ==
  ASSUME CoreInv, ReportInv, BudgetInv, NearInv, [Next]_vars PROVE NearInv'
<1>1. CASE UNCHANGED vars \/ Collection
  <2>1. UNCHANGED <<walk, twin>> /\ pc' \in {pc, "raised"}
    <3>1. CASE Collection
      BY <3>1, CollectionKeeps DEF Collection, CoreInv
    <3> QED BY <1>1, <3>1 DEF vars
  <2>2. UNCHANGED <<visited, wave, frontier, following, unprobed, batch, depth, twin>>
    BY <2>1 DEF walk
  <2>3. Visited' = Visited /\ Crawled' = Crawled /\ Tables' = Tables
    BY <2>2, ReportKept DEF Tables
  <2>4. NearestFirst'
    BY <2>2, <2>3, NearestKept DEF NearInv
  <2>5. CASE pc' = "raised"
    BY <2>4, <2>5 DEF NearInv, WalkPhases
  <2>6. CASE pc' = pc
    <3>1. \A d, w : Named(d, w)' <=> Named(d, w)
      BY <2>2, <2>3 DEF Named
    <3> QED BY <2>2, <2>3, <2>4, <2>6, <3>1 DEF NearInv
  <2> QED BY <2>1, <2>5, <2>6
<1>2. CASE Probing
  <2>1. /\ pc' \notin WalkPhases /\ depth' = depth
        /\ Devices \cap Crawled' = Devices \cap Crawled /\ Tables' = Tables
    <3>1. CASE CloseWalk
      BY <3>1, CloseWalkReports DEF CloseWalk, Tables, WalkPhases
    <3>2. CASE RecordKnown \/ RecordRefused \/ Probe \/ EndCrawl
      <4>1. /\ pc' \notin WalkPhases /\ UNCHANGED <<visited, twin, depth>>
        BY <3>2 DEF RecordKnown, RecordRefused, Probe, EndCrawl, WalkPhases, walk
      <4> QED BY <4>1, ReportKept DEF Tables
    <3>3. CASE AdmitProbed
      <4>1. First[1] \notin Devices /\ Crawled' = Crawled \cup {First[1]}
        BY <3>3, ProbeReports
      <4>2. pc' \notin WalkPhases /\ depth' = depth
            /\ twin' \in {twin, twin \cup {First[1]}}
        BY <3>3 DEF AdmitProbed, AdmitEvidence, WalkPhases
      <4> QED BY <4>1, <4>2 DEF Tables
    <3> QED BY <1>2, <3>1, <3>2, <3>3 DEF Probing
  <2>2. NearestFirst'
    BY <2>1, NearestKept DEF NearInv
  <2> QED BY <2>1, <2>2 DEF NearInv, WalkPhases
<1>3. CASE CrawlAgain
  <2>1. Visited' = {} /\ Crawled' = {} /\ Tables' = {}
    BY <1>3 DEF CrawlAgain, Unseen, Visited, Crawled, Tables
  <2> QED BY <1>3, <2>1 DEF CrawlAgain, NearInv, NearestFirst
<1> QED BY <1>1, <1>2, <1>3, NearWalking DEF Next

(* The walk is breadth first, whatever the workers, the failures and what  *)
(* an earlier crawl left in the digital twin: no device is crawled in a    *)
(* wave later than the one that follows the first to name it.              *)
THEOREM WalkIsBreadthFirst == Spec => []NearestFirst
<1> DEFINE I == CoreInv /\ ReportInv /\ BudgetInv /\ NearInv
<1>1. Init => I
  <2> SUFFICES ASSUME Init PROVE I
    OBVIOUS
  <2>1. Visited = {} /\ Crawled = {} /\ Tables = {}
    BY DEF Init, Unseen, Visited, Crawled, Tables
  <2>2. ReportInv /\ NearInv
    BY <2>1 DEF Init, ReportInv, NearInv, NearestFirst, LatePhases
  <2> QED BY <2>2, BudgetInit
<1>2. I /\ [Next]_vars => I'
  BY CoreStep, ReportStep, BudgetStep, NearStep
<1>3. I => NearestFirst
  BY DEF NearInv
<1> QED BY <1>1, <1>2, <1>3, PTL DEF Spec

-----------------------------------------------------------------------------
(* The crawl implements SerialCrawl.                                       *)

(* The endpoints are probed in order.                                      *)
ProbedInv == pc \in LatePhases => \A r \in Probed : \A c \in candidates : r <= c[1]

LEMMA ProbedStep ==
  ASSUME CoreInv, ProbedInv, [Next]_vars PROVE ProbedInv'
<1>1. CASE \/ UNCHANGED vars \/ Collection \/ RecordKnown \/ RecordRefused
           \/ Probe \/ EndCrawl
  <2>1. /\ visited' = visited /\ candidates' \subseteq candidates
        /\ pc' \in LatePhases => pc \in LatePhases
    <3>1. CASE Collection
      BY <3>1, CollectionKeeps DEF Collection, CoreInv, walk, l3, LatePhases
    <3>2. CASE \/ UNCHANGED vars \/ RecordKnown \/ RecordRefused \/ Probe \/ EndCrawl
      BY <3>2 DEF vars, walk, l3, RecordKnown, RecordRefused, Probe, EndCrawl, Record,
                  LatePhases
    <3> QED BY <1>1, <3>1, <3>2
  <2> QED BY <2>1, ReportKept DEF ProbedInv
<1>2. CASE Walking \/ CrawlAgain
  BY <1>2 DEF Walking, SelectWave, EndCollection, Admit, AdmitOne, AdmissionFails,
              EndWave, CrawlAgain, ProbedInv, LatePhases
<1>3. CASE CloseWalk
  <2>1. Probed' = {}
    BY <1>3, CloseWalkReports, RefsAreNat
       DEF CloseWalk, CoreInv, WaveInv, WalkPhases, Probed
  <2> QED BY <2>1 DEF ProbedInv
<1>4. CASE AdmitProbed
  <2>1. /\ First \in candidates /\ First[1] \in Endpoints
        /\ \A o \in candidates : Before(First, o)
        /\ Visited' = Visited \cup {First[1]}
    BY <1>4, ProbeReports
  <2>2. candidates' \subseteq candidates /\ Probed' \subseteq Probed \cup {First[1]}
        /\ pc \in LatePhases
    BY <1>4, <2>1 DEF AdmitProbed, Record, Probed, LatePhases
  <2>3. \A c \in candidates : First[1] <= c[1]
    <3> SUFFICES ASSUME NEW c \in candidates PROVE First[1] <= c[1]
      OBVIOUS
    <3>1. First[1] \in Nat /\ c[1] \in Nat
      BY <2>1, RefsAreNat DEF CoreInv, TypeInv, TypeOK, Refs
    <3> QED BY <2>1, <3>1 DEF Before
  <2> QED BY <2>2, <2>3 DEF ProbedInv
<1> QED BY <1>1, <1>2, <1>3, <1>4 DEF Next, Probing

LEMMA SerialInit == ASSUME Init PROVE Serial!Init
<1>1. args.devices \in {c.devices : c \in Calls}
  BY DEF Init
<1>2. visited = [r \in Devices \cup Endpoints |-> "none"]
  BY DEF Init, Unseen, Refs
<1>3. PhaseOf = "select"
  BY DEF Init, PhaseOf
<1> QED BY <1>1, <1>2, <1>3 DEF Init, Serial!Init, Serial!Begin, Serial!All

LEMMA SerialCardinality == \A S : Serial!Cardinality(S) = Cardinality(S)
BY DEF Serial!Cardinality, Cardinality

LEMMA SerialPresent == Serial!Present = Visited
BY DEF Serial!Present, Serial!All, Visited, Refs

(* A crawl that stops, or raises, ends.                                    *)
LEMMA SerialEnds ==
  ASSUME TypeInv, UNCHANGED <<args, walk, twin, admitted>>,
         pc' \in {pc, "raised", "failed"}
  PROVE  [Serial!Next]_(Serial!seen)
<1>1. UNCHANGED <<args.devices, visited, frontier, following, unprobed, batch, twin,
                  admitted>>
  BY DEF walk
<1>2. CASE PhaseOf' = PhaseOf
  BY <1>1, <1>2 DEF Serial!seen
<1>3. CASE PhaseOf' # PhaseOf
  <2>1. PhaseOf' = "over"
    BY <1>3 DEF PhaseOf
  <2>2. PhaseOf # "over"
    BY <1>3, <2>1
  <2> QED BY <1>1, <2>1, <2>2 DEF Serial!Next, Serial!End
<1> QED BY <1>2, <1>3

LEMMA SerialSelects == ASSUME CoreInv, SelectWave PROVE Serial!Select
<1>1. /\ pc = "select" /\ pc' = "collect" /\ frontier # {}
      /\ unprobed' = unprobed \cup ((frontier \ Visited) \ batch')
      /\ UNCHANGED <<args, visited, frontier, following, twin, admitted>>
  BY SelectWaveIs DEF SelectWave
<1>2. PhaseOf = "select" /\ PhaseOf' = "visit"
  BY <1>1 DEF PhaseOf
<1>3. /\ batch' \in SUBSET (frontier \ Visited)
      /\ \A x \in batch', y \in (frontier \ Visited) \ batch' : x < y
      /\ Cardinality(Visited) < args.devices
      /\ batch' # frontier \ Visited =>
           Cardinality(batch') = args.devices - Cardinality(Visited)
      /\ Cardinality(batch') <= args.devices - Cardinality(Visited)
  BY WaveCounts
<1> QED BY <1>1, <1>2, <1>3, SerialPresent, SerialCardinality
       DEF Serial!Select

LEMMA SerialVisits == ASSUME CoreInv, Admit PROVE Serial!Visit
<1> DEFINE d == Least(batch)
<1>1. /\ d \in batch /\ d \in Refs /\ d \in Devices /\ AdmitOne(d)
      /\ \A e \in batch : d <= e
  BY AdmitIs DEF CoreInv
<1> HIDE DEF d
<1>2. /\ pc = "admit" /\ pc' = "admit" /\ batch' = batch \ {d}
      /\ UNCHANGED <<args, frontier, unprobed>>
      /\ visited' = [visited EXCEPT ![d] = job[d].status]
      /\ AdmitEvidence(d)
      /\ following' = following \cup
           (IF d \in twin' THEN {n \in Neighbours[d] : visited'[n] = "none"} ELSE {})
  BY <1>1 DEF AdmitOne, EnqueueNeighbours
<1>3. visited[d] = "none" /\ job[d].status \in Answers
  <2>1. d \notin Visited
    BY <1>1, <1>2 DEF CoreInv, WaveInv, WalkPhases
  <2>2. job[d].at = "ended"
    BY <1>1, <1>2 DEF CoreInv, PlaceInv
  <2> QED BY <1>1, <2>1, <2>2 DEF Visited, CoreInv, TypeInv, JobInv
<1>4. PhaseOf = "visit" /\ PhaseOf' = "visit"
  BY <1>2 DEF PhaseOf
<1>5. Serial!Record(d)
  <2>1. job[d].status \in Serial!Outcome
    BY <1>3 DEF Answers, Statuses, Serial!Outcome
  <2> QED BY <1>2, <1>3, <2>1 DEF Serial!Record, AdmitEvidence
<1> QED BY <1>1, <1>2, <1>4, <1>5 DEF Serial!Visit

LEMMA SerialProbes ==
  ASSUME CoreInv, BudgetInv, ProbedInv, AdmitProbed PROVE Serial!Probe
<1> DEFINE e == First[1]
<1>1. First \in candidates /\ e \in Endpoints /\ e \in Refs /\ e \notin Visited
  BY ProbeReports
<1>2. /\ pc = "probe" /\ pc' = "l3" /\ job[e].at = "ended"
      /\ visited' = [visited EXCEPT ![e] = job[e].status] /\ AdmitEvidence(e)
      /\ UNCHANGED <<args, frontier, following, unprobed, batch>>
  BY DEF AdmitProbed
<1>3. \A o \in Endpoints \cap Visited : o < e
  <2> SUFFICES ASSUME NEW o \in Endpoints \cap Visited PROVE o < e
    OBVIOUS
  <2>1. o <= e /\ o # e
    BY <1>1, <1>2 DEF ProbedInv, Probed, LatePhases
  <2>2. o \in Nat /\ e \in Nat
    BY <1>1, RefsAreNat DEF Visited
  <2> QED BY <2>1, <2>2
<1> HIDE DEF e
<1>4. Cardinality(Visited) < args.devices
  <2>1. Cardinality(Visited) \in Nat /\ args.devices \in Nat
    BY FiniteReport, LimitsType DEF CoreInv, Visited
  <2> QED BY <1>2, <2>1 DEF BudgetInv, NoBudget
<1>5. PhaseOf = "probe" /\ PhaseOf' = "probe"
  BY <1>2 DEF PhaseOf
<1>6. Serial!Record(e)
  <2>1. visited[e] = "none"
    BY <1>1 DEF Visited
  <2>2. job[e].status \in Serial!Outcome
    BY <1>1, <1>2 DEF CoreInv, TypeInv, JobInv, Answers, Statuses, Serial!Outcome
  <2> QED BY <1>2, <2>1, <2>2 DEF Serial!Record, AdmitEvidence
<1> QED BY <1>1, <1>2, <1>3, <1>4, <1>5, <1>6, SerialPresent, SerialCardinality
       DEF Serial!Probe

LEMMA SerialStep ==
  ASSUME CoreInv, BudgetInv, ProbedInv, [Next]_vars
  PROVE  [Serial!Next]_(Serial!seen)
<1>1. CASE UNCHANGED vars
  BY <1>1, SerialEnds DEF vars, CoreInv
<1>2. CASE Collection
  <2>1. UNCHANGED <<args, walk, twin, admitted>> /\ pc' \in {pc, "raised"}
    BY <1>2, CollectionKeeps DEF Collection, CoreInv
  <2> QED BY <2>1, SerialEnds DEF CoreInv
<1>3. CASE SelectWave
  BY <1>3, SerialSelects DEF Serial!Next
<1>4. CASE Admit
  BY <1>4, SerialVisits DEF Serial!Next
<1>5. CASE AdmissionFails
  BY <1>5, SerialEnds DEF AdmissionFails, CoreInv
<1>6. CASE EndCollection \/ RecordKnown \/ RecordRefused \/ Probe
  <2>1. /\ UNCHANGED <<args, walk, twin, admitted>>
        /\ \/ pc = "collect" /\ pc' = "admit"
           \/ pc = "l3" /\ pc' \in {"l3", "probe"}
    BY <1>6 DEF EndCollection, RecordKnown, RecordRefused, Probe
  <2>2. PhaseOf' = PhaseOf
    BY <2>1 DEF PhaseOf
  <2> QED BY <2>1, <2>2 DEF Serial!seen, walk
<1>7. CASE EndCrawl
  <2>1. UNCHANGED <<args, walk, twin, admitted>> /\ pc = "l3" /\ pc' = "done"
    BY <1>7 DEF EndCrawl
  <2>2. PhaseOf = "probe" /\ PhaseOf' = "over"
    BY <2>1 DEF PhaseOf
  <2> QED BY <2>1, <2>2 DEF Serial!Next, Serial!End, walk
<1>8. CASE EndWave
  <2>1. PhaseOf = "visit" /\ PhaseOf' = "select"
    BY <1>8 DEF EndWave, PhaseOf
  <2> QED BY <1>8, <2>1 DEF EndWave, Serial!Next, Serial!EndWave
<1>9. CASE CloseWalk
  <2>1. PhaseOf = "select" /\ PhaseOf' = "probe"
    BY <1>9 DEF CloseWalk, PhaseOf
  <2>2. visited' = [r \in Serial!All |->
          IF r \in (unprobed \cup frontier) \ Serial!Present
          THEN "NOT_PROBED" ELSE visited[r]]
    BY <1>9, SerialPresent DEF CloseWalk, LeftOver, Serial!All, Refs
  <2> QED BY <1>9, <2>1, <2>2, SerialPresent, SerialCardinality
         DEF CloseWalk, Serial!Next, Serial!CloseWalk
<1>10. CASE AdmitProbed
  BY <1>10, SerialProbes DEF Serial!Next
<1>11. CASE CrawlAgain
  <2>1. PhaseOf = "over" /\ PhaseOf' = "select"
    BY <1>11 DEF CrawlAgain, PhaseOf
  <2>2. args'.devices \in {c.devices : c \in Calls}
    BY <1>11 DEF CrawlAgain
  <2>3. visited' = [r \in Devices \cup Endpoints |-> "none"]
    BY <1>11 DEF CrawlAgain, Unseen, Refs
  <2>4. Serial!Begin'
    BY <1>11, <2>1, <2>2, <2>3 DEF CrawlAgain, Serial!Begin, Serial!All
  <2> QED BY <1>11, <2>1, <2>4 DEF CrawlAgain, Serial!Next, Serial!Again
<1> QED BY <1>1, <1>2, <1>3, <1>4, <1>5, <1>6, <1>7, <1>8, <1>9, <1>10, <1>11
        DEF Next, Walking, Probing

(* For any number of worker threads, whatever the order in which they run, *)
(* end or raise, a crawl records what a crawler that visits one device     *)
(* after another could have recorded, step by step.                        *)
THEOREM ThreadsChangeNothing == Spec => RecordsLikeSerial
<1> DEFINE I == CoreInv /\ BudgetInv /\ ProbedInv
<1>1. Init => I
  BY BudgetInit DEF Init, ProbedInv, LatePhases
<1>2. I /\ [Next]_vars => I'
  BY CoreStep, BudgetStep, ProbedStep
<1>3. Init => Serial!Init
  BY SerialInit
<1>4. I /\ [Next]_vars => [Serial!Next]_(Serial!seen)
  BY SerialStep
<1> QED BY <1>1, <1>2, <1>3, <1>4, PTL DEF Spec, RecordsLikeSerial, Serial!Spec
=============================================================================
