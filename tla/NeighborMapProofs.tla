--------------------------- MODULE NeighborMapProofs ---------------------------
(***************************************************************************)
(* Proofs about NeighborMap, for any network, any hostnames and chassis    *)
(* ids, any budget and any number of crawls: devices are told apart where  *)
(* they should be, and every reported link was recorded.                   *)
(***************************************************************************)
EXTENDS NeighborMap, FiniteSetTheorems, WellFoundedInduction, TLAPS

-----------------------------------------------------------------------------
(* Rows and references.                                                    *)

LEMMA RefType ==
  ASSUME NEW ref \in Ref
  PROVE  ref[1] \in Nat /\ ref[2] \in Nat /\ ref = <<ref[1], ref[2]>>
<1>1. ref[1] \in Names \cup {None} /\ ref[2] \in Chassis \cup {None}
  BY DEF Ref
<1>2. \A n \in Names \cup Chassis \cup {None} : n \in Nat
  BY NamesAssumption DEF None
<1>3. ref = <<ref[1], ref[2]>>
  BY DEF Ref
<1> QED BY <1>1, <1>2, <1>3

LEMMA PlainRefs == Unknown \in Ref /\ Seed \in Ref /\ Seed # Unknown
BY NamesAssumption DEF Ref, Unknown, Seed, Plain, None

LEMMA RowType ==
  ASSUME TypeOK, NEW o \in Ref, NEW i \in DOMAIN TableOf(o)
  PROVE  /\ TableOf(o)[i] \in Row /\ held[o] \in Boxes
         /\ TableOf(o) = network[held[o]]
         /\ i \in Nat /\ 1 <= i /\ i <= Len(TableOf(o))
<1>1. CASE held[o] = None
  BY <1>1 DEF TableOf
<1>2. CASE held[o] # None
  <2>1. held[o] \in Boxes /\ network \in [Boxes -> Seq(Row)]
    BY <1>2, BoxesAssumption DEF TypeOK
  <2>2. TableOf(o) = network[held[o]] /\ network[held[o]] \in Seq(Row)
    BY <1>2, <2>1 DEF TableOf
  <2> QED BY <2>1, <2>2
<1> QED BY <1>1, <1>2

LEMMA RowFields ==
  ASSUME NEW r \in Row
  PROVE  /\ r.name \in Names \cup {None} /\ r.chassis \in Chassis \cup {None}
         /\ r.port \in Ports /\ r.far \in Ports \cup {None} /\ r.box \in Boxes
         /\ r.hint \in Families \cup {Unstated}
BY DEF Row

LEMMA KeyType ==
  ASSUME NEW o \in Ref, NEW r \in Row, r.name # None
  PROVE  /\ r.name \in Names /\ r.chassis \in Chassis \cup {None}
         /\ Key(o, r) = <<o, r.name, r.chassis>>
         /\ Key(o, r) \in Ref \X Names \X (Chassis \cup {None})
BY RowFields DEF Key

(* A row without a split names the plain device; a split needs two ids.    *)
LEMMA RegisterIs ==
  ASSUME TypeOK, NEW o \in Ref, NEW r \in Row, r.name # None
  PROVE  /\ Register(o, r) \in {Plain(r.name), <<r.name, r.chassis>>}
         /\ Register(o, r) \in Ref /\ Register(o, r) # Unknown
BY RowFields DEF Register, Ref, Plain, Unknown, None

LEMMA ResolveIs ==
  ASSUME TypeOK, NEW o \in Ref, NEW r \in Row
  PROVE  Resolve(o, r) \in Ref /\ (r.name # None => Resolve(o, r) # Unknown)
<1>1. CASE r.name = None
  BY <1>1, PlainRefs DEF Resolve
<1>2. CASE r.name # None /\ resolution[Key(o, r)] # Unknown
  BY <1>2, KeyType DEF Resolve, TypeOK
<1>3. CASE r.name # None /\ resolution[Key(o, r)] = Unknown
  BY <1>3, RegisterIs DEF Resolve
<1> QED BY <1>1, <1>2, <1>3

LEMMA SeenWithType ==
  ASSUME TypeOK, NEW o \in Ref, NEW r \in Row, r.name # None
  PROVE  SeenWith(o, r) \in SUBSET Chassis /\ seen[o][r.name] \in SUBSET Chassis
BY RowFields DEF SeenWith, TypeOK

LEMMA MoreThanOne ==
  ASSUME NEW S, Cardinality(S) > 1, NEW x
  PROVE  \E y \in S : y # x
<1> SUFFICES ASSUME \A y \in S : y = x PROVE FALSE
  OBVIOUS
<1>1. S = {} \/ S = {x}
  OBVIOUS
<1>2. Cardinality({}) = 0 /\ Cardinality({x}) = 1
  BY FS_EmptySet, FS_Singleton
<1> QED BY <1>1, <1>2

LEMMA NotMoreThanOne ==
  ASSUME NEW S, IsFiniteSet(S), ~(Cardinality(S) > 1), NEW x \in S, NEW y \in S
  PROVE  x = y
<1> SUFFICES ASSUME x # y PROVE FALSE
  OBVIOUS
<1>1. Cardinality({x}) = 1 /\ IsFiniteSet({x})
  BY FS_Singleton
<1>2. Cardinality({x} \cup {y}) = 2 /\ IsFiniteSet({x} \cup {y})
  <2>1. y \notin {x}
    OBVIOUS
  <2>2. IsFiniteSet({x} \cup {y}) /\ Cardinality({x} \cup {y}) = Cardinality({x}) + 1
    BY <1>1, <2>1, FS_AddElement
  <2> QED BY <1>1, <2>2
<1>3. ({x} \cup {y}) \in SUBSET S
  OBVIOUS
<1>4. Cardinality({x} \cup {y}) <= Cardinality(S) /\ Cardinality(S) \in Nat
  BY <1>3, FS_Subset, FS_CardinalityType
<1> QED BY <1>2, <1>4

-----------------------------------------------------------------------------
(* Types.                                                                  *)

LEMMA LinkStates ==
  ASSUME NEW s \in {"UNKNOWN", "ONE_SIDED", "DIRECT_NEIGHBOR_PROBABLE"}
  PROVE  /\ OneSided(s) \in {"ONE_SIDED", "DIRECT_NEIGHBOR_PROBABLE"}
         /\ Probable(OneSided(s)) = "DIRECT_NEIGHBOR_PROBABLE"
BY DEF OneSided, Probable

LEMMA EndsType ==
  ASSUME TypeOK, NEW o \in Ref, NEW r \in Row
  PROVE  /\ Ends(o, r) \subseteq Ref \X (Ports \cup {None})
         /\ StateOf(Ends(o, r)) \in {"UNKNOWN", "ONE_SIDED", "DIRECT_NEIGHBOR_PROBABLE"}
<1>1. Resolve(o, r) \in Ref
  BY ResolveIs
<1>2. Ends(o, r) \subseteq Ref \X (Ports \cup {None})
  BY <1>1, RowFields DEF Ends
<1> QED BY <1>2 DEF StateOf, TypeOK

(* What grading one row does to the machines of the links.                 *)
LEMMA GradeIs ==
  ASSUME TypeOK, NEW o \in Ref, NEW r \in Row, Grade(o, r)
  PROVE  /\ DOMAIN links' = DOMAIN links \cup {Ends(o, r)}
         /\ \A m \in DOMAIN links : m # Ends(o, r) => links'[m] = links[m]
         /\ links'[Ends(o, r)] \in {"ONE_SIDED", "DIRECT_NEIGHBOR_PROBABLE"}
         /\ StateOf(Ends(o, r)) = "DIRECT_NEIGHBOR_PROBABLE"
              => links'[Ends(o, r)] = "DIRECT_NEIGHBOR_PROBABLE"
         /\ Resolve(o, r) # Unknown /\ NamesBack(o, r)
              => links'[Ends(o, r)] = "DIRECT_NEIGHBOR_PROBABLE"
<1> DEFINE l == Ends(o, r)
           s == OneSided(StateOf(l))
           up == Resolve(o, r) # Unknown /\ NamesBack(o, r)
<1>1. links' = [m \in DOMAIN links \cup {l} |->
                  IF m # l THEN links[m] ELSE IF up THEN Probable(s) ELSE s]
  BY DEF Grade
<1>2. /\ s \in {"ONE_SIDED", "DIRECT_NEIGHBOR_PROBABLE"}
      /\ Probable(s) = "DIRECT_NEIGHBOR_PROBABLE"
  BY EndsType, LinkStates
<1>3. StateOf(l) = "DIRECT_NEIGHBOR_PROBABLE" => s = "DIRECT_NEIGHBOR_PROBABLE"
  BY DEF OneSided
<1> HIDE DEF l, s, up
<1>4. links'[l] = IF up THEN Probable(s) ELSE s
  BY <1>1
<1> QED BY <1>1, <1>2, <1>3, <1>4 DEF l, up

LEMMA NoteIs ==
  ASSUME TypeOK, NEW o \in Ref, NEW r \in Row, Note(o, r)
  PROVE  /\ refs' \subseteq Ref
         /\ seen' \in [Ref -> [Names -> SUBSET Chassis]]
         /\ resolution' \in [Ref \X Names \X (Chassis \cup {None}) -> Ref]
<1>1. CASE r.name = None
  BY <1>1 DEF Note, TypeOK, identity
<1>2. CASE r.name # None
  <2>1. Resolve(o, r) \in Ref /\ r.name \in Names
    BY <1>2, ResolveIs, KeyType
  <2>2. SeenWith(o, r) \in SUBSET Chassis
    BY <1>2, SeenWithType
  <2>3. refs' \subseteq Ref /\ resolution' \in [Ref \X Names \X (Chassis \cup {None}) -> Ref]
    BY <1>2, <2>1, ZenonT(240) DEF Note, TypeOK
  <2>4. seen' = [seen EXCEPT ![o] = [seen[o] EXCEPT ![r.name] = SeenWith(o, r)]]
    BY <1>2 DEF Note, TypeOK
  <2>5. [seen[o] EXCEPT ![r.name] = SeenWith(o, r)] \in [Names -> SUBSET Chassis]
    BY <2>1, <2>2 DEF TypeOK
  <2> QED BY <2>3, <2>4, <2>5 DEF TypeOK
<1> QED BY <1>1, <1>2

LEMMA SeedIsQueued == TheSeed \in Queue
BY PlainRefs, BoxesAssumption, FamiliesAssumption DEF TheSeed, Queue

LEMMA InitType == Init => TypeOK
BY SeedIsQueued, PlainRefs, NamesAssumption, BoxesAssumption
   DEF Init, TypeOK, Ref, Seed, Unknown, Plain, None

LEMMA WaveTypes ==
  TypeOK /\ (SelectWave \/ EndWave \/ CrawlAgain) => TypeOK'
<1> SUFFICES ASSUME TypeOK, SelectWave \/ EndWave \/ CrawlAgain PROVE TypeOK'
  OBVIOUS
<1>1. TheSeed \in Queue
  BY SeedIsQueued
<1>2. CASE SelectWave
  <2>1. /\ batch' \subseteq frontier
        /\ \A ref \in unprobed' : ref \in unprobed \/ \E e \in frontier : ref = e[1]
    BY <1>2 DEF SelectWave
  <2>2. \A e \in frontier : e[1] \in Ref
    BY DEF TypeOK, Queue
  <2>3. batch' \subseteq Queue /\ unprobed' \subseteq Ref
    BY <2>1, <2>2 DEF TypeOK
  <2> QED BY <1>2, <2>3 DEF SelectWave, TypeOK, given, identity
<1>3. CASE EndWave
  BY <1>3 DEF EndWave, TypeOK, given, identity
<1>4. CASE CrawlAgain
  BY <1>1, <1>4 DEF CrawlAgain, TypeOK, given, identity
<1> QED BY <1>2, <1>3, <1>4

LEMMA AdmitTypes ==
  ASSUME TypeOK, NEW e \in batch, NEW answers \in BOOLEAN, Admit(e, answers)
  PROVE  TypeOK'
<1>1. e[1] \in Ref /\ e[2] \in Boxes /\ e[3] \in Families \cup {Unstated}
  BY DEF TypeOK, Queue
<1>2. silent' \in Nat
  BY DEF Admit, TypeOK
<1>3. held' \in [Ref -> Boxes \cup {None}]
  BY <1>1 DEF Admit, TypeOK
<1>4. family' \in [Ref -> Families \cup {Unstated}]
  BY <1>1 DEF Admit, TypeOK
<1> QED BY <1>1, <1>2, <1>3, <1>4 DEF Admit, TypeOK, given, identity

LEMMA RecordTypes == TypeOK /\ RecordRow => TypeOK'
<1> SUFFICES ASSUME TypeOK, RecordRow PROVE TypeOK'
  OBVIOUS
<1>1. at \in Ref /\ row \in DOMAIN TableOf(at)
  <2>1. TableOf(at) \in Seq(Row)
    BY BoxesAssumption DEF TableOf, TypeOK
  <2> QED BY <2>1 DEF RecordRow, TypeOK
<1>2. PICK r \in Row : r = TableOf(at)[row]
  BY <1>1, RowType
<1>3. Note(at, r) /\ Grade(at, r)
  BY <1>2 DEF RecordRow
<1>4. \A l \in DOMAIN links' : /\ l \subseteq Ref \X (Ports \cup {None})
                               /\ links'[l] \in {"ONE_SIDED", "DIRECT_NEIGHBOR_PROBABLE"}
  <2>1. /\ DOMAIN links' = DOMAIN links \cup {Ends(at, r)}
        /\ \A m \in DOMAIN links : m # Ends(at, r) => links'[m] = links[m]
        /\ links'[Ends(at, r)] \in {"ONE_SIDED", "DIRECT_NEIGHBOR_PROBABLE"}
    BY <1>1, <1>3, GradeIs
  <2>2. Ends(at, r) \subseteq Ref \X (Ports \cup {None})
    BY <1>1, EndsType
  <2> QED BY <2>1, <2>2 DEF TypeOK
<1> QED BY <1>1, <1>3, <1>4, NoteIs DEF RecordRow, TypeOK, given, walk

LEMMA EnqueueTypes == TypeOK /\ Enqueue => TypeOK'
<1> SUFFICES ASSUME TypeOK, Enqueue PROVE TypeOK'
  OBVIOUS
<1>1. Named(at) \subseteq Queue
  <2> SUFFICES ASSUME NEW i \in DOMAIN TableOf(at)
               PROVE  <<Resolve(at, TableOf(at)[i]), TableOf(at)[i].box,
                        TableOf(at)[i].hint>> \in Queue
    BY DEF Named
  <2>1. PICK r \in Row : r = TableOf(at)[i]
    BY RowType DEF TypeOK
  <2> QED BY <2>1, ResolveIs, RowFields DEF TypeOK, Queue
<1> QED BY <1>1 DEF Enqueue, TypeOK, given, identity

LEMMA ReportTypes == TypeOK /\ Report => TypeOK'
BY DEF Report, TypeOK, Queue, given, identity

(* Every variable keeps its type.                                          *)
THEOREM TypeCorrect == Spec => []TypeOK
<1>1. Init => TypeOK
  BY InitType
<1>2. TypeOK /\ [Next]_vars => TypeOK'
  <2> SUFFICES ASSUME TypeOK, [Next]_vars PROVE TypeOK'
    OBVIOUS
  <2>1. CASE SelectWave \/ EndWave \/ CrawlAgain
    BY <2>1, WaveTypes
  <2>2. ASSUME NEW e \in batch, NEW answers \in BOOLEAN, Admit(e, answers)
        PROVE  TypeOK'
    BY <2>2, AdmitTypes
  <2>3. CASE RecordRow
    BY <2>3, RecordTypes
  <2>4. CASE Enqueue
    BY <2>4, EnqueueTypes
  <2>5. CASE Report
    BY <2>5, ReportTypes
  <2>6. CASE UNCHANGED vars
    BY <2>6 DEF vars, given, identity, walk, TypeOK
  <2> QED BY <2>1, <2>2, <2>3, <2>4, <2>5, <2>6 DEF Next
<1> QED BY <1>1, <1>2, PTL DEF Spec

-----------------------------------------------------------------------------
(* The walk.                                                               *)

(* No device is queued and visited at once, and none is nobody.            *)
Walked ==
  /\ crawls >= 1
  /\ pc = "record" => at \in visited
  /\ \A e \in batch : e[1] \notin visited
  /\ Unknown \notin visited
  /\ \A e \in batch \cup frontier \cup following : e[1] # Unknown

LEMMA InitWalked == Init => Walked
BY PlainRefs DEF Init, Walked, TheSeed

LEMMA BeforeIsStrict ==
  ASSUME NEW e \in Queue, NEW f \in Queue, Before(e, f)
  PROVE  e[1] # f[1]
<1>1. /\ e[1][1] \in Nat /\ e[1][2] \in Nat
      /\ f[1][1] \in Nat /\ f[1][2] \in Nat
  BY RefType DEF Queue
<1> QED BY <1>1 DEF Before

LEMMA AdmitWalked ==
  ASSUME TypeOK, Walked, NEW e \in batch, NEW answers \in BOOLEAN,
         Admit(e, answers)
  PROVE  Walked' /\ e[1] \notin visited /\ e[1] \in Ref
<1>1. e \in Queue /\ e[1] \in Ref /\ e[1] \notin visited /\ e[1] # Unknown
  BY DEF TypeOK, Walked, Queue
<1>2. \A f \in batch' : f[1] \notin visited'
  <2> SUFFICES ASSUME NEW f \in batch' PROVE f[1] \notin visited'
    OBVIOUS
  <2>1. f \in batch /\ f # e /\ visited' = visited \cup {e[1]}
    BY DEF Admit
  <2>2. f \in Queue /\ Before(e, f) /\ f[1] \notin visited
    BY <2>1 DEF Admit, TypeOK, Walked
  <2> QED BY <1>1, <2>1, <2>2, BeforeIsStrict
<1> QED BY <1>1, <1>2 DEF Admit, Walked, TypeOK

LEMMA NamedIs ==
  ASSUME NEW e \in Named(at)
  PROVE  e[1] \notin visited /\ e[1] # Unknown
BY DEF Named

LEMMA WalkedKept == TypeOK /\ Walked /\ [Next]_vars => Walked'
<1> SUFFICES ASSUME TypeOK, Walked, [Next]_vars PROVE Walked'
  OBVIOUS
<1>1. CASE SelectWave
  BY <1>1 DEF SelectWave, Walked
<1>2. ASSUME NEW e \in batch, NEW answers \in BOOLEAN, Admit(e, answers)
      PROVE  Walked'
  BY <1>2, AdmitWalked
<1>3. CASE RecordRow
  BY <1>3 DEF RecordRow, Walked, walk
<1>4. CASE Enqueue
  BY <1>4, NamedIs DEF Enqueue, Walked
<1>5. CASE EndWave
  BY <1>5 DEF EndWave, Walked
<1>6. CASE Report
  BY <1>6 DEF Report, Walked
<1>7. CASE CrawlAgain
  BY <1>7, PlainRefs DEF CrawlAgain, Walked, TypeOK, TheSeed
<1>8. CASE UNCHANGED vars
  BY <1>8 DEF vars, walk, Walked
<1> QED BY <1>1, <1>2, <1>3, <1>4, <1>5, <1>6, <1>7, <1>8 DEF Next

-----------------------------------------------------------------------------
(* Devices told apart.                                                     *)

(* What a memo of an observer's row may say.                               *)
MemoFits(o, n, c) ==
  resolution[<<o, n, c>>] # Unknown =>
    /\ resolution[<<o, n, c>>] \in refs
    /\ resolution[<<o, n, c>>] \in {Plain(n), <<n, c>>}
    /\ c # None => c \in seen[o][n]

Remembered ==
  /\ \A o \in Ref, n \in Names : IsFiniteSet(seen[o][n])
  /\ \A o \in Ref, n \in Names, c \in Chassis \cup {None} : MemoFits(o, n, c)
  /\ TwoBoxesAreTwo

LEMMA InitRemembered == Init => Remembered
<1> SUFFICES ASSUME Init PROVE Remembered
  OBVIOUS
<1>1. \A o \in Ref, n \in Names, c \in Chassis \cup {None} :
         resolution[<<o, n, c>>] = Unknown
  BY DEF Init
<1>2. \A o \in Ref, n \in Names : seen[o][n] = {}
  BY DEF Init
<1> QED BY <1>1, <1>2, FS_EmptySet, SMTT(60) DEF Remembered, MemoFits, TwoBoxesAreTwo

(* One row with a name, seen for the first time or again.                  *)
LEMMA NoteChanges ==
  ASSUME TypeOK, NEW o \in Ref, NEW r \in Row, r.name # None, Note(o, r)
  PROVE  /\ refs' = refs \cup {Resolve(o, r)}
         /\ \A p \in Ref, n \in Names :
              seen'[p][n] = IF p = o /\ n = r.name THEN SeenWith(o, r) ELSE seen[p][n]
         /\ \A p \in Ref, n \in Names, c \in Chassis \cup {None} :
              resolution'[<<p, n, c>>] =
                IF <<p, n, c>> = Key(o, r) THEN Resolve(o, r)
                ELSE resolution[<<p, n, c>>]
<1>1. r.name \in Names /\ Key(o, r) \in Ref \X Names \X (Chassis \cup {None})
  BY KeyType
<1>2. seen' = [seen EXCEPT ![o] = [seen[o] EXCEPT ![r.name] = SeenWith(o, r)]]
  BY DEF Note, TypeOK
<1>3. \A p \in Ref, n \in Names :
        seen'[p][n] = IF p = o /\ n = r.name THEN SeenWith(o, r) ELSE seen[p][n]
  BY <1>1, <1>2 DEF TypeOK
<1>4. resolution' = [resolution EXCEPT ![Key(o, r)] = Resolve(o, r)]
  BY DEF Note
<1>5. \A p \in Ref, n \in Names, c \in Chassis \cup {None} :
        resolution'[<<p, n, c>>] =
          IF <<p, n, c>> = Key(o, r) THEN Resolve(o, r) ELSE resolution[<<p, n, c>>]
  BY <1>1, <1>4 DEF TypeOK
<1> QED BY <1>3, <1>5 DEF Note

(* Where a fresh row is split off, another id was seen behind its name;    *)
(* where it is not, no other was.                                          *)
LEMMA FreshRow ==
  ASSUME TypeOK, Remembered, NEW o \in Ref, NEW r \in Row, r.name # None
  PROVE  /\ Register(o, r) # Plain(r.name) =>
              /\ r.chassis \in Chassis /\ Register(o, r) = <<r.name, r.chassis>>
              /\ \E c \in seen[o][r.name] : c # r.chassis
         /\ Register(o, r) = Plain(r.name) /\ r.chassis # None =>
              \A c \in seen[o][r.name] : c = r.chassis
<1>1. r.name \in Names /\ r.chassis \in Chassis \cup {None}
  BY KeyType
<1>2. CASE FirstHandSplit(o, r)
  <2>1. r.chassis # None /\ Register(o, r) = <<r.name, r.chassis>>
    BY <1>2 DEF FirstHandSplit, Register
  <2>2. PICK c \in SeenWith(o, r) : c # r.chassis
    BY <1>2, MoreThanOne DEF FirstHandSplit
  <2>3. c \in seen[o][r.name]
    BY <2>2 DEF SeenWith
  <2>4. Register(o, r) # Plain(r.name)
    BY <2>1 DEF Plain
  <2> QED BY <1>1, <2>1, <2>2, <2>3, <2>4
<1>3. CASE ~FirstHandSplit(o, r)
  <2>1. Register(o, r) = Plain(r.name)
    BY <1>3 DEF Register
  <2>2. ASSUME r.chassis # None, NEW c \in seen[o][r.name] PROVE c = r.chassis
    <3>1. r.chassis \in SeenWith(o, r) /\ c \in SeenWith(o, r)
      BY <2>2 DEF SeenWith
    <3>2. ~(Cardinality(SeenWith(o, r)) > 1)
      BY <1>3, <2>2 DEF FirstHandSplit
    <3>3. IsFiniteSet(seen[o][r.name])
      BY <1>1 DEF Remembered
    <3>4. SeenWith(o, r) = seen[o][r.name] \cup {r.chassis}
      BY <2>2 DEF SeenWith
    <3>5. IsFiniteSet(SeenWith(o, r))
      BY <3>3, <3>4, FS_AddElement
    <3> QED BY <3>1, <3>2, <3>5, NotMoreThanOne
  <2> QED BY <2>1, <2>2
<1> QED BY <1>2, <1>3

(* The memo of a row, before and after.                                    *)
LEMMA ResolveFits ==
  ASSUME TypeOK, Remembered, NEW o \in Ref, NEW r \in Row, r.name # None
  PROVE  /\ Resolve(o, r) \in {Plain(r.name), <<r.name, r.chassis>>}
         /\ resolution[Key(o, r)] # Unknown => Resolve(o, r) = resolution[Key(o, r)]
         /\ resolution[Key(o, r)] = Unknown => Resolve(o, r) = Register(o, r)
<1>1. /\ r.name \in Names /\ r.chassis \in Chassis \cup {None}
      /\ Key(o, r) = <<o, r.name, r.chassis>>
  BY KeyType
<1>2. MemoFits(o, r.name, r.chassis)
  BY <1>1 DEF Remembered
<1> QED BY <1>1, <1>2, RegisterIs DEF MemoFits, Resolve

LEMMA NoteRemembered ==
  ASSUME TypeOK, Remembered, NEW o \in Ref, NEW r \in Row, Note(o, r)
  PROVE  Remembered'
<1>1. CASE r.name = None
  BY <1>1 DEF Note, identity, Remembered, MemoFits, TwoBoxesAreTwo
<1>2. CASE r.name # None
  <2>k. /\ r.name \in Names /\ r.chassis \in Chassis \cup {None}
        /\ Key(o, r) = <<o, r.name, r.chassis>>
    BY <1>2, KeyType
  <2>c. /\ refs' = refs \cup {Resolve(o, r)}
        /\ \A p \in Ref, n \in Names :
              seen'[p][n] = IF p = o /\ n = r.name THEN SeenWith(o, r) ELSE seen[p][n]
        /\ \A p \in Ref, n \in Names, c \in Chassis \cup {None} :
              resolution'[<<p, n, c>>] =
                IF <<p, n, c>> = Key(o, r) THEN Resolve(o, r)
                ELSE resolution[<<p, n, c>>]
    BY <1>2, NoteChanges
  <2>s. /\ seen[o][r.name] \subseteq SeenWith(o, r)
        /\ r.chassis # None => r.chassis \in SeenWith(o, r)
    BY DEF SeenWith
  <2>1. \A p \in Ref, n \in Names : IsFiniteSet(seen'[p][n])
    <3>1. IsFiniteSet(seen[o][r.name])
      BY <2>k DEF Remembered
    <3>2. IsFiniteSet(SeenWith(o, r))
      <4>1. CASE r.chassis = None
        BY <3>1, <4>1 DEF SeenWith
      <4>2. CASE r.chassis # None
        <5>1. SeenWith(o, r) = seen[o][r.name] \cup {r.chassis}
          BY <4>2 DEF SeenWith
        <5> QED BY <3>1, <5>1, FS_AddElement
      <4> QED BY <4>1, <4>2
    <3> QED BY <2>c, <3>2 DEF Remembered
  <2>2. ASSUME NEW p \in Ref, NEW n \in Names, NEW c \in Chassis \cup {None}
        PROVE  MemoFits(p, n, c)'
    <3>1. CASE <<p, n, c>> = Key(o, r)
      <4>1. p = o /\ n = r.name /\ c = r.chassis
        BY <3>1, <2>k
      <4>2. Resolve(o, r) \in {Plain(r.name), <<r.name, r.chassis>>}
        BY <1>2, ResolveFits
      <4> QED BY <2>c, <2>s, <3>1, <4>1, <4>2 DEF MemoFits
    <3>2. CASE <<p, n, c>> # Key(o, r)
      <4>1. MemoFits(p, n, c)
        BY DEF Remembered
      <4>2. seen[p][n] \subseteq seen'[p][n]
        BY <2>c, <2>s
      <4>3. resolution'[<<p, n, c>>] = resolution[<<p, n, c>>]
        BY <2>c, <3>2
      <4> QED BY <2>c, <4>1, <4>2, <4>3 DEF MemoFits
    <3> QED BY <3>1, <3>2
  <2>3. ASSUME NEW d \in Chassis, d # r.chassis, r.chassis # None,
               resolution[<<o, r.name, d>>] # Unknown
        PROVE  Resolve(o, r) # resolution[<<o, r.name, d>>]
    <3>1. CASE resolution[Key(o, r)] # Unknown
      BY <1>2, <2>k, <2>3, <3>1, ResolveFits DEF Remembered, TwoBoxesAreTwo
    <3>2. CASE resolution[Key(o, r)] = Unknown
      <4>1. MemoFits(o, r.name, d)
        BY <2>k DEF Remembered
      <4>2. /\ d \in seen[o][r.name]
            /\ resolution[<<o, r.name, d>>] \in {Plain(r.name), <<r.name, d>>}
        BY <4>1, <2>3, NamesAssumption DEF MemoFits
      <4>3. Resolve(o, r) = <<r.name, r.chassis>>
        BY <1>2, <2>3, <3>2, <4>2, FreshRow, ResolveFits
      <4>4. <<r.name, r.chassis>> # Plain(r.name) /\ <<r.name, r.chassis>> # <<r.name, d>>
        BY <2>3 DEF Plain
      <4> QED BY <4>2, <4>3, <4>4
    <3> QED BY <3>1, <3>2
  <2>4. TwoBoxesAreTwo'
    <3> SUFFICES ASSUME NEW p \in Ref, NEW n \in Names, NEW c \in Chassis,
                        NEW d \in Chassis, c # d,
                        resolution'[<<p, n, c>>] # Unknown,
                        resolution'[<<p, n, d>>] # Unknown
                 PROVE  resolution'[<<p, n, c>>] # resolution'[<<p, n, d>>]
      BY DEF TwoBoxesAreTwo
    <3>1. CASE <<p, n, c>> = Key(o, r)
      <4>1. p = o /\ n = r.name /\ c = r.chassis /\ <<p, n, d>> # Key(o, r)
        BY <2>k, <3>1
      <4>2. c # None
        BY NamesAssumption
      <4> QED BY <2>3, <2>c, <3>1, <4>1, <4>2
    <3>2. CASE <<p, n, d>> = Key(o, r)
      <4>1. p = o /\ n = r.name /\ d = r.chassis /\ <<p, n, c>> # Key(o, r)
        BY <2>k, <3>2
      <4>2. d # None
        BY NamesAssumption
      <4> QED BY <2>3, <2>c, <3>2, <4>1, <4>2
    <3>3. CASE <<p, n, c>> # Key(o, r) /\ <<p, n, d>> # Key(o, r)
      BY <2>c, <3>3 DEF Remembered, TwoBoxesAreTwo
    <3> QED BY <3>1, <3>2, <3>3
  <2> QED BY <2>1, <2>2, <2>4 DEF Remembered
<1> QED BY <1>1, <1>2

(* Of the first crawl: only a visited device has seen anything, and the    *)
(* box the twin holds for it shows all of it.                              *)
ShowsTwo(ref) ==
  \E b \in Boxes, c \in Chassis \ {ref[2]} :
    Shows(b, ref[1], ref[2]) /\ Shows(b, ref[1], c)

Seen(o, n, c) == o \in visited /\ held[o] # None /\ Shows(held[o], n, c)

FirstCrawl ==
  crawls = 1 =>
    /\ \A o \in Ref, n \in Names : \A c \in seen[o][n] : Seen(o, n, c)
    /\ \A ref \in refs : ref[2] # None => ShowsTwo(ref)

LEMMA InitFirstCrawl == Init => FirstCrawl
<1> SUFFICES ASSUME Init PROVE FirstCrawl
  OBVIOUS
<1>1. \A o \in Ref, n \in Names : seen[o][n] = {}
  BY DEF Init
<1>2. \A ref \in refs : ref[2] = None
  BY DEF Init, Seed, Plain
<1> QED BY <1>1, <1>2 DEF FirstCrawl

LEMMA AdmitFirstCrawl ==
  ASSUME TypeOK, Walked, FirstCrawl, NEW e \in batch, NEW answers \in BOOLEAN,
         Admit(e, answers)
  PROVE  FirstCrawl'
<1> SUFFICES ASSUME crawls = 1 PROVE FirstCrawl'
  BY DEF Admit, FirstCrawl
<1>1. /\ seen' = seen /\ refs' = refs /\ network' = network
      /\ visited' = visited \cup {e[1]}
      /\ e[1] \notin visited
      /\ \A o \in Ref : o # e[1] => held'[o] = held[o]
  BY AdmitWalked DEF Admit, TypeOK, identity, given
<1>2. ASSUME NEW o \in Ref, NEW n \in Names, NEW c \in seen[o][n]
      PROVE  Seen(o, n, c)'
  <2>1. Seen(o, n, c)
    BY DEF FirstCrawl
  <2>2. o # e[1] /\ held'[o] = held[o] /\ o \in visited'
    BY <1>1, <2>1 DEF Seen
  <2> QED BY <1>1, <2>1, <2>2 DEF Seen, Shows
<1>3. ASSUME NEW ref \in refs, ref[2] # None PROVE ShowsTwo(ref)'
  BY <1>1, <1>3 DEF FirstCrawl, ShowsTwo, Shows
<1> QED BY <1>1, <1>2, <1>3 DEF FirstCrawl

LEMMA RecordFirstCrawl ==
  TypeOK /\ Walked /\ Remembered /\ FirstCrawl /\ RecordRow => FirstCrawl'
<1> SUFFICES ASSUME TypeOK, Walked, Remembered, FirstCrawl, RecordRow, crawls = 1
             PROVE  FirstCrawl'
  BY DEF RecordRow, FirstCrawl
<1>1. at \in Ref /\ at \in visited /\ row \in DOMAIN TableOf(at)
  <2>1. TableOf(at) \in Seq(Row)
    BY BoxesAssumption DEF TableOf, TypeOK
  <2> QED BY <2>1 DEF RecordRow, TypeOK, Walked
<1>2. /\ held[at] \in Boxes /\ TableOf(at) = network[held[at]]
      /\ TableOf(at)[row] \in Row
  BY <1>1, RowType
<1>3. PICK r \in Row : r = TableOf(at)[row]
  BY <1>2
<1>4. r \in Range(network[held[at]]) /\ held[at] # None
  BY <1>1, <1>2, <1>3, BoxesAssumption DEF Range
<1>5. /\ Note(at, r) /\ network' = network /\ held' = held /\ visited' = visited
      /\ crawls' = crawls
  BY <1>3 DEF RecordRow, given, walk
<1>6. CASE r.name = None
  <2>1. seen' = seen /\ refs' = refs
    BY <1>5, <1>6 DEF Note, identity
  <2> QED BY <1>5, <2>1 DEF FirstCrawl, Seen, ShowsTwo, Shows
<1>7. CASE r.name # None
  <2>k. r.name \in Names /\ r.chassis \in Chassis \cup {None}
    BY <1>1, <1>7, KeyType
  <2>c. /\ refs' = refs \cup {Resolve(at, r)}
        /\ \A p \in Ref, n \in Names :
              seen'[p][n] = IF p = at /\ n = r.name THEN SeenWith(at, r) ELSE seen[p][n]
    BY <1>1, <1>5, <1>7, NoteChanges
  <2>1. Shows(held[at], r.name, r.chassis)
    BY <1>4 DEF Shows
  <2>2. ASSUME NEW o \in Ref, NEW n \in Names, NEW c \in seen'[o][n]
        PROVE  Seen(o, n, c)'
    <3>1. CASE c \in seen[o][n]
      BY <1>5, <3>1 DEF FirstCrawl, Seen, Shows
    <3>2. CASE c \notin seen[o][n]
      <4>1. o = at /\ n = r.name /\ c = r.chassis
        BY <2>c, <2>2, <3>2 DEF SeenWith
      <4> QED BY <1>1, <1>4, <1>5, <2>1, <4>1 DEF Seen, Shows
    <3> QED BY <3>1, <3>2
  <2>3. ASSUME Resolve(at, r)[2] # None PROVE ShowsTwo(Resolve(at, r))
    <3>1. CASE resolution[Key(at, r)] # Unknown
      <4>1. MemoFits(at, r.name, r.chassis) /\ Key(at, r) = <<at, r.name, r.chassis>>
        BY <1>1, <1>7, <2>k, KeyType DEF Remembered
      <4>2. Resolve(at, r) \in refs
        BY <1>1, <1>7, <3>1, <4>1, ResolveFits DEF MemoFits
      <4> QED BY <2>3, <4>2 DEF FirstCrawl
    <3>2. CASE resolution[Key(at, r)] = Unknown
      <4>1. Resolve(at, r) = Register(at, r)
        BY <1>1, <1>7, <3>2, ResolveFits
      <4>2. Register(at, r) # Plain(r.name)
        BY <2>3, <4>1 DEF Plain
      <4>3. /\ Resolve(at, r) = <<r.name, r.chassis>> /\ r.chassis \in Chassis
            /\ \E c \in seen[at][r.name] : c # r.chassis
        BY <1>1, <1>7, <4>1, <4>2, FreshRow
      <4>4. PICK c \in seen[at][r.name] : c # r.chassis
        BY <4>3
      <4>5. Shows(held[at], r.name, c) /\ c \in Chassis
        BY <1>1, <2>k, <4>4 DEF FirstCrawl, Seen, TypeOK
      <4> QED BY <1>2, <2>1, <4>3, <4>4, <4>5 DEF ShowsTwo
    <3> QED BY <3>1, <3>2
  <2>4. ASSUME NEW ref \in refs', ref[2] # None PROVE ShowsTwo(ref)'
    <3>1. ShowsTwo(ref)
      BY <2>c, <2>3, <2>4 DEF FirstCrawl
    <3> QED BY <1>5, <3>1 DEF ShowsTwo, Shows
  <2> QED BY <2>2, <2>4 DEF FirstCrawl
<1> QED BY <1>6, <1>7

LEMMA IdentityKept ==
  TypeOK /\ Walked /\ Remembered /\ FirstCrawl /\ [Next]_vars
    => Remembered' /\ FirstCrawl'
<1> SUFFICES ASSUME TypeOK, Walked, Remembered, FirstCrawl, [Next]_vars
             PROVE  Remembered' /\ FirstCrawl'
  OBVIOUS
<1>1. CASE SelectWave \/ Enqueue \/ EndWave \/ Report \/ UNCHANGED vars
  <2>1. UNCHANGED <<network, refs, seen, resolution, held, visited, crawls>>
    BY <1>1 DEF SelectWave, Enqueue, EndWave, Report, vars, given, identity, walk
  <2>2. Remembered'
    BY <2>1 DEF Remembered, MemoFits, TwoBoxesAreTwo
  <2>3. FirstCrawl'
    BY <2>1 DEF FirstCrawl, Seen, ShowsTwo, Shows
  <2> QED BY <2>2, <2>3
<1>2. ASSUME NEW e \in batch, NEW answers \in BOOLEAN, Admit(e, answers)
      PROVE  Remembered' /\ FirstCrawl'
  <2>1. UNCHANGED <<refs, seen, resolution>>
    BY <1>2 DEF Admit, identity
  <2>2. Remembered'
    BY <2>1 DEF Remembered, MemoFits, TwoBoxesAreTwo
  <2> QED BY <1>2, <2>2, AdmitFirstCrawl
<1>3. CASE RecordRow
  <2>1. at \in Ref /\ row \in DOMAIN TableOf(at)
    <3>1. TableOf(at) \in Seq(Row)
      BY BoxesAssumption DEF TableOf, TypeOK
    <3> QED BY <1>3, <3>1 DEF RecordRow, TypeOK
  <2>2. PICK r \in Row : r = TableOf(at)[row]
    BY <2>1, RowType
  <2>3. Remembered'
    BY <1>3, <2>1, <2>2, NoteRemembered DEF RecordRow
  <2> QED BY <1>3, <2>3, RecordFirstCrawl
<1>4. CASE CrawlAgain
  <2>1. UNCHANGED <<refs, seen, resolution>> /\ crawls' # 1
    BY <1>4 DEF CrawlAgain, identity, Walked, TypeOK
  <2> QED BY <2>1 DEF Remembered, MemoFits, TwoBoxesAreTwo, FirstCrawl
<1> QED BY <1>1, <1>2, <1>3, <1>4 DEF Next

(* Two devices are told apart where a device saw two itself, and in the    *)
(* first crawl only there.                                                 *)
THEOREM DevicesAreToldApart == Spec => []ToldApart
<1>1. Init => Walked /\ Remembered /\ FirstCrawl
  BY InitWalked, InitRemembered, InitFirstCrawl
<1>2. TypeOK /\ Walked /\ Remembered /\ FirstCrawl /\ [Next]_vars
        => Walked' /\ Remembered' /\ FirstCrawl'
  BY WalkedKept, IdentityKept
<1>3. Remembered /\ FirstCrawl => ToldApart
  BY DEF Remembered, FirstCrawl, ShowsTwo, ToldApart, SplitIsFirstHand
<1> QED BY <1>1, <1>2, <1>3, TypeCorrect, PTL DEF Spec

-----------------------------------------------------------------------------
(* Links.                                                                  *)

(* A row of a visited device that _record_links has been through.          *)
Recorded(o, r) ==
  /\ o \in visited
  /\ \E i \in DOMAIN TableOf(o) : r = TableOf(o)[i] /\ (pc = "record" /\ o = at => i < row)

Memoised(o, r) == r.name # None => resolution[Key(o, r)] # Unknown

Mutual(o, r, p, s) == Points(o, r, p, s) /\ Points(p, s, o, r)

Up(l) == l \in DOMAIN links /\ links[l] = "DIRECT_NEIGHBOR_PROBABLE"

Told ==
  /\ \A o \in Ref, r \in Row :
       Recorded(o, r) => Memoised(o, r) /\ Ends(o, r) \in DOMAIN links
  /\ \A o \in Ref, p \in Ref, r \in Row, s \in Row :
       Recorded(o, r) /\ Recorded(p, s) /\ Mutual(o, r, p, s)
         => Up(Ends(o, r)) \/ Up(Ends(p, s))

(* What a device told of is in the walk, or was left out of it.            *)
Waiting ==
  visited \cup unprobed \cup
    {e[1] : e \in IF pc = "select" THEN frontier ELSE batch \cup following}

Queued ==
  pc # "done" => \A o \in Ref, r \in Row :
    Recorded(o, r) /\ ~(pc = "record" /\ o = at) => Resolve(o, r) \in Waiting \cup {Unknown}

LEMMA NothingRecorded ==
  ASSUME visited = {} PROVE Told /\ Queued
BY DEF Told, Queued, Recorded

(* A memo outlives whatever is noted after it.                             *)
LEMMA MemoStays ==
  ASSUME TypeOK, Remembered, NEW o \in Ref, NEW r \in Row, Note(o, r),
         NEW p \in Ref, NEW s \in Row, Memoised(p, s) \/ (p = o /\ s = r)
  PROVE  Memoised(p, s)' /\ Resolve(p, s)' = Resolve(p, s)
<1>1. CASE s.name = None
  BY <1>1 DEF Memoised, Resolve
<1>2. CASE s.name # None /\ r.name = None
  <2>1. resolution' = resolution /\ ~(p = o /\ s = r)
    BY <1>2 DEF Note, identity
  <2>2. resolution[Key(p, s)] # Unknown /\ resolution'[Key(p, s)] = resolution[Key(p, s)]
    BY <1>2, <2>1 DEF Memoised
  <2> QED BY <2>2 DEF Memoised, Resolve, Key
<1>3. CASE s.name # None /\ r.name # None
  <2>1. Key(p, s) = <<p, s.name, s.chassis>> /\ s.name \in Names
        /\ s.chassis \in Chassis \cup {None}
    BY <1>3, KeyType
  <2>2. resolution'[Key(p, s)] =
          IF Key(p, s) = Key(o, r) THEN Resolve(o, r) ELSE resolution[Key(p, s)]
    BY <1>3, <2>1, NoteChanges
  <2>3. CASE Key(p, s) = Key(o, r)
    <3>1. Resolve(p, s) = Resolve(o, r)
      <4>1. o = p /\ r.name = s.name /\ r.chassis = s.chassis
        BY <2>3 DEF Key
      <4> QED BY <2>3, <4>1 DEF Resolve, Register, FirstHandSplit, SeenWith
    <3>2. Resolve(o, r) # Unknown
      BY <1>3, ResolveIs
    <3>3. resolution'[Key(p, s)] = Resolve(p, s) /\ resolution'[Key(p, s)] # Unknown
      BY <2>2, <2>3, <3>1, <3>2
    <3> QED BY <1>3, <3>3 DEF Memoised, Resolve, Key
  <2>4. CASE Key(p, s) # Key(o, r)
    <3>1. resolution[Key(p, s)] # Unknown
      BY <1>3, <2>4 DEF Memoised
    <3>2. resolution'[Key(p, s)] = resolution[Key(p, s)]
      BY <2>2, <2>4
    <3> QED BY <1>3, <3>1, <3>2 DEF Memoised, Resolve, Key
  <2> QED BY <2>3, <2>4
<1> QED BY <1>1, <1>2, <1>3

(* Whichever of two rows that name each other is graded last finds the     *)
(* other in the table of the neighbour.                                    *)
LEMMA MutualNamesBack ==
  ASSUME TypeOK, Remembered, NEW o \in Ref, NEW p \in Ref, NEW r \in Row, NEW s \in Row,
         Mutual(o, r, p, s), o # Unknown, p # Unknown, s \in Range(TableOf(p))
  PROVE  Resolve(o, r) # Unknown /\ NamesBack(o, r)
<1>1. s.name # None
  BY DEF Mutual, Points, Resolve
<1>2. o \in {Plain(s.name), <<s.name, s.chassis>>}
  BY <1>1, ResolveFits DEF Mutual, Points
<1>3. s.name = o[1]
  BY <1>2 DEF Plain
<1>4. /\ s \in Range(TableOf(Resolve(o, r)))
      /\ SamePort(Resolve(o, r), r.far, s.port)
  BY DEF Mutual, Points
<1> QED BY <1>3, <1>4 DEF NamesBack, Mutual, Points

LEMMA RecordTold ==
  TypeOK /\ Walked /\ Remembered /\ Told /\ Queued /\ RecordRow => Told' /\ Queued'
<1> SUFFICES ASSUME TypeOK, Walked, Remembered, Told, Queued, RecordRow
             PROVE  Told' /\ Queued'
  OBVIOUS
<1>1. at \in Ref /\ at \in visited /\ row \in DOMAIN TableOf(at) /\ row \in Nat
  <2>1. TableOf(at) \in Seq(Row)
    BY BoxesAssumption DEF TableOf, TypeOK
  <2> QED BY <2>1 DEF RecordRow, TypeOK, Walked
<1>2. PICK q \in Row : q = TableOf(at)[row]
  BY <1>1, RowType
<1>3. /\ Note(at, q) /\ Grade(at, q) /\ pc = "record"
      /\ UNCHANGED <<network, family, held, pc, at, visited, unprobed>>
      /\ UNCHANGED <<frontier, following, batch>> /\ row' = row + 1
  BY <1>2 DEF RecordRow, given, walk
<1>4. \A o : TableOf(o)' = TableOf(o)
  BY <1>3 DEF TableOf
<1>5. ASSUME NEW o \in Ref, NEW r \in Row, Recorded(o, r)'
      PROVE  /\ Recorded(o, r) \/ (o = at /\ r = q)
             /\ o \in visited /\ r \in Range(TableOf(o))
  <2>1. o \in visited
    BY <1>3, <1>5 DEF Recorded
  <2>2. PICK i \in DOMAIN TableOf(o) : r = TableOf(o)[i] /\ (o = at => i < row + 1)
    BY <1>3, <1>4, <1>5 DEF Recorded
  <2>3. i \in Nat
    BY <2>2, RowType
  <2>4. CASE o = at /\ i = row
    BY <1>2, <2>1, <2>2, <2>4 DEF Range
  <2>5. CASE ~(o = at /\ i = row)
    <3>1. o = at => i < row
      BY <1>1, <2>2, <2>3, <2>5
    <3> QED BY <2>1, <2>2, <3>1 DEF Recorded, Range
  <2> QED BY <2>4, <2>5
<1>6. /\ DOMAIN links' = DOMAIN links \cup {Ends(at, q)}
      /\ \A m \in DOMAIN links : m # Ends(at, q) => links'[m] = links[m]
      /\ StateOf(Ends(at, q)) = "DIRECT_NEIGHBOR_PROBABLE"
              => links'[Ends(at, q)] = "DIRECT_NEIGHBOR_PROBABLE"
      /\ Resolve(at, q) # Unknown /\ NamesBack(at, q)
              => links'[Ends(at, q)] = "DIRECT_NEIGHBOR_PROBABLE"
  BY <1>1, <1>3, GradeIs
<1>7. ASSUME NEW o \in Ref, NEW r \in Row, Recorded(o, r)'
      PROVE  /\ Memoised(o, r)' /\ Resolve(o, r)' = Resolve(o, r)
             /\ Ends(o, r)' = Ends(o, r) /\ Ends(o, r) \in DOMAIN links'
  <2>1. Memoised(o, r) \/ (o = at /\ r = q)
    BY <1>5, <1>7 DEF Told
  <2>2. Memoised(o, r)' /\ Resolve(o, r)' = Resolve(o, r)
    BY <1>1, <1>3, <2>1, MemoStays
  <2>3. Ends(o, r)' = Ends(o, r)
    BY <2>2 DEF Ends
  <2> QED BY <1>5, <1>6, <1>7, <2>2, <2>3 DEF Told
<1>8. \A l : Up(l) => Up(l)'
  BY <1>6 DEF Up, StateOf
<1>9. Resolve(at, q) # Unknown /\ NamesBack(at, q)
        => /\ Ends(at, q) \in DOMAIN links'
           /\ links'[Ends(at, q)] = "DIRECT_NEIGHBOR_PROBABLE"
  BY <1>6
<1>10. ASSUME NEW o \in Ref, NEW p \in Ref, NEW r \in Row, NEW s \in Row,
              Recorded(o, r)', Recorded(p, s)', Mutual(o, r, p, s)'
       PROVE  Up(Ends(o, r))' \/ Up(Ends(p, s))'
  <2>1. Mutual(o, r, p, s) /\ Ends(o, r)' = Ends(o, r) /\ Ends(p, s)' = Ends(p, s)
    BY <1>3, <1>7, <1>10 DEF Mutual, Points, SamePort
  <2>2. o # Unknown /\ p # Unknown /\ r \in Range(TableOf(o)) /\ s \in Range(TableOf(p))
    BY <1>5, <1>10 DEF Walked
  <2>3. CASE Recorded(o, r) /\ Recorded(p, s)
    <3>1. Up(Ends(o, r)) \/ Up(Ends(p, s))
      BY <2>1, <2>3 DEF Told
    <3> QED BY <1>6, <2>1, <3>1 DEF Up, StateOf
  <2>4. CASE o = at /\ r = q
    <3>1. Resolve(o, r) # Unknown /\ NamesBack(o, r)
      BY <2>1, <2>2, MutualNamesBack
    <3>2. Ends(o, r) \in DOMAIN links' /\ links'[Ends(o, r)] = "DIRECT_NEIGHBOR_PROBABLE"
      BY <1>9, <2>4, <3>1
    <3> QED BY <2>1, <3>2 DEF Up
  <2>5. CASE p = at /\ s = q
    <3>1. Mutual(p, s, o, r)
      BY <2>1 DEF Mutual
    <3>2. Resolve(p, s) # Unknown /\ NamesBack(p, s)
      BY <2>2, <3>1, MutualNamesBack
    <3>3. Ends(p, s) \in DOMAIN links' /\ links'[Ends(p, s)] = "DIRECT_NEIGHBOR_PROBABLE"
      BY <1>9, <2>5, <3>2
    <3> QED BY <2>1, <3>3 DEF Up
  <2> QED BY <1>5, <1>10, <2>3, <2>4, <2>5
<1>11. Told'
  BY <1>7, <1>10 DEF Told
<1>12. ASSUME NEW o \in Ref, NEW r \in Row, Recorded(o, r)', o # at
       PROVE  Resolve(o, r)' \in (Waiting \cup {Unknown})'
  <2>1. Recorded(o, r) /\ Resolve(o, r)' = Resolve(o, r)
    BY <1>5, <1>7, <1>12
  <2>2. Resolve(o, r) \in Waiting \cup {Unknown}
    BY <1>3, <1>12, <2>1 DEF Queued
  <2>3. Waiting' = Waiting /\ Unknown' = Unknown
    BY <1>3 DEF Waiting, Unknown, Plain, None
  <2> QED BY <2>1, <2>2, <2>3
<1>13. Queued'
  BY <1>3, <1>12 DEF Queued
<1> QED BY <1>11, <1>13

(* Every other step leaves rows, memos and machines alone.                 *)
LEMMA ToldKept ==
  ASSUME TypeOK, Told, UNCHANGED <<network, resolution, seen, family, held, links>>,
         \A o \in Ref, r \in Row : Recorded(o, r)' => Recorded(o, r)
  PROVE  Told'
<1>1. \A o \in Ref, r \in Row : /\ Resolve(o, r)' = Resolve(o, r)
                                /\ Ends(o, r)' = Ends(o, r)
                                /\ Memoised(o, r)' <=> Memoised(o, r)
  BY DEF Resolve, Register, FirstHandSplit, SeenWith, Ends, Memoised, Key
<1>2. ASSUME NEW o \in Ref, NEW r \in Row, Recorded(o, r)'
      PROVE  Memoised(o, r)' /\ Ends(o, r)' \in DOMAIN links'
  BY <1>1, <1>2 DEF Told
<1>3. ASSUME NEW o \in Ref, NEW p \in Ref, NEW r \in Row, NEW s \in Row,
             Recorded(o, r)', Recorded(p, s)', Mutual(o, r, p, s)'
      PROVE  Up(Ends(o, r))' \/ Up(Ends(p, s))'
  <2>1. Mutual(o, r, p, s)
    BY <1>1, <1>3 DEF Mutual, Points, SamePort
  <2>2. Up(Ends(o, r)) \/ Up(Ends(p, s))
    BY <1>3, <2>1 DEF Told
  <2> QED BY <1>1, <2>2 DEF Up
<1> QED BY <1>2, <1>3 DEF Told

LEMMA QueuedKept ==
  ASSUME TypeOK, Queued, pc # "done",
         UNCHANGED <<network, resolution, seen, held>>,
         NEW o \in Ref, NEW r \in Row, Recorded(o, r), ~(pc = "record" /\ o = at),
         Waiting \subseteq Waiting'
  PROVE  Resolve(o, r)' \in (Waiting \cup {Unknown})'
<1>1. Resolve(o, r)' = Resolve(o, r)
  BY DEF Resolve, Register, FirstHandSplit, SeenWith, Key
<1>2. Resolve(o, r) \in Waiting \cup {Unknown}
  BY DEF Queued
<1>3. Unknown' = Unknown
  BY DEF Unknown, Plain, None
<1> QED BY <1>1, <1>2, <1>3

LEMMA SelectTold == TypeOK /\ Told /\ Queued /\ SelectWave => Told' /\ Queued'
<1> SUFFICES ASSUME TypeOK, Told, Queued, SelectWave PROVE Told' /\ Queued'
  OBVIOUS
<1>1. /\ UNCHANGED <<network, resolution, seen, family, held, links, visited>>
      /\ pc = "select" /\ pc' = "admit" /\ following' = {}
  BY DEF SelectWave, given, identity
<1>2. \A o \in Ref, r \in Row : Recorded(o, r)' => Recorded(o, r)
  BY <1>1 DEF Recorded, TableOf
<1>3. Waiting \subseteq Waiting'
  <2>1. \A e \in frontier : e[1] \in visited \/ e \in batch' \/ e[1] \in unprobed'
    BY DEF SelectWave
  <2>2. unprobed \subseteq unprobed'
    BY DEF SelectWave
  <2> QED BY <1>1, <2>1, <2>2 DEF Waiting
<1>4. Told'
  BY <1>1, <1>2, ToldKept
<1>5. Queued'
  BY <1>1, <1>2, <1>3, QueuedKept DEF Queued
<1> QED BY <1>4, <1>5

LEMMA EndWaveTold == TypeOK /\ Told /\ Queued /\ EndWave => Told' /\ Queued'
<1> SUFFICES ASSUME TypeOK, Told, Queued, EndWave PROVE Told' /\ Queued'
  OBVIOUS
<1>1. /\ UNCHANGED <<network, resolution, seen, family, held, links>>
      /\ UNCHANGED <<visited, unprobed>>
      /\ pc = "admit" /\ pc' = "select" /\ batch = {} /\ frontier' = following
  BY DEF EndWave, given, identity
<1>2. \A o \in Ref, r \in Row : Recorded(o, r)' => Recorded(o, r)
  BY <1>1 DEF Recorded, TableOf
<1>3. Waiting \subseteq Waiting'
  BY <1>1 DEF Waiting
<1>4. Told'
  BY <1>1, <1>2, ToldKept
<1>5. Queued'
  BY <1>1, <1>2, <1>3, QueuedKept DEF Queued
<1> QED BY <1>4, <1>5

LEMMA AdmitTold ==
  ASSUME TypeOK, Walked, Told, Queued, NEW e \in batch, NEW answers \in BOOLEAN,
         Admit(e, answers)
  PROVE  Told' /\ Queued'
<1>1. /\ UNCHANGED <<network, resolution, seen, links, unprobed, following>>
      /\ pc = "admit" /\ pc' = "record" /\ at' = e[1] /\ row' = 1
      /\ visited' = visited \cup {e[1]} /\ batch' = batch \ {e}
      /\ e[1] \notin visited /\ e[1] \in Ref
      /\ \A o \in Ref : o # e[1] => held'[o] = held[o] /\ family'[o] = family[o]
  BY AdmitWalked DEF Admit, given, identity, TypeOK
<1>2. \A o \in Ref : o # e[1] => TableOf(o)' = TableOf(o)
  BY <1>1 DEF TableOf
<1>3. ASSUME NEW o \in Ref, NEW r \in Row, Recorded(o, r)'
      PROVE  Recorded(o, r) /\ o # e[1]
  <2>1. TypeOK'
    BY AdmitTypes
  <2>2. o # e[1]
    <3> SUFFICES ASSUME o = e[1] PROVE FALSE
      OBVIOUS
    <3>1. TableOf(o)' \in Seq(Row)
      <4>1. network' \in [Boxes -> Seq(Row)] /\ held'[o] \in Boxes \cup {None}
        BY <2>1, BoxesAssumption DEF TypeOK
      <4> QED BY <4>1 DEF TableOf
    <3>2. PICK i \in DOMAIN (TableOf(o)') : i < 1
      BY <1>1, <1>3 DEF Recorded
    <3> QED BY <3>1, <3>2
  <2> QED BY <1>1, <1>2, <1>3, <2>2 DEF Recorded
<1>4. \A o \in Ref, r \in Row : /\ Resolve(o, r)' = Resolve(o, r)
                                /\ Ends(o, r)' = Ends(o, r)
                                /\ Memoised(o, r)' <=> Memoised(o, r)
  BY <1>1 DEF Resolve, Register, FirstHandSplit, SeenWith, Ends, Memoised, Key
<1>5. Told'
  <2>1. ASSUME NEW o \in Ref, NEW r \in Row, Recorded(o, r)'
        PROVE  Memoised(o, r)' /\ Ends(o, r)' \in DOMAIN links'
    BY <1>1, <1>3, <1>4, <2>1 DEF Told
  <2>2. ASSUME NEW o \in Ref, NEW p \in Ref, NEW r \in Row, NEW s \in Row,
               Recorded(o, r)', Recorded(p, s)', Mutual(o, r, p, s)'
        PROVE  Up(Ends(o, r))' \/ Up(Ends(p, s))'
    <3>1. Mutual(o, r, p, s)
      BY <1>1, <1>3, <1>4, <2>2 DEF Mutual, Points, SamePort
    <3>2. Up(Ends(o, r)) \/ Up(Ends(p, s))
      BY <1>3, <2>2, <3>1 DEF Told
    <3> QED BY <1>1, <1>4, <3>2 DEF Up
  <2> QED BY <2>1, <2>2 DEF Told
<1>6. Queued'
  <2>1. Waiting \subseteq Waiting'
    BY <1>1 DEF Waiting
  <2>2. ASSUME NEW o \in Ref, NEW r \in Row, Recorded(o, r)'
        PROVE  Resolve(o, r)' \in (Waiting \cup {Unknown})'
    <3>1. Resolve(o, r) \in Waiting \cup {Unknown}
      BY <1>1, <1>3, <2>2 DEF Queued
    <3>2. Unknown' = Unknown
      BY DEF Unknown, Plain, None
    <3> QED BY <1>4, <2>1, <3>1, <3>2
  <2> QED BY <2>2 DEF Queued
<1> QED BY <1>5, <1>6

LEMMA LeastExists ==
  ASSUME NEW S \in SUBSET Nat, S # {}
  PROVE  \E x \in S : \A y \in S : x <= y
<1>1. PICK d \in S : \A e \in S : ~ (<<e, d>> \in OpToRel(<, Nat))
  <2> HIDE DEF OpToRel
  <2> QED BY NatLessThanWellFounded, WFMin
<1>2. \A e \in S : ~ (e < d)
  BY <1>1, Zenon DEF OpToRel
<1>3. \A e \in S : d <= e
  BY <1>2
<1> QED BY <1>3

(* A neighbour that was not visited is queued by the first row naming it.  *)
LEMMA NamedByFirstRow ==
  ASSUME TypeOK, NEW o \in Ref, NEW i \in DOMAIN TableOf(o),
         Resolve(o, TableOf(o)[i]) \notin visited \cup {Unknown}
  PROVE  \E e \in Named(o) : e[1] = Resolve(o, TableOf(o)[i])
<1> DEFINE same == {j \in DOMAIN TableOf(o) :
                      Resolve(o, TableOf(o)[j]) = Resolve(o, TableOf(o)[i])}
<1>1. same \in SUBSET Nat /\ same # {}
  BY RowType
<1>2. PICK j \in same : \A k \in same : j <= k
  BY <1>1, LeastExists
<1>3. j \in DOMAIN TableOf(o) /\ j \in Nat
      /\ Resolve(o, TableOf(o)[j]) = Resolve(o, TableOf(o)[i])
  BY <1>1, <1>2
<1>4. ASSUME NEW k \in 1 .. j - 1
      PROVE  Resolve(o, TableOf(o)[k]) # Resolve(o, TableOf(o)[j])
  <2>1. k \in DOMAIN TableOf(o)
    <3>1. TableOf(o) \in Seq(Row)
      BY BoxesAssumption DEF TableOf, TypeOK
    <3> QED BY <1>3, <3>1
  <2>2. k \in Nat /\ k < j
    BY <1>3
  <2> QED BY <1>2, <1>3, <2>1, <2>2
<1>5. <<Resolve(o, TableOf(o)[j]), TableOf(o)[j].box, TableOf(o)[j].hint>> \in Named(o)
  BY <1>3, <1>4 DEF Named
<1> QED BY <1>3, <1>5

LEMMA EnqueueTold == TypeOK /\ Told /\ Queued /\ Enqueue => Told' /\ Queued'
<1> SUFFICES ASSUME TypeOK, Told, Queued, Enqueue PROVE Told' /\ Queued'
  OBVIOUS
<1>1. /\ UNCHANGED <<network, resolution, seen, family, held, links>>
      /\ UNCHANGED <<visited, unprobed, batch>>
      /\ pc = "record" /\ pc' = "admit" /\ row > Len(TableOf(at)) /\ at \in Ref
      /\ following' = following \cup {e \in Named(at) : \A f \in following : f[1] # e[1]}
  BY DEF Enqueue, given, identity, TypeOK
<1>2. \A o : TableOf(o)' = TableOf(o)
  BY <1>1 DEF TableOf
<1>3. ASSUME NEW o \in Ref, NEW r \in Row, Recorded(o, r)' PROVE Recorded(o, r)
  <2>1. o \in visited
    BY <1>1, <1>3 DEF Recorded
  <2>2. PICK i \in DOMAIN TableOf(o) : r = TableOf(o)[i]
    BY <1>1, <1>2, <1>3 DEF Recorded
  <2>3. i \in Nat /\ i <= Len(TableOf(o)) /\ Len(TableOf(o)) \in Nat
    <3>1. TableOf(o) \in Seq(Row)
      BY BoxesAssumption DEF TableOf, TypeOK
    <3> QED BY <2>2, <3>1
  <2>4. o = at => i < row
    BY <1>1, <2>3 DEF TypeOK
  <2> QED BY <2>1, <2>2, <2>4 DEF Recorded
<1>4. Told'
  BY <1>1, <1>3, ToldKept
<1>5. Waiting \subseteq Waiting'
  BY <1>1 DEF Waiting
<1>6. ASSUME NEW r \in Row, Recorded(at, r)
      PROVE  Resolve(at, r)' \in (Waiting \cup {Unknown})' /\ Resolve(at, r)' = Resolve(at, r)
  <2>1. PICK i \in DOMAIN TableOf(at) : r = TableOf(at)[i]
    BY <1>6 DEF Recorded
  <2>2. Resolve(at, r)' = Resolve(at, r) /\ Unknown' = Unknown
    BY <1>1 DEF Enqueue, Resolve, Register, FirstHandSplit, SeenWith, Key, Unknown, Plain, None
  <2>3. CASE Resolve(at, r) \in visited \cup {Unknown}
    BY <1>1, <2>2, <2>3 DEF Waiting
  <2>4. CASE Resolve(at, r) \notin visited \cup {Unknown}
    <3>1. PICK e \in Named(at) : e[1] = Resolve(at, r)
      BY <1>1, <2>1, <2>4, NamedByFirstRow
    <3>2. \E f \in following' : f[1] = Resolve(at, r)
      BY <1>1, <3>1
    <3> QED BY <1>1, <2>2, <3>2 DEF Waiting
  <2> QED BY <2>2, <2>3, <2>4
<1>7. Queued'
  <2> SUFFICES ASSUME NEW o \in Ref, NEW r \in Row, Recorded(o, r)'
               PROVE  Resolve(o, r)' \in (Waiting \cup {Unknown})'
    BY DEF Queued
  <2>1. Recorded(o, r)
    BY <1>3
  <2>2. CASE o = at
    <3>1. at' = at
      BY DEF Enqueue
    <3> QED BY <1>6, <2>1, <2>2, <3>1
  <2>3. CASE o # at
    BY <1>1, <1>5, <2>1, <2>3, QueuedKept
  <2> QED BY <2>2, <2>3
<1> QED BY <1>4, <1>7

(* Every row of every visited device has been recorded when a wave is over. *)
LEMMA AllRecorded ==
  ASSUME TypeOK, NEW o \in visited, NEW r \in Range(TableOf(o)), pc # "record"
  PROVE  o \in Ref /\ r \in Row /\ Recorded(o, r)
BY RowType DEF TypeOK, Range, Recorded

LEMMA ReportIsTrue ==
  ASSUME TypeOK, Told, Queued, Report
  PROVE  Told' /\ Queued' /\ LinksEndAtDevices' /\ BothEndsCount'
<1>1. /\ UNCHANGED <<network, resolution, seen, family, held, links>>
      /\ UNCHANGED <<visited, frontier>>
      /\ pc = "select" /\ pc' = "done"
      /\ unprobed' = (unprobed \cup {e[1] : e \in frontier}) \ visited
      /\ report' = UNION { { [ends |-> Ends(o, r), state |-> StateOf(Ends(o, r))] :
                              r \in Range(TableOf(o)) } : o \in visited }
  BY DEF Report, given, identity
<1>2. \A o : TableOf(o)' = TableOf(o)
  BY <1>1 DEF TableOf
<1>3. \A o \in Ref, r \in Row : Recorded(o, r)' => Recorded(o, r)
  BY <1>1, <1>2 DEF Recorded
<1>4. \A o \in Ref, r \in Row : Resolve(o, r)' = Resolve(o, r) /\ Ends(o, r)' = Ends(o, r)
  BY <1>1 DEF Resolve, Register, FirstHandSplit, SeenWith, Key, Ends
<1>5. Told' /\ Queued'
  BY <1>1, <1>3, ToldKept DEF Queued
<1>6. ASSUME NEW l \in report'
      PROVE  /\ l.state # "UNKNOWN"
             /\ \A e \in l.ends : e[1] \in visited \cup unprobed' \cup {Unknown}
  <2>1. PICK o \in visited : \E r \in Range(TableOf(o)) :
               l = [ends |-> Ends(o, r), state |-> StateOf(Ends(o, r))]
    BY <1>1, <1>6
  <2>2. PICK r \in Range(TableOf(o)) :
               l = [ends |-> Ends(o, r), state |-> StateOf(Ends(o, r))]
    BY <2>1
  <2>3. o \in Ref /\ r \in Row /\ Recorded(o, r)
    BY <1>1, AllRecorded
  <2>4. l.state # "UNKNOWN"
    <3>1. Ends(o, r) \in DOMAIN links
      BY <2>3 DEF Told
    <3>2. StateOf(Ends(o, r)) = links[Ends(o, r)]
      BY <3>1 DEF StateOf
    <3> QED BY <2>2, <3>1, <3>2 DEF TypeOK
  <2>5. Resolve(o, r) \in visited \cup unprobed' \cup {Unknown}
    BY <1>1, <2>3 DEF Queued, Waiting
  <2>6. \A e \in Ends(o, r) : e[1] = o \/ e[1] = Resolve(o, r)
    BY DEF Ends
  <2> QED BY <2>2, <2>4, <2>5, <2>6
<1>7. LinksEndAtDevices'
  <2>1. Unknown' = Unknown
    BY DEF Unknown, Plain, None
  <2> QED BY <1>1, <1>6, <2>1 DEF LinksEndAtDevices
<1>8. ASSUME NEW o \in visited, NEW p \in visited,
             NEW r \in Range(TableOf(o)), NEW s \in Range(TableOf(p)),
             Mutual(o, r, p, s)
      PROVE  \E l \in {Ends(o, r), Ends(p, s)} :
               [ends |-> l, state |-> "DIRECT_NEIGHBOR_PROBABLE"] \in report'
  <2>1. Recorded(o, r) /\ Recorded(p, s) /\ o \in Ref /\ p \in Ref /\ r \in Row /\ s \in Row
    BY <1>1, AllRecorded
  <2>2. PICK l \in {Ends(o, r), Ends(p, s)} : Up(l)
    BY <1>8, <2>1 DEF Told
  <2>3. StateOf(l) = "DIRECT_NEIGHBOR_PROBABLE"
    BY <2>2 DEF Up, StateOf
  <2>4. CASE l = Ends(o, r)
    BY <1>1, <2>3, <2>4
  <2>5. CASE l = Ends(p, s)
    BY <1>1, <2>3, <2>5
  <2> QED BY <2>4, <2>5
<1>9. BothEndsCount'
  <2>0. visited' = visited /\ \A o : Range(TableOf(o))' = Range(TableOf(o))
    BY <1>1, <1>2 DEF Range
  <2> SUFFICES ASSUME NEW o \in visited, NEW p \in visited,
                      NEW r \in Range(TableOf(o)), NEW s \in Range(TableOf(p)),
                      Mutual(o, r, p, s)'
               PROVE  \E l \in {Ends(o, r)', Ends(p, s)'} :
                        [ends |-> l, state |-> "DIRECT_NEIGHBOR_PROBABLE"] \in report'
    BY <2>0 DEF BothEndsCount, Mutual
  <2>1. o \in Ref /\ p \in Ref /\ r \in Row /\ s \in Row
    BY <1>1, AllRecorded
  <2>2. Mutual(o, r, p, s) /\ Ends(o, r)' = Ends(o, r) /\ Ends(p, s)' = Ends(p, s)
    BY <1>1, <1>4, <2>1 DEF Mutual, Points, SamePort
  <2> QED BY <1>8, <2>2
<1> QED BY <1>5, <1>7, <1>9

LEMMA LinksKept ==
  TypeOK /\ Walked /\ Remembered /\ Told /\ Queued
     /\ LinksEndAtDevices /\ BothEndsCount /\ [Next]_vars
    => Told' /\ Queued' /\ LinksEndAtDevices' /\ BothEndsCount'
<1> SUFFICES ASSUME TypeOK, Walked, Remembered, Told, Queued,
                    LinksEndAtDevices, BothEndsCount, [Next]_vars
             PROVE  Told' /\ Queued' /\ LinksEndAtDevices' /\ BothEndsCount'
  OBVIOUS
<1>1. pc' # "done" => LinksEndAtDevices' /\ BothEndsCount'
  BY DEF LinksEndAtDevices, BothEndsCount
<1>2. CASE SelectWave
  BY <1>1, <1>2, SelectTold DEF SelectWave
<1>3. ASSUME NEW e \in batch, NEW answers \in BOOLEAN, Admit(e, answers)
      PROVE  Told' /\ Queued' /\ LinksEndAtDevices' /\ BothEndsCount'
  BY <1>1, <1>3, AdmitTold DEF Admit
<1>4. CASE RecordRow
  BY <1>1, <1>4, RecordTold DEF RecordRow
<1>5. CASE Enqueue
  BY <1>1, <1>5, EnqueueTold DEF Enqueue
<1>6. CASE EndWave
  BY <1>1, <1>6, EndWaveTold DEF EndWave
<1>7. CASE Report
  BY <1>7, ReportIsTrue
<1>8. CASE CrawlAgain
  <2>1. visited' = {} /\ pc' # "done"
    BY <1>8 DEF CrawlAgain
  <2>2. \A o, r : ~Recorded(o, r)'
    BY <2>1 DEF Recorded
  <2>3. Told' /\ Queued'
    BY <2>2 DEF Told, Queued
  <2> QED BY <1>1, <2>1, <2>3
<1>9. CASE UNCHANGED vars
  <2>1. /\ UNCHANGED <<network, refs, seen, resolution, family, held, links>>
        /\ UNCHANGED <<visited, frontier, following, batch, unprobed, pc, at, row, report>>
    BY <1>9 DEF vars, given, identity, walk
  <2>2. \A o : TableOf(o)' = TableOf(o)
    BY <2>1 DEF TableOf
  <2>3. \A o, r : /\ Recorded(o, r)' <=> Recorded(o, r)
                  /\ Resolve(o, r)' = Resolve(o, r) /\ Ends(o, r)' = Ends(o, r)
    BY <2>1, <2>2 DEF Recorded, Resolve, Register, FirstHandSplit, SeenWith, Key, Ends
  <2>4. Told'
    BY <2>1, <2>3, ToldKept
  <2>5. Waiting' = Waiting /\ Unknown' = Unknown
    BY <2>1 DEF Waiting, Unknown, Plain, None
  <2>6. Queued'
    BY <2>1, <2>3, <2>5 DEF Queued
  <2>7. LinksEndAtDevices'
    BY <2>1, <2>5 DEF LinksEndAtDevices
  <2>8. BothEndsCount'
    BY <2>1, <2>2, <2>3 DEF BothEndsCount, Points, SamePort
  <2> QED BY <2>4, <2>6, <2>7, <2>8
<1> QED BY <1>2, <1>3, <1>4, <1>5, <1>6, <1>7, <1>8, <1>9 DEF Next

LEMMA LinksAreSound == Spec => [](LinksEndAtDevices /\ BothEndsCount)
<1>1. Init => Told /\ Queued /\ LinksEndAtDevices /\ BothEndsCount
  BY NothingRecorded DEF Init, LinksEndAtDevices, BothEndsCount
<1>2. Init => Walked /\ Remembered /\ FirstCrawl
  BY InitWalked, InitRemembered, InitFirstCrawl
<1>3. TypeOK /\ Walked /\ Remembered /\ FirstCrawl /\ [Next]_vars
        => Walked' /\ Remembered' /\ FirstCrawl'
  BY WalkedKept, IdentityKept
<1> QED BY <1>1, <1>2, <1>3, LinksKept, TypeCorrect, PTL DEF Spec

(* Every reported link was recorded, and ends at devices of the report.    *)
THEOREM LinksEndWhereReported == Spec => []LinksEndAtDevices
BY LinksAreSound, PTL

(* Devices whose tables name each other are reported as probable           *)
(* neighbours, whichever of them was admitted last, in every crawl, and    *)
(* however each prints the ports: under the name one of the two rows gives *)
(* their link.                                                             *)
THEOREM BothEndsAreHeard == Spec => []BothEndsCount
BY LinksAreSound, PTL

=============================================================================
