------------------------- MODULE ConfigExecutorProofs -------------------------
(***************************************************************************)
(* Proofs about ConfigExecutor, for every device family, every set of      *)
(* requests and every bound: what a plan is, the type invariant, the       *)
(* discipline of saving and of modes, what ROLLED_BACK and APPLIED mean,   *)
(* that a change in place is recognised, that ledger and record agree, and *)
(* that apply implements the abstract ChangeProtocol.                      *)
(***************************************************************************)
EXTENDS ConfigExecutor, TLAPS, SequenceTheorems, FiniteSetTheorems,
        WellFoundedInduction

-----------------------------------------------------------------------------
(* Induction over the natural numbers, with the set of the numbers a claim *)
(* holds for in the place of the claim.                                    *)

LEMMA Least ==
  ASSUME NEW T \in SUBSET Nat, T # {}
  PROVE  \E n \in T : \A m \in T : n <= m
<1> DEFINE R == {ss \in Nat \X Nat : ss[1] < ss[2]}
<1>1. OpToRel(<, Nat) = R
  BY Zenon DEF OpToRel
<1>2. IsWellFoundedOn(R, Nat)
  BY <1>1, NatLessThanWellFounded, Zenon
<1> HIDE DEF R
<1>3. PICK n \in T : \A m \in T : <<m, n>> \notin R
  BY <1>2, WFMin
<1>4. \A m \in T : m < n => <<m, n>> \in R
  BY DEF R
<1>5. \A m \in T : n <= m
  <2> TAKE m \in T
  <2>1. m \in Nat /\ n \in Nat /\ ~(m < n)
    BY <1>3, <1>4
  <2> QED BY <2>1
<1> QED BY <1>5

LEMMA Upward ==
  ASSUME NEW n \in Nat, NEW G \in SUBSET (0 .. n), 0 \in G,
         \A k \in 1 .. n : k - 1 \in G => k \in G
  PROVE  G = 0 .. n
<1> SUFFICES ASSUME (0 .. n) \ G # {} PROVE FALSE
  OBVIOUS
<1> DEFINE T == (0 .. n) \ G
<1>1. T \in SUBSET Nat /\ T # {}
  OBVIOUS
<1>2. PICK k \in T : \A m \in T : k <= m
  <2> HIDE DEF T
  <2> QED BY <1>1, Least
<1>3. k \in 1 .. n /\ k - 1 \in 0 .. n
  BY <1>2
<1>4. k - 1 \in G
  BY <1>2, <1>3
<1> QED BY <1>2, <1>3, <1>4

(* A recursive function exists: g is x at 0, and e[k] of what it was.      *)
Follows(g, x, e, n) == /\ g[0] = x
                       /\ \A k \in 1 .. n : g[k] = e[k][g[k - 1]]

LEMMA Folded ==
  ASSUME NEW n \in Nat, NEW Y, NEW x \in Y, NEW e \in [1 .. n -> [Y -> Y]]
  PROVE  \E g \in [0 .. n -> Y] : Follows(g, x, e, n)
<1> DEFINE G == {m \in 0 .. n : \E g \in [0 .. n -> Y] : Follows(g, x, e, m)}
<1>1. 0 \in G
  <2>1. [k \in 0 .. n |-> x] \in [0 .. n -> Y]
        /\ Follows([k \in 0 .. n |-> x], x, e, 0)
    BY DEF Follows
  <2>2. \E g \in [0 .. n -> Y] : Follows(g, x, e, 0)
    BY <2>1
  <2> QED BY <2>2
<1>2. ASSUME NEW m \in 1 .. n, m - 1 \in G PROVE m \in G
  <2>1. PICK g \in [0 .. n -> Y] : Follows(g, x, e, m - 1)
    BY <1>2
  <2> DEFINE h == [g EXCEPT ![m] = e[m][g[m - 1]]]
  <2>2. h \in [0 .. n -> Y]
    OBVIOUS
  <2>3. Follows(h, x, e, m)
    BY <2>1 DEF Follows
  <2>4. \E f \in [0 .. n -> Y] : Follows(f, x, e, m)
    BY <2>2, <2>3
  <2> QED BY <2>4
<1>3. G \in SUBSET (0 .. n)
  OBVIOUS
<1>4. G = 0 .. n
  <2> HIDE DEF G
  <2> QED BY <1>1, <1>2, <1>3, Upward
<1>5. n \in 0 .. n
  OBVIOUS
<1>6. n \in G
  <2> HIDE DEF G
  <2> QED BY <1>4, <1>5
<1> QED BY <1>6

(* The greatest of a bounded set of numbers, and the least of a set.       *)
LEMMA MaxIs ==
  ASSUME NEW b \in Nat, NEW S \in SUBSET (0 .. b), S # {}
  PROVE  Max(S) \in S /\ \A m \in S : m <= Max(S)
<1> DEFINE T == {b - m : m \in S}
<1>0. \A m \in S : b - m \in Nat /\ m \in Int
  OBVIOUS
<1>1. T \in SUBSET Nat /\ T # {}
  BY <1>0
<1>2. PICK t \in T : \A u \in T : t <= u
  <2> HIDE DEF T
  <2> QED BY <1>1, Least
<1>3. PICK n \in S : t = b - n
  BY <1>2
<1>4. \A m \in S : n >= m
  <2> TAKE m \in S
  <2>1. b - m \in T
    OBVIOUS
  <2>2. t <= b - m
    BY <1>2, <2>1
  <2> QED BY <1>3, <2>2
<1>5. Max(S) \in S /\ \A m \in S : Max(S) >= m
  BY <1>4 DEF Max
<1> QED BY <1>5

LEMMA MaxOf ==
  ASSUME NEW b \in Nat, NEW S \in SUBSET (0 .. b), b \in S
  PROVE  Max(S) = b
<1>1. S # {}
  OBVIOUS
<1>2. Max(S) \in S /\ \A m \in S : m <= Max(S)
  BY <1>1, MaxIs
<1>3. Max(S) \in 0 .. b /\ b <= Max(S)
  BY <1>2
<1> QED BY <1>3

LEMMA MinIs ==
  ASSUME NEW S \in SUBSET Nat, S # {}
  PROVE  Min(S) \in S
<1>1. \E n \in S : \A m \in S : n =< m
  BY Least
<1> QED BY <1>1 DEF Min

-----------------------------------------------------------------------------
(* Planning.                                                               *)

LEMMA StepIs ==
  ASSUME NEW b \in Seq(BodyLine)
  PROVE  IndentStep(b) \in Nat \ {0}
<1> DEFINE P == {b[k].indent : k \in DOMAIN b} \ {0}
<1>1. \A k \in DOMAIN b : b[k] \in BodyLine
  BY ElementOfSeq
<1>2. P \in SUBSET (Nat \ {0})
  BY <1>1 DEF BodyLine
<1>3. CASE P = {}
  BY <1>3 DEF IndentStep
<1>4. CASE P # {}
  <2>1. Min(P) \in P
    <3> HIDE DEF P
    <3>1. P \in SUBSET Nat
      BY <1>2
    <3> QED BY <1>4, <3>1, MinIs
  <2> QED BY <1>2, <1>4, <2>1 DEF IndentStep
<1> QED BY <1>3, <1>4

(* Where the session is before line k of a plan: at the depth of the last  *)
(* line that moved it, and, when the last configuration line opened a      *)
(* section, inside that one too.                                           *)
MovesBefore(ls, k)   == {m \in 1 .. (k - 1) : ls[m].kind # "COMMENT"}
ConfigsBefore(ls, k) == {m \in 1 .. (k - 1) : ls[m].kind = "CONFIG"}

LevelAt(ls, k) == IF MovesBefore(ls, k) = {} THEN 0
                  ELSE ls[Max(MovesBefore(ls, k))].depth
OpenAt(ls, k) == /\ ConfigsBefore(ls, k) # {}
                 /\ ls[Max(ConfigsBefore(ls, k))].enters

(* Line k is typed where it belongs: a configuration line at the level of  *)
(* the session or inside the section just opened, an `exit' from one level *)
(* to the next.                                                            *)
Fits(ls, k) ==
  /\ ls[k].kind = "CONFIG" =>
       /\ \/ ls[k].depth = LevelAt(ls, k)
          \/ OpenAt(ls, k) /\ ls[k].depth = LevelAt(ls, k) + 1
       /\ ls[k].op = "unset" => ~ls[k].enters
  /\ ls[k].op = "exit" => ls[k].depth + 1 = LevelAt(ls, k)
  /\ ls[k].op = "enter" => k = 1 /\ ls[k].depth = 0
  /\ ls[k].op # "leave"

Below(ls, k) == OpenAt(ls, k) =>
                  LevelAt(ls, k) <= ls[Max(ConfigsBefore(ls, k))].depth

(* Lines that fit, and where they leave the session.                       *)
Walk(ls, level, open) ==
  /\ ls \in Seq(PlannedLine)
  /\ \A k \in 1 .. Len(ls) : Fits(ls, k)
  /\ \A k \in 1 .. Len(ls) + 1 : Below(ls, k)
  /\ LevelAt(ls, Len(ls) + 1) = level
  /\ OpenAt(ls, Len(ls) + 1) <=> open

(* What one more line does to where the session is.                        *)
LEMMA NextAt ==
  ASSUME NEW ls \in Seq(PlannedLine), NEW k \in 1 .. Len(ls)
  PROVE  /\ LevelAt(ls, k + 1) = IF ls[k].kind = "COMMENT" THEN LevelAt(ls, k)
                                 ELSE ls[k].depth
         /\ OpenAt(ls, k + 1) <=> IF ls[k].kind = "CONFIG" THEN ls[k].enters
                                  ELSE OpenAt(ls, k)
         /\ ls[k].kind # "CONFIG" => ConfigsBefore(ls, k + 1) = ConfigsBefore(ls, k)
         /\ ls[k].kind = "CONFIG" => Max(ConfigsBefore(ls, k + 1)) = k
<1>1. k \in Nat /\ (k + 1) - 1 = k
  OBVIOUS
<1>2. ASSUME ls[k].kind = "COMMENT"
      PROVE  MovesBefore(ls, k + 1) = MovesBefore(ls, k)
  BY <1>1, <1>2 DEF MovesBefore
<1>3. ASSUME ls[k].kind # "COMMENT"
      PROVE  MovesBefore(ls, k + 1) # {} /\ Max(MovesBefore(ls, k + 1)) = k
  <2>1. k \in MovesBefore(ls, k + 1) /\ MovesBefore(ls, k + 1) \in SUBSET (0 .. k)
    BY <1>1, <1>3 DEF MovesBefore
  <2> QED BY <1>1, <2>1, MaxOf
<1>4. ASSUME ls[k].kind # "CONFIG"
      PROVE  ConfigsBefore(ls, k + 1) = ConfigsBefore(ls, k)
  BY <1>1, <1>4 DEF ConfigsBefore
<1>5. ASSUME ls[k].kind = "CONFIG"
      PROVE  ConfigsBefore(ls, k + 1) # {} /\ Max(ConfigsBefore(ls, k + 1)) = k
  <2>1. k \in ConfigsBefore(ls, k + 1)
        /\ ConfigsBefore(ls, k + 1) \in SUBSET (0 .. k)
    BY <1>1, <1>5 DEF ConfigsBefore
  <2> QED BY <1>1, <2>1, MaxOf
<1>6. LevelAt(ls, k + 1) = IF ls[k].kind = "COMMENT" THEN LevelAt(ls, k)
                           ELSE ls[k].depth
  BY <1>2, <1>3 DEF LevelAt
<1>7. OpenAt(ls, k + 1) <=> IF ls[k].kind = "CONFIG" THEN ls[k].enters
                            ELSE OpenAt(ls, k)
  BY <1>4, <1>5 DEF OpenAt
<1> QED BY <1>4, <1>5, <1>6, <1>7

(* A line changes nothing above it.                                        *)
LEMMA SameAbove ==
  ASSUME NEW ls \in Seq(PlannedLine), NEW l \in PlannedLine,
         NEW k \in 1 .. Len(ls) + 1
  PROVE  /\ LevelAt(Append(ls, l), k) = LevelAt(ls, k)
         /\ OpenAt(Append(ls, l), k) <=> OpenAt(ls, k)
         /\ Below(Append(ls, l), k) <=> Below(ls, k)
         /\ k <= Len(ls) => (Fits(Append(ls, l), k) <=> Fits(ls, k))
<1> DEFINE more == Append(ls, l)
<1>0. Len(ls) \in Nat
  OBVIOUS
<1>1. \A m \in 1 .. Len(ls) : more[m] = ls[m]
  BY AppendProperties
<1> HIDE DEF more
<1>2. \A m \in 1 .. (k - 1) : more[m] = ls[m]
  BY <1>0, <1>1
<1>3. MovesBefore(more, k) = MovesBefore(ls, k)
      /\ ConfigsBefore(more, k) = ConfigsBefore(ls, k)
  BY <1>2 DEF MovesBefore, ConfigsBefore
<1>4. ASSUME NEW S \in SUBSET (1 .. (k - 1)), S # {}
      PROVE  Max(S) \in 1 .. (k - 1)
  <2>1. k - 1 \in Nat /\ S \in SUBSET (0 .. (k - 1))
    BY <1>0
  <2> QED BY <1>4, <2>1, MaxIs
<1>5. /\ MovesBefore(ls, k) # {} => Max(MovesBefore(ls, k)) \in 1 .. (k - 1)
      /\ ConfigsBefore(ls, k) # {} => Max(ConfigsBefore(ls, k)) \in 1 .. (k - 1)
  BY <1>4 DEF MovesBefore, ConfigsBefore
<1>6. LevelAt(more, k) = LevelAt(ls, k)
  BY <1>2, <1>3, <1>5 DEF LevelAt
<1>7. OpenAt(more, k) <=> OpenAt(ls, k)
  BY <1>2, <1>3, <1>5 DEF OpenAt
<1>8. Below(more, k) <=> Below(ls, k)
  BY <1>2, <1>3, <1>5, <1>6, <1>7 DEF Below, OpenAt
<1>9. k <= Len(ls) => (Fits(more, k) <=> Fits(ls, k))
  BY <1>1, <1>6, <1>7 DEF Fits
<1> QED BY <1>6, <1>7, <1>8, <1>9 DEF more

(* What the next line may be, and where it takes the session.              *)
Leads(l, k, level, open, to, opens) ==
  \/ l.kind = "COMMENT" /\ to = level /\ opens = open
  \/ l.op = "enter" /\ k = 1 /\ l.depth = 0 /\ to = 0 /\ opens = open
  \/ l.op = "exit" /\ l.depth + 1 = level /\ to = l.depth /\ opens = open
  \/ /\ l.kind = "CONFIG" /\ to = l.depth /\ opens = l.enters
     /\ l.depth = level \/ (open /\ l.depth = level + 1)
     /\ l.op = "unset" => ~l.enters

(* One more line that fits.                                                *)
LEMMA WalkOn ==
  ASSUME NEW ls, NEW level \in Nat, NEW open \in BOOLEAN, Walk(ls, level, open),
         NEW l \in PlannedLine, NEW k \in Nat, k = Len(ls) + 1,
         NEW to \in Nat, NEW opens \in BOOLEAN,
         Leads(l, k, level, open, to, opens)
  PROVE  Walk(Append(ls, l), to, opens)
<1> DEFINE more == Append(ls, l)
<1>0. Len(ls) \in Nat /\ k \in Nat /\ ls \in Seq(PlannedLine) /\ k >= 1
  BY DEF Walk
<1>1. more \in Seq(PlannedLine) /\ Len(more) = k /\ more[k] = l
  BY <1>0, AppendProperties
<1>2. \A m \in 1 .. k :
        /\ LevelAt(more, m) = LevelAt(ls, m)
        /\ OpenAt(more, m) <=> OpenAt(ls, m)
        /\ Below(more, m) <=> Below(ls, m)
        /\ m <= Len(ls) => (Fits(more, m) <=> Fits(ls, m))
  BY <1>0, SameAbove
<1>3. /\ LevelAt(more, k) = level /\ (OpenAt(more, k) <=> open)
      /\ \A m \in 1 .. k : Below(more, m)
      /\ \A m \in 1 .. (k - 1) : Fits(more, m)
  BY <1>0, <1>2 DEF Walk
<1> HIDE DEF more
<1>4. l.kind = "COMMENT" => l.op = "none"
  BY DEF PlannedLine, LineOf
<1>5. l.kind = "CONFIG" => l.op \in {"set", "unset"}
  BY DEF PlannedLine, LineOf
<1>5a. l.op \in {"enter", "exit"} => l.kind = "MODE"
  BY DEF PlannedLine, LineOf
<1>6. Fits(more, k)
  BY <1>1, <1>3, <1>4, <1>5, <1>5a DEF Fits, Leads
<1>7. k \in 1 .. Len(more) /\ k + 1 = Len(more) + 1
  BY <1>0, <1>1
<1>8. /\ LevelAt(more, k + 1) = IF l.kind = "COMMENT" THEN level ELSE l.depth
      /\ OpenAt(more, k + 1) <=> IF l.kind = "CONFIG" THEN l.enters ELSE open
      /\ l.kind # "CONFIG" => ConfigsBefore(more, k + 1) = ConfigsBefore(more, k)
      /\ l.kind = "CONFIG" => Max(ConfigsBefore(more, k + 1)) = k
  BY <1>1, <1>3, <1>7, NextAt
<1>9. LevelAt(more, k + 1) = to /\ (OpenAt(more, k + 1) <=> opens)
  BY <1>8, <1>4, <1>5, <1>5a DEF Leads
<1>10. Below(more, k + 1)
  <2>1. CASE l.kind = "CONFIG"
    BY <1>1, <1>8, <2>1 DEF Below, PlannedLine, LineOf, Leads
  <2>2. CASE l.kind # "CONFIG"
    <3>1. LevelAt(more, k + 1) <= LevelAt(more, k)
      BY <1>3, <1>9, <2>2, <1>5a DEF Leads
    <3>2. Below(more, k) /\ (OpenAt(more, k + 1) => OpenAt(more, k))
      BY <1>0, <1>3, <1>8, <2>2
    <3>3. ASSUME OpenAt(more, k + 1)
          PROVE  LevelAt(more, k + 1) <= more[Max(ConfigsBefore(more, k + 1))].depth
      <4>1. LevelAt(more, k) <= more[Max(ConfigsBefore(more, k))].depth
        BY <3>2, <3>3 DEF Below
      <4>2. ConfigsBefore(more, k) # {}
        BY <3>2, <3>3 DEF OpenAt
      <4>3. k - 1 \in Nat /\ ConfigsBefore(more, k) \in SUBSET (0 .. (k - 1))
        BY <1>0 DEF ConfigsBefore
      <4>4. Max(ConfigsBefore(more, k)) \in 1 .. k
        <5>1. Max(ConfigsBefore(more, k)) \in ConfigsBefore(more, k)
          BY <4>2, <4>3, MaxIs
        <5> QED BY <1>0, <5>1 DEF ConfigsBefore
      <4>5. more[Max(ConfigsBefore(more, k))].depth \in Nat
        BY <1>1, <4>4, ElementOfSeq DEF PlannedLine, LineOf
      <4> QED BY <1>3, <1>8, <1>9, <2>2, <3>1, <4>1, <4>5
    <3> QED BY <3>3 DEF Below
  <2> QED BY <2>1, <2>2
<1>11. \A m \in 1 .. k + 1 : Below(more, m)
  BY <1>0, <1>3, <1>10
<1>12. \A m \in 1 .. k : Fits(more, m)
  BY <1>0, <1>3, <1>6
<1> QED BY <1>1, <1>7, <1>9, <1>11, <1>12 DEF Walk, more

LEMMA ModeLineType ==
  ASSUME NEW op \in {"enter", "leave", "exit"}, NEW d \in Nat
  PROVE  /\ ModeLine(op, d) \in PlannedLine
         /\ ModeLine(op, d).op = op /\ ModeLine(op, d).depth = d
         /\ ModeLine(op, d).kind = "MODE"
<1>1. AnyItem \in Items
  BY ItemsAssumption DEF AnyItem
<1> QED BY <1>1 DEF ModeLine, PlannedLine, LineOf, Classes

LEMMA ExitsType ==
  ASSUME NEW from \in Nat, NEW to \in Nat
  PROVE  Exits(from, to) \in Seq(PlannedLine)
<1>1. CASE from <= to
  BY <1>1 DEF Exits
<1>2. CASE from > to
  <2>1. from - to \in Nat /\ \A i \in 1 .. (from - to) : from - i \in Nat
    BY <1>2
  <2>2. \A i \in 1 .. (from - to) : ModeLine("exit", from - i) \in PlannedLine
    BY <2>1, ModeLineType
  <2>3. Exits(from, to) = [i \in 1 .. (from - to) |-> ModeLine("exit", from - i)]
    BY <1>2 DEF Exits
  <2> QED BY <2>1, <2>2, <2>3
<1> QED BY <1>1, <1>2

LEMMA FirstStays ==
  ASSUME NEW ls \in Seq(PlannedLine), NEW from \in Nat, NEW to \in Nat,
         ls # << >>
  PROVE  /\ ls \o Exits(from, to) # << >>
         /\ (ls \o Exits(from, to))[1] = ls[1]
<1>1. Exits(from, to) \in Seq(PlannedLine)
  BY ExitsType
<1> HIDE DEF Exits
<1> QED BY <1>1, ConcatProperties

(* The exits between two levels leave one sub-mode each.                   *)
LEMMA WalkOut ==
  ASSUME NEW ls, NEW level \in Nat, NEW open \in BOOLEAN, Walk(ls, level, open),
         NEW to \in 0 .. level
  PROVE  Walk(ls \o Exits(level, to), to, open)
<1> DEFINE W(j) == Walk(ls \o Exits(level, level - j), level - j, open)
           G == {j \in 0 .. level : W(j)}
<1>0. ls \in Seq(PlannedLine)
  BY DEF Walk
<1>1. 0 \in G
  <2>1. level - 0 = level /\ Exits(level, level) = << >>
    BY DEF Exits
  <2>2. ls \o << >> = ls
    BY <1>0, ConcatEmptySeq
  <2> QED BY <2>1, <2>2
<1>2. ASSUME NEW j \in 1 .. level, j - 1 \in G PROVE j \in G
  <2> DEFINE a == Exits(level, level - (j - 1))
             l == ModeLine("exit", level - j)
  <2>1. /\ level - j \in Nat /\ j - 1 \in Nat /\ level - (j - 1) \in Nat
        /\ (level - j) + 1 = level - (j - 1)
    OBVIOUS
  <2>2. l \in PlannedLine /\ l.op = "exit" /\ l.depth = level - j
    BY <2>1, ModeLineType
  <2>3. Walk(ls \o a, level - (j - 1), open)
    BY <1>2
  <2>4. Walk(Append(ls \o a, l), level - j, open)
    <3> HIDE DEF a, l
    <3>1. Leads(l, Len(ls \o a) + 1, level - (j - 1), open, level - j, open)
      BY <2>1, <2>2 DEF Leads
    <3>2. Len(ls \o a) + 1 \in Nat
      BY <2>3 DEF Walk
    <3> QED BY <2>1, <2>2, <2>3, <3>1, <3>2, WalkOn, ZenonT(60)
  <2>5. \A i \in 1 .. (j - 1) : ModeLine("exit", level - i) \in PlannedLine
    BY ModeLineType
  <2>6. a = [i \in 1 .. (j - 1) |-> ModeLine("exit", level - i)]
    BY <2>1 DEF Exits
  <2>7. a \in Seq(PlannedLine) /\ Len(a) = j - 1
    BY <2>1, <2>5, <2>6
  <2>8. Exits(level, level - j) = [i \in 1 .. j |-> ModeLine("exit", level - i)]
    BY <2>1 DEF Exits
  <2>9. Append(a, l) = [i \in 1 .. j |-> ModeLine("exit", level - i)]
    <3>1. Append(a, l) = [i \in 1 .. (j - 1) + 1 |-> IF i = (j - 1) + 1 THEN l ELSE a[i]]
      BY <2>7 DEF Append
    <3>2. \A i \in 1 .. (j - 1) + 1 :
            (IF i = (j - 1) + 1 THEN l ELSE a[i]) = ModeLine("exit", level - i)
      BY <2>6
    <3> QED BY <3>1, <3>2
  <2>10. Append(ls \o a, l) = ls \o Append(a, l)
    <3> HIDE DEF a, l
    <3> QED BY <1>0, <2>2, <2>7, SMTT(60)
  <2>11. W(j)
    BY <2>4, <2>8, <2>9, <2>10
  <2> QED BY <2>11
<1>3. G \in SUBSET (0 .. level)
  OBVIOUS
<1>4. G = 0 .. level
  <2> HIDE DEF G
  <2> QED BY <1>1, <1>2, <1>3, Upward
<1>5. level - to \in G /\ level - (level - to) = to
  <2> HIDE DEF G
  <2> QED BY <1>4
<1> QED BY <1>5

(* One line of the body keeps the plan a walk.                             *)
Planned(acc, w) ==
  /\ acc \in [lines : Seq(PlannedLine), level : Nat,
              pending : Nat \cup {NoPending}, ok : BOOLEAN]
  /\ Walk(acc.lines, acc.level, acc.pending # NoPending)
  /\ acc.pending # NoPending => acc.pending = acc.level
  /\ w => acc.lines # << >> /\ acc.lines[1].op = "enter"

LEMMA PlannedIs ==
  ASSUME NEW w \in BOOLEAN, NEW ls \in Seq(PlannedLine), NEW level \in Nat,
         NEW pending \in Nat \cup {NoPending}, NEW ok \in BOOLEAN,
         Walk(ls, level, pending # NoPending),
         pending # NoPending => pending = level,
         w => ls # << >> /\ ls[1].op = "enter"
  PROVE  Planned([lines |-> ls, level |-> level, pending |-> pending,
                  ok |-> ok], w)
BY DEF Planned

LEMMA PlanStarts ==
  ASSUME NEW w \in BOOLEAN
  PROVE  Planned(PlanStart(w), w)
<1> DEFINE l == ModeLine("enter", 0)
           none == << >>
<1>1. Walk(none, 0, FALSE) /\ none \in Seq(PlannedLine) /\ Len(none) = 0
  BY DEF Walk, LevelAt, OpenAt, MovesBefore, ConfigsBefore, Below
<1>2. l \in PlannedLine /\ l.op = "enter" /\ l.depth = 0
  BY ModeLineType
<1>3. PICK no \in BOOLEAN, yes \in BOOLEAN : no = FALSE /\ yes = TRUE
  OBVIOUS
<1>4. Walk(none, 0, no) /\ Leads(l, 1, 0, no, 0, no)
  BY <1>1, <1>2, <1>3 DEF Leads
<1>5. Walk(Append(none, l), 0, no)
  <2> HIDE DEF l, none
  <2>1. 0 \in Nat /\ 1 \in Nat /\ 1 = Len(none) + 1
    BY <1>1
  <2> QED BY <1>2, <1>4, <2>1, WalkOn
<1>6. Append(none, l) = << l >>
  OBVIOUS
<1>7. PICK p \in Nat \cup {NoPending} : p = NoPending
  OBVIOUS
<1>8. (p # NoPending) = no
  BY <1>3, <1>7
<1>9. CASE w
  <2>1. PlanStart(w) = [lines |-> << l >>, level |-> 0, pending |-> p,
                        ok |-> yes]
    BY <1>3, <1>7, <1>9 DEF PlanStart, Wrapper
  <2>2. << l >> \in Seq(PlannedLine) /\ << l >> # << >> /\ << l >>[1] = l
    BY <1>2
  <2>3. PICK ls \in Seq(PlannedLine) : ls = << l >>
    BY <2>2
  <2> HIDE DEF l
  <2>4. Walk(ls, 0, p # NoPending) /\ ls # << >> /\ ls[1].op = "enter"
    BY <1>2, <1>5, <1>6, <1>8, <2>2, <2>3
  <2>5. Planned([lines |-> ls, level |-> 0, pending |-> p, ok |-> yes], w)
    BY <1>7, <2>4, PlannedIs
  <2> QED BY <2>1, <2>3, <2>5
<1>10. CASE ~w
  <2>1. PlanStart(w) = [lines |-> none, level |-> 0, pending |-> p, ok |-> yes]
    BY <1>3, <1>7, <1>10 DEF PlanStart, Wrapper
  <2> HIDE DEF none
  <2>2. Walk(none, 0, p # NoPending)
    BY <1>4, <1>8
  <2>3. PICK ls \in Seq(PlannedLine) : ls = none
    BY <1>1
  <2>4. Walk(ls, 0, p # NoPending) /\ 0 \in Nat
    BY <2>2, <2>3
  <2>5. Planned([lines |-> ls, level |-> 0, pending |-> p, ok |-> yes], w)
    BY <1>7, <1>10, <2>4, PlannedIs
  <2> QED BY <2>1, <2>3, <2>5
<1> QED BY <1>9, <1>10

LEMMA PlanGoesOn ==
  ASSUME NEW w \in BOOLEAN, NEW acc, Planned(acc, w), NEW line \in BodyLine,
         NEW step \in Nat \ {0}
  PROVE  Planned(PlanLine(acc, line, step), w)
<1> DEFINE target == line.indent \div step
           open == acc.pending # NoPending
           l == [kind |-> "CONFIG", op |-> line.op, item |-> line.item,
                 depth |-> target, enters |-> line.enters, cls |-> line.cls,
                 inverse |-> line.inverse]
           c == [ModeLine("none", acc.level) EXCEPT !.kind = "COMMENT"]
           out == acc.lines \o Exits(acc.level, target)
<1>1. target \in Nat
  BY DEF BodyLine
<1>2. /\ acc.lines \in Seq(PlannedLine) /\ acc.level \in Nat
      /\ acc.pending \in Nat \cup {NoPending} /\ acc.ok \in BOOLEAN
      /\ Walk(acc.lines, acc.level, open)
      /\ w => acc.lines # << >> /\ acc.lines[1].op = "enter"
      /\ acc = [lines |-> acc.lines, level |-> acc.level,
                pending |-> acc.pending, ok |-> acc.ok]
      /\ acc.pending # NoPending => acc.pending = acc.level
  BY DEF Planned
<1>3. ASSUME NEW ls \in Seq(PlannedLine), NEW x \in PlannedLine, ls # << >>
      PROVE  Append(ls, x) # << >> /\ Append(ls, x)[1] = ls[1]
  BY <1>3
<1>4. CASE ~acc.ok
  BY <1>4 DEF PlanLine
<1>5. CASE acc.ok /\ line.kind = "comment"
  <2>1. PlanLine(acc, line, step) = [acc EXCEPT !.lines = Append(acc.lines, c)]
    BY <1>5 DEF PlanLine
  <2>2. c \in PlannedLine /\ c.kind = "COMMENT"
    <3>1. AnyItem \in Items
      BY ItemsAssumption DEF AnyItem
    <3> QED BY <1>2, <3>1 DEF ModeLine, PlannedLine, LineOf, Classes
  <2> HIDE DEF c
  <2>3. Walk(Append(acc.lines, c), acc.level, open)
    <3>1. Leads(c, Len(acc.lines) + 1, acc.level, open, acc.level, open)
      BY <2>2 DEF Leads
    <3>2. Len(acc.lines) + 1 \in Nat /\ open \in BOOLEAN
      BY <1>2
    <3> QED BY <1>2, <2>2, <3>1, <3>2, WalkOn
  <2>4. w => Append(acc.lines, c) # << >> /\ Append(acc.lines, c)[1].op = "enter"
    BY <1>2, <1>3, <2>2
  <2>5. Append(acc.lines, c) \in Seq(PlannedLine)
    BY <2>3 DEF Walk
  <2>6. PlanLine(acc, line, step) =
          [lines |-> Append(acc.lines, c), level |-> acc.level,
           pending |-> acc.pending, ok |-> acc.ok]
    BY <1>2, <2>1
  <2>7. Planned([lines |-> Append(acc.lines, c), level |-> acc.level,
                 pending |-> acc.pending, ok |-> acc.ok], w)
    BY <1>2, <2>3, <2>4, <2>5, PlannedIs
  <2> QED BY <2>6, <2>7
<1>6. CASE acc.ok /\ line.kind = "config"
  <2>1. CASE ~LegalIndent(acc, target) \/ line.cls \notin ConfigClasses
    <3>1. PlanLine(acc, line, step) = [acc EXCEPT !.ok = FALSE]
      BY <1>6, <2>1 DEF PlanLine, Refused
    <3>2. PlanLine(acc, line, step) =
            [lines |-> acc.lines, level |-> acc.level,
             pending |-> acc.pending, ok |-> FALSE]
      BY <1>2, <3>1
    <3>3. Planned([lines |-> acc.lines, level |-> acc.level,
                   pending |-> acc.pending, ok |-> FALSE], w)
      BY <1>2, PlannedIs
    <3> QED BY <3>2, <3>3
  <2>2. CASE LegalIndent(acc, target) /\ line.cls \in ConfigClasses
    <3> DEFINE pending == IF line.enters THEN target ELSE NoPending
    <3>1. PlanLine(acc, line, step) =
            [lines |-> Append(out, l), level |-> target,
             pending |-> pending, ok |-> TRUE]
      BY <1>6, <2>2 DEF PlanLine
    <3>2. l \in PlannedLine /\ l.kind = "CONFIG" /\ l.depth = target
          /\ l.enters = line.enters /\ (l.op = "unset" => ~l.enters)
          /\ line.enters \in BOOLEAN
      BY <1>1 DEF BodyLine, PlannedLine, LineOf
    <3> HIDE DEF l
    <3>3. \E at \in Nat : /\ Walk(out, at, open)
                          /\ target = at \/ (open /\ target = at + 1)
      <4>1. CASE target > acc.level
        <5>1. target = acc.level + 1 /\ open
          BY <1>2, <2>2, <4>1 DEF LegalIndent
        <5>2. Exits(acc.level, target) = << >>
          BY <1>1, <1>2, <4>1 DEF Exits
        <5>3. out = acc.lines
          BY <1>2, <5>2, ConcatEmptySeq
        <5> QED BY <1>2, <5>1, <5>3
      <4>2. CASE target <= acc.level
        <5>1. target \in 0 .. acc.level
          BY <1>1, <1>2, <4>2
        <5>2. Walk(out, target, open)
          <6> HIDE DEF target
          <6> QED BY <1>2, <5>1, WalkOut
        <5> QED BY <1>1, <5>2
      <4> QED BY <1>1, <1>2, <4>1, <4>2
    <3>4. PICK at \in Nat : /\ Walk(out, at, open)
                            /\ target = at \/ (open /\ target = at + 1)
      BY <3>3
    <3>5. out \in Seq(PlannedLine) /\ Len(out) + 1 \in Nat
      <4> HIDE DEF out
      <4>1. out \in Seq(PlannedLine)
        BY <3>4 DEF Walk
      <4> QED BY <4>1
    <3>6. w => out # << >> /\ out[1].op = "enter"
      <4> HIDE DEF target
      <4>1. acc.lines # << >> => out # << >> /\ out[1] = acc.lines[1]
        BY <1>1, <1>2, FirstStays
      <4> QED BY <1>2, <4>1
    <3> HIDE DEF out, target
    <3>7. Walk(Append(out, l), target, line.enters)
      <4>1. Leads(l, Len(out) + 1, at, open, target, line.enters)
        BY <3>2, <3>4 DEF Leads
      <4>2. open \in BOOLEAN
        OBVIOUS
      <4> HIDE DEF open
      <4> QED BY <1>1, <3>2, <3>4, <3>5, <4>1, <4>2, WalkOn
    <3>8. Append(out, l) \in Seq(PlannedLine)
      BY <3>7 DEF Walk
    <3>9. w => Append(out, l) # << >> /\ Append(out, l)[1].op = "enter"
      BY <1>3, <3>2, <3>5, <3>6
    <3>10. /\ pending \in Nat \cup {NoPending}
           /\ (pending # NoPending) = line.enters
           /\ pending # NoPending => pending = target
      BY <1>1, <3>2 DEF NoPending
    <3>11. Walk(Append(out, l), target, pending # NoPending)
      BY <3>7, <3>10
    <3> HIDE DEF pending
    <3>12. Planned([lines |-> Append(out, l), level |-> target,
                    pending |-> pending, ok |-> TRUE], w)
      BY <1>1, <3>8, <3>9, <3>10, <3>11, PlannedIs
    <3> QED BY <3>1, <3>12
  <2> QED BY <2>1, <2>2
<1> QED BY <1>2, <1>4, <1>5, <1>6 DEF BodyLine

(* What is planned is a walk after every line of the body.                 *)
LEMMA PlanningWalks ==
  ASSUME NEW body \in Seq(BodyLine), NEW w \in BOOLEAN, NEW k \in 0 .. Len(body)
  PROVE  Planned(Planning(body, w)[k], w)
<1> DEFINE n == Len(body)
           step == IndentStep(body)
           Y == {acc \in [lines : Seq(PlannedLine), level : Nat,
                          pending : Nat \cup {NoPending}, ok : BOOLEAN] :
                   Planned(acc, w)}
           e == [j \in 1 .. n |-> [acc \in Y |-> PlanLine(acc, body[j], step)]]
           Is(f) == f = [j \in 0 .. Len(body) |->
                           IF j = 0 THEN PlanStart(w)
                           ELSE PlanLine(f[j - 1], body[j], IndentStep(body))]
<1>1. n \in Nat /\ \A j \in 1 .. n : body[j] \in BodyLine
  BY ElementOfSeq
<1>2. step \in Nat \ {0}
  BY StepIs
<1>3. \A acc : acc \in Y <=> Planned(acc, w)
  BY DEF Planned
<1>4. PlanStart(w) \in Y
  BY <1>3, PlanStarts
<1>5. \A j \in 1 .. n, acc \in Y : PlanLine(acc, body[j], step) \in Y
  <2> HIDE DEF step, Y, n
  <2>1. \A j \in 1 .. n, acc \in Y : Planned(PlanLine(acc, body[j], step), w)
    BY <1>1, <1>2, <1>3, PlanGoesOn
  <2> QED BY <1>3, <2>1
<1>6. e \in [1 .. n -> [Y -> Y]]
  <2> HIDE DEF step, Y, n
  <2> QED BY <1>5
<1>7. PICK g \in [0 .. n -> Y] : Follows(g, PlanStart(w), e, n)
  <2> HIDE DEF e, n, Y
  <2>1. \E g \in [0 .. n -> Y] : Follows(g, PlanStart(w), e, n)
    BY <1>1, <1>4, <1>6, Folded
  <2> QED BY <2>1
<1>8. \A j \in 1 .. n : g[j] = PlanLine(g[j - 1], body[j], step)
  <2> HIDE DEF step, Y
  <2>1. \A j \in 1 .. n : j - 1 \in 0 .. n
    BY <1>1
  <2> QED BY <1>1, <1>7, <2>1 DEF Follows
<1>9. Is(g)
  <2> HIDE DEF Y
  <2>1. g = [j \in 0 .. n |-> g[j]]
    BY <1>7
  <2>2. \A j \in 0 .. n : g[j] = IF j = 0 THEN PlanStart(w)
                                 ELSE PlanLine(g[j - 1], body[j], step)
    BY <1>1, <1>7, <1>8 DEF Follows
  <2> QED BY <2>1, <2>2
<1>10. Planning(body, w) = CHOOSE f : Is(f)
  BY DEF Planning
<1>11. Is(Planning(body, w))
  <2> HIDE DEF Is
  <2> QED BY <1>9, <1>10
<1> DEFINE f == Planning(body, w)
           G == {j \in 0 .. n : f[j] \in Y}
<1>12. f[0] = PlanStart(w)
       /\ \A j \in 1 .. n : f[j] = PlanLine(f[j - 1], body[j], step)
  <2> HIDE DEF f
  <2>1. f = [j \in 0 .. n |-> IF j = 0 THEN PlanStart(w)
                              ELSE PlanLine(f[j - 1], body[j], step)]
    BY <1>11 DEF f
  <2> HIDE DEF n, step
  <2> QED BY <1>1, <2>1, SMTT(60)
<1> HIDE DEF f, Y, step
<1>13. G = 0 .. n
  <2>1. 0 \in G
    BY <1>1, <1>4, <1>12
  <2>2. \A j \in 1 .. n : j - 1 \in G => j \in G
    BY <1>1, <1>5, <1>12
  <2>3. G \in SUBSET (0 .. n)
    OBVIOUS
  <2> HIDE DEF G, n
  <2> QED BY <1>1, <2>1, <2>2, <2>3, Upward
<1>14. f[k] \in Y
  BY <1>13
<1> QED BY <1>3, <1>14 DEF f

(* The whole plan: a walk, and then possibly the closing wrapper.          *)
PlanFits(ls, w) ==
  /\ ls \in Seq(PlannedLine)
  /\ \A k \in 1 .. Len(ls) : /\ Fits(ls, k) \/ (ls[k].op = "leave" /\ k = Len(ls))
                             /\ Below(ls, k)
  /\ w => ls # << >> /\ ls[1].op = "enter"

LEMMA PlanIs ==
  ASSUME NEW body \in Seq(BodyLine), NEW w \in BOOLEAN
  PROVE  PlanFits(PlanOf(body, w).lines, w) /\ PlanOf(body, w).ok \in BOOLEAN
<1> DEFINE acc == Planning(body, w)[Len(body)]
           ls == acc.lines \o Exits(acc.level, 0)
           l == ModeLine("leave", 0)
           open == acc.pending # NoPending
<1>1. Planned(acc, w)
  BY PlanningWalks
<1> HIDE DEF acc
<1>2. /\ acc.lines \in Seq(PlannedLine) /\ acc.level \in Nat /\ acc.ok \in BOOLEAN
      /\ Walk(acc.lines, acc.level, open)
      /\ w => acc.lines # << >> /\ acc.lines[1].op = "enter"
  BY <1>1 DEF Planned
<1>3. Walk(ls, 0, open)
  <2>1. 0 \in 0 .. acc.level /\ open \in BOOLEAN
    BY <1>2
  <2> HIDE DEF open
  <2> QED BY <1>2, <2>1, WalkOut
<1>4. w => ls # << >> /\ ls[1].op = "enter"
  BY <1>2, FirstStays
<1>5. /\ PlanOf(body, w).lines = ls \o Wrapper("leave", w)
      /\ PlanOf(body, w).ok = acc.ok
  BY DEF PlanOf, acc
<1> HIDE DEF ls, open
<1>6. ls \in Seq(PlannedLine) /\ Len(ls) \in Nat
  <2>1. ls \in Seq(PlannedLine)
    BY <1>3 DEF Walk
  <2> QED BY <2>1
<1>7. \A k \in 1 .. Len(ls) : Fits(ls, k) /\ Below(ls, k)
  BY <1>3, <1>6 DEF Walk
<1>8. CASE ~w
  <2>1. PlanOf(body, w).lines = ls
    BY <1>5, <1>6, <1>8, ConcatEmptySeq DEF Wrapper
  <2> QED BY <1>2, <1>4, <1>5, <1>6, <1>7, <2>1 DEF PlanFits
<1>9. CASE w
  <2>1. l \in PlannedLine /\ l.op = "leave"
    BY ModeLineType
  <2>2. Wrapper("leave", w) = << l >>
    BY <1>9 DEF Wrapper
  <2> HIDE DEF l
  <2> DEFINE more == Append(ls, l)
  <2>3. PlanOf(body, w).lines = more
    <3>1. ls \o << l >> = Append(ls, l)
      BY <1>6, <2>1, AppendIsConcat
    <3> QED BY <1>5, <2>2, <3>1
  <2>4. /\ more \in Seq(PlannedLine) /\ Len(more) = Len(ls) + 1
        /\ more[Len(ls) + 1] = l
        /\ ls # << >> => more # << >> /\ more[1] = ls[1]
    BY <1>6, <2>1, AppendProperties
  <2>5. \A k \in 1 .. Len(ls) + 1 :
          /\ Below(more, k) <=> Below(ls, k)
          /\ k <= Len(ls) => (Fits(more, k) <=> Fits(ls, k))
    BY <1>6, <2>1, SameAbove
  <2>6. \A k \in 1 .. Len(ls) + 1 : Below(ls, k)
    BY <1>3 DEF Walk
  <2> HIDE DEF more
  <2>7. \A k \in 1 .. Len(more) :
          /\ Fits(more, k) \/ (more[k].op = "leave" /\ k = Len(more))
          /\ Below(more, k)
    <3> TAKE k \in 1 .. Len(more)
    <3>1. CASE k <= Len(ls)
      BY <1>6, <1>7, <2>4, <2>5, <2>6, <3>1
    <3>2. CASE k = Len(ls) + 1
      BY <1>6, <2>1, <2>4, <2>5, <2>6, <3>2
    <3> QED BY <1>6, <2>4, <3>1, <3>2
  <2> QED BY <1>2, <1>4, <1>5, <2>3, <2>4, <2>7 DEF PlanFits
<1> QED BY <1>8, <1>9

(* The rollback plan is made of inverses.                                  *)
LEMMA UndosAre ==
  ASSUME NEW ls \in Seq(PlannedLine)
  PROVE  RollbackPlan(ls) \in Seq(InverseStep)
<1> DEFINE n == Len(ls)
           Y == Seq(InverseStep)
           More(a, j) == IF HasUndo(ls[j]) THEN Append(a, UndoOf(ls[j])) ELSE a
           e == [j \in 1 .. n |-> [a \in Y |-> More(a, j)]]
           Is(f) == f = [j \in 0 .. Len(ls) |->
                           IF j = 0 THEN << >>
                           ELSE IF HasUndo(ls[j])
                                THEN Append(f[j - 1], UndoOf(ls[j]))
                                ELSE f[j - 1]]
<1>1. n \in Nat /\ \A j \in 1 .. n : ls[j] \in PlannedLine
  BY ElementOfSeq
<1>2. << >> \in Y
  OBVIOUS
<1>3. \A j \in 1 .. n, a \in Y : More(a, j) \in Y
  <2> TAKE j \in 1 .. n, a \in Y
  <2>1. CASE HasUndo(ls[j])
    <3>1. UndoOf(ls[j]) \in InverseStep
      BY <1>1, <2>1 DEF HasUndo, UndoOf, InverseStep, PlannedLine, LineOf
    <3> QED BY <2>1, <3>1
  <2>2. CASE ~HasUndo(ls[j])
    BY <2>2
  <2> QED BY <2>1, <2>2
<1>4. e \in [1 .. n -> [Y -> Y]]
  <2> HIDE DEF Y, n, More
  <2> QED BY <1>3
<1>5. PICK g \in [0 .. n -> Y] : Follows(g, << >>, e, n)
  <2> HIDE DEF e, n, Y
  <2>1. \E g \in [0 .. n -> Y] : Follows(g, << >>, e, n)
    BY <1>1, <1>2, <1>4, Folded
  <2> QED BY <2>1
<1>6. \A j \in 1 .. n : g[j] = More(g[j - 1], j)
  <2> HIDE DEF Y, More
  <2>1. \A j \in 1 .. n : j - 1 \in 0 .. n
    BY <1>1
  <2> QED BY <1>1, <1>5, <2>1 DEF Follows
<1>7. Is(g)
  <2> HIDE DEF Y
  <2>1. g = [j \in 0 .. n |-> g[j]]
    BY <1>5
  <2>2. \A j \in 0 .. n : g[j] = IF j = 0 THEN << >> ELSE More(g[j - 1], j)
    <3>1. g[0] = << >>
      BY <1>5 DEF Follows
    <3> HIDE DEF More
    <3> QED BY <1>1, <1>6, <3>1
  <2> QED BY <2>1, <2>2
<1>8. Undoes(ls) = CHOOSE f : Is(f)
  BY DEF Undoes
<1>9. Is(Undoes(ls))
  <2> HIDE DEF Is
  <2> QED BY <1>7, <1>8
<1> DEFINE f == Undoes(ls)
           G == {j \in 0 .. n : f[j] \in Y}
<1>10. f[0] = << >> /\ \A j \in 1 .. n : f[j] = More(f[j - 1], j)
  <2> HIDE DEF f
  <2>1. f = [j \in 0 .. n |-> IF j = 0 THEN << >> ELSE More(f[j - 1], j)]
    BY <1>9 DEF f
  <2> HIDE DEF n, More
  <2> QED BY <1>1, <2>1
<1> HIDE DEF f, Y, More
<1>11. G = 0 .. n
  <2>1. 0 \in G
    BY <1>1, <1>2, <1>10
  <2>2. \A j \in 1 .. n : j - 1 \in G => j \in G
    BY <1>1, <1>3, <1>10
  <2>3. G \in SUBSET (0 .. n)
    OBVIOUS
  <2> HIDE DEF G, n
  <2> QED BY <1>1, <2>1, <2>2, <2>3, Upward
<1>12. f[n] \in Y
  BY <1>1, <1>11
<1> QED BY <1>12 DEF f, Y, RollbackPlan

(* So are the plans of the requests, and their rollback plans.             *)
LEMMA PlansAre ==
  ASSUME NEW r \in Requests, NEW f \in Families
  PROVE  /\ PlanFits(Plans[r][f].lines, f.wrapped)
         /\ Plans[r][f].ok \in BOOLEAN
         /\ Undos[r][f] \in Seq(InverseStep)
<1>1. r.body \in Seq(BodyLine) /\ f.wrapped \in BOOLEAN
  BY RequestsAssumption, FamiliesAssumption DEF Request, Family
<1>2. /\ Plans[r][f] = PlanOf(r.body, f.wrapped)
      /\ Undos[r][f] = RollbackPlan(Plans[r][f].lines)
  BY DEF Plans, Undos
<1>3. PlanFits(Plans[r][f].lines, f.wrapped) /\ Plans[r][f].ok \in BOOLEAN
  BY <1>1, <1>2, PlanIs
<1>4. Plans[r][f].lines \in Seq(PlannedLine)
  BY <1>3 DEF PlanFits
<1>5. Undos[r][f] \in Seq(InverseStep)
  BY <1>2, <1>4, UndosAre
<1> QED BY <1>3, <1>5

-----------------------------------------------------------------------------
(* The commands the executor sends.                                        *)
CommandType == [op : {"enter", "leave", "exit", "set", "unset", "save"},
                item : Items, depth : Nat, enters : BOOLEAN, inert : BOOLEAN]

-----------------------------------------------------------------------------
(* Lemmas about the device.                                                *)

LEMMA PrefixType ==
  ASSUME NEW p \in Path, NEW n \in Nat, n <= Len(p)
  PROVE  SubSeq(p, 1, n) \in Path
BY SubSeqProperties DEF Path

LEMMA ButlastType ==
  ASSUME NEW p \in Path, p # << >>
  PROVE  Butlast(p) \in Path
<1>1. Len(p) - 1 \in Nat /\ Len(p) - 1 <= Len(p)
  BY EmptySeq, LenProperties DEF Path
<1> QED BY <1>1, PrefixType DEF Butlast

(* An accepted command leaves the device a device.                         *)
LEMMA EffectType ==
  ASSUME NEW f \in Families, NEW d \in Device, NEW c \in CommandType,
         Accepts(f, d, c)
  PROVE  Effect(f, d, c) \in Device
<1> DEFINE parent == SubSeq(d.path, 1, c.depth)
           here   == Append(parent, c.item)
<1>1. d.path \in Path /\ d.running \in Config /\ d.startup \in Config
  BY DEF Device
<1>2. << >> \in Path
  BY DEF Path
<1>3. CASE c.op \in {"enter", "leave"}
  BY <1>1, <1>2, <1>3 DEF Effect, Device
<1>4. CASE c.op = "exit"
  BY <1>1, <1>4, ButlastType DEF Effect, Device
<1>5. CASE c.op \in {"set", "unset"}
  <2>1. parent \in Path
    BY <1>1, <1>5, PrefixType DEF Accepts, CommandType
  <2>2. here \in Path
    BY <2>1, AppendProperties DEF Path, CommandType
  <2>3. CASE c.op = "set"
    <3>1. (IF c.inert THEN d.running ELSE d.running \cup {here}) \in Config
      BY <1>1, <2>2 DEF Config
    <3>2. (IF c.enters THEN here ELSE parent) \in Path
      BY <2>1, <2>2
    <3> QED BY <2>3, <3>1, <3>2 DEF Effect, Device
  <2>4. CASE c.op = "unset"
    <3>1. {p \in d.running : ~IsPrefix(here, p)} \in Config
      BY <1>1 DEF Config
    <3> QED BY <2>1, <2>4, <3>1 DEF Effect, Device
  <2> QED BY <1>5, <2>3, <2>4
<1>6. CASE c.op = "save"
  BY <1>1, <1>6 DEF Effect, Device
<1> QED BY <1>3, <1>4, <1>5, <1>6 DEF CommandType

(* Only the save command writes the startup configuration, and it writes   *)
(* the running one.                                                        *)
LEMMA EffectOnStartup ==
  ASSUME NEW f, NEW d \in Device, NEW c \in CommandType
  PROVE  /\ c.op # "save" => Effect(f, d, c).startup = d.startup
         /\ c.op = "save" => Effect(f, d, c) = [d EXCEPT !.startup = d.running]
BY DEF Effect, Device, CommandType

(* What execute() may do to the device, and what its answer looks like.    *)
LEMMA AnswersType ==
  ASSUME NEW f \in Families, NEW d \in Device, NEW c \in CommandType,
         NEW a \in Answers(f, d, c)
  PROVE  /\ a.dev \in Device
         /\ a.fault \in {0, 1}
         /\ a.reply \in {"fine", "marker", "error"}
         /\ \/ a.dev = d \/ a.dev = [d EXCEPT !.obeyed = FALSE]
            \/ Accepts(f, d, c) /\ a.dev = Effect(f, d, c)
<1> DEFINE done == IF Accepts(f, d, c) THEN Effect(f, d, c) ELSE d
           said == IF Accepts(f, d, c) THEN "fine" ELSE "marker"
           deaf == [d EXCEPT !.obeyed = FALSE]
<1>1. done \in Device /\ deaf \in Device
  BY EffectType DEF Device
<1>2. a \in { [dev |-> done, reply |-> said,     fault |-> 0],
             [dev |-> d,    reply |-> "marker", fault |-> 1],
             [dev |-> deaf, reply |-> "fine",   fault |-> 1],
             [dev |-> d,    reply |-> "error",  fault |-> 1],
             [dev |-> done, reply |-> "error",  fault |-> 1] }
  BY DEF Answers
<1>3. said \in {"fine", "marker"}
  OBVIOUS
<1>4. done = d \/ (Accepts(f, d, c) /\ done = Effect(f, d, c))
  OBVIOUS
<1> HIDE DEF done, said, deaf
<1>5. a.dev \in {done, d, deaf} /\ a.fault \in {0, 1}
      /\ a.reply \in {"fine", "marker", "error"}
  BY <1>2, <1>3
<1> QED BY <1>1, <1>4, <1>5 DEF deaf

LEMMA AnswerOnStartup ==
  ASSUME NEW f \in Families, NEW d \in Device, NEW c \in CommandType,
         NEW a \in Answers(f, d, c)
  PROVE  /\ c.op # "save" => a.dev.startup = d.startup
         /\ c.op = "save" => a.dev.startup \in {d.startup, d.running}
<1>1. \/ a.dev = d \/ a.dev = [d EXCEPT !.obeyed = FALSE]
      \/ a.dev = Effect(f, d, c)
  BY AnswersType
<1>2. c.op = "save" => Effect(f, d, c).startup = d.running
  BY EffectOnStartup DEF Device
<1>3. a.dev = [d EXCEPT !.obeyed = FALSE] => a.dev.startup = d.startup
  BY DEF Device
<1>4. a.dev = Effect(f, d, c) /\ c.op # "save" => a.dev.startup = d.startup
  BY EffectOnStartup
<1>5. a.dev = Effect(f, d, c) /\ c.op = "save" => a.dev.startup = d.running
  BY <1>2
<1> QED BY <1>1, <1>3, <1>4, <1>5, Zenon

LEMMA ReadsType ==
  ASSUME NEW f \in Families, NEW d \in Device, NEW h \in Reads(f, d)
  PROVE  /\ h.hash \in Hash
         /\ h.fault \in {0, 1}
         /\ h.hash.kind = "config" => h.hash = HashOf(d.running)
<1>1. d.running \in Config /\ {} \in Config
  BY DEF Device, Config
<1> QED BY <1>1 DEF Reads, Hash, HashOf, NoHash, OfRefusal

-----------------------------------------------------------------------------
(* The type invariant. TypeOK alone is not inductive: that the next line   *)
(* and the next inverse exist rests on where the cursor may be.            *)

CursorOK == /\ cur.next >= 1
            /\ pc = "rollback" => cur.undo <= Len(plan)

TypeInv == TypeOK /\ CursorOK

LedgerEvent == [change : Nat, outcome : Outcomes]

LEMMA LineType ==
  ASSUME TypeInv, Applying
  PROVE  Line \in PlannedLine /\ cur.next \in 1 .. Len(lines)
<1>1. cur.next \in 1 .. Len(lines)
  BY DEF TypeInv, TypeOK, CursorOK, Applying, Cursor
<1> QED BY <1>1, ElementOfSeq DEF TypeInv, TypeOK, Line

LEMMA UndoType ==
  ASSUME TypeInv, Undoing
  PROVE  Undo \in InverseStep /\ cur.undo \in 1 .. Len(plan)
<1>1. cur.undo \in 1 .. Len(plan)
  BY DEF TypeInv, TypeOK, CursorOK, Undoing, Cursor
<1> QED BY <1>1, ElementOfSeq DEF TypeInv, TypeOK, Undo

LEMMA LineCommandType ==
  ASSUME NEW l \in PlannedLine, l.kind # "COMMENT"
  PROVE  LineCommand(l) \in CommandType /\ LineCommand(l).op # "save"
BY DEF LineCommand, Command, CommandType, PlannedLine, LineOf

LEMMA InverseCommandType ==
  ASSUME NEW s \in InverseStep
  PROVE  InverseCommand(s) \in CommandType /\ InverseCommand(s).op # "save"
BY DEF InverseCommand, Command, CommandType, InverseStep

LEMMA ConstantCommandType ==
  /\ ModeExit \in CommandType /\ ModeExit.op # "save"
  /\ Save \in CommandType /\ Save.op = "save"
<1>1. AnyItem \in Items
  BY ItemsAssumption DEF AnyItem
<1> QED BY <1>1 DEF ModeExit, Save, Command, CommandType

(* Closing a change with a record returns that record, up to the causes    *)
(* the ledger adds, and logs at most its outcome.                          *)
LEMMA CloseType ==
  ASSUME TypeOK, NEW r \in Record, NEW n \in {0, 1}, Close(r, n)
  PROVE  /\ pc' = "done" /\ rec' \in Record
         /\ \E c \in SUBSET Causes : rec' = [r EXCEPT !.causes = c]
         /\ faults' \in 0 .. MaxFaults /\ calm' \in BOOLEAN
         /\ ledger' \in Seq(LedgerEvent)
         /\ \/ ledger' = ledger
            \/ ledger' = Append(ledger, [change |-> changes, outcome |-> r.outcome])
<1>1. PICK w \in LedgerWrites :
        /\ Faults(n + w.fault)
        /\ rec' = [r EXCEPT !.causes = @ \cup w.causes]
        /\ ledger' = IF w.logged
                     THEN Append(ledger, [change |-> changes, outcome |-> r.outcome])
                     ELSE ledger
        /\ pc' = "done"
  BY DEF Close
<1>2. w.fault \in {0, 1} /\ w.causes \subseteq Causes
  BY <1>1 DEF LedgerWrites, Causes
<1>3. r.causes \cup w.causes \in SUBSET Causes
  BY <1>2 DEF Record
<1>4. rec' = [r EXCEPT !.causes = r.causes \cup w.causes]
  BY <1>1
<1>5. rec' \in Record
  BY <1>3, <1>4 DEF Record
<1>6. faults' \in 0 .. MaxFaults /\ calm' \in BOOLEAN
  BY <1>1, <1>2, BoundsAssumption, SMTT(60) DEF TypeOK, Faults
<1>7. [change |-> changes, outcome |-> r.outcome] \in LedgerEvent
  BY BoundsAssumption DEF TypeOK, LedgerEvent, Record
<1>8. ledger' \in Seq(LedgerEvent)
  BY <1>1, <1>7, AppendProperties DEF TypeOK, LedgerEvent
<1> QED BY <1>1, <1>3, <1>4, <1>5, <1>6, <1>8

LEMMA ContinueType ==
  ASSUME TypeOK, NEW n \in {0, 1}, NEW ph \in Phases, Continue(ph, n)
  PROVE  /\ pc' = ph /\ ledger' = ledger
         /\ faults' \in 0 .. MaxFaults /\ calm' \in BOOLEAN
BY BoundsAssumption DEF TypeOK, Continue, Faults

(* A rollback starts, with the cursor on the last inverse, or there is     *)
(* nothing to undo and the change is closed.                               *)
LEMMA StartRollbackType ==
  ASSUME TypeInv, NEW r \in Record, NEW depth \in Nat, NEW n \in {0, 1},
         StartRollback(r, depth, n)
  PROVE  /\ pc' \in Phases /\ rec' \in Record /\ cur' \in Cursor
         /\ cur'.next = cur.next
         /\ pc' = "rollback" => cur'.undo = Len(plan)
         /\ faults' \in 0 .. MaxFaults /\ calm' \in BOOLEAN
         /\ ledger' \in Seq(LedgerEvent)
<1>1. CASE Applied = {}
  <2> DEFINE r2 == [r EXCEPT !.outcome = "ROLLED_BACK", !.undone = r.before]
  <2>1. r2 \in Record
    BY DEF Record, Outcomes
  <2>2. Close(r2, n) /\ cur' = cur
    BY <1>1 DEF StartRollback
  <2> HIDE DEF r2
  <2>3. pc' = "done" /\ rec' \in Record /\ ledger' \in Seq(LedgerEvent)
        /\ faults' \in 0 .. MaxFaults /\ calm' \in BOOLEAN
    BY <2>1, <2>2, CloseType DEF TypeInv
  <2> QED BY <2>2, <2>3 DEF TypeInv, TypeOK, Phases
<1>2. CASE Applied # {}
  <2>1. Continue("rollback", n) /\ rec' = r
        /\ cur' = [cur EXCEPT !.depth = depth, !.undo = Len(plan)]
    BY <1>2 DEF StartRollback
  <2>2. Len(plan) \in Nat
    BY LenProperties DEF TypeInv, TypeOK
  <2>3. cur' \in Cursor /\ cur'.next = cur.next /\ cur'.undo = Len(plan)
    BY <2>1, <2>2 DEF TypeInv, TypeOK, Cursor
  <2>4. pc' = "rollback" /\ ledger' = ledger
        /\ faults' \in 0 .. MaxFaults /\ calm' \in BOOLEAN
    BY <2>1, ContinueType DEF TypeInv, Phases
  <2> QED BY <2>1, <2>3, <2>4 DEF TypeInv, TypeOK, Phases, LedgerEvent
<1> QED BY <1>1, <1>2

LEMMA CausedType ==
  ASSUME NEW r \in Record, NEW c \in Causes
  PROVE  Caused(r, c) \in Record
BY DEF Caused, Record

LEMMA TypeInit == Init => TypeInv
<1> SUFFICES ASSUME Init PROVE TypeInv
  OBVIOUS
<1>1. << >> \in Path /\ {} \in Config
  BY DEF Path, Config
<1>2. dev \in Device /\ base \in Config
  BY <1>1, ConfigsAssumption DEF Init, Device
<1>3. req \in Requests
  BY RequestsAssumption DEF Init
<1>4. cur \in Cursor /\ rec \in Record
  BY <1>1 DEF Init, Cursor, NewCursor, Record, NewRecord, Hash, NoHash, Outcomes
<1>5. lines \in Seq(PlannedLine) /\ plan \in Seq(InverseStep)
      /\ ledger \in Seq(LedgerEvent)
  BY EmptySeq DEF Init
<1>6. changes \in 0 .. MaxChanges /\ faults \in 0 .. MaxFaults
  BY BoundsAssumption DEF Init
<1>7. fam \in Families /\ pc \in Phases /\ calm \in BOOLEAN
      /\ cur.next = 1 /\ pc # "rollback"
  BY DEF Init, Phases, NewCursor
<1> QED BY <1>2, <1>3, <1>4, <1>5, <1>6, <1>7
        DEF TypeInv, TypeOK, CursorOK, LedgerEvent

(* What a step that only closes or continues has to show.                  *)
LEMMA TypeQuiet ==
  ASSUME TypeInv, Quiet, pc' \in Phases, rec' \in Record, cur' \in Cursor,
         cur'.next >= 1, pc' = "rollback" => cur'.undo <= Len(plan),
         faults' \in 0 .. MaxFaults, calm' \in BOOLEAN,
         ledger' \in Seq(LedgerEvent)
  PROVE  TypeInv'
BY DEF TypeInv, TypeOK, CursorOK, Quiet, LedgerEvent

(* The same for a step that also sends a command.                          *)
LEMMA TypeSending ==
  ASSUME TypeInv, UNCHANGED <<fam, req, lines, plan, changes, base>>,
         dev' \in Device, pc' \in Phases, rec' \in Record, cur' \in Cursor,
         cur'.next >= 1, pc' = "rollback" => cur'.undo <= Len(plan),
         faults' \in 0 .. MaxFaults, calm' \in BOOLEAN,
         ledger' \in Seq(LedgerEvent)
  PROVE  TypeInv'
BY DEF TypeInv, TypeOK, CursorOK, LedgerEvent

LEMMA TypeCall ==
  ASSUME TypeInv, NEW r \in Requests, Call(r)
  PROVE  TypeInv'
<1>1. << >> \in Path /\ {} \in Config
  BY DEF Path, Config
<1>2. dev' \in Device /\ base' \in Config
  BY <1>1 DEF Call, TypeInv, TypeOK, Device
<1>3. /\ lines' \in Seq(PlannedLine) /\ plan' \in Seq(InverseStep)
      /\ pc' \in Phases /\ pc' # "rollback"
  <2>1. CASE Plans[r][fam].ok
    <3>1. /\ Plans[r][fam].lines \in Seq(PlannedLine)
          /\ Undos[r][fam] \in Seq(InverseStep)
      BY PlansAre DEF TypeInv, TypeOK, PlanFits
    <3> QED BY <2>1, <3>1 DEF Call, Phases
  <2>2. CASE ~Plans[r][fam].ok
    <3>1. lines' = << >> /\ plan' = << >> /\ pc' = "refused"
      BY <2>2 DEF Call
    <3> QED BY <3>1, EmptySeq DEF Phases
  <2> QED BY <2>1, <2>2
<1>4. cur' \in Cursor /\ cur'.next = 1 /\ rec' \in Record
  BY <1>1 DEF Call, Cursor, NewCursor, Record, NewRecord, Hash, NoHash, Outcomes
<1>5. changes' \in 0 .. MaxChanges
  <2>1. changes \in 0 .. MaxChanges /\ changes < MaxChanges
        /\ changes' = changes + 1
    BY DEF Call, TypeInv, TypeOK
  <2> QED BY <2>1, BoundsAssumption
<1>6. calm' \in BOOLEAN
  BY DEF Call, AtExec
<1>7. /\ fam' \in Families /\ req' \in Requests
      /\ faults' \in 0 .. MaxFaults /\ ledger' \in Seq(LedgerEvent)
  BY DEF Call, TypeInv, TypeOK, LedgerEvent
<1> QED BY <1>2, <1>3, <1>4, <1>5, <1>6, <1>7
        DEF TypeInv, TypeOK, CursorOK, LedgerEvent

LEMMA TypeRejectPlan == ASSUME TypeInv, RejectPlan PROVE TypeInv'
<1> DEFINE r == [Caused(rec, "NOT_ALLOWLISTED") EXCEPT !.outcome = "REJECTED"]
<1>1. r \in Record
  BY DEF TypeInv, TypeOK, Caused, Record, Causes, Outcomes
<1>2. Close(r, 0) /\ Quiet /\ cur' = cur
  BY DEF RejectPlan
<1> HIDE DEF r
<1>3. pc' = "done" /\ rec' \in Record /\ ledger' \in Seq(LedgerEvent)
      /\ faults' \in 0 .. MaxFaults /\ calm' \in BOOLEAN
  BY <1>1, <1>2, CloseType DEF TypeInv
<1> QED BY <1>2, <1>3, TypeQuiet DEF TypeInv, TypeOK, CursorOK, Phases

LEMMA TypeGateChange == ASSUME TypeInv, GateChange PROVE TypeInv'
<1> DEFINE r == [Caused(rec, "HIGH_RISK_NOT_AUTHORIZED")
                 EXCEPT !.outcome = "REJECTED"]
           s == [Caused(rec, "DRY_RUN_ONLY") EXCEPT !.outcome = "DRY_RUN"]
<1>1. r \in Record /\ s \in Record
  BY DEF TypeInv, TypeOK, Caused, Record, Causes, Outcomes
<1>2. /\ Close(r, 0) \/ Close(s, 0) \/ (Continue("baseline", 0) /\ rec' = rec)
      /\ Quiet /\ cur' = cur
  BY DEF GateChange
<1> HIDE DEF r, s
<1>3. /\ pc' \in Phases /\ pc' # "rollback" /\ rec' \in Record
      /\ ledger' \in Seq(LedgerEvent)
      /\ faults' \in 0 .. MaxFaults /\ calm' \in BOOLEAN
  BY <1>1, <1>2, CloseType, ContinueType
     DEF TypeInv, TypeOK, Phases, LedgerEvent
<1> QED BY <1>2, <1>3, TypeQuiet DEF TypeInv, TypeOK, CursorOK

LEMMA TypeReadBaseline == ASSUME TypeInv, ReadBaseline PROVE TypeInv'
<1>1. PICK h \in Reads(fam, dev) : /\ Continue("apply", h.fault)
                                   /\ rec' = [rec EXCEPT !.before = h.hash]
  BY DEF ReadBaseline
<1>2. h.hash \in Hash /\ h.fault \in {0, 1}
  BY ReadsType DEF TypeInv, TypeOK
<1>3. rec' \in Record
  BY <1>1, <1>2 DEF TypeInv, TypeOK, Record
<1>4. pc' = "apply" /\ ledger' = ledger
      /\ faults' \in 0 .. MaxFaults /\ calm' \in BOOLEAN
  BY <1>1, <1>2, ContinueType DEF TypeInv, Phases
<1> QED BY <1>3, <1>4, TypeQuiet
        DEF ReadBaseline, TypeInv, TypeOK, CursorOK, Phases, LedgerEvent

(* The cursor moves to the next line.                                      *)
LEMMA AdvanceType ==
  ASSUME NEW c \in Cursor, c.next >= 1, NEW depth \in Nat
  PROVE  /\ [c EXCEPT !.next = @ + 1, !.depth = depth] \in Cursor
         /\ [c EXCEPT !.next = @ + 1, !.depth = depth].next >= 1
<1>1. c.next \in Nat /\ c.next + 1 \in Nat /\ c.next + 1 >= 1
  BY DEF Cursor
<1> QED BY <1>1 DEF Cursor

LEMMA TypeSkipComment == ASSUME TypeInv, SkipComment PROVE TypeInv'
<1>1. pc' = "apply" /\ cur' = [cur EXCEPT !.next = @ + 1, !.depth = cur.depth]
  BY DEF SkipComment, Applying, Advance
<1>2. cur \in Cursor /\ cur.next >= 1
  BY DEF TypeInv, TypeOK, CursorOK
<1>3. cur' \in Cursor /\ cur'.next >= 1
  BY <1>1, <1>2, AdvanceType DEF Cursor
<1> QED BY <1>1, <1>3, TypeQuiet
        DEF SkipComment, TypeInv, TypeOK, LedgerEvent, Phases

LEMMA TypeSendMode == ASSUME TypeInv, SendMode PROVE TypeInv'
<1>1. PICK a \in Answers(fam, dev, LineCommand(Line)) :
        /\ dev' = a.dev
        /\ \/ /\ a.reply # "error"
              /\ Continue("apply", a.fault) /\ UNCHANGED rec
              /\ Advance(IF Line.op = "exit" THEN Line.depth ELSE cur.depth)
           \/ /\ a.reply = "error"
              /\ StartRollback(Caused(rec, "COMMAND_FAILED"), cur.depth, a.fault)
  BY DEF SendMode
<1>2. Line \in PlannedLine /\ Line.kind # "COMMENT" /\ Line.depth \in Nat
  BY LineType DEF SendMode, PlannedLine, LineOf
<1>3. a.dev \in Device /\ a.fault \in {0, 1}
  BY <1>2, LineCommandType, AnswersType DEF TypeInv, TypeOK
<1>4. cur \in Cursor /\ cur.next >= 1 /\ cur.depth \in Nat /\ rec \in Record
  BY DEF TypeInv, TypeOK, CursorOK, Cursor
<1>5. UNCHANGED <<fam, req, lines, plan, changes, base>>
  BY DEF SendMode
<1>6. CASE a.reply # "error"
  <2> DEFINE depth == IF Line.op = "exit" THEN Line.depth ELSE cur.depth
  <2>1. Continue("apply", a.fault) /\ UNCHANGED rec /\ Advance(depth)
    BY <1>1, <1>6
  <2>2. depth \in Nat
    BY <1>2, <1>4
  <2> HIDE DEF depth
  <2>3. cur' \in Cursor /\ cur'.next >= 1
    BY <1>4, <2>1, <2>2, AdvanceType DEF Advance
  <2>4. pc' = "apply" /\ ledger' = ledger
        /\ faults' \in 0 .. MaxFaults /\ calm' \in BOOLEAN
    BY <1>3, <2>1, ContinueType DEF TypeInv, Phases
  <2> QED BY <1>1, <1>3, <1>5, <2>1, <2>3, <2>4, TypeSending
          DEF TypeInv, TypeOK, Phases, LedgerEvent
<1>7. CASE a.reply = "error"
  <2> DEFINE r == Caused(rec, "COMMAND_FAILED")
  <2>1. r \in Record
    BY <1>4, CausedType DEF Causes
  <2>2. StartRollback(r, cur.depth, a.fault)
    BY <1>1, <1>7
  <2> HIDE DEF r
  <2>3. /\ pc' \in Phases /\ rec' \in Record /\ cur' \in Cursor
        /\ cur'.next >= 1 /\ (pc' = "rollback" => cur'.undo <= Len(plan))
        /\ faults' \in 0 .. MaxFaults /\ calm' \in BOOLEAN
        /\ ledger' \in Seq(LedgerEvent)
    BY <1>3, <1>4, <2>1, <2>2, StartRollbackType, LenProperties DEF TypeInv, TypeOK
  <2> QED BY <1>1, <1>3, <1>5, <2>3, TypeSending
<1> QED BY <1>1, <1>6, <1>7

LEMMA TypeSendLine == ASSUME TypeInv, SendLine PROVE TypeInv'
<1> DEFINE depth == Line.depth + (IF Line.enters THEN 1 ELSE 0)
<1>1. PICK a \in Answers(fam, dev, LineCommand(Line)) :
        /\ dev' = a.dev
        /\ \/ /\ a.reply # "error"
              /\ Continue("apply", a.fault) /\ UNCHANGED rec
              /\ cur' = [cur EXCEPT !.next = @ + 1, !.depth = depth,
                           !.marked = @ \/ a.reply = "marker"]
           \/ /\ a.reply = "error"
              /\ StartRollback(Caused(rec, "COMMAND_FAILED"), cur.depth, a.fault)
  BY DEF SendLine
<1>2. Line \in PlannedLine /\ Line.kind # "COMMENT" /\ Line.depth \in Nat
  BY LineType DEF SendLine, PlannedLine, LineOf
<1>3. a.dev \in Device /\ a.fault \in {0, 1}
  BY <1>2, LineCommandType, AnswersType DEF TypeInv, TypeOK
<1>4. cur \in Cursor /\ cur.next >= 1 /\ cur.depth \in Nat /\ rec \in Record
  BY DEF TypeInv, TypeOK, CursorOK, Cursor
<1>5. UNCHANGED <<fam, req, lines, plan, changes, base>>
  BY DEF SendLine
<1>6. depth \in Nat
  BY <1>2
<1> HIDE DEF depth
<1>7. CASE a.reply # "error"
  <2>1. /\ Continue("apply", a.fault) /\ UNCHANGED rec
        /\ cur' = [cur EXCEPT !.next = @ + 1, !.depth = depth,
                     !.marked = @ \/ a.reply = "marker"]
    BY <1>1, <1>7
  <2>2. [cur EXCEPT !.next = @ + 1, !.depth = depth] \in Cursor
    BY <1>4, <1>6, AdvanceType
  <2>3. cur.next \in Nat /\ cur.next + 1 \in Nat /\ cur.next + 1 >= 1
    BY <1>4 DEF Cursor
  <2>4. cur' \in Cursor /\ cur'.next >= 1
    BY <1>4, <1>6, <2>1, <2>3 DEF Cursor
  <2>5. pc' = "apply" /\ ledger' = ledger
        /\ faults' \in 0 .. MaxFaults /\ calm' \in BOOLEAN
    BY <1>3, <2>1, ContinueType DEF TypeInv, Phases
  <2> QED BY <1>1, <1>3, <1>5, <2>1, <2>4, <2>5, TypeSending
          DEF TypeInv, TypeOK, Phases, LedgerEvent
<1>8. CASE a.reply = "error"
  <2> DEFINE r == Caused(rec, "COMMAND_FAILED")
  <2>1. r \in Record
    BY <1>4, CausedType DEF Causes
  <2>2. StartRollback(r, cur.depth, a.fault)
    BY <1>1, <1>8
  <2> HIDE DEF r
  <2>3. /\ pc' \in Phases /\ rec' \in Record /\ cur' \in Cursor
        /\ cur'.next >= 1 /\ (pc' = "rollback" => cur'.undo <= Len(plan))
        /\ faults' \in 0 .. MaxFaults /\ calm' \in BOOLEAN
        /\ ledger' \in Seq(LedgerEvent)
    BY <1>3, <1>4, <2>1, <2>2, StartRollbackType, LenProperties DEF TypeInv, TypeOK
  <2> QED BY <1>1, <1>3, <1>5, <2>3, TypeSending
<1> QED BY <1>1, <1>7, <1>8

LEMMA TypeReadAfter == ASSUME TypeInv, ReadAfter PROVE TypeInv'
<1>1. PICK h \in Reads(fam, dev) :
        /\ Continue(IF req.verify THEN "verify" ELSE "persist", h.fault)
        /\ rec' = [rec EXCEPT !.after = h.hash]
  BY DEF ReadAfter
<1>2. h.hash \in Hash /\ h.fault \in {0, 1}
  BY ReadsType DEF TypeInv, TypeOK
<1>3. rec' \in Record
  BY <1>1, <1>2 DEF TypeInv, TypeOK, Record
<1>4. pc' \in {"verify", "persist"} /\ ledger' = ledger
      /\ faults' \in 0 .. MaxFaults /\ calm' \in BOOLEAN
  BY <1>1, <1>2, ContinueType DEF TypeInv, Phases
<1> QED BY <1>3, <1>4, TypeQuiet
        DEF ReadAfter, TypeInv, TypeOK, CursorOK, Phases, LedgerEvent

LEMMA TypeVerifyRefused == ASSUME TypeInv, VerifyRefused PROVE TypeInv'
<1> DEFINE r == Caused(rec, "VERIFY_FAILED")
<1>1. r \in Record
  BY CausedType DEF TypeInv, TypeOK, Causes
<1>2. StartRollback(r, 0, 0) /\ Quiet
  BY DEF VerifyRefused
<1> HIDE DEF r
<1>3. /\ pc' \in Phases /\ rec' \in Record /\ cur' \in Cursor
      /\ cur'.next >= 1 /\ (pc' = "rollback" => cur'.undo <= Len(plan))
      /\ faults' \in 0 .. MaxFaults /\ calm' \in BOOLEAN
      /\ ledger' \in Seq(LedgerEvent)
  BY <1>1, <1>2, StartRollbackType, LenProperties, SMTT(60)
     DEF TypeInv, TypeOK, CursorOK
<1> QED BY <1>2, <1>3, TypeQuiet

LEMMA TypeVerifyState == ASSUME TypeInv, VerifyState PROVE TypeInv'
<1> DEFINE absent(h) == StateAbsent(Applied, Text(h.hash.config))
           r(h) == [rec EXCEPT !.after = h.hash, !.checked = TRUE,
                      !.already = /\ rec.before.kind # "none" /\ absent(h) = {}
                                  /\ h.hash = rec.before]
<1>1. PICK h \in Reads(fam, dev) :
        \/ /\ Continue("persist", h.fault) /\ UNCHANGED rec
           /\ cur' = [cur EXCEPT !.verified = TRUE]
        \/ /\ Continue("persist", h.fault) /\ rec' = r(h)
           /\ cur' = [cur EXCEPT !.verified = TRUE]
        \/ StartRollback(Caused(r(h), "VERIFY_FAILED"), 0, h.fault)
  BY DEF VerifyState
<1>2. h.hash \in Hash /\ h.fault \in {0, 1}
  BY ReadsType DEF TypeInv, TypeOK
<1>3. r(h) \in Record
  BY <1>2 DEF TypeInv, TypeOK, Record
<1> HIDE DEF r
<1>4. Quiet
  BY DEF VerifyState
<1>5. CASE /\ Continue("persist", h.fault) /\ (UNCHANGED rec \/ rec' = r(h))
           /\ cur' = [cur EXCEPT !.verified = TRUE]
  <2>1. cur' \in Cursor /\ cur'.next = cur.next /\ rec' \in Record
    BY <1>3, <1>5 DEF TypeInv, TypeOK, Cursor
  <2>2. pc' = "persist" /\ ledger' = ledger
        /\ faults' \in 0 .. MaxFaults /\ calm' \in BOOLEAN
    BY <1>2, <1>5, ContinueType DEF TypeInv, Phases
  <2> QED BY <1>4, <2>1, <2>2, TypeQuiet
          DEF TypeInv, TypeOK, CursorOK, Phases, LedgerEvent
<1>6. CASE StartRollback(Caused(r(h), "VERIFY_FAILED"), 0, h.fault)
  <2>1. Caused(r(h), "VERIFY_FAILED") \in Record
    BY <1>3, CausedType DEF Causes
  <2>2. /\ pc' \in Phases /\ rec' \in Record /\ cur' \in Cursor
        /\ cur'.next >= 1 /\ (pc' = "rollback" => cur'.undo <= Len(plan))
        /\ faults' \in 0 .. MaxFaults /\ calm' \in BOOLEAN
        /\ ledger' \in Seq(LedgerEvent)
    BY <1>2, <1>6, <2>1, StartRollbackType, LenProperties
       DEF TypeInv, TypeOK, CursorOK
  <2> QED BY <1>4, <2>2, TypeQuiet
<1> QED BY <1>1, <1>5, <1>6

LEMMA UnsavedType ==
  ASSUME TypeInv, NEW n \in {0, 1}, CloseUnsaved(n)
  PROVE  /\ pc' = "done" /\ rec' \in Record /\ ledger' \in Seq(LedgerEvent)
         /\ faults' \in 0 .. MaxFaults /\ calm' \in BOOLEAN
         /\ rec'.outcome = "PERSIST_FAILED"
<1> DEFINE r == [Caused(rec, "PERSIST_FAILED") EXCEPT !.outcome = "PERSIST_FAILED"]
<1>1. r \in Record /\ r.outcome = "PERSIST_FAILED"
  BY DEF TypeInv, TypeOK, Caused, Record, Causes, Outcomes
<1>2. Close(r, n)
  BY DEF CloseUnsaved
<1> HIDE DEF r
<1>3. rec'.outcome = r.outcome
  <2>1. PICK c \in SUBSET Causes : rec' = [r EXCEPT !.causes = c]
    BY <1>1, <1>2, CloseType DEF TypeInv
  <2> QED BY <1>1, <2>1 DEF Record
<1> QED BY <1>1, <1>2, <1>3, CloseType DEF TypeInv

LEMMA AppliedType ==
  ASSUME TypeInv, NEW n \in {0, 1}, Close([rec EXCEPT !.outcome = "APPLIED"], n)
  PROVE  /\ pc' = "done" /\ rec' \in Record /\ ledger' \in Seq(LedgerEvent)
         /\ faults' \in 0 .. MaxFaults /\ calm' \in BOOLEAN
         /\ rec'.outcome = "APPLIED"
<1> DEFINE r == [rec EXCEPT !.outcome = "APPLIED"]
<1>1. r \in Record /\ r.outcome = "APPLIED"
  BY DEF TypeInv, TypeOK, Record, Outcomes
<1>2. Close(r, n)
  OBVIOUS
<1> HIDE DEF r
<1>3. rec'.outcome = r.outcome
  <2>1. PICK c \in SUBSET Causes : rec' = [r EXCEPT !.causes = c]
    BY <1>1, <1>2, CloseType DEF TypeInv
  <2> QED BY <1>1, <2>1 DEF Record
<1> QED BY <1>1, <1>2, <1>3, CloseType DEF TypeInv

LEMMA TypeFinishWithoutSave == ASSUME TypeInv, FinishWithoutSave PROVE TypeInv'
<1>1. /\ Close([rec EXCEPT !.outcome = "APPLIED"], 0) \/ CloseUnsaved(0)
      /\ Quiet /\ cur' = cur
  BY DEF FinishWithoutSave
<1>2. pc' = "done" /\ rec' \in Record /\ ledger' \in Seq(LedgerEvent)
      /\ faults' \in 0 .. MaxFaults /\ calm' \in BOOLEAN
  BY <1>1, AppliedType, UnsavedType
<1> QED BY <1>1, <1>2, TypeQuiet DEF TypeInv, TypeOK, CursorOK, Phases

LEMMA TypeSaveChange == ASSUME TypeInv, SaveChange PROVE TypeInv'
<1>1. PICK a \in Answers(fam, dev, Save) :
        /\ dev' = a.dev
        /\ \/ CloseUnsaved(a.fault)
           \/ Close([rec EXCEPT !.outcome = "APPLIED"], a.fault)
  BY DEF SaveChange
<1>2. a.dev \in Device /\ a.fault \in {0, 1}
  BY ConstantCommandType, AnswersType DEF TypeInv, TypeOK
<1>3. pc' = "done" /\ rec' \in Record /\ ledger' \in Seq(LedgerEvent)
      /\ faults' \in 0 .. MaxFaults /\ calm' \in BOOLEAN
  BY <1>1, <1>2, AppliedType, UnsavedType
<1>4. UNCHANGED <<fam, req, lines, plan, cur, changes, base>>
  BY DEF SaveChange
<1> QED BY <1>1, <1>2, <1>3, <1>4, TypeSending DEF TypeInv, TypeOK, CursorOK, Phases

LEMMA TypeRecordManual == ASSUME TypeInv, RecordManual PROVE TypeInv'
<1>1. cur.undo - 1 \in Nat /\ cur.undo - 1 <= Len(plan) /\ cur.undo \in Nat
  BY UndoType, LenProperties DEF RecordManual, TypeInv, TypeOK
<1>2. cur' \in Cursor /\ cur'.next = cur.next /\ cur'.undo = cur.undo - 1
  BY <1>1 DEF RecordManual, TypeInv, TypeOK, Cursor
<1>3. rec' \in Record
  BY CausedType DEF RecordManual, TypeInv, TypeOK, Causes
<1> QED BY <1>1, <1>2, <1>3, TypeQuiet
        DEF RecordManual, TypeInv, TypeOK, CursorOK, LedgerEvent

(* Faults within the budget.                                               *)
LEMMA FaultsType ==
  ASSUME TypeOK, NEW n \in {0, 1}, Faults(n)
  PROVE  faults' \in 0 .. MaxFaults /\ calm' \in BOOLEAN
BY BoundsAssumption DEF TypeOK, Faults

LEMMA TypeUnwind == ASSUME TypeInv, Unwind PROVE TypeInv'
<1>1. PICK a \in Answers(fam, dev, ModeExit) :
        /\ dev' = a.dev /\ Faults(a.fault)
        /\ cur' = [cur EXCEPT !.depth = @ - 1,
                     !.failed = @ \/ a.reply = "error",
                     !.broken = a.reply = "error"]
  BY DEF Unwind
<1>2. a.dev \in Device /\ a.fault \in {0, 1}
  BY ConstantCommandType, AnswersType DEF TypeInv, TypeOK
<1>3. cur.depth - 1 \in Nat
  <2>1. Undo.depth \in Nat /\ cur.depth \in Nat /\ cur.depth > Undo.depth
    BY UndoType DEF Unwind, MustUnwind, InverseStep, TypeInv, TypeOK, Cursor
  <2> QED BY <2>1
<1>4. cur' \in Cursor /\ cur'.next = cur.next /\ cur'.undo = cur.undo
  BY <1>1, <1>3 DEF TypeInv, TypeOK, Cursor
<1>5. faults' \in 0 .. MaxFaults /\ calm' \in BOOLEAN
  BY <1>1, <1>2, FaultsType DEF TypeInv
<1> QED BY <1>1, <1>2, <1>4, <1>5, TypeSending
        DEF Unwind, TypeInv, TypeOK, CursorOK, LedgerEvent

LEMMA TypeSendInverse == ASSUME TypeInv, SendInverse PROVE TypeInv'
<1>1. PICK a \in Answers(fam, dev, InverseCommand(Undo)) :
        /\ dev' = a.dev /\ Faults(a.fault)
        /\ cur' = [cur EXCEPT !.undo = @ - 1, !.broken = FALSE,
                     !.failed = @ \/ a.reply = "error"]
  BY DEF SendInverse
<1>2. Undo \in InverseStep /\ cur.undo \in 1 .. Len(plan)
  BY UndoType DEF SendInverse
<1>3. a.dev \in Device /\ a.fault \in {0, 1}
  BY <1>2, InverseCommandType, AnswersType DEF TypeInv, TypeOK
<1>4. cur.undo - 1 \in Nat /\ cur.undo - 1 <= Len(plan)
  BY <1>2, LenProperties DEF TypeInv, TypeOK
<1>5. cur' \in Cursor /\ cur'.next = cur.next /\ cur'.undo = cur.undo - 1
  BY <1>1, <1>4 DEF TypeInv, TypeOK, Cursor
<1>6. faults' \in 0 .. MaxFaults /\ calm' \in BOOLEAN
  BY <1>1, <1>3, FaultsType DEF TypeInv
<1> QED BY <1>1, <1>3, <1>4, <1>5, <1>6, TypeSending
        DEF SendInverse, TypeInv, TypeOK, CursorOK, LedgerEvent

LEMMA TypeLeaveModes == ASSUME TypeInv, LeaveModes PROVE TypeInv'
<1>1. PICK a \in Answers(fam, dev, ModeExit) :
        /\ dev' = a.dev /\ Faults(a.fault)
        /\ cur' = [cur EXCEPT !.depth = @ - 1]
  BY DEF LeaveModes
<1>2. a.dev \in Device /\ a.fault \in {0, 1}
  BY ConstantCommandType, AnswersType DEF TypeInv, TypeOK
<1>3. cur.depth - 1 \in Nat
  <2>1. cur.depth \in Nat /\ cur.depth > 0
    BY DEF LeaveModes, TypeInv, TypeOK, Cursor
  <2> QED BY <2>1
<1>4. cur' \in Cursor /\ cur'.next = cur.next /\ cur'.undo = cur.undo
  BY <1>1, <1>3 DEF TypeInv, TypeOK, Cursor
<1>5. faults' \in 0 .. MaxFaults /\ calm' \in BOOLEAN
  BY <1>1, <1>2, FaultsType DEF TypeInv
<1> QED BY <1>1, <1>2, <1>4, <1>5, TypeSending
        DEF LeaveModes, TypeInv, TypeOK, CursorOK, LedgerEvent

(* What ConfirmRollback closes the change with.                            *)
LEMMA ConfirmType ==
  ASSUME TypeInv, ConfirmRollback
  PROVE  \E h \in Reads(fam, dev) : \E c \in SUBSET Causes :
           LET o == RollbackOutcome(cur.manual, cur.failed, rec.before, h.hash)
               r == [rec EXCEPT !.undone = h.hash, !.outcome = o, !.causes = c]
           IN  Close(r, h.fault) /\ r \in Record
               /\ o \in {"ROLLED_BACK", "ROLLBACK_FAILED"}
<1> DEFINE o(h) == RollbackOutcome(cur.manual, cur.failed, rec.before, h.hash)
           more(h) == CASE cur.failed -> {"ROLLBACK_COMMAND_FAILED"}
                        [] ~cur.failed /\ cur.manual -> {}
                        [] OTHER -> IF RollbackOutcome(FALSE, FALSE, rec.before,
                                                       h.hash) = "ROLLED_BACK"
                                    THEN {} ELSE {"ROLLBACK_STATE_MISMATCH"}
           c(h) == rec.causes \cup more(h)
<1>1. PICK h \in Reads(fam, dev) :
        Close([rec EXCEPT !.undone = h.hash, !.outcome = o(h),
                          !.causes = c(h)], h.fault)
  BY DEF ConfirmRollback
<1>2. c(h) \in SUBSET Causes
  <2>1. more(h) \subseteq Causes
    BY DEF TypeInv, TypeOK, Cursor, Causes
  <2> QED BY <2>1 DEF TypeInv, TypeOK, Record
<1>3. o(h) \in {"ROLLED_BACK", "ROLLBACK_FAILED"}
  BY DEF RollbackOutcome
<1>4. h.hash \in Hash
  BY ReadsType DEF TypeInv, TypeOK
<1> HIDE DEF o, c
<1>5. [rec EXCEPT !.undone = h.hash, !.outcome = o(h), !.causes = c(h)] \in Record
  BY <1>2, <1>3, <1>4 DEF TypeInv, TypeOK, Record, Outcomes
<1>6. o(h) = RollbackOutcome(cur.manual, cur.failed, rec.before, h.hash)
  BY DEF o
<1> QED BY <1>1, <1>2, <1>3, <1>5, <1>6

LEMMA TypeConfirmRollback == ASSUME TypeInv, ConfirmRollback PROVE TypeInv'
<1>1. PICK h \in Reads(fam, dev), r \in Record : Close(r, h.fault)
  BY ConfirmType
<1>2. h.fault \in {0, 1}
  BY ReadsType DEF TypeInv, TypeOK
<1>3. pc' = "done" /\ rec' \in Record /\ ledger' \in Seq(LedgerEvent)
      /\ faults' \in 0 .. MaxFaults /\ calm' \in BOOLEAN
  BY <1>1, <1>2, CloseType DEF TypeInv
<1> QED BY <1>3, TypeQuiet
        DEF ConfirmRollback, TypeInv, TypeOK, CursorOK, Phases

LEMMA TypeReload == ASSUME TypeInv, Reload PROVE TypeInv'
<1>1. << >> \in Path
  BY DEF Path
<1>2. dev' \in Device
  BY <1>1 DEF Reload, TypeInv, TypeOK, Device
<1>3. faults' \in 0 .. MaxFaults /\ calm' \in BOOLEAN
  BY FaultsType DEF Reload, TypeInv
<1> QED BY <1>2, <1>3, TypeSending
        DEF Reload, TypeInv, TypeOK, CursorOK, LedgerEvent

LEMMA TypeStep == TypeInv /\ [Next]_vars => TypeInv'
<1> SUFFICES ASSUME TypeInv, [Next]_vars PROVE TypeInv'
  OBVIOUS
<1>1. CASE \E r \in Requests : Call(r)
  BY <1>1, TypeCall
<1>2. CASE Step
  BY <1>2, TypeRejectPlan, TypeGateChange, TypeReadBaseline, TypeSkipComment,
     TypeSendMode, TypeSendLine, TypeReadAfter, TypeVerifyRefused,
     TypeVerifyState, TypeFinishWithoutSave, TypeSaveChange, TypeRecordManual,
     TypeUnwind, TypeSendInverse, TypeLeaveModes, TypeConfirmRollback DEF Step
<1>3. CASE Reload
  BY <1>3, TypeReload
<1>4. CASE UNCHANGED vars
  BY <1>4 DEF vars, TypeInv, TypeOK, CursorOK
<1> QED BY <1>1, <1>2, <1>3, <1>4 DEF Next, Finished

(* Every variable of the executor keeps its type: the mode depth never     *)
(* goes below zero, every line and every inverse that is typed exists, and *)
(* the record and the ledger only hold outcomes the code declares.         *)
THEOREM TypeCorrect == Spec => []TypeOK
<1>1. Spec => []TypeInv
  BY TypeInit, TypeStep, PTL DEF Spec
<1>2. TypeInv => TypeOK
  BY DEF TypeInv
<1> QED BY <1>1, <1>2, PTL

-----------------------------------------------------------------------------
(* How a step may end the change, and what it may do to the startup        *)
(* configuration.                                                          *)

LEMMA CloseKeeps ==
  ASSUME TypeOK, NEW r \in Record, NEW n \in {0, 1}, Close(r, n)
  PROVE  /\ rec'.outcome = r.outcome /\ rec'.before = r.before
         /\ rec'.after = r.after /\ rec'.undone = r.undone
         /\ rec'.checked = r.checked /\ rec'.already = r.already
<1>1. PICK c \in SUBSET Causes : rec' = [r EXCEPT !.causes = c]
  BY CloseType
<1> QED BY <1>1 DEF Record

(* _rollback with nothing to undo closes the change as ROLLED_BACK.        *)
LEMMA StartRollbackEnds ==
  ASSUME TypeInv, NEW r \in Record, NEW depth \in Nat, NEW n \in {0, 1},
         StartRollback(r, depth, n), lines' = lines
  PROVE  \/ pc' = "done" /\ rec'.outcome = "ROLLED_BACK" /\ Applied' = {}
         \/ pc' = "rollback" /\ rec' = r
<1>1. CASE Applied = {}
  <2> DEFINE r2 == [r EXCEPT !.outcome = "ROLLED_BACK", !.undone = r.before]
  <2>1. r2 \in Record /\ r2.outcome = "ROLLED_BACK"
    BY DEF Record, Outcomes
  <2>2. Close(r2, n) /\ cur' = cur
    BY <1>1 DEF StartRollback
  <2>3. Applied' = Applied
    BY <2>2 DEF Applied
  <2> HIDE DEF r2
  <2>4. pc' = "done" /\ rec'.outcome = "ROLLED_BACK"
    BY <2>1, <2>2, CloseType, CloseKeeps DEF TypeInv
  <2> QED BY <1>1, <2>3, <2>4
<1>2. CASE Applied # {}
  BY <1>2 DEF StartRollback, Continue
<1> QED BY <1>1, <1>2

LEMMA QuietKeeps ==
  ASSUME Quiet PROVE dev' = dev /\ lines' = lines /\ req' = req
BY DEF Quiet

LEMMA RejectPlanEnds ==
  ASSUME TypeInv, RejectPlan
  PROVE  pc = "refused" /\ pc' = "done" /\ rec'.outcome = "REJECTED"
<1> DEFINE r == [Caused(rec, "NOT_ALLOWLISTED") EXCEPT !.outcome = "REJECTED"]
<1>1. r \in Record /\ r.outcome = "REJECTED"
  BY DEF TypeInv, TypeOK, Caused, Record, Causes, Outcomes
<1>2. Close(r, 0) /\ pc = "refused"
  BY DEF RejectPlan
<1> HIDE DEF r
<1> QED BY <1>1, <1>2, CloseType, CloseKeeps DEF TypeInv

LEMMA GateChangeEnds ==
  ASSUME TypeInv, GateChange
  PROVE  /\ pc = "gate"
         /\ \/ pc' = "done" /\ rec'.outcome \in {"REJECTED", "DRY_RUN"}
            \/ pc' = "baseline" /\ rec' = rec
<1> DEFINE r == [Caused(rec, "HIGH_RISK_NOT_AUTHORIZED")
                 EXCEPT !.outcome = "REJECTED"]
           s == [Caused(rec, "DRY_RUN_ONLY") EXCEPT !.outcome = "DRY_RUN"]
<1>1. /\ r \in Record /\ r.outcome = "REJECTED"
      /\ s \in Record /\ s.outcome = "DRY_RUN"
  BY DEF TypeInv, TypeOK, Caused, Record, Causes, Outcomes
<1>2. /\ Close(r, 0) \/ Close(s, 0) \/ (Continue("baseline", 0) /\ rec' = rec)
      /\ pc = "gate"
  BY DEF GateChange
<1> HIDE DEF r, s
<1> QED BY <1>1, <1>2, CloseType, CloseKeeps DEF TypeInv, Continue

(* A command of the plan, sent or failed.                                  *)
LEMMA SendEnds ==
  ASSUME TypeInv, SendMode \/ SendLine
  PROVE  /\ pc = "apply" /\ dev'.startup = dev.startup /\ lines' = lines
         /\ req' = req
         /\ \/ pc' = "apply" /\ rec' = rec
            \/ pc' = "done" /\ rec'.outcome = "ROLLED_BACK" /\ Applied' = {}
            \/ pc' = "rollback" /\ rec' = Caused(rec, "COMMAND_FAILED")
<1>1. PICK a \in Answers(fam, dev, LineCommand(Line)) :
        /\ dev' = a.dev
        /\ \/ Continue("apply", a.fault) /\ UNCHANGED rec
           \/ StartRollback(Caused(rec, "COMMAND_FAILED"), cur.depth, a.fault)
  BY DEF SendMode, SendLine
<1>2. /\ pc = "apply" /\ Applying /\ Line.kind # "COMMENT"
      /\ lines' = lines /\ req' = req
  BY DEF SendMode, SendLine, Applying
<1>3. Line \in PlannedLine
  BY <1>2, LineType
<1>4. LineCommand(Line) \in CommandType /\ LineCommand(Line).op # "save"
      /\ fam \in Families /\ dev \in Device
  BY <1>2, <1>3, LineCommandType DEF TypeInv, TypeOK
<1>5. a.fault \in {0, 1} /\ dev'.startup = dev.startup
  BY <1>1, <1>4, AnswersType, AnswerOnStartup
<1>6. Caused(rec, "COMMAND_FAILED") \in Record /\ cur.depth \in Nat
  BY CausedType DEF TypeInv, TypeOK, Causes, Cursor
<1> QED BY <1>1, <1>2, <1>5, <1>6, StartRollbackEnds DEF Continue

LEMMA VerifyRefusedEnds ==
  ASSUME TypeInv, VerifyRefused
  PROVE  /\ pc = "verify"
         /\ \/ pc' = "done" /\ rec'.outcome = "ROLLED_BACK" /\ Applied' = {}
            \/ pc' = "rollback"
<1> DEFINE r == Caused(rec, "VERIFY_FAILED")
<1>1. r \in Record
  BY CausedType DEF TypeInv, TypeOK, Causes
<1>2. StartRollback(r, 0, 0) /\ Quiet /\ pc = "verify"
  BY DEF VerifyRefused
<1> HIDE DEF r
<1> QED BY <1>1, <1>2, QuietKeeps, StartRollbackEnds

(* The readback: kept as it is, verified, or rolled back.                  *)
LEMMA VerifyStateEnds ==
  ASSUME TypeInv, VerifyState
  PROVE  /\ pc = "verify"
         /\ \/ pc' = "done" /\ rec'.outcome = "ROLLED_BACK" /\ Applied' = {}
            \/ pc' = "rollback"
            \/ /\ pc' = "persist" /\ cur'.verified /\ Applied' = Applied
               /\ \/ rec' = rec
                  \/ /\ rec'.after.kind = "config"
                        => rec'.after.config = dev.running
                     /\ StateAbsent(Applied, Text(rec'.after.config)) = {}
<1> DEFINE absent(h) == StateAbsent(Applied, Text(h.hash.config))
           r(h) == [rec EXCEPT !.after = h.hash, !.checked = TRUE,
                      !.already = /\ rec.before.kind # "none" /\ absent(h) = {}
                                  /\ h.hash = rec.before]
<1>1. PICK h \in Reads(fam, dev) :
        \/ /\ Continue("persist", h.fault) /\ UNCHANGED rec
           /\ cur' = [cur EXCEPT !.verified = TRUE]
        \/ /\ Verified(rec.before, h.hash, absent(h))
           /\ Continue("persist", h.fault) /\ rec' = r(h)
           /\ cur' = [cur EXCEPT !.verified = TRUE]
        \/ StartRollback(Caused(r(h), "VERIFY_FAILED"), 0, h.fault)
  BY DEF VerifyState
<1>2. h.hash \in Hash /\ h.fault \in {0, 1}
      /\ (h.hash.kind = "config" => h.hash = HashOf(dev.running))
  BY ReadsType DEF TypeInv, TypeOK
<1>3. r(h) \in Record /\ r(h).after = h.hash
  BY <1>2 DEF TypeInv, TypeOK, Record
<1>4. pc = "verify" /\ lines' = lines
  BY QuietKeeps DEF VerifyState
<1> HIDE DEF r
<1>5. CASE StartRollback(Caused(r(h), "VERIFY_FAILED"), 0, h.fault)
  <2>1. Caused(r(h), "VERIFY_FAILED") \in Record
    BY <1>3, CausedType DEF Causes
  <2> QED BY <1>2, <1>4, <1>5, <2>1, StartRollbackEnds
<1>6. CASE Continue("persist", h.fault) /\ cur' = [cur EXCEPT !.verified = TRUE]
  <2>1. pc' = "persist" /\ cur'.verified /\ cur'.next = cur.next
    BY <1>6 DEF Continue, TypeInv, TypeOK, Cursor
  <2>2. Applied' = Applied
    BY <1>4, <2>1 DEF Applied
  <2>3. h.hash.kind = "config" => h.hash.config = dev.running
    BY <1>2 DEF HashOf
  <2>4. CASE rec' = rec
    BY <1>4, <2>1, <2>2, <2>4
  <2>5. CASE Verified(rec.before, h.hash, absent(h)) /\ rec' = r(h)
    <3>1. rec'.after = h.hash /\ absent(h) = {}
      BY <1>3, <2>5 DEF Verified
    <3> QED BY <1>4, <2>1, <2>2, <2>3, <3>1
  <2>6. CASE StartRollback(Caused(r(h), "VERIFY_FAILED"), 0, h.fault)
    BY <1>5, <2>6
  <2> QED BY <1>1, <2>4, <2>5, <2>6
<1> QED BY <1>1, <1>5, <1>6, SMTT(60)

LEMMA PersistEnds ==
  ASSUME TypeInv, FinishWithoutSave \/ SaveChange
  PROVE  /\ pc = "persist" /\ pc' = "done" /\ lines' = lines /\ cur' = cur
         /\ rec'.outcome \in {"APPLIED", "PERSIST_FAILED"}
         /\ rec'.after = rec.after /\ rec'.checked = rec.checked
         /\ FinishWithoutSave => dev' = dev
         /\ dev'.startup # dev.startup => dev'.startup = dev.running
<1> DEFINE r == [rec EXCEPT !.outcome = "APPLIED"]
           s == [Caused(rec, "PERSIST_FAILED") EXCEPT !.outcome = "PERSIST_FAILED"]
<1>1. /\ r \in Record /\ r.outcome = "APPLIED"
      /\ r.after = rec.after /\ r.checked = rec.checked
      /\ s \in Record /\ s.outcome = "PERSIST_FAILED"
      /\ s.after = rec.after /\ s.checked = rec.checked
  BY DEF TypeInv, TypeOK, Caused, Record, Causes, Outcomes
<1>2. \E n \in {0, 1} : Close(r, n) \/ Close(s, n)
  <2>1. CASE FinishWithoutSave
    BY <2>1 DEF FinishWithoutSave, CloseUnsaved
  <2>2. CASE SaveChange
    <3>1. PICK a \in Answers(fam, dev, Save) : Close(r, a.fault) \/ Close(s, a.fault)
      BY <2>2 DEF SaveChange, CloseUnsaved
    <3>2. a.fault \in {0, 1}
      BY ConstantCommandType, AnswersType DEF TypeInv, TypeOK
    <3> QED BY <3>1, <3>2
  <2> QED BY <2>1, <2>2
<1>3. pc = "persist" /\ lines' = lines /\ cur' = cur
      /\ (FinishWithoutSave => dev' = dev)
  BY DEF FinishWithoutSave, SaveChange, Quiet
<1> HIDE DEF r, s
<1>4. /\ pc' = "done" /\ rec'.outcome \in {"APPLIED", "PERSIST_FAILED"}
      /\ rec'.after = rec.after /\ rec'.checked = rec.checked
  BY <1>1, <1>2, CloseType, CloseKeeps DEF TypeInv
<1>5. ASSUME SaveChange, dev'.startup # dev.startup
      PROVE  dev'.startup = dev.running
  <2>1. PICK a \in Answers(fam, dev, Save) : dev' = a.dev
    BY <1>5 DEF SaveChange
  <2>2. fam \in Families /\ dev \in Device
    BY DEF TypeInv, TypeOK
  <2>3. a.dev.startup \in {dev.startup, dev.running}
    BY <2>1, <2>2, ConstantCommandType, AnswerOnStartup
  <2> QED BY <1>5, <2>1, <2>3
<1> QED BY <1>3, <1>4, <1>5

LEMMA UndoStepEnds ==
  ASSUME TypeInv, RecordManual \/ Unwind \/ SendInverse \/ LeaveModes
  PROVE  /\ pc = "rollback" /\ pc' = "rollback"
         /\ dev'.startup = dev.startup
<1>1. pc = "rollback" /\ pc' = "rollback"
  BY DEF RecordManual, Unwind, SendInverse, LeaveModes, Undoing
<1>2. CASE RecordManual
  BY <1>1, <1>2 DEF RecordManual, Quiet
<1>3. CASE Unwind \/ LeaveModes
  <2>1. PICK a \in Answers(fam, dev, ModeExit) : dev' = a.dev
    BY <1>3 DEF Unwind, LeaveModes
  <2> QED BY <1>1, <2>1, ConstantCommandType, AnswerOnStartup, SMTT(60)
          DEF TypeInv, TypeOK
<1>4. CASE SendInverse
  <2>1. PICK a \in Answers(fam, dev, InverseCommand(Undo)) : dev' = a.dev
    BY <1>4 DEF SendInverse
  <2>2. Undo \in InverseStep
    BY <1>4, UndoType DEF SendInverse
  <2>3. InverseCommand(Undo) \in CommandType /\ InverseCommand(Undo).op # "save"
        /\ fam \in Families /\ dev \in Device
    BY <2>2, InverseCommandType DEF TypeInv, TypeOK
  <2>4. dev'.startup = dev.startup
    BY <2>1, <2>3, AnswerOnStartup
  <2> QED BY <1>1, <2>4
<1> QED BY <1>2, <1>3, <1>4

LEMMA ConfirmEnds ==
  ASSUME TypeInv, ConfirmRollback
  PROVE  /\ pc = "rollback" /\ pc' = "done" /\ dev' = dev
         /\ rec'.outcome \in {"ROLLED_BACK", "ROLLBACK_FAILED"}
         /\ /\ rec'.outcome = "ROLLED_BACK"
            /\ rec'.before.kind = "config" /\ rec'.undone.kind = "config"
            => dev.running = rec'.before.config
<1>1. PICK h \in Reads(fam, dev), c \in SUBSET Causes :
        LET o == RollbackOutcome(cur.manual, cur.failed, rec.before, h.hash)
            r == [rec EXCEPT !.undone = h.hash, !.outcome = o, !.causes = c]
        IN  Close(r, h.fault) /\ r \in Record
            /\ o \in {"ROLLED_BACK", "ROLLBACK_FAILED"}
  BY ConfirmType
<1> DEFINE o == RollbackOutcome(cur.manual, cur.failed, rec.before, h.hash)
           r == [rec EXCEPT !.undone = h.hash, !.outcome = o, !.causes = c]
<1>2. Close(r, h.fault) /\ r \in Record /\ o \in {"ROLLED_BACK", "ROLLBACK_FAILED"}
  BY <1>1
<1>3. r.outcome = o /\ r.before = rec.before /\ r.undone = h.hash
  BY DEF TypeInv, TypeOK, Record
<1>4. h.fault \in {0, 1} /\ (h.hash.kind = "config" => h.hash = HashOf(dev.running))
  BY ReadsType DEF TypeInv, TypeOK
<1>5. o = "ROLLED_BACK" /\ rec.before.kind = "config" /\ h.hash.kind = "config"
      => h.hash = rec.before
  BY DEF RollbackOutcome
<1> HIDE DEF o, r
<1>6. /\ pc' = "done" /\ rec'.outcome = o /\ rec'.before = rec.before
      /\ rec'.undone = h.hash
  BY <1>2, <1>3, <1>4, CloseType, CloseKeeps DEF TypeInv
<1>7. pc = "rollback" /\ dev' = dev
  BY DEF ConfirmRollback, Quiet
<1> QED BY <1>2, <1>4, <1>5, <1>6, <1>7, SMTT(60) DEF HashOf

LEMMA ReadEnds ==
  ASSUME TypeInv, ReadBaseline \/ SkipComment \/ ReadAfter
  PROVE  /\ dev' = dev /\ lines' = lines /\ req' = req
         /\ rec'.checked = rec.checked
         /\ \/ pc \in {"baseline", "apply"} /\ pc' = "apply"
            \/ pc = "apply" /\ pc' = IF req.verify THEN "verify" ELSE "persist"
<1>1. rec'.checked = rec.checked
  BY DEF ReadBaseline, SkipComment, ReadAfter, TypeInv, TypeOK, Record
<1> QED BY <1>1
        DEF ReadBaseline, SkipComment, ReadAfter, Continue, Quiet, Applying

-----------------------------------------------------------------------------
(* Rolled back is clean.                                                   *)

LEMMA RolledBackStep ==
  ASSUME TypeInv, RolledBackIsClean, [Next]_vars
  PROVE  RolledBackIsClean'
<1>1. CASE \E r \in Requests : Call(r)
  BY <1>1 DEF Call, RolledBackIsClean
<1>2. CASE RejectPlan \/ GateChange
  BY <1>2, RejectPlanEnds, GateChangeEnds DEF RolledBackIsClean
<1>3. CASE ReadBaseline \/ SkipComment \/ ReadAfter
  BY <1>3, ReadEnds DEF RolledBackIsClean
<1>4. CASE SendMode \/ SendLine
  BY <1>4, SendEnds DEF RolledBackIsClean
<1>5. CASE VerifyRefused \/ VerifyState
  BY <1>5, VerifyRefusedEnds, VerifyStateEnds DEF RolledBackIsClean
<1>6. CASE FinishWithoutSave \/ SaveChange
  BY <1>6, PersistEnds DEF RolledBackIsClean
<1>7. CASE RecordManual \/ Unwind \/ SendInverse \/ LeaveModes
  BY <1>7, UndoStepEnds DEF RolledBackIsClean
<1>8. CASE ConfirmRollback
  BY <1>8, ConfirmEnds DEF RolledBackIsClean
<1>9. CASE Reload
  BY <1>9 DEF Reload, RolledBackIsClean
<1>10. CASE UNCHANGED vars
  BY <1>10 DEF vars, RolledBackIsClean, Applied
<1> QED BY <1>1, <1>2, <1>3, <1>4, <1>5, <1>6, <1>7, <1>8, <1>9, <1>10
        DEF Next, Step, Finished

(* A change reported ROLLED_BACK after lines were applied, whose baseline  *)
(* and final hash are of configurations, left the device with the          *)
(* configuration it had at the baseline, whatever the device refused, lost *)
(* or ignored in between (the end of _rollback).                           *)
THEOREM RolledBackClean == Spec => []RolledBackIsClean
<1>1. Init => RolledBackIsClean
  BY DEF Init, RolledBackIsClean
<1>2. TypeInv /\ RolledBackIsClean /\ [Next]_vars => RolledBackIsClean'
  BY RolledBackStep
<1> QED BY <1>1, <1>2, TypeInit, TypeStep, PTL DEF Spec

-----------------------------------------------------------------------------
(* Saving comes after verification. The inductive invariant carries the    *)
(* readback from the step that took it to the step that saves: until then  *)
(* the running configuration is the one that was read, or the device       *)
(* reloaded and it is the startup configuration.                           *)

Unchecked == pc \in {"refused", "gate", "baseline", "apply", "verify"}
             => ~rec.checked

Readback == rec.checked =>
              /\ StateAbsent(Applied, Text(rec.after.config)) = {}
              /\ rec.after.kind = "config" =>
                   dev.running \in {rec.after.config, dev.startup}

CheckInv == /\ Unchecked
            /\ pc = "persist" => (req.verify => cur.verified) /\ Readback

LEMMA CheckStep == ASSUME TypeInv, CheckInv, [Next]_vars PROVE CheckInv'
<1>1. CASE \E r \in Requests : Call(r)
  <2>1. rec' = NewRecord /\ pc' # "persist"
    BY <1>1 DEF Call
  <2> QED BY <2>1 DEF CheckInv, Unchecked, NewRecord
<1>2. CASE RejectPlan \/ GateChange
  BY <1>2, RejectPlanEnds, GateChangeEnds DEF CheckInv, Unchecked
<1>3. CASE ReadBaseline \/ SkipComment \/ ReadAfter
  BY <1>3, ReadEnds DEF CheckInv, Unchecked, Readback
<1>4. CASE SendMode \/ SendLine
  BY <1>4, SendEnds DEF CheckInv, Unchecked
<1>5. CASE VerifyRefused
  BY <1>5, VerifyRefusedEnds DEF CheckInv, Unchecked
<1>6. CASE VerifyState
  <2>1. CASE pc' # "persist"
    BY <1>6, <2>1, VerifyStateEnds DEF CheckInv, Unchecked
  <2>2. CASE pc' = "persist"
    <3>1. pc = "verify" /\ cur'.verified /\ Applied' = Applied /\ dev' = dev
      BY <1>6, <2>2, VerifyStateEnds DEF VerifyState, Quiet
    <3>2. CASE rec' = rec
      BY <2>2, <3>1, <3>2 DEF CheckInv, Unchecked, Readback
    <3>3. CASE rec' # rec
      <4>1. /\ rec'.after.kind = "config" => rec'.after.config = dev.running
            /\ StateAbsent(Applied, Text(rec'.after.config)) = {}
        BY <1>6, <2>2, <3>3, VerifyStateEnds
      <4>2. StateAbsent(Applied, Text(rec.after.config))'
            = StateAbsent(Applied, Text(rec'.after.config))
        BY <3>1 DEF StateAbsent, Text
      <4> QED BY <2>2, <3>1, <4>1, <4>2 DEF CheckInv, Unchecked, Readback
    <3> QED BY <3>2, <3>3, SMTT(60)
  <2> QED BY <2>1, <2>2
<1>7. CASE FinishWithoutSave \/ SaveChange
  BY <1>7, PersistEnds DEF CheckInv, Unchecked
<1>8. CASE RecordManual \/ Unwind \/ SendInverse \/ LeaveModes
  BY <1>8, UndoStepEnds DEF CheckInv, Unchecked
<1>9. CASE ConfirmRollback
  BY <1>9, ConfirmEnds DEF CheckInv, Unchecked
<1>10. CASE Reload
  <2>1. dev'.running = dev.startup /\ dev'.startup = dev.startup
    BY <1>10 DEF Reload, TypeInv, TypeOK, Device
  <2>2. UNCHANGED <<pc, req, lines, cur, rec>> /\ Applied' = Applied
    BY <1>10 DEF Reload, Applied
  <2>3. Readback => Readback'
    BY <2>1, <2>2 DEF Readback, StateAbsent, Text
  <2> QED BY <2>2, <2>3 DEF CheckInv, Unchecked
<1>11. CASE UNCHANGED vars
  BY <1>11 DEF vars, CheckInv, Unchecked, Readback, StateAbsent, Text, Applied
<1> QED BY <1>1, <1>2, <1>3, <1>4, <1>5, <1>6, <1>7, <1>8, <1>9, <1>10, <1>11
        DEF Next, Step, Finished

LEMMA CheckInit == Init => CheckInv
BY DEF Init, CheckInv, Unchecked

LEMMA StartupOnlySaved ==
  ASSUME TypeInv, [Next]_vars, dev'.startup # dev.startup
  PROVE  SaveChange
<1>1. CASE \E r \in Requests : Call(r)
  BY <1>1, ZenonT(60) DEF Call, TypeInv, TypeOK, Device
<1>2. CASE RejectPlan \/ GateChange \/ VerifyRefused \/ VerifyState
  BY <1>2, QuietKeeps DEF RejectPlan, GateChange, VerifyRefused, VerifyState
<1>3. CASE Reload
  BY <1>3 DEF Reload, TypeInv, TypeOK, Device
<1>4. CASE UNCHANGED vars
  BY <1>4 DEF vars
<1> QED BY <1>1, <1>2, <1>3, <1>4, ReadEnds, SendEnds, PersistEnds,
        UndoStepEnds, ConfirmEnds
        DEF Next, Step, Finished

LEMMA SaveStep ==
  ASSUME TypeInv, CheckInv, [Next]_vars, dev'.startup # dev.startup
  PROVE  /\ pc = "persist" /\ (req.verify => cur.verified)
         /\ rec.checked /\ rec.after.kind = "config" =>
              StateAbsent(Applied, Text(dev'.startup)) = {}
<1>1. SaveChange
  BY StartupOnlySaved
<1>2. pc = "persist" /\ dev'.startup = dev.running
  BY <1>1, PersistEnds
<1> QED BY <1>2 DEF CheckInv, Readback

(* The startup configuration is only ever written by the save command of a *)
(* change that passed verification, and when the change could be read back *)
(* what is written contains every line the change set and none it removed  *)
(* (apply runs _persist after _verify_change, never during _rollback).     *)
THEOREM SaveIsVerified == Spec => SavedIsVerified
<1>1. TypeInv /\ CheckInv /\ [Next]_vars =>
        [dev'.startup # dev.startup =>
           /\ pc = "persist" /\ (req.verify => cur.verified)
           /\ rec.checked /\ rec.after.kind = "config" =>
                StateAbsent(Applied, Text(dev'.startup)) = {}]_vars
  BY SaveStep
<1>2. TypeInv /\ CheckInv /\ [Next]_vars => CheckInv'
  BY CheckStep
<1> QED BY <1>1, <1>2, TypeInit, TypeStep, CheckInit, PTL DEF Spec, SavedIsVerified

-----------------------------------------------------------------------------
(* The ledger and the record. That a change has one event at most rests on *)
(* when an event may be written: never twice for one change, and for the   *)
(* change being made only by the step that closes it.                      *)

Logged == \A k \in DOMAIN ledger :
            /\ ledger[k].change \in 1 .. changes
            /\ ledger[k].change = changes => pc = "done"

LoggedOnce == \A j, k \in DOMAIN ledger :
                ledger[j].change = ledger[k].change => j = k

Agreed == pc = "done" /\ changes > 0 =>
            /\ \A k \in EventsOf(changes) : ledger[k].outcome = rec.outcome
            /\ EventsOf(changes) # {} \/ req.store = "none"
                 \/ rec.causes \cap {"LEDGER_WRITE_FAILED",
                                     "LEDGER_NOT_CONFIGURED"} # {}

Asked == pc # "idle" => changes > 0

LedgerInv == Asked /\ Logged /\ LoggedOnce /\ Agreed

LEMMA OneEvent ==
  ASSUME LoggedOnce, NEW c
  PROVE  Cardinality(EventsOf(c)) <= 1
<1>1. CASE EventsOf(c) = {}
  <2>1. Cardinality(EventsOf(c)) = 0
    BY <1>1, FS_EmptySet
  <2> QED BY <2>1
<1>2. CASE EventsOf(c) # {}
  <2>1. PICK k : k \in EventsOf(c)
    BY <1>2
  <2>2. EventsOf(c) = {k}
    BY <2>1 DEF LoggedOnce, EventsOf
  <2>3. Cardinality(EventsOf(c)) = 1
    BY <2>2, FS_Singleton
  <2> QED BY <2>3
<1> QED BY <1>1, <1>2

LEMMA LedgerInvAgrees == LedgerInv => LedgerAgrees
BY OneEvent DEF LedgerInv, LedgerAgrees, Agreed

(* The step that closes a change.                                          *)
LEMMA ClosedAgrees ==
  ASSUME TypeInv, LedgerInv, pc \notin {"idle", "done"}, NEW r \in Record,
         NEW n \in {0, 1}, Close(r, n), changes' = changes, req' = req
  PROVE  LedgerInv'
<1>1. PICK w \in LedgerWrites :
        /\ rec' = [r EXCEPT !.causes = @ \cup w.causes]
        /\ ledger' = IF w.logged
                     THEN Append(ledger, [change |-> changes, outcome |-> r.outcome])
                     ELSE ledger
        /\ pc' = "done"
  BY DEF Close
<1>2. ledger \in Seq(LedgerEvent) /\ changes \in Nat
  BY BoundsAssumption DEF TypeInv, TypeOK, LedgerEvent
<1>3. \A k \in DOMAIN ledger : ledger[k].change \in 1 .. changes
                               /\ ledger[k].change # changes
  BY DEF LedgerInv, Logged
<1>4. rec'.outcome = r.outcome /\ rec'.causes = r.causes \cup w.causes
  BY <1>1 DEF Record
<1>5. CASE ~w.logged
  <2>1. ledger' = ledger /\ EventsOf(changes)' = {}
    BY <1>1, <1>3, <1>5 DEF EventsOf
  <2>2. req.store = "none" \/ w.causes \cap {"LEDGER_WRITE_FAILED",
                                             "LEDGER_NOT_CONFIGURED"} # {}
    BY <1>5 DEF LedgerWrites
  <2> QED BY <1>1, <1>3, <1>4, <2>1, <2>2
          DEF LedgerInv, Asked, Logged, LoggedOnce, Agreed
<1>6. CASE w.logged
  <2> DEFINE e == [change |-> changes, outcome |-> r.outcome]
             m == Len(ledger) + 1
  <2>1. e \in LedgerEvent /\ e.change = changes /\ e.outcome = r.outcome
    BY <1>2 DEF LedgerEvent, Record
  <2>2. changes > 0
    BY DEF LedgerInv, Asked
  <2>3. /\ DOMAIN ledger' = 1 .. m /\ DOMAIN ledger = 1 .. (m - 1)
        /\ m \in Nat /\ m >= 1
        /\ ledger'[m] = e
        /\ \A k \in 1 .. (m - 1) : ledger'[k] = ledger[k]
    BY <1>1, <1>2, <1>6, <2>1, AppendProperties, LenProperties
  <2> HIDE DEF e, m
  <2>4. Logged' /\ LoggedOnce'
    BY <1>1, <1>2, <1>3, <2>1, <2>2, <2>3 DEF LedgerInv, Logged, LoggedOnce
  <2>5. EventsOf(changes)' = {m}
    <3>1. EventsOf(changes)' = {k \in 1 .. m : ledger'[k].change = changes}
      BY <2>3 DEF EventsOf
    <3>2. \A k \in 1 .. m : k = m \/ k \in 1 .. (m - 1)
      BY <2>3
    <3>3. \A k \in 1 .. m : ledger'[k].change = changes <=> k = m
      BY <1>3, <2>1, <2>3, <3>2
    <3> QED BY <2>3, <3>1, <3>3
  <2> QED BY <1>4, <2>1, <2>2, <2>3, <2>4, <2>5 DEF LedgerInv, Asked, Agreed
<1> QED BY <1>5, <1>6

(* A step that does not close the change writes no event.                  *)
LEMMA GoesOnAgrees ==
  ASSUME LedgerInv, pc \notin {"idle", "done"}, ledger' = ledger,
         changes' = changes, pc' # "done"
  PROVE  LedgerInv'
BY DEF LedgerInv, Asked, Logged, LoggedOnce, Agreed

Closes == \E r \in Record, n \in {0, 1} : Close(r, n)

(* Every way into a rollback closes the change or goes on to undo it.      *)
LEMMA StartRollbackCloses ==
  ASSUME TypeInv, NEW r \in Record, NEW depth \in Nat, NEW n \in {0, 1},
         StartRollback(r, depth, n)
  PROVE  Closes \/ (ledger' = ledger /\ pc' # "done")
<1>1. CASE Applied = {}
  <2>1. [r EXCEPT !.outcome = "ROLLED_BACK", !.undone = r.before] \in Record
    BY DEF Record, Outcomes
  <2> QED BY <1>1, <2>1 DEF StartRollback, Closes
<1>2. CASE Applied # {}
  BY <1>2 DEF StartRollback, Continue
<1> QED BY <1>1, <1>2

LEMMA SendCloses ==
  ASSUME TypeInv, SendMode \/ SendLine
  PROVE  Closes \/ (ledger' = ledger /\ pc' # "done")
<1>1. PICK a \in Answers(fam, dev, LineCommand(Line)) :
        \/ Continue("apply", a.fault)
        \/ StartRollback(Caused(rec, "COMMAND_FAILED"), cur.depth, a.fault)
  BY DEF SendMode, SendLine
<1>2. Line \in PlannedLine /\ Line.kind # "COMMENT"
  BY LineType DEF SendMode, SendLine
<1>3. a.fault \in {0, 1}
  BY <1>2, LineCommandType, AnswersType DEF TypeInv, TypeOK
<1>4. Caused(rec, "COMMAND_FAILED") \in Record /\ cur.depth \in Nat
  BY CausedType DEF TypeInv, TypeOK, Causes, Cursor
<1> QED BY <1>1, <1>3, <1>4, StartRollbackCloses DEF Continue

LEMMA VerifyCloses ==
  ASSUME TypeInv, VerifyRefused \/ VerifyState
  PROVE  Closes \/ (ledger' = ledger /\ pc' # "done")
<1>1. CASE VerifyRefused
  <2>1. Caused(rec, "VERIFY_FAILED") \in Record
    BY CausedType DEF TypeInv, TypeOK, Causes
  <2> QED BY <1>1, <2>1, StartRollbackCloses DEF VerifyRefused
<1>2. CASE VerifyState
  <2> DEFINE r(h) ==
        [rec EXCEPT !.after = h.hash, !.checked = TRUE,
           !.already = /\ rec.before.kind # "none"
                       /\ StateAbsent(Applied, Text(h.hash.config)) = {}
                       /\ h.hash = rec.before]
  <2>1. PICK h \in Reads(fam, dev) :
          \/ Continue("persist", h.fault)
          \/ StartRollback(Caused(r(h), "VERIFY_FAILED"), 0, h.fault)
    BY <1>2 DEF VerifyState
  <2>2. h.hash \in Hash /\ h.fault \in {0, 1}
    BY ReadsType DEF TypeInv, TypeOK
  <2>3. r(h) \in Record
    BY <2>2 DEF TypeInv, TypeOK, Record
  <2> HIDE DEF r
  <2>4. Caused(r(h), "VERIFY_FAILED") \in Record
    BY <2>3, CausedType DEF Causes
  <2> QED BY <2>1, <2>2, <2>4, StartRollbackCloses, SMTT(60) DEF Continue
<1> QED BY <1>1, <1>2

LEMMA EndCloses ==
  ASSUME TypeInv,
         RejectPlan \/ FinishWithoutSave \/ SaveChange \/ ConfirmRollback
  PROVE  Closes
<1> DEFINE r == [rec EXCEPT !.outcome = "APPLIED"]
           s == [Caused(rec, "PERSIST_FAILED") EXCEPT !.outcome = "PERSIST_FAILED"]
           t == [Caused(rec, "NOT_ALLOWLISTED") EXCEPT !.outcome = "REJECTED"]
<1>1. r \in Record /\ s \in Record /\ t \in Record
  BY DEF TypeInv, TypeOK, Caused, Record, Causes, Outcomes
<1>2. CASE RejectPlan \/ FinishWithoutSave
  <2>1. Close(t, 0) \/ Close(r, 0) \/ Close(s, 0)
    BY <1>2 DEF RejectPlan, FinishWithoutSave, CloseUnsaved
  <2> QED BY <1>1, <2>1 DEF Closes
<1>3. CASE SaveChange
  <2>1. PICK a \in Answers(fam, dev, Save) : Close(r, a.fault) \/ Close(s, a.fault)
    BY <1>3 DEF SaveChange, CloseUnsaved
  <2>2. a.fault \in {0, 1}
    BY ConstantCommandType, AnswersType DEF TypeInv, TypeOK
  <2> HIDE DEF r, s
  <2> QED BY <1>1, <2>1, <2>2 DEF Closes
<1>4. CASE ConfirmRollback
  <2>1. PICK h \in Reads(fam, dev), c \in Record : Close(c, h.fault)
    BY <1>4, ConfirmType
  <2>2. h.fault \in {0, 1}
    BY ReadsType DEF TypeInv, TypeOK
  <2> QED BY <2>1, <2>2 DEF Closes
<1> QED BY <1>2, <1>3, <1>4

LEMMA GateCloses ==
  ASSUME TypeInv, GateChange
  PROVE  Closes \/ (ledger' = ledger /\ pc' # "done")
<1> DEFINE r == [Caused(rec, "HIGH_RISK_NOT_AUTHORIZED")
                 EXCEPT !.outcome = "REJECTED"]
           s == [Caused(rec, "DRY_RUN_ONLY") EXCEPT !.outcome = "DRY_RUN"]
<1>1. r \in Record /\ s \in Record
  BY DEF TypeInv, TypeOK, Caused, Record, Causes, Outcomes
<1>2. Close(r, 0) \/ Close(s, 0) \/ Continue("baseline", 0)
  BY DEF GateChange
<1> HIDE DEF r, s
<1> QED BY <1>1, <1>2 DEF Closes, Continue

LEMMA LedgerStep == ASSUME TypeInv, LedgerInv, [Next]_vars PROVE LedgerInv'
<1>1. CASE \E r \in Requests : Call(r)
  <2>1. /\ pc' \notin {"idle", "done"} /\ changes' = changes + 1
        /\ ledger' = ledger
    BY <1>1 DEF Call
  <2>2. \A k \in DOMAIN ledger : ledger[k].change \in 1 .. changes
    BY DEF LedgerInv, Logged
  <2>3. changes \in Nat
    BY BoundsAssumption DEF TypeInv, TypeOK
  <2> QED BY <2>1, <2>2, <2>3 DEF LedgerInv, Asked, Logged, LoggedOnce, Agreed
<1>2. CASE Step \/ Reload
  <2>1. pc \notin {"idle", "done"} /\ changes' = changes /\ req' = req
    BY <1>2, ZenonT(60) DEF Step, RejectPlan, GateChange, ReadBaseline, SkipComment,
       SendMode, SendLine, ReadAfter, VerifyRefused, VerifyState,
       FinishWithoutSave, SaveChange, RecordManual, Unwind, SendInverse,
       LeaveModes, ConfirmRollback, Reload, Quiet, Applying, Undoing
  <2>2. ReadBaseline \/ SkipComment \/ ReadAfter \/ RecordManual \/ Unwind
        \/ SendInverse \/ LeaveModes \/ Reload
        => ledger' = ledger /\ pc' # "done"
    BY <2>1 DEF ReadBaseline, SkipComment, ReadAfter, RecordManual,
       Unwind, SendInverse, LeaveModes, Reload, Continue
  <2>3. Closes \/ (ledger' = ledger /\ pc' # "done")
    BY <1>2, <2>2, GateCloses, SendCloses, VerifyCloses, EndCloses DEF Step
  <2>4. ASSUME NEW r \in Record, NEW n \in {0, 1}, Close(r, n) PROVE LedgerInv'
    BY <2>1, <2>4, ClosedAgrees
  <2>5. ASSUME ledger' = ledger, pc' # "done" PROVE LedgerInv'
    BY <2>1, <2>5, GoesOnAgrees
  <2> QED BY <2>3, <2>4, <2>5 DEF Closes
<1>3. CASE UNCHANGED vars
  BY <1>3 DEF vars, LedgerInv, Asked, Logged, LoggedOnce, Agreed, EventsOf
<1> QED BY <1>1, <1>2, <1>3 DEF Next, Finished

(* One event at most is written for a change, whatever the device and the  *)
(* evidence store do, and when the caller has the record back the event    *)
(* has the record's outcome or the record names why it may be missing      *)
(* (_record_to_ledger, called once at every return of apply).              *)
THEOREM LedgerAgreeing == Spec => []LedgerAgrees
<1>1. Init => LedgerInv
  BY DEF Init, LedgerInv, Asked, Logged, LoggedOnce, Agreed
<1>2. TypeInv /\ LedgerInv /\ [Next]_vars => LedgerInv'
  BY LedgerStep
<1> QED BY <1>1, <1>2, TypeInit, TypeStep, LedgerInvAgrees, PTL DEF Spec

-----------------------------------------------------------------------------
(* The session is in the mode the next command expects: its path names the *)
(* sections the lines above opened, as deep as the plan has it.            *)

Placed(ls, k, path) ==
  /\ Len(path) = LevelAt(ls, k) + (IF OpenAt(ls, k) THEN 1 ELSE 0)
  /\ \A j \in 1 .. Len(path) : path[j] = ls[Max(OpenedAt(ls, k, j - 1))].item

LEMMA LevelType ==
  ASSUME NEW ls \in Seq(PlannedLine), NEW k \in 1 .. Len(ls)
  PROVE  LevelAt(ls, k) \in Nat /\ OpenAt(ls, k) \in BOOLEAN
<1>1. CASE MovesBefore(ls, k) = {}
  BY <1>1 DEF LevelAt, OpenAt
<1>2. CASE MovesBefore(ls, k) # {}
  <2>1. k - 1 \in Nat /\ MovesBefore(ls, k) \in SUBSET (0 .. (k - 1))
    BY DEF MovesBefore
  <2>2. Max(MovesBefore(ls, k)) \in MovesBefore(ls, k)
    BY <1>2, <2>1, MaxIs
  <2>3. Max(MovesBefore(ls, k)) \in 1 .. Len(ls)
    BY <2>2 DEF MovesBefore
  <2>4. ls[Max(MovesBefore(ls, k))] \in PlannedLine
    BY <2>3, ElementOfSeq
  <2> QED BY <1>2, <2>4 DEF LevelAt, OpenAt, PlannedLine, LineOf
<1> QED BY <1>1, <1>2

(* Only the line that opens a section changes what is open at its depth.   *)
LEMMA OpenedNext ==
  ASSUME NEW ls \in Seq(PlannedLine), NEW k \in 1 .. Len(ls), NEW d \in Nat
  PROVE  /\ ~(ls[k].kind = "CONFIG" /\ ls[k].enters /\ ls[k].depth = d)
              => OpenedAt(ls, k + 1, d) = OpenedAt(ls, k, d)
         /\ ls[k].kind = "CONFIG" /\ ls[k].enters /\ ls[k].depth = d
              => Max(OpenedAt(ls, k + 1, d)) = k
<1>1. k \in Nat /\ (k + 1) - 1 = k
  OBVIOUS
<1>2. ASSUME ~(ls[k].kind = "CONFIG" /\ ls[k].enters /\ ls[k].depth = d)
      PROVE  OpenedAt(ls, k + 1, d) = OpenedAt(ls, k, d)
  BY <1>1, <1>2 DEF OpenedAt
<1>3. ASSUME ls[k].kind = "CONFIG", ls[k].enters, ls[k].depth = d
      PROVE  Max(OpenedAt(ls, k + 1, d)) = k
  <2>1. k \in OpenedAt(ls, k + 1, d) /\ OpenedAt(ls, k + 1, d) \in SUBSET (0 .. k)
    BY <1>1, <1>3 DEF OpenedAt
  <2> QED BY <1>1, <2>1, MaxOf
<1> QED BY <1>2, <1>3

LEMMA PlacedFirst ==
  ASSUME NEW ls
  PROVE  Placed(ls, 1, << >>)
<1>1. MovesBefore(ls, 1) = {} /\ ConfigsBefore(ls, 1) = {}
  BY DEF MovesBefore, ConfigsBefore
<1> QED BY <1>1 DEF Placed, LevelAt, OpenAt

(* A comment, or the opening wrapper at the very start.                    *)
LEMMA PlacedStill ==
  ASSUME NEW ls \in Seq(PlannedLine), NEW k \in 1 .. Len(ls), NEW path \in Path,
         Placed(ls, k, path), Fits(ls, k),
         ls[k].kind = "COMMENT" \/ ls[k].op = "enter"
  PROVE  /\ Placed(ls, k + 1, path)
         /\ ls[k].op = "enter" => Placed(ls, k + 1, << >>)
<1>1. ls[k] \in PlannedLine
  BY ElementOfSeq
<1>2. ls[k].kind # "CONFIG" /\ (ls[k].kind # "COMMENT" => ls[k].op = "enter")
  BY <1>1 DEF PlannedLine, LineOf
<1>3. ls[k].op = "enter" => k = 1 /\ ls[k].depth = 0 /\ ls[k].kind = "MODE"
  BY <1>1 DEF Fits, PlannedLine, LineOf
<1>4. k = 1 => LevelAt(ls, k) = 0 /\ ~OpenAt(ls, k)
  <2>1. MovesBefore(ls, 1) = {} /\ ConfigsBefore(ls, 1) = {}
    BY DEF MovesBefore, ConfigsBefore
  <2> QED BY <2>1 DEF LevelAt, OpenAt
<1>5. /\ LevelAt(ls, k + 1) = LevelAt(ls, k)
      /\ OpenAt(ls, k + 1) <=> OpenAt(ls, k)
  BY <1>2, <1>3, <1>4, NextAt
<1>6. Len(path) \in Nat
  BY LenProperties DEF Path
<1>7. \A j \in 1 .. Len(path) : OpenedAt(ls, k + 1, j - 1) = OpenedAt(ls, k, j - 1)
  BY <1>2, <1>6, OpenedNext
<1>8. Placed(ls, k + 1, path)
  BY <1>5, <1>7 DEF Placed
<1>9. ls[k].op = "enter" => path = << >>
  BY <1>3, <1>4, EmptySeq DEF Placed, Path
<1> QED BY <1>8, <1>9

(* An `exit' finds a section to leave.                                     *)
LEMMA PlacedOut ==
  ASSUME NEW ls \in Seq(PlannedLine), NEW k \in 1 .. Len(ls), NEW path \in Path,
         Placed(ls, k, path), Fits(ls, k), ls[k].op = "exit"
  PROVE  path # << >> /\ Placed(ls, k + 1, Butlast(path))
<1>1. ls[k] \in PlannedLine
  BY ElementOfSeq
<1>2. ls[k].kind = "MODE" /\ ls[k].depth \in Nat
  BY <1>1 DEF PlannedLine, LineOf
<1>3. ls[k].depth + 1 = LevelAt(ls, k)
  BY DEF Fits
<1>4. LevelAt(ls, k + 1) = ls[k].depth /\ (OpenAt(ls, k + 1) <=> OpenAt(ls, k))
  BY <1>2, NextAt
<1>5. Len(path) = ls[k].depth + 1 + (IF OpenAt(ls, k) THEN 1 ELSE 0)
  BY <1>3 DEF Placed
<1>6. Len(path) - 1 \in Nat /\ path # << >> /\ path \in Seq(Items)
  BY <1>2, <1>5 DEF Path
<1>7. /\ Len(Butlast(path)) = Len(path) - 1
      /\ \A j \in 1 .. (Len(path) - 1) : Butlast(path)[j] = path[j]
  <2> DEFINE n == Len(path) - 1
  <2>1. n \in Nat /\ n <= Len(path) /\ \A i \in 1 .. n : path[i] \in Items
    BY <1>6
  <2> HIDE DEF n
  <2>2. /\ Len(SubSeq(path, 1, n)) = n
        /\ \A j \in 1 .. n : SubSeq(path, 1, n)[j] = path[j]
    BY <2>1, SubSeqProperties
  <2> QED BY <2>2 DEF Butlast, n
<1>8. \A j \in 1 .. (Len(path) - 1) :
        OpenedAt(ls, k + 1, j - 1) = OpenedAt(ls, k, j - 1)
  BY <1>2, <1>6, OpenedNext
<1>9. \A j \in 1 .. (Len(path) - 1) :
        path[j] = ls[Max(OpenedAt(ls, k, j - 1))].item
  BY <1>6 DEF Placed
<1> HIDE DEF Butlast
<1>10. Len(Butlast(path)) =
         LevelAt(ls, k + 1) + (IF OpenAt(ls, k + 1) THEN 1 ELSE 0)
  BY <1>2, <1>4, <1>5, <1>7
<1>11. \A j \in 1 .. Len(Butlast(path)) :
         Butlast(path)[j] = ls[Max(OpenedAt(ls, k + 1, j - 1))].item
  BY <1>7, <1>8, <1>9
<1> QED BY <1>6, <1>10, <1>11 DEF Placed

(* A configuration line is understood, and leaves the session inside the   *)
(* section it opens, if it opens one.                                      *)
LEMMA PlacedIn ==
  ASSUME NEW ls \in Seq(PlannedLine), NEW k \in 1 .. Len(ls), NEW path \in Path,
         Placed(ls, k, path), Fits(ls, k), ls[k].kind = "CONFIG"
  PROVE  /\ Len(path) >= ls[k].depth
         /\ Placed(ls, k + 1,
                   IF ls[k].enters
                   THEN Append(SubSeq(path, 1, ls[k].depth), ls[k].item)
                   ELSE SubSeq(path, 1, ls[k].depth))
<1> DEFINE d == ls[k].depth
           parent == SubSeq(path, 1, d)
           here == Append(parent, ls[k].item)
<1>1. ls[k] \in PlannedLine
  BY ElementOfSeq
<1>2. d \in Nat /\ ls[k].item \in Items /\ ls[k].enters \in BOOLEAN
  BY <1>1 DEF PlannedLine, LineOf
<1>3. LevelAt(ls, k) \in Nat
  BY LevelType
<1>4. Len(path) >= d
  BY <1>2, <1>3 DEF Fits, Placed
<1>5. LevelAt(ls, k + 1) = d /\ (OpenAt(ls, k + 1) <=> ls[k].enters)
  BY NextAt
<1>6. /\ parent \in Seq(Items) /\ Len(parent) = d
      /\ \A j \in 1 .. d : parent[j] = path[j]
  BY <1>2, <1>4, SubSeqProperties DEF Path
<1>7. \A j \in 1 .. d : parent[j] = ls[Max(OpenedAt(ls, k + 1, j - 1))].item
  <2> TAKE j \in 1 .. d
  <2>1. j - 1 \in Nat /\ d # j - 1 /\ j \in 1 .. Len(path)
    BY <1>2, <1>4
  <2>2. OpenedAt(ls, k + 1, j - 1) = OpenedAt(ls, k, j - 1)
    BY <2>1, OpenedNext
  <2> QED BY <1>6, <2>1, <2>2 DEF Placed
<1> HIDE DEF parent, d
<1>8. CASE ~ls[k].enters
  <2>1. Placed(ls, k + 1, parent)
    BY <1>2, <1>5, <1>6, <1>7, <1>8 DEF Placed
  <2> QED BY <1>4, <1>8, <2>1 DEF d, parent
<1>9. CASE ls[k].enters
  <2>1. /\ Len(here) = d + 1 /\ here[d + 1] = ls[k].item
        /\ \A j \in 1 .. d : here[j] = parent[j]
    BY <1>2, <1>6, AppendProperties
  <2>2. Max(OpenedAt(ls, k + 1, d)) = k
    BY <1>2, <1>9, OpenedNext DEF d
  <2> HIDE DEF here
  <2>3. \A j \in 1 .. d + 1 : here[j] = ls[Max(OpenedAt(ls, k + 1, j - 1))].item
    <3> TAKE j \in 1 .. d + 1
    <3>1. CASE j = d + 1
      BY <1>2, <2>1, <2>2, <3>1
    <3>2. CASE j \in 1 .. d
      BY <1>7, <2>1, <3>2
    <3> QED BY <1>2, <3>1, <3>2
  <2>4. Placed(ls, k + 1, here)
    BY <1>2, <1>5, <1>9, <2>1, <2>3 DEF Placed
  <2> QED BY <1>4, <1>9, <2>4 DEF d, parent, here
<1> QED BY <1>2, <1>8, <1>9

Sending == {"gate", "baseline", "apply"}
Followed ==
  calm /\ pc \in Sending /\ cur.next <= Len(lines) =>
    /\ Placed(lines, cur.next, dev.path)
    /\ fam.wrapped /\ cur.next > 1 => dev.cfg

ModeInv == /\ pc \in Sending => PlanFits(lines, fam.wrapped)
           /\ Followed

(* Where a configuration line is typed.                                    *)
LEMMA ModeInvTyped == TypeInv /\ ModeInv => TypedInItsMode
<1> SUFFICES ASSUME TypeInv, ModeInv, calm, Applying, Line.kind = "CONFIG"
             PROVE  LET section == SectionOf(lines, cur.next)
                    IN  /\ InConfig(fam, dev)
                        /\ \/ dev.path = section
                           \/ /\ EmptySection(cur.next)
                              /\ dev.path # << >> /\ Butlast(dev.path) = section
  BY DEF TypedInItsMode
<1> DEFINE k == cur.next
           d == lines[k].depth
           section == SectionOf(lines, k)
<1>1. /\ k \in 1 .. Len(lines) /\ lines[k] \in PlannedLine
      /\ lines \in Seq(PlannedLine) /\ dev.path \in Seq(Items)
  BY LineType DEF TypeInv, TypeOK, Device, Path, Line
<1>2. /\ Placed(lines, k, dev.path) /\ PlanFits(lines, fam.wrapped)
      /\ fam.wrapped /\ k > 1 => dev.cfg
  BY DEF ModeInv, Followed, Sending, Applying
<1>3. lines[k].kind = "CONFIG" /\ lines[k].op \notin {"enter", "leave"}
  BY <1>1 DEF Line, PlannedLine, LineOf
<1>4. InConfig(fam, dev)
  BY <1>1, <1>2, <1>3 DEF PlanFits, InConfig
<1>5. /\ d = LevelAt(lines, k) \/ (OpenAt(lines, k) /\ d = LevelAt(lines, k) + 1)
      /\ Below(lines, k)
  BY <1>1, <1>2, <1>3 DEF PlanFits, Fits
<1>6. LevelAt(lines, k) \in Nat /\ d \in Nat
  BY <1>1, LevelType DEF PlannedLine, LineOf
<1>7. /\ Len(dev.path) = LevelAt(lines, k) + (IF OpenAt(lines, k) THEN 1 ELSE 0)
      /\ \A j \in 1 .. Len(dev.path) :
           dev.path[j] = lines[Max(OpenedAt(lines, k, j - 1))].item
  BY <1>2 DEF Placed
<1>8. /\ section = [j \in 1 .. d |-> lines[Max(OpenedAt(lines, k, j - 1))].item]
  BY DEF SectionOf
<1> HIDE DEF k, d, section
<1>9. CASE Len(dev.path) = d
  <2>1. dev.path = [j \in 1 .. d |-> dev.path[j]]
    BY <1>1, <1>9
  <2>2. dev.path = section
    BY <1>7, <1>8, <1>9, <2>1
  <2> QED BY <1>4, <2>2 DEF k, section
<1>10. CASE Len(dev.path) # d
  <2>1. OpenAt(lines, k) /\ d = LevelAt(lines, k) /\ Len(dev.path) = d + 1
    BY <1>5, <1>6, <1>7, <1>10
  <2>2. Butlast(dev.path) = [j \in 1 .. d |-> dev.path[j]]
    BY <1>1, <1>6, <2>1 DEF Butlast
  <2>3. Butlast(dev.path) = section
    <3>1. \A j \in 1 .. d : j \in 1 .. Len(dev.path)
      BY <1>6, <2>1
    <3> QED BY <1>7, <1>8, <2>2, <3>1
  <2>4. dev.path # << >>
    BY <1>6, <2>1
  <2>5. {m \in ConfigIndices(lines) : m < k} = ConfigsBefore(lines, k)
    BY <1>1 DEF ConfigIndices, ConfigsBefore
  <2>6. EmptySection(k)
    BY <1>5, <2>1, <2>5 DEF EmptySection, OpenAt, Below, d
  <2> QED BY <1>4, <2>3, <2>4, <2>6 DEF k, section
<1> QED BY <1>9, <1>10

LEMMA ModeCall ==
  ASSUME TypeInv, NEW r \in Requests, Call(r)
  PROVE  ModeInv'
<1>1. CASE ~Plans[r][fam].ok
  BY <1>1 DEF Call, ModeInv, Followed, Sending
<1>2. CASE Plans[r][fam].ok
  <2>1. /\ lines' = Plans[r][fam].lines /\ fam' = fam /\ cur' = NewCursor
        /\ calm' = AtExec(dev')
    BY <1>2 DEF Call
  <2>2. PlanFits(lines', fam'.wrapped)
    BY <2>1, PlansAre DEF TypeInv, TypeOK
  <2>3. cur'.next = 1
    BY <2>1 DEF NewCursor
  <2>4. calm' => dev'.path = << >>
    BY <2>1 DEF AtExec
  <2> QED BY <2>2, <2>3, <2>4, PlacedFirst DEF ModeInv, Followed
<1> QED BY <1>1, <1>2

(* A line is sent: without a fault the device did what the plan expects.   *)
LEMMA ModeSkip ==
  ASSUME TypeInv, ModeInv, SkipComment
  PROVE  ModeInv'
<1> DEFINE k == cur.next
<1>1. /\ pc = "apply" /\ Applying /\ lines[k].kind = "COMMENT"
      /\ UNCHANGED <<pc, fam, lines, dev, calm>> /\ cur'.next = k + 1
  BY DEF SkipComment, Applying, Advance, Line, Quiet, TypeInv, TypeOK, Cursor
<1>2. /\ k \in 1 .. Len(lines) /\ lines[k] \in PlannedLine
      /\ lines \in Seq(PlannedLine) /\ dev.path \in Path
  BY <1>1, LineType DEF TypeInv, TypeOK, Device, Line
<1>3. PlanFits(lines, fam.wrapped)
  BY <1>1 DEF ModeInv, Sending
<1>4. lines[k].op \notin {"enter", "leave"}
  BY <1>1, <1>2 DEF PlannedLine, LineOf
<1>5. Fits(lines, k) /\ (fam.wrapped => k > 1)
  BY <1>2, <1>3, <1>4 DEF PlanFits
<1>6. calm => Placed(lines, k, dev.path) /\ (fam.wrapped => dev.cfg)
  BY <1>1, <1>2, <1>5 DEF ModeInv, Followed, Sending, Applying
<1>7. calm => Placed(lines, k + 1, dev.path)
  BY <1>1, <1>2, <1>5, <1>6, PlacedStill
<1> QED BY <1>1, <1>3, <1>6, <1>7 DEF ModeInv, Followed

LEMMA ModeSend ==
  ASSUME TypeInv, ModeInv, SendMode \/ SendLine
  PROVE  ModeInv'
<1> DEFINE k == cur.next
           l == lines[k]
           c == LineCommand(l)
           d == l.depth
<1>1. PICK a \in Answers(fam, dev, c) :
        /\ dev' = a.dev
        /\ \/ a.reply # "error" /\ Continue("apply", a.fault)
              /\ cur'.next = k + 1
           \/ pc' \notin Sending
  <2>1. CASE SendMode
    <3>1. PICK a \in Answers(fam, dev, c) :
            /\ dev' = a.dev
            /\ \/ /\ a.reply # "error"
                  /\ Continue("apply", a.fault) /\ UNCHANGED rec
                  /\ Advance(IF Line.op = "exit" THEN Line.depth ELSE cur.depth)
               \/ /\ a.reply = "error"
                  /\ StartRollback(Caused(rec, "COMMAND_FAILED"), cur.depth, a.fault)
      BY <2>1 DEF SendMode, Line
    <3>2. CASE a.reply = "error"
      BY <3>1, <3>2 DEF StartRollback, Close, Continue, Sending
    <3>3. CASE a.reply # "error"
      BY <3>1, <3>3 DEF Advance, TypeInv, TypeOK, Cursor
    <3> QED BY <3>1, <3>2, <3>3
  <2>2. CASE SendLine
    <3>1. PICK a \in Answers(fam, dev, c) :
            /\ dev' = a.dev
            /\ \/ /\ a.reply # "error"
                  /\ Continue("apply", a.fault) /\ UNCHANGED rec
                  /\ cur' = [cur EXCEPT !.next = @ + 1,
                          !.depth = Line.depth + (IF Line.enters THEN 1 ELSE 0),
                          !.marked = @ \/ a.reply = "marker"]
               \/ /\ a.reply = "error"
                  /\ StartRollback(Caused(rec, "COMMAND_FAILED"), cur.depth, a.fault)
      BY <2>2 DEF SendLine, Line
    <3>2. CASE a.reply = "error"
      BY <3>1, <3>2 DEF StartRollback, Close, Continue, Sending
    <3>3. CASE a.reply # "error"
      BY <3>1, <3>3 DEF TypeInv, TypeOK, Cursor
    <3> QED BY <3>1, <3>2, <3>3
  <2> QED BY <2>1, <2>2
<1>2. /\ pc = "apply" /\ Applying /\ UNCHANGED <<fam, lines>>
      /\ l.kind # "COMMENT"
  BY DEF SendMode, SendLine, Applying, Line
<1>3. /\ k \in 1 .. Len(lines) /\ l \in PlannedLine
      /\ lines \in Seq(PlannedLine) /\ dev.path \in Path /\ dev \in Device
  BY <1>2, LineType DEF TypeInv, TypeOK, Device, Line
<1>4. PlanFits(lines, fam.wrapped)
  BY <1>2 DEF ModeInv, Sending
<1>5. CASE pc' \notin Sending
  BY <1>5 DEF ModeInv, Followed
<1>6. CASE a.reply # "error" /\ Continue("apply", a.fault) /\ cur'.next = k + 1
  <2> SUFFICES ASSUME calm', k + 1 <= Len(lines)
               PROVE  /\ Placed(lines, k + 1, dev'.path)
                      /\ fam.wrapped => dev'.cfg
    BY <1>2, <1>4, <1>6 DEF ModeInv, Followed
  <2>1. calm /\ a.fault = 0
    BY <1>6 DEF Continue, Faults
  <2>2. /\ Placed(lines, k, dev.path)
        /\ fam.wrapped /\ k > 1 => dev.cfg
    BY <1>2, <1>3, <2>1 DEF ModeInv, Followed, Sending, Applying
  <2>3. dev' = IF Accepts(fam, dev, c) THEN Effect(fam, dev, c) ELSE dev
    BY <1>1, <2>1 DEF Answers
  <2>4. Fits(lines, k) /\ (fam.wrapped => (k = 1 /\ l.op = "enter") \/ k > 1)
    BY <1>3, <1>4 DEF PlanFits
  <2>5. /\ c.op = l.op /\ c.item = l.item /\ c.depth = d /\ c.enters = l.enters
    BY DEF LineCommand, Command
  <2>6. l.op \in {"enter", "exit"} \/ (l.kind = "CONFIG" /\ l.op \in {"set", "unset"})
    BY <1>2, <1>3, <2>4 DEF PlannedLine, LineOf, Fits
  <2> HIDE DEF l, c, d
  <2>7. CASE l.op = "enter"
    <3>1. Accepts(fam, dev, c)
      BY <2>5, <2>7 DEF Accepts
    <3>2. dev'.cfg /\ (dev'.path = dev.path \/ dev'.path = << >>)
      BY <1>3, <2>3, <2>5, <2>7, <3>1 DEF Effect, Device
    <3> QED BY <1>3, <2>2, <2>4, <2>7, <3>2, PlacedStill DEF l
  <2>8. CASE l.op = "exit"
    <3>1. Accepts(fam, dev, c)
      BY <2>5, <2>8 DEF Accepts
    <3>2. dev.path # << >> /\ Placed(lines, k + 1, Butlast(dev.path))
      BY <1>3, <2>2, <2>4, <2>8, PlacedOut DEF l
    <3>3. dev'.cfg = dev.cfg /\ dev'.path = Butlast(dev.path)
      BY <1>3, <2>3, <2>5, <2>8, <3>1, <3>2 DEF Effect, Device
    <3> QED BY <2>2, <2>4, <2>8, <3>2, <3>3
  <2>9. CASE l.kind = "CONFIG" /\ l.op \in {"set", "unset"}
    <3>1. /\ Len(dev.path) >= d
          /\ Placed(lines, k + 1,
                    IF l.enters THEN Append(SubSeq(dev.path, 1, d), l.item)
                    ELSE SubSeq(dev.path, 1, d))
      BY <1>3, <2>2, <2>4, <2>9, PlacedIn DEF l, d
    <3>2. fam.wrapped => dev.cfg
      BY <2>2, <2>4, <2>9
    <3>3. Accepts(fam, dev, c)
      BY <2>5, <2>9, <3>1, <3>2 DEF Accepts, InConfig
    <3>4. l.op = "unset" => ~l.enters
      BY <2>4, <2>9 DEF Fits, l
    <3>5. /\ dev'.cfg = dev.cfg
          /\ dev'.path = IF l.enters THEN Append(SubSeq(dev.path, 1, d), l.item)
                         ELSE SubSeq(dev.path, 1, d)
      <4>1. CASE l.op = "set"
        BY <1>3, <2>3, <2>5, <3>3, <4>1 DEF Effect, Device
      <4>2. CASE l.op = "unset"
        BY <1>3, <2>3, <2>5, <3>3, <3>4, <4>2 DEF Effect, Device
      <4> QED BY <2>9, <4>1, <4>2
    <3> QED BY <3>1, <3>2, <3>5
  <2> QED BY <2>6, <2>7, <2>8, <2>9
<1> QED BY <1>1, <1>5, <1>6

LEMMA ModeStep == ASSUME TypeInv, ModeInv, [Next]_vars PROVE ModeInv'
<1>1. CASE \E r \in Requests : Call(r)
  BY <1>1, ModeCall
<1>2. CASE GateChange \/ ReadBaseline \/ ReadAfter
  <2>1. /\ UNCHANGED <<dev, fam, lines, cur>> /\ pc \in Sending
        /\ calm' => calm
        /\ pc' # pc
    BY <1>2 DEF GateChange, ReadBaseline, ReadAfter, Quiet, Continue, Close,
       Faults, Sending
  <2> QED BY <2>1 DEF ModeInv, Followed
<1>3. CASE SkipComment
  BY <1>3, ModeSkip
<1>4. CASE SendMode \/ SendLine
  BY <1>4, ModeSend
<1>5. CASE \/ RejectPlan \/ VerifyRefused \/ VerifyState
           \/ FinishWithoutSave \/ SaveChange
           \/ RecordManual \/ Unwind \/ SendInverse \/ LeaveModes
           \/ ConfirmRollback
  <2>1. pc' \in {"done", "rollback", "persist"}
    BY <1>5, RejectPlanEnds, VerifyRefusedEnds, VerifyStateEnds, PersistEnds,
       UndoStepEnds, ConfirmEnds
  <2> QED BY <2>1 DEF ModeInv, Followed, Sending
<1>6. CASE Reload
  <2>1. calm' = (calm /\ 1 = 0) /\ UNCHANGED <<pc, fam, lines>>
    BY <1>6 DEF Reload, Faults
  <2>2. 1 # 0
    OBVIOUS
  <2>3. ~calm'
    BY <2>1, <2>2, Zenon
  <2> QED BY <2>1, <2>3 DEF ModeInv, Followed
<1>7. CASE UNCHANGED vars
  BY <1>7 DEF vars, ModeInv, Followed
<1> QED BY <1>1, <1>2, <1>3, <1>4, <1>5, <1>6, <1>7 DEF Next, Step, Finished

(* In an undisturbed change every configuration line of every plan is      *)
(* typed inside the sections it was indented under, however deep the       *)
(* nesting and however many levels it drops between two lines (phase 2 of  *)
(* apply and the exits _plan inserts).                                     *)
THEOREM TypedInMode == Spec => []TypedInItsMode
<1>1. Init => ModeInv
  BY DEF Init, ModeInv, Followed, Sending
<1>2. TypeInv /\ ModeInv /\ [Next]_vars => TypeInv' /\ ModeInv'
  BY TypeStep, ModeStep
<1>3. Init => TypeInv
  BY TypeInit
<1>4. TypeInv /\ ModeInv => TypedInItsMode
  BY ModeInvTyped
<1> QED BY <1>1, <1>2, <1>3, <1>4, PTL DEF Spec

-----------------------------------------------------------------------------
(* A change that is reported APPLIED stands. The device may refuse a mode  *)
(* command without a mark, which leaves the session deeper than planned:   *)
(* what is kept is that the start of its path is where the plan has it, so *)
(* that a configuration line, which the CLI takes at its own depth, still  *)
(* falls into its section. Every line sent so far stands, or a later one   *)
(* took its effect back.                                                   *)

Reaches(ls, k, path) ==
  \E n \in 0 .. Len(path) : Placed(ls, k, SubSeq(path, 1, n))

Carried ==
  \A k \in ConfigIndices(lines) : k < cur.next =>
    \/ Stands(k)
    \/ \E m \in ConfigIndices(lines) : m > k /\ m < cur.next /\ Overrides(m, k)

Carrying == /\ dev.obeyed /\ ~cur.marked
            /\ pc \in Sending \cup {"verify", "persist"}

CarryInv ==
  /\ pc \in {"verify", "persist"} => cur.next > Len(lines)
  /\ pc = "persist" /\ req.verify => ~cur.marked
  /\ Carrying => /\ Carried
                 /\ cur.next <= Len(lines) =>
                      Reaches(lines, cur.next, dev.path)

(* The first elements of a path.                                           *)
LEMMA PrefixIs ==
  ASSUME NEW p \in Path, NEW n \in 0 .. Len(p)
  PROVE  /\ SubSeq(p, 1, n) \in Path /\ Len(SubSeq(p, 1, n)) = n
         /\ \A j \in 1 .. n : SubSeq(p, 1, n)[j] = p[j]
<1>1. n \in Nat /\ n <= Len(p) /\ \A i \in 1 .. n : p[i] \in Items
  BY DEF Path
<1> QED BY <1>1, SubSeqProperties DEF Path

LEMMA PrefixOfPrefix ==
  ASSUME NEW p \in Path, NEW n \in 0 .. Len(p), NEW m \in 0 .. n
  PROVE  SubSeq(SubSeq(p, 1, n), 1, m) = SubSeq(p, 1, m)
<1> DEFINE q == SubSeq(p, 1, n)
<1>1. /\ q \in Path /\ Len(q) = n
      /\ \A j \in 1 .. n : q[j] = p[j]
  BY PrefixIs
<1>2. Len(p) \in Nat
  BY LenProperties DEF Path
<1> HIDE DEF q
<1>3. m \in 0 .. Len(q) /\ m \in 0 .. Len(p) /\ \A j \in 1 .. m : j \in 1 .. n
  BY <1>1, <1>2
<1>4. /\ SubSeq(q, 1, m) \in Path /\ Len(SubSeq(q, 1, m)) = m
      /\ \A j \in 1 .. m : SubSeq(q, 1, m)[j] = q[j]
  BY <1>1, <1>3, PrefixIs
<1>5. /\ SubSeq(p, 1, m) \in Path /\ Len(SubSeq(p, 1, m)) = m
      /\ \A j \in 1 .. m : SubSeq(p, 1, m)[j] = p[j]
  BY <1>3, PrefixIs
<1>6. \A j \in 1 .. m : SubSeq(q, 1, m)[j] = SubSeq(p, 1, m)[j]
  BY <1>1, <1>3, <1>4, <1>5
<1>7. SubSeq(q, 1, m) = SubSeq(p, 1, m)
  BY <1>4, <1>5, <1>6, SeqEqual DEF Path
<1> QED BY <1>7 DEF q

LEMMA WholePrefix ==
  ASSUME NEW p \in Path
  PROVE  Len(p) \in 0 .. Len(p) /\ SubSeq(p, 1, Len(p)) = p
<1>1. Len(p) \in 0 .. Len(p)
  BY LenProperties DEF Path
<1>2. /\ SubSeq(p, 1, Len(p)) \in Path /\ Len(SubSeq(p, 1, Len(p))) = Len(p)
      /\ \A j \in 1 .. Len(p) : SubSeq(p, 1, Len(p))[j] = p[j]
  BY <1>1, PrefixIs
<1> QED BY <1>1, <1>2, SeqEqual DEF Path

(* Where the session is after a line, when the start of its path was where *)
(* the plan has it: a comment, and the opening wrapper.                    *)
LEMMA ReachesStill ==
  ASSUME NEW ls \in Seq(PlannedLine), NEW k \in 1 .. Len(ls), NEW path \in Path,
         Reaches(ls, k, path), Fits(ls, k),
         ls[k].kind = "COMMENT" \/ ls[k].op = "enter"
  PROVE  /\ Reaches(ls, k + 1, path)
         /\ ls[k].op = "enter" => Reaches(ls, k + 1, << >>)
<1>1. PICK n \in 0 .. Len(path) : Placed(ls, k, SubSeq(path, 1, n))
  BY DEF Reaches
<1>2. SubSeq(path, 1, n) \in Path
  BY PrefixIs
<1>3. /\ Placed(ls, k + 1, SubSeq(path, 1, n))
      /\ ls[k].op = "enter" => Placed(ls, k + 1, << >>)
  BY <1>1, <1>2, PlacedStill
<1>4. << >> \in Path /\ Len(<< >>) = 0
  BY EmptySeq DEF Path
<1>5. SubSeq(<< >>, 1, 0) = << >> /\ 0 \in 0 .. Len(<< >>)
  BY <1>4, WholePrefix
<1>6. Reaches(ls, k + 1, path)
  BY <1>3 DEF Reaches
<1>7. ls[k].op = "enter" => Placed(ls, k + 1, SubSeq(<< >>, 1, 0))
  BY <1>3, <1>5
<1>8. ls[k].op = "enter" => Reaches(ls, k + 1, << >>)
  BY <1>5, <1>7, Zenon DEF Reaches
<1> QED BY <1>6, <1>8

(* An `exit', whether the device left the section or stayed.               *)
LEMMA ReachesOut ==
  ASSUME NEW ls \in Seq(PlannedLine), NEW k \in 1 .. Len(ls), NEW path \in Path,
         Reaches(ls, k, path), Fits(ls, k), ls[k].op = "exit"
  PROVE  /\ path # << >> /\ Reaches(ls, k + 1, Butlast(path))
         /\ Reaches(ls, k + 1, path)
<1>1. PICK n \in 0 .. Len(path) : Placed(ls, k, SubSeq(path, 1, n))
  BY DEF Reaches
<1> DEFINE q == SubSeq(path, 1, n)
<1>2. q \in Path /\ Len(q) = n
  BY PrefixIs
<1>3. q # << >> /\ Placed(ls, k + 1, Butlast(q))
  BY <1>1, <1>2, PlacedOut
<1>4. Len(path) \in Nat /\ n >= 1 /\ n - 1 \in 0 .. n /\ n - 1 \in 0 .. Len(path)
  <2>1. Len(path) \in Nat
    BY LenProperties DEF Path
  <2>2. Len(q) \in Nat \ {0}
    BY <1>2, <1>3, EmptySeq DEF Path
  <2> QED BY <1>2, <2>1, <2>2
<1>5. Butlast(q) = SubSeq(path, 1, n - 1)
  BY <1>2, <1>4, PrefixOfPrefix DEF Butlast
<1>6. Len(path) - 1 \in 0 .. Len(path) /\ n - 1 \in 0 .. (Len(path) - 1)
  BY <1>4
<1>7. Len(Butlast(path)) = Len(path) - 1
  BY <1>6, PrefixIs DEF Butlast
<1>8. SubSeq(Butlast(path), 1, n - 1) = SubSeq(path, 1, n - 1)
  BY <1>6, PrefixOfPrefix DEF Butlast
<1>9. path # << >>
  BY <1>4, EmptySeq
<1> HIDE DEF q
<1> QED BY <1>3, <1>4, <1>5, <1>6, <1>7, <1>8, <1>9 DEF Reaches

(* A configuration line, which is typed in its section.                    *)
LEMMA ReachesIn ==
  ASSUME NEW ls \in Seq(PlannedLine), NEW k \in 1 .. Len(ls), NEW path \in Path,
         Reaches(ls, k, path), Fits(ls, k), ls[k].kind = "CONFIG"
  PROVE  /\ Len(path) >= ls[k].depth
         /\ SubSeq(path, 1, ls[k].depth) = SectionOf(ls, k)
         /\ Reaches(ls, k + 1,
                    IF ls[k].enters
                    THEN Append(SubSeq(path, 1, ls[k].depth), ls[k].item)
                    ELSE SubSeq(path, 1, ls[k].depth))
<1>1. PICK n \in 0 .. Len(path) : Placed(ls, k, SubSeq(path, 1, n))
  BY DEF Reaches
<1> DEFINE q == SubSeq(path, 1, n)
           d == ls[k].depth
           parent == SubSeq(path, 1, d)
           after == IF ls[k].enters THEN Append(parent, ls[k].item) ELSE parent
<1>2. q \in Path /\ Len(q) = n /\ \A j \in 1 .. n : q[j] = path[j]
  BY PrefixIs
<1>3. d \in Nat /\ ls[k].item \in Items /\ Len(path) \in Nat
  <2>1. ls[k] \in PlannedLine
    BY ElementOfSeq
  <2> QED BY <2>1, LenProperties DEF PlannedLine, LineOf, Path
<1>4. /\ Len(q) >= d
      /\ Placed(ls, k + 1, IF ls[k].enters
                           THEN Append(SubSeq(q, 1, d), ls[k].item)
                           ELSE SubSeq(q, 1, d))
  BY <1>1, <1>2, PlacedIn
<1>5. d \in 0 .. n /\ d \in 0 .. Len(path)
  BY <1>2, <1>3, <1>4
<1>6. SubSeq(q, 1, d) = parent
  BY <1>5, PrefixOfPrefix
<1>7. parent \in Path /\ Len(parent) = d
      /\ \A j \in 1 .. d : parent[j] = path[j]
  BY <1>5, PrefixIs
<1>8. parent = SectionOf(ls, k)
  <2>1. \A j \in 1 .. d : parent[j] = ls[Max(OpenedAt(ls, k, j - 1))].item
    <3> TAKE j \in 1 .. d
    <3>1. j \in 1 .. n
      BY <1>3, <1>5
    <3>2. q[j] = ls[Max(OpenedAt(ls, k, j - 1))].item
      BY <1>1, <1>2, <3>1 DEF Placed
    <3> QED BY <1>2, <1>7, <3>1, <3>2
  <2> HIDE DEF parent, d
  <2>2. parent = [j \in 1 .. d |-> parent[j]]
    BY <1>7 DEF Path
  <2> QED BY <2>1, <2>2 DEF SectionOf, d
<1>9. after \in Path
  BY <1>3, <1>7, AppendProperties DEF Path
<1>10. Placed(ls, k + 1, after)
  BY <1>4, <1>6
<1> HIDE DEF q, parent, after, d
<1>11. Reaches(ls, k + 1, after)
  BY <1>9, <1>10, WholePrefix DEF Reaches
<1> QED BY <1>5, <1>8, <1>11 DEF after, parent, d

(* An answer that leaves the device obeying: the line did what it says, or *)
(* it was refused.                                                         *)
LEMMA AnswerObeyed ==
  ASSUME NEW f \in Families, NEW d \in Device, NEW c \in CommandType,
         NEW a \in Answers(f, d, c), a.dev.obeyed
  PROVE  /\ d.obeyed
         /\ a.dev = d \/ (Accepts(f, d, c) /\ a.dev = Effect(f, d, c))
         /\ a.reply = "fine" => Accepts(f, d, c) /\ a.dev = Effect(f, d, c)
<1> DEFINE done == IF Accepts(f, d, c) THEN Effect(f, d, c) ELSE d
           said == IF Accepts(f, d, c) THEN "fine" ELSE "marker"
           deaf == [d EXCEPT !.obeyed = FALSE]
<1>1. a \in { [dev |-> done, reply |-> said,     fault |-> 0],
             [dev |-> d,    reply |-> "marker", fault |-> 1],
             [dev |-> deaf, reply |-> "fine",   fault |-> 1],
             [dev |-> d,    reply |-> "error",  fault |-> 1],
             [dev |-> done, reply |-> "error",  fault |-> 1] }
  BY DEF Answers
<1>2. Effect(f, d, c).obeyed = d.obeyed
  BY DEF Effect, Device, CommandType
<1>3. done.obeyed = d.obeyed /\ deaf.obeyed = FALSE
  BY <1>2 DEF Device
<1>4. done = d \/ (Accepts(f, d, c) /\ done = Effect(f, d, c))
  OBVIOUS
<1>5. said = "fine" => Accepts(f, d, c) /\ done = Effect(f, d, c)
  OBVIOUS
<1> HIDE DEF done, said, deaf
<1> QED BY <1>1, <1>3, <1>4, <1>5

LEMMA CarryCall ==
  ASSUME TypeInv, NEW r \in Requests, Call(r)
  PROVE  CarryInv'
<1>1. /\ cur'.next = 1 /\ pc' \in {"gate", "refused"}
      /\ dev' \in Device /\ lines' \in Seq(PlannedLine)
  <2>1. TypeInv'
    BY TypeCall
  <2> QED BY <2>1 DEF Call, NewCursor, TypeInv, TypeOK
<1>2. Carried'
  BY <1>1 DEF Carried, ConfigIndices
<1>3. Reaches(lines', 1, dev'.path)
  <2>1. dev'.path \in Path
    BY <1>1 DEF Device
  <2>2. 0 \in 0 .. Len(dev'.path) /\ SubSeq(dev'.path, 1, 0) = << >>
    BY <2>1, LenProperties, SubSeqEmpty DEF Path
  <2>3. Placed(lines', 1, SubSeq(dev'.path, 1, 0))
    BY <2>2, PlacedFirst
  <2> QED BY <2>2, <2>3, Zenon DEF Reaches
<1>4. Reaches(lines, cur.next, dev.path)'
  BY <1>1, <1>3 DEF Reaches, Placed, LevelAt, OpenAt, MovesBefore,
     ConfigsBefore, OpenedAt
<1> QED BY <1>1, <1>2, <1>4 DEF CarryInv

LEMMA CarrySkip ==
  ASSUME TypeInv, ModeInv, CarryInv, SkipComment
  PROVE  CarryInv'
<1> DEFINE k == cur.next
<1>1. /\ pc = "apply" /\ Applying /\ lines[k].kind = "COMMENT"
      /\ UNCHANGED <<pc, fam, lines, dev>>
      /\ cur'.next = k + 1 /\ cur'.marked = cur.marked
  BY DEF SkipComment, Applying, Advance, Line, Quiet, TypeInv, TypeOK, Cursor
<1>2. /\ k \in 1 .. Len(lines) /\ lines[k] \in PlannedLine
      /\ lines \in Seq(PlannedLine) /\ dev.path \in Path
  BY <1>1, LineType DEF TypeInv, TypeOK, Device, Line
<1>3. Fits(lines, k)
  <2>1. lines[k].op # "leave"
    BY <1>1, <1>2 DEF PlannedLine, LineOf
  <2> QED BY <1>1, <1>2, <2>1 DEF ModeInv, Sending, PlanFits
<1> SUFFICES ASSUME Carrying'
             PROVE  Carried' /\ Reaches(lines, k + 1, dev.path)
  BY <1>1 DEF CarryInv
<1>4. Carrying
  BY <1>1 DEF Carrying
<1>5. Carried /\ Reaches(lines, k, dev.path)
  BY <1>2, <1>4 DEF CarryInv
<1>6. Reaches(lines, k + 1, dev.path)
  BY <1>1, <1>2, <1>3, <1>5, ReachesStill
<1>7. \A j \in ConfigIndices(lines) : j < k + 1 => j < k
  BY <1>1, <1>2 DEF ConfigIndices
<1>8. Carried'
  BY <1>1, <1>2, <1>5, <1>7 DEF Carried, Stands, Overrides, ConfigIndices
<1> QED BY <1>6, <1>8

(* What sending a line may do.                                             *)
LEMMA SendGoesOn ==
  ASSUME TypeInv, SendMode \/ SendLine
  PROVE  \E a \in Answers(fam, dev, LineCommand(Line)) :
           /\ dev' = a.dev
           /\ \/ /\ a.reply # "error" /\ pc' = "apply"
                 /\ cur'.next = cur.next + 1
                 /\ SendMode => cur'.marked = cur.marked
                 /\ SendLine => cur'.marked = (cur.marked \/ a.reply = "marker")
              \/ pc' \in {"rollback", "done"}
<1>1. cur \in Cursor
  BY DEF TypeInv, TypeOK
<1>2. CASE SendMode
  <2>1. ~SendLine
    BY <1>2 DEF SendMode, SendLine
  <2>2. PICK a \in Answers(fam, dev, LineCommand(Line)) :
          /\ dev' = a.dev
          /\ \/ /\ a.reply # "error"
                /\ Continue("apply", a.fault) /\ UNCHANGED rec
                /\ Advance(IF Line.op = "exit" THEN Line.depth ELSE cur.depth)
             \/ /\ a.reply = "error"
                /\ StartRollback(Caused(rec, "COMMAND_FAILED"), cur.depth, a.fault)
    BY <1>2 DEF SendMode
  <2>3. CASE a.reply = "error"
    BY <2>2, <2>3 DEF StartRollback, Close, Continue
  <2>4. CASE a.reply # "error"
    BY <1>1, <2>1, <2>2, <2>4 DEF Advance, Continue, Cursor
  <2> QED BY <2>3, <2>4
<1>3. CASE SendLine
  <2>1. ~SendMode
    BY <1>3 DEF SendMode, SendLine
  <2>2. PICK a \in Answers(fam, dev, LineCommand(Line)) :
          /\ dev' = a.dev
          /\ \/ /\ a.reply # "error"
                /\ Continue("apply", a.fault) /\ UNCHANGED rec
                /\ cur' = [cur EXCEPT !.next = @ + 1,
                        !.depth = Line.depth + (IF Line.enters THEN 1 ELSE 0),
                        !.marked = @ \/ a.reply = "marker"]
             \/ /\ a.reply = "error"
                /\ StartRollback(Caused(rec, "COMMAND_FAILED"), cur.depth, a.fault)
    BY <1>3 DEF SendLine
  <2>3. CASE a.reply = "error"
    BY <2>2, <2>3 DEF StartRollback, Close, Continue
  <2>4. CASE a.reply # "error"
    BY <1>1, <2>1, <2>2, <2>4 DEF Continue, Cursor
  <2> QED BY <2>3, <2>4
<1> QED BY <1>2, <1>3

(* One more line stands, and it overrides each that stands no more.        *)
LEMMA CarriedOn ==
  ASSUME Carried, NEW k, k = cur.next, k \in 1 .. Len(lines),
         lines[k].kind = "CONFIG", lines \in Seq(PlannedLine),
         lines' = lines, cur'.next = k + 1, Stands(k)',
         \A j \in ConfigIndices(lines) : Stands(j) /\ ~Stands(j)' => Overrides(k, j)
  PROVE  Carried'
<1>1. ConfigIndices(lines)' = ConfigIndices(lines) /\ k \in ConfigIndices(lines)
      /\ ConfigIndices(lines) \subseteq Nat /\ k \in Nat
  BY DEF ConfigIndices
<1>2. \A m, j : Overrides(m, j)' <=> Overrides(m, j)
  BY DEF Overrides
<1> SUFFICES ASSUME NEW j \in ConfigIndices(lines), j < k + 1, ~Stands(j)'
             PROVE  \E m \in ConfigIndices(lines) :
                      m > j /\ m < k + 1 /\ Overrides(m, j)
  BY <1>1, <1>2 DEF Carried
<1>3. j < k
  BY <1>1
<1>4. \/ Stands(j)
      \/ \E m \in ConfigIndices(lines) : m > j /\ m < k /\ Overrides(m, j)
  BY <1>3 DEF Carried
<1>5. CASE Stands(j)
  BY <1>1, <1>3, <1>5
<1>6. CASE \E m \in ConfigIndices(lines) : m > j /\ m < k /\ Overrides(m, j)
  BY <1>1, <1>6
<1> QED BY <1>4, <1>5, <1>6

(* A mode command changes nothing in the configuration.                    *)
LEMMA CarryMode ==
  ASSUME TypeInv, ModeInv, CarryInv, SendMode
  PROVE  CarryInv'
<1> DEFINE k == cur.next
           l == lines[k]
           c == LineCommand(l)
<1>1. PICK a \in Answers(fam, dev, c) :
        /\ dev' = a.dev
        /\ \/ /\ a.reply # "error" /\ pc' = "apply"
              /\ cur'.next = k + 1 /\ cur'.marked = cur.marked
           \/ pc' \in {"rollback", "done"}
  BY SendGoesOn DEF Line
<1>2. /\ pc = "apply" /\ Applying /\ l.kind = "MODE" /\ lines' = lines
  BY DEF SendMode, Applying, Line
<1>3. /\ k \in 1 .. Len(lines) /\ l \in PlannedLine /\ lines \in Seq(PlannedLine)
      /\ dev.path \in Path /\ dev \in Device /\ fam \in Families
  BY <1>2, LineType DEF TypeInv, TypeOK, Device, Line
<1>4. CASE pc' \in {"rollback", "done"}
  BY <1>4 DEF CarryInv, Carrying, Sending
<1>5. CASE pc' = "apply" /\ cur'.next = k + 1 /\ cur'.marked = cur.marked
  <2> SUFFICES ASSUME Carrying'
               PROVE  /\ Carried'
                      /\ k + 1 <= Len(lines) => Reaches(lines, k + 1, dev'.path)
    BY <1>2, <1>5 DEF CarryInv
  <2>1. c \in CommandType /\ c.op = l.op
    BY <1>3, LineCommandType, <1>2 DEF LineCommand, Command
  <2>2. /\ dev.obeyed
        /\ dev' = dev \/ dev' = Effect(fam, dev, c)
    BY <1>1, <1>3, <2>1, AnswerObeyed DEF Carrying
  <2>3. Carried /\ Reaches(lines, k, dev.path)
    BY <1>2, <1>3, <1>5, <2>2 DEF CarryInv, Carrying, Sending
  <2>4. l.op \in {"enter", "leave", "exit"}
    BY <1>2, <1>3 DEF PlannedLine, LineOf
  <2>5. dev'.running = dev.running
    BY <1>3, <2>1, <2>2, <2>4 DEF Effect, Device
  <2>6. \A j \in ConfigIndices(lines) : j < k + 1 => j < k
    BY <1>2, <1>3 DEF ConfigIndices
  <2>7. Carried'
    BY <1>2, <1>3, <1>5, <2>3, <2>5, <2>6
       DEF Carried, Stands, Overrides, ConfigIndices
  <2>8. ASSUME k + 1 <= Len(lines) PROVE Reaches(lines, k + 1, dev'.path)
    <3>1. Fits(lines, k)
      BY <1>2, <1>3, <2>8 DEF ModeInv, Sending, PlanFits
    <3>2. l.op \in {"enter", "exit"}
      BY <2>4, <3>1 DEF Fits
    <3>3. CASE l.op = "enter"
      <4>1. Reaches(lines, k + 1, dev.path) /\ Reaches(lines, k + 1, << >>)
        BY <1>3, <2>3, <3>1, <3>3, ReachesStill
      <4>2. dev'.path = dev.path \/ dev'.path = << >>
        BY <1>3, <2>1, <2>2, <3>3 DEF Effect, Device
      <4> QED BY <4>1, <4>2
    <3>4. CASE l.op = "exit"
      <4>1. /\ dev.path # << >> /\ Reaches(lines, k + 1, Butlast(dev.path))
            /\ Reaches(lines, k + 1, dev.path)
        BY <1>3, <2>3, <3>1, <3>4, ReachesOut
      <4>2. dev'.path = dev.path \/ dev'.path = Butlast(dev.path)
        BY <1>3, <2>1, <2>2, <3>4, <4>1 DEF Effect, Device
      <4> QED BY <4>1, <4>2
    <3> QED BY <3>2, <3>3, <3>4
  <2> QED BY <2>7, <2>8
<1> QED BY <1>1, <1>4, <1>5

(* A configuration line stands once it was obeyed, and takes back only     *)
(* what it overrides.                                                      *)
LEMMA CarryLine ==
  ASSUME TypeInv, ModeInv, CarryInv, SendLine
  PROVE  CarryInv'
<1>0. PICK k : k = cur.next
  OBVIOUS
<1> USE <1>0
<1> DEFINE l == lines[k]
           c == LineCommand(l)
           d == l.depth
           parent == SubSeq(dev.path, 1, d)
           here == PathOf(lines, k)
<1>1. PICK a \in Answers(fam, dev, c) :
        /\ dev' = a.dev
        /\ \/ /\ a.reply # "error" /\ pc' = "apply" /\ cur'.next = k + 1
              /\ cur'.marked = (cur.marked \/ a.reply = "marker")
           \/ pc' \in {"rollback", "done"}
  BY SendGoesOn DEF Line
<1>2. /\ pc = "apply" /\ Applying /\ l.kind = "CONFIG" /\ lines' = lines
  BY DEF SendLine, Applying, Line
<1>3. /\ k \in 1 .. Len(lines) /\ l \in PlannedLine /\ lines \in Seq(PlannedLine)
      /\ dev.path \in Path /\ dev \in Device /\ fam \in Families
  BY <1>2, LineType DEF TypeInv, TypeOK, Device, Line
<1>4. CASE pc' \in {"rollback", "done"}
  BY <1>4 DEF CarryInv, Carrying, Sending
<1>5. CASE /\ a.reply # "error" /\ pc' = "apply" /\ cur'.next = k + 1
           /\ cur'.marked = (cur.marked \/ a.reply = "marker")
  <2> SUFFICES ASSUME Carrying'
               PROVE  /\ Carried'
                      /\ k + 1 <= Len(lines) => Reaches(lines, k + 1, dev'.path)
    BY <1>2, <1>5 DEF CarryInv
  <2>1. /\ c \in CommandType /\ c.op = l.op /\ c.item = l.item /\ c.depth = d
        /\ c.enters = l.enters /\ c.inert = (l.enters /\ l.inverse = "none")
    BY <1>2, <1>3, LineCommandType DEF LineCommand, Command
  <2>2. a.reply = "fine" /\ ~cur.marked
    <3>1. a.reply \in {"fine", "marker", "error"}
      BY <1>3, <2>1, AnswersType
    <3> QED BY <1>5, <3>1 DEF Carrying
  <2>3. dev.obeyed /\ dev' = Effect(fam, dev, c)
    BY <1>1, <1>3, <2>1, <2>2, AnswerObeyed DEF Carrying
  <2>4. Carried /\ Reaches(lines, k, dev.path)
    BY <1>2, <1>3, <2>2, <2>3 DEF CarryInv, Carrying, Sending
  <2>5. l.op \in {"set", "unset"}
    BY <1>2, <1>3 DEF PlannedLine, LineOf
  <2>6. Fits(lines, k)
    BY <1>2, <1>3, <2>5 DEF ModeInv, Sending, PlanFits
  <2>7. /\ parent = SectionOf(lines, k)
        /\ Reaches(lines, k + 1, IF l.enters THEN Append(parent, l.item)
                                 ELSE parent)
    BY <1>2, <1>3, <2>4, <2>6, ReachesIn
  <2>8. here = Append(parent, l.item)
    BY <2>7 DEF PathOf
  <2> HIDE DEF here, parent, c
  <2>9. CASE l.op = "set"
    <3>1. /\ dev'.running = IF l.enters /\ l.inverse = "none" THEN dev.running
                            ELSE dev.running \cup {here}
          /\ dev'.path = IF l.enters THEN Append(parent, l.item) ELSE parent
      BY <1>3, <2>1, <2>3, <2>8, <2>9 DEF Effect, Device, parent
    <3>2. Stands(k)'
      BY <1>2, <2>9, <3>1 DEF Stands, here
    <3>3. ASSUME NEW j \in ConfigIndices(lines), Stands(j), ~Stands(j)'
          PROVE  Overrides(k, j)
      <4>1. lines[j].op = "unset" /\ \A p \in dev.running :
                                       ~IsPrefix(PathOf(lines, j), p)
        BY <1>2, <3>1, <3>3 DEF Stands
      <4>2. PICK p \in dev'.running : IsPrefix(PathOf(lines, j), p)
        BY <1>2, <3>3, <4>1 DEF Stands
      <4>3. p = here
        BY <3>1, <4>1, <4>2
      <4> QED BY <2>9, <4>1, <4>2, <4>3 DEF Overrides, here
    <3>4. Carried'
      BY <1>2, <1>3, <1>5, <2>4, <3>2, <3>3, CarriedOn
    <3>5. Reaches(lines, k + 1, dev'.path)
      BY <2>7, <3>1, <3>2
    <3> QED BY <3>4, <3>5
  <2>10. CASE l.op = "unset"
    <3>1. /\ dev'.running = {p \in dev.running : ~IsPrefix(here, p)}
          /\ dev'.path = parent
      <4>1. dev' = [dev EXCEPT !.running = {p \in @ : ~IsPrefix(here, p)},
                               !.path = parent]
        BY <2>1, <2>3, <2>8, <2>10 DEF Effect, parent
      <4> QED BY <1>3, <4>1, SMTT(60) DEF Device
    <3>2. Stands(k)' /\ ~l.enters
      BY <1>2, <2>6, <2>10, <3>1 DEF Stands, Fits, here
    <3>3. ASSUME NEW j \in ConfigIndices(lines), Stands(j), ~Stands(j)'
          PROVE  Overrides(k, j)
      <4>1. CASE lines[j].op = "unset"
        BY <1>2, <3>1, <3>3, <4>1 DEF Stands
      <4>2. CASE lines[j].op # "unset"
        <5>1. lines[j] \in PlannedLine /\ lines[j].kind = "CONFIG"
          BY <1>3, ElementOfSeq DEF ConfigIndices
        <5>2. lines[j].op = "set"
          BY <4>2, <5>1 DEF PlannedLine, LineOf
        <5>3. PathOf(lines, j) \in dev.running /\ PathOf(lines, j) \notin dev'.running
          BY <1>2, <3>3, <4>2 DEF Stands
        <5>4. IsPrefix(here, PathOf(lines, j))
          BY <3>1, <5>3
        <5> QED BY <2>10, <5>2, <5>4 DEF Overrides, here
      <4> QED BY <4>1, <4>2
    <3>4. Carried'
      BY <1>2, <1>3, <1>5, <2>4, <3>2, <3>3, CarriedOn
    <3>5. Reaches(lines, k + 1, dev'.path)
      BY <2>7, <3>1, <3>2
    <3> QED BY <3>4, <3>5
  <2> QED BY <2>5, <2>9, <2>10
<1> QED BY <1>1, <1>4, <1>5

(* What the other steps leave as it is.                                    *)
LEMMA CarryKeeps ==
  ASSUME CarryInv, UNCHANGED lines, cur'.next = cur.next,
         cur'.marked = cur.marked, dev'.running = dev.running,
         dev'.path = dev.path \/ pc' = "persist",
         dev'.obeyed => dev.obeyed,
         pc \in Sending \cup {"verify", "persist"},
         pc' \in {"verify", "persist"} => cur.next > Len(lines),
         pc' = "persist" /\ req'.verify => ~cur.marked,
         cur.next \in Nat, lines \in Seq(PlannedLine)
  PROVE  CarryInv'
<1>1. Carried => Carried'
  BY DEF Carried, Stands, Overrides, ConfigIndices
<1>2. CASE Carrying'
  <2>1. Carried /\ (cur.next <= Len(lines)
                      => Reaches(lines, cur.next, dev.path))
    BY <1>2 DEF Carrying, CarryInv
  <2>2. Len(lines) \in Nat
    BY LenProperties
  <2>3. cur.next <= Len(lines) => dev'.path = dev.path
    BY <2>2
  <2> QED BY <1>1, <2>1, <2>3 DEF CarryInv
<1>3. CASE ~Carrying'
  BY <1>3 DEF CarryInv
<1> QED BY <1>2, <1>3

LEMMA CarryStep == ASSUME TypeInv, ModeInv, CarryInv, [Next]_vars PROVE CarryInv'
<1>0. cur \in Cursor /\ cur.next \in Nat /\ lines \in Seq(PlannedLine)
      /\ dev \in Device
  BY DEF TypeInv, TypeOK, Cursor
<1>1. CASE \E r \in Requests : Call(r)
  BY <1>1, CarryCall
<1>2. CASE \/ RejectPlan \/ VerifyRefused \/ FinishWithoutSave \/ SaveChange
           \/ RecordManual \/ Unwind \/ SendInverse \/ LeaveModes
           \/ ConfirmRollback
  <2>1. pc' \in {"done", "rollback"}
    BY <1>2, RejectPlanEnds, VerifyRefusedEnds, PersistEnds, UndoStepEnds,
       ConfirmEnds
  <2> QED BY <2>1 DEF CarryInv, Carrying, Sending
<1>3. CASE GateChange \/ ReadBaseline \/ ReadAfter
  <2>1. /\ UNCHANGED <<dev, lines, cur, req>> /\ pc \in Sending
        /\ pc' \in {"done", "baseline", "apply", "verify", "persist"}
        /\ pc' \in {"verify", "persist"} => cur.next > Len(lines)
        /\ pc' = "persist" => ~req.verify
    BY <1>3 DEF GateChange, ReadBaseline, ReadAfter, Quiet, Continue, Close,
       Sending
  <2> QED BY <1>0, <2>1, CarryKeeps
<1>4. CASE SkipComment
  BY <1>4, CarrySkip
<1>5. CASE SendMode \/ SendLine
  BY <1>5, CarryMode, CarryLine
<1>6. CASE VerifyState
  <2>1. CASE pc' # "persist"
    <3>1. pc' \in {"done", "rollback"}
      BY <1>6, <2>1, VerifyStateEnds
    <3> QED BY <3>1 DEF CarryInv, Carrying, Sending
  <2>2. CASE pc' = "persist"
    <3>1. /\ pc = "verify" /\ ~cur.marked /\ UNCHANGED <<dev, lines, req>>
      BY <1>6 DEF VerifyState, Quiet
    <3>2. cur.next > Len(lines)
      BY <3>1 DEF CarryInv
    <3>3. cur' = [cur EXCEPT !.verified = TRUE]
      BY <1>6, <2>2 DEF VerifyState, StartRollback, Continue, Close
    <3>4. cur'.next = cur.next /\ cur'.marked = cur.marked
      BY <1>0, <3>3 DEF Cursor
    <3> QED BY <1>0, <3>1, <3>2, <3>4, CarryKeeps
  <2> QED BY <2>1, <2>2
<1>7. CASE Reload
  <2>1. UNCHANGED <<pc, req, lines, cur>> /\ ~dev'.obeyed
    BY <1>0, <1>7 DEF Reload, Device
  <2> QED BY <2>1 DEF CarryInv, Carrying
<1>8. CASE UNCHANGED vars
  <2>1. UNCHANGED <<dev, pc, req, lines, cur>>
    BY <1>8 DEF vars
  <2>2. CASE pc \in Sending \cup {"verify", "persist"}
    BY <1>0, <2>1, <2>2, CarryKeeps DEF CarryInv, Sending
  <2>3. CASE pc \notin Sending \cup {"verify", "persist"}
    BY <2>1, <2>3 DEF CarryInv, Carrying
  <2> QED BY <2>2, <2>3
<1> QED BY <1>1, <1>2, <1>3, <1>4, <1>5, <1>6, <1>7, <1>8
        DEF Next, Step, Finished

(* A change ends as APPLIED only from the save, with every line in place.  *)
LEMMA InPlaceStep ==
  ASSUME TypeInv, CarryInv, AppliedIsInPlace, [Next]_vars
  PROVE  AppliedIsInPlace'
<1>1. CASE \E r \in Requests : Call(r)
  BY <1>1 DEF Call, AppliedIsInPlace
<1>2. CASE FinishWithoutSave \/ SaveChange
  <2>1. /\ pc = "persist" /\ cur' = cur /\ lines' = lines /\ req' = req
    BY <1>2, PersistEnds DEF FinishWithoutSave, SaveChange, Quiet
  <2>2. /\ dev'.running = dev.running
        /\ dev'.obeyed => dev.obeyed
    <3>1. CASE FinishWithoutSave
      BY <3>1 DEF FinishWithoutSave, Quiet
    <3>2. CASE SaveChange
      <4>1. PICK a \in Answers(fam, dev, Save) : dev' = a.dev
        BY <3>2 DEF SaveChange
      <4>2. fam \in Families /\ dev \in Device /\ Save \in CommandType
            /\ Save.op = "save"
        BY ConstantCommandType DEF TypeInv, TypeOK, Save, Command
      <4>3. Effect(fam, dev, Save).running = dev.running
        BY <4>2, EffectOnStartup DEF Device
      <4>4. \/ a.dev = dev \/ a.dev = [dev EXCEPT !.obeyed = FALSE]
            \/ a.dev = Effect(fam, dev, Save)
        BY <4>2, AnswersType
      <4>5. [dev EXCEPT !.obeyed = FALSE].running = dev.running
        BY <4>2 DEF Device
      <4>6. a.dev.obeyed => dev.obeyed
        BY <4>2, AnswerObeyed
      <4> QED BY <4>1, <4>3, <4>4, <4>5, <4>6
    <3> QED BY <1>2, <3>1, <3>2
  <2>3. ASSUME req.verify, dev'.obeyed
        PROVE  \A k \in ConfigIndices(lines) :
                 \/ Stands(k)
                 \/ \E m \in ConfigIndices(lines) : m > k /\ Overrides(m, k)
    <3>1. Carried /\ cur.next > Len(lines)
      BY <2>1, <2>2, <2>3 DEF CarryInv, Carrying
    <3>2. \A k \in ConfigIndices(lines) : k < cur.next
      <4>1. lines \in Seq(PlannedLine) /\ cur.next \in Nat /\ Len(lines) \in Nat
        BY LenProperties DEF TypeInv, TypeOK, Cursor
      <4>2. \A k \in ConfigIndices(lines) : k \in 1 .. Len(lines)
        BY <4>1 DEF ConfigIndices
      <4> QED BY <3>1, <4>1, <4>2
    <3> QED BY <3>1, <3>2 DEF Carried
  <2> QED BY <2>1, <2>2, <2>3
          DEF AppliedIsInPlace, Stands, Overrides, ConfigIndices
<1>3. CASE UNCHANGED vars
  BY <1>3 DEF vars, AppliedIsInPlace, Stands, Overrides, ConfigIndices
<1>4. CASE Reload
  BY <1>4 DEF Reload, AppliedIsInPlace
<1> QED BY <1>1, <1>2, <1>3, <1>4, RejectPlanEnds, GateChangeEnds, ReadEnds,
        SendEnds, VerifyRefusedEnds, VerifyStateEnds, UndoStepEnds, ConfirmEnds
        DEF Next, Step, Finished, AppliedIsInPlace

(* A change reported APPLIED with verification stands on the device line   *)
(* by line, in the sections it was indented under, on a device that        *)
(* ignored no line without a word and did not reload: whatever it refused, *)
(* and whatever commands, replies or readbacks were lost, and although the *)
(* readback of _verify_state_present looks for the text of a line anywhere.*)
THEOREM AppliedStands == Spec => []AppliedIsInPlace
<1>1. Init => TypeInv /\ ModeInv /\ CarryInv /\ AppliedIsInPlace
  BY TypeInit DEF Init, ModeInv, Followed, Sending, CarryInv, Carrying,
     AppliedIsInPlace
<1>2. TypeInv /\ ModeInv /\ CarryInv /\ AppliedIsInPlace /\ [Next]_vars
        => TypeInv' /\ ModeInv' /\ CarryInv' /\ AppliedIsInPlace'
  BY TypeStep, ModeStep, CarryStep, InPlaceStep
<1> QED BY <1>1, <1>2, PTL DEF Spec

-----------------------------------------------------------------------------
(* A change that is in place is applied again: in an undisturbed session   *)
(* nothing is touched, up to a readback that is refused.                   *)

Again == calm /\ \A k \in ConfigIndices(lines) : InPlace(lines, k, base)
Untouched ==
  Again /\ ~Misread =>
    /\ dev.running = base /\ pc # "rollback" /\ ~cur.marked
    /\ pc \in {"gate", "baseline"} => AtExec(dev)
    /\ pc \in {"apply", "verify"} =>
         rec.before = IF fam.capture THEN HashOf(base) ELSE NoHash
    /\ rec.checked => rec.already
    /\ pc = "done" => rec.outcome \notin {"ROLLED_BACK", "ROLLBACK_FAILED"}

(* Without a fault an answer is what the device does.                      *)
LEMMA AnswerCalm ==
  ASSUME NEW f, NEW d, NEW c, NEW a \in Answers(f, d, c), a.fault = 0
  PROVE  /\ a.dev = IF Accepts(f, d, c) THEN Effect(f, d, c) ELSE d
         /\ a.reply = IF Accepts(f, d, c) THEN "fine" ELSE "marker"
BY DEF Answers

LEMMA ReadCalm ==
  ASSUME NEW f, NEW d, NEW h \in Reads(f, d), h.fault = 0
  PROVE  /\ h.hash = (IF f.capture THEN HashOf(d.running) ELSE NoHash)
            \/ (f.capture /\ ~AtExec(d) /\ h.hash = OfRefusal)
BY DEF Reads

(* A change that goes on, or is closed, without a fault.                   *)
LEMMA CalmBudget ==
  ASSUME NEW m, Faults(m), calm'
  PROVE  calm /\ m = 0
<1>1. calm' = (calm /\ m = 0)
  BY DEF Faults
<1> QED BY <1>1, Zenon

LEMMA StaysCalm ==
  ASSUME NEW n \in {0, 1}, NEW r, NEW ph,
         Close(r, n) \/ Continue(ph, n), calm'
  PROVE  calm /\ n = 0
<1>1. CASE Close(r, n)
  <2>1. PICK w \in LedgerWrites : Faults(n + w.fault)
    BY <1>1 DEF Close
  <2>2. w.fault \in {0, 1}
    BY DEF LedgerWrites
  <2>3. calm /\ n + w.fault = 0
    BY <2>1, CalmBudget
  <2> QED BY <2>2, <2>3
<1>2. CASE Continue(ph, n)
  BY <1>2, CalmBudget DEF Continue
<1> QED BY <1>1, <1>2

(* The text of a configuration holds the last line of each of its paths.   *)
LEMMA TextHas ==
  ASSUME NEW c \in Config, NEW p \in c, NEW k \in 1 .. Len(p)
  PROVE  p[k] \in Text(c)
<1>1. p \in Seq(Items)
  BY DEF Config, Path
<1>2. k \in DOMAIN p
  BY <1>1
<1> QED BY <1>2 DEF Text

(* Typing a line that is in place changes nothing, and is accepted.        *)
LEMMA LineInPlace ==
  ASSUME TypeInv, ModeInv, calm, Applying, Line.kind = "CONFIG",
         InPlace(lines, cur.next, dev.running)
  PROVE  /\ Accepts(fam, dev, LineCommand(Line))
         /\ Effect(fam, dev, LineCommand(Line)).running = dev.running
<1> DEFINE k == cur.next
           l == lines[k]
           c == LineCommand(l)
           d == l.depth
           parent == SubSeq(dev.path, 1, d)
           section == SectionOf(lines, k)
           here == Append(parent, l.item)
<1>1. /\ k \in 1 .. Len(lines) /\ l \in PlannedLine /\ Line = l
      /\ dev.path \in Seq(Items) /\ dev \in Device /\ dev.running \in Config
  BY LineType DEF TypeInv, TypeOK, Device, Path, Line
<1>2. /\ InConfig(fam, dev)
      /\ \/ dev.path = section
         \/ dev.path # << >> /\ Butlast(dev.path) = section
  BY ModeInvTyped DEF TypedInItsMode
<1>3. d \in Nat /\ l.item \in Items /\ l.op \in {"set", "unset"}
  BY <1>1 DEF PlannedLine, LineOf
<1>4. /\ c.op = l.op /\ c.item = l.item /\ c.depth = d /\ c.enters = l.enters
      /\ c.inert = (l.enters /\ l.inverse = "none")
  BY DEF LineCommand, Command
<1>5. section = [j \in 1 .. d |-> section[j]]
  BY DEF SectionOf
<1>6. Len(dev.path) >= d /\ parent = section
  <2> HIDE DEF d, k, l, section
  <2>1. CASE dev.path = section
    <3>1. Len(dev.path) = d
      BY <1>1, <1>3, <1>5, <2>1
    <3> QED BY <1>1, <1>3, <1>5, <2>1, <3>1
  <2>2. CASE dev.path # << >> /\ Butlast(dev.path) = section
    <3>1. Len(dev.path) \in Nat /\ Len(dev.path) >= 1
      BY <1>1, <2>2, EmptySeq, LenProperties
    <3>2. section = [j \in 1 .. Len(dev.path) - 1 |-> dev.path[j]]
      BY <1>1, <2>2, <3>1 DEF Butlast
    <3>3. Len(dev.path) - 1 = d
      BY <1>3, <1>5, <3>1, <3>2
    <3> QED BY <1>1, <1>3, <2>2, <3>1, <3>3 DEF Butlast
  <2> QED BY <1>2, <2>1, <2>2
<1>7. Accepts(fam, dev, c)
  BY <1>2, <1>3, <1>4, <1>6 DEF Accepts
<1>8. here = PathOf(lines, k)
  BY <1>6 DEF PathOf
<1>9. CASE l.op = "set"
  <2>1. c.inert \/ here \in dev.running
    BY <1>4, <1>8, <1>9 DEF InPlace
  <2> HIDE DEF k, l, d, section, c
  <2>2. Effect(fam, dev, c).running = IF c.inert THEN dev.running
                                      ELSE dev.running \cup {here}
    BY <1>1, <1>4, <1>9 DEF Effect, Device
  <2> QED BY <1>1, <1>7, <2>1, <2>2 DEF c, l, Line
<1>10. CASE l.op = "unset"
  <2>1. l.item \notin Text(dev.running)
    BY <1>10 DEF InPlace
  <2>2. ASSUME NEW p \in dev.running PROVE ~IsPrefix(here, p)
    <3> SUFFICES ASSUME IsPrefix(here, p) PROVE FALSE
      OBVIOUS
    <3>1. p \in Seq(Items)
      BY <1>1 DEF Config, Path
    <3>2. parent \in Seq(Items) /\ Len(parent) = d
      BY <1>1, <1>3, <1>6, SubSeqProperties
    <3> HIDE DEF k, l, d, section, c, parent
    <3>3. here \in Seq(Items) /\ Len(here) = d + 1 /\ here[d + 1] = l.item
      BY <1>3, <3>2
    <3>4. Len(here) <= Len(p) /\ SubSeq(p, 1, Len(here)) = here
      BY DEF IsPrefix
    <3>5. d + 1 \in 1 .. Len(p) /\ p[d + 1] = l.item
      BY <1>3, <3>1, <3>3, <3>4
    <3> QED BY <1>1, <2>1, <3>5, TextHas
  <2> HIDE DEF k, l, d, section, c
  <2>3. Effect(fam, dev, c).running = {p \in dev.running : ~IsPrefix(here, p)}
    BY <1>1, <1>4, <1>10 DEF Effect, Device
  <2> QED BY <1>1, <1>7, <2>2, <2>3 DEF c, l, Line
<1> QED BY <1>3, <1>9, <1>10

(* The state that an undisturbed step leaves.                              *)
LEMMA AgainStays ==
  ASSUME Again', UNCHANGED <<lines, base>>, calm' => calm
  PROVE  Again
BY DEF Again

LEMMA CaughtEarly ==
  ASSUME TypeInv, NEW r \in Record, NEW depth \in Nat, NEW n \in {0, 1},
         StartRollback(r, depth, n), calm'
  PROVE  calm /\ n = 0 /\ rec'.checked = r.checked /\ rec'.after = r.after
<1>1. CASE Applied = {}
  <2> DEFINE q == [r EXCEPT !.outcome = "ROLLED_BACK", !.undone = r.before]
  <2>1. q \in Record /\ q.checked = r.checked /\ q.after = r.after
    BY DEF Record, Outcomes
  <2>2. Close(q, n)
    BY <1>1 DEF StartRollback
  <2> HIDE DEF q
  <2> QED BY <2>1, <2>2, StaysCalm, CloseKeeps DEF TypeInv
<1>2. CASE Applied # {}
  <2>1. Continue("rollback", n) /\ rec' = r
    BY <1>2 DEF StartRollback
  <2> QED BY <2>1, StaysCalm
<1> QED BY <1>1, <1>2

LEMMA AgainCall ==
  ASSUME TypeInv, NEW r \in Requests, Call(r)
  PROVE  Untouched'
<1>1. /\ rec' = NewRecord /\ cur' = NewCursor /\ base' = dev.running
      /\ calm' = AtExec(dev') /\ pc' \in {"gate", "refused"}
      /\ dev'.running = dev.running
  BY DEF Call, TypeInv, TypeOK, Device
<1>2. AtExec(dev)' = AtExec(dev')
  BY DEF AtExec
<1> QED BY <1>1, <1>2 DEF Untouched, Again, NewRecord, NewCursor

Ending(c, o) == [Caused(rec, c) EXCEPT !.outcome = o]

LEMMA EndingType ==
  ASSUME TypeInv, NEW c \in Causes, NEW o \in Outcomes
  PROVE  /\ Ending(c, o) \in Record /\ Ending(c, o).outcome = o
         /\ Ending(c, o).checked = rec.checked
         /\ Ending(c, o).after = rec.after
         /\ Ending(c, o).already = rec.already
<1>1. Caused(rec, c) \in Record
  BY CausedType DEF TypeInv, TypeOK
<1>2. /\ Caused(rec, c).checked = rec.checked /\ Caused(rec, c).after = rec.after
      /\ Caused(rec, c).already = rec.already
  BY DEF TypeInv, TypeOK, Record, Caused
<1> QED BY <1>1, <1>2 DEF Record, Ending

LEMMA AgainGate ==
  ASSUME TypeInv, Untouched, RejectPlan \/ GateChange
  PROVE  Untouched'
<1>1. \/ /\ pc' = "done" /\ rec'.outcome \in {"REJECTED", "DRY_RUN"}
      \/ pc = "gate" /\ pc' = "baseline" /\ rec' = rec
  BY RejectPlanEnds, GateChangeEnds
<1>2. /\ UNCHANGED <<dev, fam, lines, base, cur>>
      /\ rec'.checked = rec.checked /\ rec'.after = rec.after
      /\ rec'.already = rec.already
      /\ calm' => calm
  <2>1. PICK c \in Causes, o \in {"REJECTED", "DRY_RUN"} :
          /\ Close(Ending(c, o), 0) \/ (Continue("baseline", 0) /\ rec' = rec)
          /\ UNCHANGED <<dev, fam, lines, base, cur>>
    BY DEF RejectPlan, GateChange, Quiet, Ending, Causes
  <2>2. o \in Outcomes
    BY DEF Outcomes
  <2>3. CASE Continue("baseline", 0) /\ rec' = rec
    BY <2>1, <2>3, StaysCalm
  <2>4. CASE Close(Ending(c, o), 0)
    <3>1. /\ rec'.checked = rec.checked /\ rec'.after = rec.after
          /\ rec'.already = rec.already
      BY <2>2, <2>4, EndingType, CloseKeeps DEF TypeInv
    <3>2. calm' => calm
      BY <2>4, StaysCalm
    <3> QED BY <2>1, <3>1, <3>2
  <2> QED BY <2>1, <2>3, <2>4
<1>3. Again' => Again
  BY <1>2, AgainStays
<1> QED BY <1>1, <1>2, <1>3 DEF Untouched, Misread, AtExec

LEMMA AgainRead ==
  ASSUME TypeInv, Untouched, ReadBaseline \/ ReadAfter, Unchecked
  PROVE  Untouched'
<1>1. PICK h \in Reads(fam, dev) :
        \/ /\ pc = "baseline" /\ Continue("apply", h.fault)
           /\ rec' = [rec EXCEPT !.before = h.hash]
        \/ /\ pc = "apply"
           /\ Continue(IF req.verify THEN "verify" ELSE "persist", h.fault)
           /\ rec' = [rec EXCEPT !.after = h.hash]
  BY DEF ReadBaseline, ReadAfter
<1>2. UNCHANGED <<dev, fam, lines, base, cur>>
  BY DEF ReadBaseline, ReadAfter, Quiet
<1>3. h.fault \in {0, 1} /\ rec \in Record
  BY ReadsType DEF TypeInv, TypeOK
<1>4. calm' => calm /\ h.fault = 0
  BY <1>1, <1>3, StaysCalm
<1>5. Again' => Again
  BY <1>2, <1>4, AgainStays
<1>6. /\ ~rec.checked /\ rec'.checked = rec.checked
      /\ pc' \in {"apply", "verify", "persist"}
  BY <1>1, <1>3 DEF Unchecked, Record, Continue
<1> SUFFICES ASSUME Again' PROVE Untouched'
  BY DEF Untouched
<1>7. Again /\ calm' /\ ~Misread
  BY <1>5, <1>6 DEF Misread, Again
<1>8. CASE pc = "baseline"
  <2>1. AtExec(dev) /\ dev.running = base
    BY <1>7, <1>8 DEF Untouched
  <2>2. h.hash = IF fam.capture THEN HashOf(dev.running) ELSE NoHash
    BY <1>4, <1>7, <2>1, ReadCalm
  <2>3. pc' = "apply" /\ rec'.before = h.hash
    BY <1>1, <1>3, <1>8 DEF Continue, Record
  <2> QED BY <1>2, <1>6, <1>7, <2>1, <2>2, <2>3 DEF Untouched
<1>9. CASE pc = "apply"
  <2>1. rec'.before = rec.before
    BY <1>1, <1>3, <1>9 DEF Record
  <2> QED BY <1>2, <1>6, <1>7, <1>9, <2>1 DEF Untouched
<1> QED BY <1>1, <1>8, <1>9

(* Mode commands do not touch the configuration, lines in place neither.   *)
LEMMA AgainSend ==
  ASSUME TypeInv, ModeInv, Untouched, Unchecked, SendMode \/ SendLine
  PROVE  Untouched'
<1> DEFINE c == LineCommand(Line)
<1>1. PICK a \in Answers(fam, dev, c) :
        /\ dev' = a.dev
        /\ \/ /\ a.reply # "error" /\ Continue("apply", a.fault) /\ UNCHANGED rec
              /\ SendMode => cur'.marked = cur.marked
              /\ SendLine => cur'.marked = (cur.marked \/ a.reply = "marker")
           \/ a.reply = "error"
              /\ StartRollback(Caused(rec, "COMMAND_FAILED"), cur.depth, a.fault)
  <2>1. cur \in Cursor
    BY DEF TypeInv, TypeOK
  <2>2. CASE SendMode
    <3>1. ~SendLine
      BY <2>2 DEF SendMode, SendLine
    <3>2. PICK a \in Answers(fam, dev, c) :
            /\ dev' = a.dev
            /\ \/ /\ a.reply # "error"
                  /\ Continue("apply", a.fault) /\ UNCHANGED rec
                  /\ Advance(IF Line.op = "exit" THEN Line.depth ELSE cur.depth)
               \/ /\ a.reply = "error"
                  /\ StartRollback(Caused(rec, "COMMAND_FAILED"), cur.depth, a.fault)
      BY <2>2 DEF SendMode
    <3>3. a.reply # "error" => cur'.marked = cur.marked
      BY <2>1, <3>2 DEF Advance, Cursor
    <3> QED BY <3>1, <3>2, <3>3
  <2>3. CASE SendLine
    <3>1. ~SendMode
      BY <2>3 DEF SendMode, SendLine
    <3>2. PICK a \in Answers(fam, dev, c) :
            /\ dev' = a.dev
            /\ \/ /\ a.reply # "error"
                  /\ Continue("apply", a.fault) /\ UNCHANGED rec
                  /\ cur' = [cur EXCEPT !.next = @ + 1,
                          !.depth = Line.depth + (IF Line.enters THEN 1 ELSE 0),
                          !.marked = @ \/ a.reply = "marker"]
               \/ /\ a.reply = "error"
                  /\ StartRollback(Caused(rec, "COMMAND_FAILED"), cur.depth, a.fault)
      BY <2>3 DEF SendLine
    <3>3. a.reply # "error" => cur'.marked = (cur.marked \/ a.reply = "marker")
      BY <2>1, <3>2 DEF Cursor
    <3> QED BY <3>1, <3>2, <3>3
  <2> QED BY <2>2, <2>3
<1>2. /\ pc = "apply" /\ Applying /\ Line.kind \in {"MODE", "CONFIG"}
      /\ SendMode => Line.kind = "MODE"
      /\ SendLine => Line.kind = "CONFIG"
      /\ UNCHANGED <<fam, lines, base>>
  BY DEF SendMode, SendLine, Applying
<1>3. /\ Line \in PlannedLine /\ cur.next \in 1 .. Len(lines)
      /\ dev \in Device /\ fam \in Families /\ rec \in Record
      /\ c \in CommandType
  BY <1>2, LineType, LineCommandType DEF TypeInv, TypeOK
<1>4. a.fault \in {0, 1}
  BY <1>3, AnswersType
<1>5. a.reply = "error" => a.fault = 1
  BY DEF Answers
<1>6. calm' => calm /\ a.fault = 0 /\ a.reply # "error"
  <2>1. CASE Continue("apply", a.fault) /\ a.reply # "error"
    BY <1>4, <2>1, StaysCalm
  <2>2. CASE a.reply = "error"
             /\ StartRollback(Caused(rec, "COMMAND_FAILED"), cur.depth, a.fault)
    <3>1. Caused(rec, "COMMAND_FAILED") \in Record /\ cur.depth \in Nat
      BY <1>3, CausedType DEF TypeInv, TypeOK, Causes, Cursor
    <3>2. calm' => a.fault = 0
      BY <1>4, <2>2, <3>1, CaughtEarly
    <3> QED BY <1>5, <2>2, <3>2
  <2> QED BY <1>1, <2>1, <2>2
<1> SUFFICES ASSUME Again' PROVE Untouched'
  BY DEF Untouched
<1>7. Again /\ calm' /\ calm /\ a.fault = 0 /\ a.reply # "error"
  BY <1>2, <1>6, AgainStays DEF Again
<1>8. ~Misread /\ ~rec.checked
  BY <1>2 DEF Unchecked, Misread
<1>9. /\ dev.running = base /\ ~cur.marked
      /\ rec.before = IF fam.capture THEN HashOf(base) ELSE NoHash
  BY <1>2, <1>7, <1>8 DEF Untouched
<1>10. /\ a.dev = IF Accepts(fam, dev, c) THEN Effect(fam, dev, c) ELSE dev
       /\ a.reply = IF Accepts(fam, dev, c) THEN "fine" ELSE "marker"
  BY <1>7, AnswerCalm
<1>11. /\ pc' = "apply" /\ rec' = rec
       /\ SendMode => cur'.marked = cur.marked
       /\ SendLine => cur'.marked = (cur.marked \/ a.reply = "marker")
  BY <1>1, <1>7 DEF Continue
<1>12. dev'.running = base /\ ~cur'.marked
  <2>1. CASE SendMode
    <3>1. c.op \in {"enter", "leave", "exit"}
      BY <1>2, <1>3, <2>1 DEF LineCommand, Command, PlannedLine, LineOf
    <3>2. Effect(fam, dev, c).running = dev.running
      <4> HIDE DEF c
      <4> QED BY <1>3, <3>1 DEF Effect, Device
    <3> QED BY <1>1, <1>9, <1>10, <1>11, <2>1, <3>2
  <2>2. CASE SendLine
    <3>1. InPlace(lines, cur.next, dev.running)
      <4>1. cur.next \in ConfigIndices(lines)
        BY <1>2, <1>3, <2>2 DEF ConfigIndices, Line
      <4> QED BY <1>7, <1>9, <4>1 DEF Again
    <3>2. /\ Accepts(fam, dev, c)
          /\ Effect(fam, dev, c).running = dev.running
      BY <1>2, <1>7, <2>2, <3>1, LineInPlace
    <3>3. a.reply = "fine" /\ a.dev = Effect(fam, dev, c)
      BY <1>10, <3>2
    <3> QED BY <1>1, <1>9, <1>11, <2>2, <3>2, <3>3
  <2> QED BY <2>1, <2>2
<1> QED BY <1>2, <1>8, <1>9, <1>11, <1>12 DEF Untouched

LEMMA AgainSkip ==
  ASSUME TypeInv, Untouched, SkipComment
  PROVE  Untouched'
<1>1. /\ UNCHANGED <<pc, rec, dev, fam, lines, base, calm>>
      /\ cur'.marked = cur.marked
  BY DEF SkipComment, Advance, Quiet, TypeInv, TypeOK, Cursor
<1> QED BY <1>1 DEF Untouched, Again, Misread, AtExec

(* A line in place is found by the readback.                               *)
LEMMA NothingAbsent ==
  ASSUME TypeInv,
         \A k \in ConfigIndices(lines) : InPlace(lines, k, base)
  PROVE  StateAbsent(Applied, Text(base)) = {}
BY DEF StateAbsent, InPlace, Applied

LEMMA AgainVerify ==
  ASSUME TypeInv, Untouched, Unchecked, VerifyRefused \/ VerifyState
  PROVE  Untouched'
<1>1. /\ pc = "verify" /\ ~rec.checked /\ ~Misread /\ rec \in Record
      /\ UNCHANGED <<dev, fam, lines, base>>
  BY DEF VerifyRefused, VerifyState, Quiet, Unchecked, Misread, TypeInv, TypeOK
<1>2. CASE VerifyRefused
  <2>1. StartRollback(Caused(rec, "VERIFY_FAILED"), 0, 0) /\ cur.marked
    BY <1>2 DEF VerifyRefused
  <2>2. Caused(rec, "VERIFY_FAILED") \in Record
    BY CausedType DEF TypeInv, TypeOK, Causes
  <2>3. calm' => calm
    BY <2>1, <2>2, CaughtEarly
  <2>4. ~Again'
    BY <1>1, <2>1, <2>3, AgainStays DEF Untouched
  <2> QED BY <2>4 DEF Untouched
<1>3. CASE VerifyState
  <2> DEFINE absent(h) == StateAbsent(Applied, Text(h.hash.config))
             r(h) == [rec EXCEPT !.after = h.hash, !.checked = TRUE,
                        !.already = /\ rec.before.kind # "none" /\ absent(h) = {}
                                    /\ h.hash = rec.before]
  <2>1. PICK h \in Reads(fam, dev) :
          \/ /\ Continue("persist", h.fault) /\ UNCHANGED rec
             /\ cur' = [cur EXCEPT !.verified = TRUE]
          \/ /\ Continue("persist", h.fault) /\ rec' = r(h)
             /\ cur' = [cur EXCEPT !.verified = TRUE]
             /\ h.hash.kind # "none"
          \/ /\ StartRollback(Caused(r(h), "VERIFY_FAILED"), 0, h.fault)
             /\ h.hash.kind # "none" /\ ~Verified(rec.before, h.hash, absent(h))
    BY <1>3 DEF VerifyState
  <2>2. h.hash \in Hash /\ h.fault \in {0, 1}
    BY ReadsType DEF TypeInv, TypeOK
  <2>3. /\ r(h) \in Record /\ r(h).after = h.hash /\ r(h).checked
        /\ r(h).already = (/\ rec.before.kind # "none" /\ absent(h) = {}
                            /\ h.hash = rec.before)
    BY <1>1, <2>2 DEF Record
  <2> HIDE DEF r
  <2>4. /\ Caused(r(h), "VERIFY_FAILED") \in Record
        /\ Caused(r(h), "VERIFY_FAILED").after = h.hash
        /\ Caused(r(h), "VERIFY_FAILED").checked
    <3>1. "VERIFY_FAILED" \in Causes
      BY DEF Causes
    <3>2. Caused(r(h), "VERIFY_FAILED") \in Record
      BY <2>3, <3>1, CausedType
    <3> QED BY <2>3, <3>2 DEF Caused, Record
  <2>5. calm' => calm /\ h.fault = 0
    <3>1. CASE Continue("persist", h.fault)
      BY <2>2, <3>1, StaysCalm
    <3>2. CASE StartRollback(Caused(r(h), "VERIFY_FAILED"), 0, h.fault)
      BY <2>2, <2>4, <3>2, CaughtEarly
    <3> QED BY <2>1, <3>1, <3>2
  <2> SUFFICES ASSUME Again' PROVE Untouched'
    BY DEF Untouched
  <2>6. Again /\ calm' /\ h.fault = 0
    BY <1>1, <2>5, AgainStays DEF Again
  <2>7. /\ dev.running = base /\ ~cur.marked
        /\ rec.before = IF fam.capture THEN HashOf(base) ELSE NoHash
    BY <1>1, <2>6 DEF Untouched
  <2>8. CASE h.hash = OfRefusal
    <3>1. CASE StartRollback(Caused(r(h), "VERIFY_FAILED"), 0, h.fault)
      <4>1. rec'.checked /\ rec'.after = OfRefusal
        BY <2>2, <2>4, <2>6, <2>8, <3>1, CaughtEarly
      <4> QED BY <4>1 DEF Untouched, Misread, OfRefusal
    <3>2. CASE rec' = r(h)
      BY <2>3, <2>8, <3>2 DEF Untouched, Misread, OfRefusal
    <3>3. h.hash.kind # "none"
      BY <2>8 DEF OfRefusal
    <3>4. CASE Continue("persist", h.fault) /\ UNCHANGED rec
               /\ cur' = [cur EXCEPT !.verified = TRUE]
      <4>1. pc' = "persist" /\ cur'.marked = cur.marked
        BY <3>4 DEF Continue, TypeInv, TypeOK, Cursor
      <4> QED BY <1>1, <2>7, <3>4, <4>1 DEF Untouched
    <3> QED BY <2>1, <3>1, <3>2, <3>4
  <2>9. CASE h.hash # OfRefusal
    <3>1. h.hash = IF fam.capture THEN HashOf(base) ELSE NoHash
      BY <2>6, <2>7, <2>9, ReadCalm
    <3>2. ASSUME h.hash.kind # "none"
          PROVE  /\ rec.before = h.hash /\ absent(h) = {}
      <4>1. h.hash = HashOf(base)
        BY <3>1, <3>2 DEF NoHash
      <4>2. StateAbsent(Applied, Text(base)) = {}
        BY <2>6, NothingAbsent DEF Again
      <4> QED BY <2>7, <3>1, <4>1, <4>2 DEF HashOf
    <3>3. ~StartRollback(Caused(r(h), "VERIFY_FAILED"), 0, h.fault)
          \/ \/ Continue("persist", h.fault) /\ UNCHANGED rec
                /\ cur' = [cur EXCEPT !.verified = TRUE]
             \/ Continue("persist", h.fault) /\ rec' = r(h)
                /\ cur' = [cur EXCEPT !.verified = TRUE]
                /\ h.hash.kind # "none"
      BY <2>1, <3>2 DEF Verified
    <3>4. /\ Continue("persist", h.fault) /\ cur' = [cur EXCEPT !.verified = TRUE]
          /\ rec' = rec \/ (rec' = r(h) /\ h.hash.kind # "none")
      BY <2>1, <3>3
    <3>5. pc' = "persist" /\ cur'.marked = cur.marked
      BY <3>4 DEF Continue, TypeInv, TypeOK, Cursor
    <3>6. rec'.checked => rec'.already
      BY <1>1, <2>3, <3>2, <3>4
    <3> QED BY <1>1, <2>7, <3>5, <3>6 DEF Untouched
  <2> QED BY <2>8, <2>9, SMTT(60)
<1> QED BY <1>2, <1>3, SMTT(60)

LEMMA AgainPersist ==
  ASSUME TypeInv, Untouched, FinishWithoutSave \/ SaveChange
  PROVE  Untouched'
<1> DEFINE r == [rec EXCEPT !.outcome = "APPLIED"]
           s == Ending("PERSIST_FAILED", "PERSIST_FAILED")
<1>1. /\ r \in Record /\ r.outcome = "APPLIED" /\ r.after = rec.after
      /\ r.checked = rec.checked /\ r.already = rec.already
  BY DEF TypeInv, TypeOK, Record, Outcomes
<1>2. /\ s \in Record /\ s.outcome = "PERSIST_FAILED" /\ s.after = rec.after
      /\ s.checked = rec.checked /\ s.already = rec.already
  BY EndingType DEF Causes, Outcomes
<1>3. PICK n \in {0, 1} : Close(r, n) \/ Close(s, n)
  <2>1. CASE FinishWithoutSave
    BY <2>1 DEF FinishWithoutSave, CloseUnsaved, Ending
  <2>2. CASE SaveChange
    <3>1. PICK a \in Answers(fam, dev, Save) : Close(r, a.fault) \/ Close(s, a.fault)
      BY <2>2 DEF SaveChange, CloseUnsaved, Ending
    <3>2. a.fault \in {0, 1}
      BY ConstantCommandType, AnswersType DEF TypeInv, TypeOK
    <3> QED BY <3>1, <3>2
  <2> QED BY <2>1, <2>2
<1> HIDE DEF r, s
<1>4. /\ rec'.outcome \in {"APPLIED", "PERSIST_FAILED"} /\ rec'.after = rec.after
      /\ rec'.checked = rec.checked /\ rec'.already = rec.already
      /\ pc' = "done"
  BY <1>1, <1>2, <1>3, CloseKeeps, CloseType DEF TypeInv
<1>5. calm' => calm
  BY <1>3, StaysCalm
<1>6. /\ UNCHANGED <<fam, lines, base, cur>>
      /\ dev'.running = dev.running
  <2>1. CASE FinishWithoutSave
    BY <2>1 DEF FinishWithoutSave, Quiet
  <2>2. CASE SaveChange
    <3>1. PICK a \in Answers(fam, dev, Save) : dev' = a.dev
      BY <2>2 DEF SaveChange
    <3>2. fam \in Families /\ dev \in Device
      BY DEF TypeInv, TypeOK
    <3>3. \/ a.dev = dev \/ a.dev = [dev EXCEPT !.obeyed = FALSE]
          \/ a.dev = Effect(fam, dev, Save)
      BY <3>2, ConstantCommandType, AnswersType
    <3>4. Effect(fam, dev, Save).running = dev.running
      BY <3>2, ConstantCommandType, EffectOnStartup DEF Device
    <3>5. [dev EXCEPT !.obeyed = FALSE].running = dev.running
      BY <3>2 DEF Device
    <3> QED BY <2>2, <3>1, <3>3, <3>4, <3>5 DEF SaveChange
  <2> QED BY <2>1, <2>2
<1>7. Again' => Again
  BY <1>5, <1>6, AgainStays
<1> QED BY <1>4, <1>6, <1>7 DEF Untouched, Misread

LEMMA AgainStep ==
  ASSUME TypeInv, ModeInv, CheckInv, Untouched, [Next]_vars
  PROVE  Untouched'
<1>1. CASE \E r \in Requests : Call(r)
  BY <1>1, AgainCall
<1>2. CASE RejectPlan \/ GateChange
  BY <1>2, AgainGate
<1>3. CASE ReadBaseline \/ ReadAfter
  BY <1>3, AgainRead DEF CheckInv
<1>4. CASE SkipComment
  BY <1>4, AgainSkip
<1>5. CASE SendMode \/ SendLine
  BY <1>5, AgainSend DEF CheckInv
<1>6. CASE VerifyRefused \/ VerifyState
  BY <1>6, AgainVerify DEF CheckInv
<1>7. CASE FinishWithoutSave \/ SaveChange
  BY <1>7, AgainPersist
<1>8. CASE RecordManual \/ Unwind \/ SendInverse \/ LeaveModes
  <2>1. pc = "rollback" /\ pc' = "rollback"
    BY <1>8, UndoStepEnds
  <2>2. /\ rec'.checked = rec.checked /\ rec'.after = rec.after
        /\ UNCHANGED <<lines, base>>
    BY <1>8 DEF RecordManual, Unwind, SendInverse, LeaveModes, Quiet, Caused,
                TypeInv, TypeOK, Record
  <2>3. calm' => calm
    <3>1. CASE RecordManual
      BY <3>1 DEF RecordManual
    <3>2. CASE Unwind \/ SendInverse \/ LeaveModes
      <4>1. PICK m : Faults(m)
        BY <3>2 DEF Unwind, SendInverse, LeaveModes
      <4> QED BY <4>1, CalmBudget
    <3> QED BY <1>8, <3>1, <3>2
  <2>4. Again' => Again
    BY <2>2, <2>3, AgainStays
  <2> QED BY <2>1, <2>2, <2>4 DEF Untouched, Misread
<1>9. CASE ConfirmRollback
  <2>1. PICK h \in Reads(fam, dev), c \in SUBSET Causes :
          LET o == RollbackOutcome(cur.manual, cur.failed, rec.before, h.hash)
              r == [rec EXCEPT !.undone = h.hash, !.outcome = o, !.causes = c]
          IN  Close(r, h.fault) /\ r \in Record
    BY <1>9, ConfirmType
  <2> DEFINE o == RollbackOutcome(cur.manual, cur.failed, rec.before, h.hash)
             r == [rec EXCEPT !.undone = h.hash, !.outcome = o, !.causes = c]
  <2>2. /\ Close(r, h.fault) /\ r \in Record /\ h.fault \in {0, 1}
        /\ r.checked = rec.checked /\ r.after = rec.after
    BY <2>1, ReadsType DEF TypeInv, TypeOK, Record
  <2>3. pc = "rollback" /\ UNCHANGED <<lines, base>>
    BY <1>9 DEF ConfirmRollback, Quiet
  <2> HIDE DEF r, o
  <2>4. rec'.checked = rec.checked /\ rec'.after = rec.after
    BY <2>2, CloseKeeps DEF TypeInv
  <2>5. calm' => calm
    BY <2>2, StaysCalm
  <2>6. Again' => Again
    BY <2>3, <2>5, AgainStays
  <2> QED BY <2>3, <2>4, <2>6 DEF Untouched, Misread
<1>10. CASE Reload
  <2>1. Faults(1)
    BY <1>10 DEF Reload
  <2>2. ~calm'
    BY <2>1, CalmBudget
  <2> QED BY <2>2 DEF Untouched, Again
<1>11. CASE UNCHANGED vars
  BY <1>11 DEF vars, Untouched, Again, Misread, AtExec
<1> QED BY <1>1, <1>2, <1>3, <1>4, <1>5, <1>6, <1>7, <1>8, <1>9, <1>10, <1>11
        DEF Next, Step, Finished

(* Applying a change that is in place changes nothing, rolls nothing back  *)
(* and is recognised, whatever its sections, its nesting and its negations *)
(* are (phase 2 of apply, _verify_change and _verify_state_present).       *)
THEOREM ReapplyIdempotent == Spec => []ReapplyIsIdempotent
<1>1. Init => ModeInv /\ CheckInv /\ Untouched
  <2>1. Init => ModeInv
    BY DEF Init, ModeInv, Followed, Sending
  <2>2. Init => Untouched
    BY DEF Init, Untouched, NewCursor, NewRecord
  <2> QED BY <2>1, <2>2, CheckInit
<1>2. TypeInv /\ ModeInv /\ CheckInv /\ Untouched /\ [Next]_vars
      => TypeInv' /\ ModeInv' /\ CheckInv' /\ Untouched'
  BY TypeStep, ModeStep, CheckStep, AgainStep
<1>3. Untouched => ReapplyIsIdempotent
  BY DEF Untouched, Again, ReapplyIsIdempotent
<1> QED BY <1>1, <1>2, <1>3, TypeInit, PTL DEF Spec

-----------------------------------------------------------------------------
(* apply implements the protocol its callers rely on.                      *)

Mapped == <<PhaseOf, VerdictOf, dev.startup>>

LEMMA ProtocolInit == TypeInv /\ Init => Protocol!Init
BY DEF Init, Protocol!Init, PhaseOf, VerdictOf, TypeInv, TypeOK, Device

(* A step that closes the change as one of the abstract closing actions.   *)
LEMMA ProtocolStep ==
  ASSUME TypeInv, [Next]_vars
  PROVE  [Protocol!Next]_(Protocol!protocol)
<1> USE DEF PhaseOf, VerdictOf, Protocol!protocol
<1>1. CASE \E r \in Requests : Call(r)
  <2>1. /\ pc \in {"idle", "done"} /\ pc' \in {"gate", "refused"}
        /\ dev'.startup = dev.startup
    BY <1>1 DEF Call, TypeInv, TypeOK, Device
  <2>2. Protocol!Ask
    BY <2>1 DEF Protocol!Ask
  <2> QED BY <2>2 DEF Protocol!Next
<1>2. CASE RejectPlan
  <2>1. Protocol!Refuse
    BY <1>2, RejectPlanEnds, QuietKeeps
       DEF RejectPlan, Protocol!Refuse, Protocol!CloseWith
  <2> QED BY <2>1 DEF Protocol!Next
<1>3. CASE GateChange
  <2>1. pc = "gate" /\ dev' = dev
    BY <1>3, GateChangeEnds, QuietKeeps DEF GateChange
  <2>2. CASE pc' = "baseline"
    BY <2>1, <2>2 DEF Protocol!Change, Protocol!Next
  <2>3. CASE pc' = "done" /\ rec'.outcome \in {"REJECTED", "DRY_RUN"}
    BY <2>1, <2>3 DEF Protocol!Refuse, Protocol!CloseWith, Protocol!Next
  <2> QED BY <1>3, <2>2, <2>3, GateChangeEnds
<1>4. CASE ReadBaseline \/ SkipComment \/ ReadAfter
  <2>1. dev' = dev
    BY <1>4, ReadEnds
  <2>2. CASE pc \in {"baseline", "apply"} /\ pc' \in {"apply", "verify"}
    BY <2>1, <2>2
  <2>3. CASE pc = "apply" /\ pc' = "persist"
    BY <2>1, <2>3 DEF Protocol!Keep, Protocol!Next
  <2> QED BY <1>4, <2>2, <2>3, ReadEnds
<1>5. CASE SendMode \/ SendLine
  <2>1. pc = "apply" /\ dev'.startup = dev.startup
    BY <1>5, SendEnds
  <2>2. CASE pc' = "apply"
    BY <2>1, <2>2
  <2>3. CASE pc' = "done" /\ rec'.outcome = "ROLLED_BACK"
    BY <2>1, <2>3 DEF Protocol!GiveUp, Protocol!CloseWith, Protocol!Next
  <2>4. CASE pc' = "rollback"
    BY <2>1, <2>4 DEF Protocol!Undo, Protocol!Next
  <2> QED BY <1>5, <2>2, <2>3, <2>4, SendEnds
<1>6. CASE VerifyRefused \/ VerifyState
  <2>1. pc = "verify" /\ dev' = dev
    BY <1>6 DEF VerifyRefused, VerifyState, Quiet
  <2>2. CASE pc' = "done" /\ rec'.outcome = "ROLLED_BACK"
    BY <2>1, <2>2 DEF Protocol!GiveUp, Protocol!CloseWith, Protocol!Next
  <2>3. CASE pc' = "rollback"
    BY <2>1, <2>3 DEF Protocol!Undo, Protocol!Next
  <2>4. CASE pc' = "persist"
    BY <2>1, <2>4 DEF Protocol!Keep, Protocol!Next
  <2> QED BY <1>6, <2>2, <2>3, <2>4, VerifyRefusedEnds, VerifyStateEnds, SMTT(60)
<1>7. CASE FinishWithoutSave \/ SaveChange
  <2>1. /\ pc = "persist" /\ pc' = "done"
        /\ rec'.outcome \in {"APPLIED", "PERSIST_FAILED"}
    BY <1>7, PersistEnds
  <2>2. dev'.startup \in Config
    BY TypeStep DEF TypeInv, TypeOK, Device
  <2> QED BY <2>1, <2>2 DEF Protocol!CloseKept, Protocol!CloseWith, Protocol!Next
<1>8. CASE RecordManual \/ Unwind \/ SendInverse \/ LeaveModes
  BY <1>8, UndoStepEnds
<1>9. CASE ConfirmRollback
  BY <1>9, ConfirmEnds
     DEF Protocol!CloseUndone, Protocol!CloseWith, Protocol!Next
<1>10. CASE Reload
  BY <1>10 DEF Reload, TypeInv, TypeOK, Device
<1>11. CASE UNCHANGED vars
  BY <1>11 DEF vars
<1> QED BY <1>1, <1>2, <1>3, <1>4, <1>5, <1>6, <1>7, <1>8, <1>9, <1>10, <1>11
        DEF Next, Step, Finished

(* Whatever the device does, apply refuses a change before anything is     *)
(* sent, or makes it and then either keeps and saves it or undoes it; the  *)
(* startup configuration changes at most once per change, at its end, and  *)
(* the outcome of the record tells which of these happened.                *)
THEOREM ImplementsProtocol == Spec => KeepsProtocol
<1>1. Init => Protocol!Init
  BY TypeInit, ProtocolInit
<1>2. TypeInv /\ [Next]_vars => [Protocol!Next]_(Protocol!protocol)
  BY ProtocolStep
<1> QED BY <1>1, <1>2, TypeInit, TypeStep, PTL DEF Spec, KeepsProtocol, Protocol!Spec
=============================================================================
