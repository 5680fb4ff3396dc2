------------------------------- MODULE NeighborMap -------------------------------
(***************************************************************************)
(* Which device a row of a neighbour table names, and what the map makes   *)
(* of it (engines/discovery_crawl.py: _resolve_neighbor, _record_links,    *)
(* _link_report, with LinkEvidenceEngine and FSM-4). Hostnames are not     *)
(* identities: two boxes may answer to one name, and one box may be        *)
(* described by two chassis ids. DiscoveryCrawl models the same walk with  *)
(* its threads, sessions and limits; here a device answers or does not.    *)
(***************************************************************************)
EXTENDS Naturals, Sequences, FiniteSets, Functions

CONSTANTS
  Boxes,       \* the devices there really are
  SeedBox,     \* the one on the console
  Names,       \* hostnames, numbered as they sort; none a prefix of another
  SeedName,    \* the reference the crawl is given for the seed
  Chassis,     \* chassis ids, numbered as they sort
  Ports,       \* interface names as tables print them, two for one port
               \* where vendors abbreviate
  Families,    \* vendor families an advertisement may state
  Unstated,    \* the family of an advertisement that states none
  SeedFamily,  \* the family the crawl is given for the seed
  Canonical,   \* normalize_port: what a family makes of a printed name
  Networks,    \* the tables the boxes may hold
  Budgets,     \* the device budgets an engine may be given
  MaxCrawls,   \* bound: how many crawls one engine makes
  MaxSilent    \* bound: how often a device does not answer

None == 0      \* what an advertisement does not carry

(* One merged row of a neighbour table: the local port, the name, chassis  *)
(* id and port the neighbour advertised there, the vendor family it stated *)
(* (platform_family_hint), and the box that did.                           *)
Row == [port : Ports, name : Names \cup {None}, chassis : Chassis \cup {None},
        far : Ports \cup {None}, hint : Families \cup {Unstated}, box : Boxes]

(* A device reference: a name, and the chassis id that sets it apart from  *)
(* the device that holds the plain name.                                   *)
Ref     == (Names \cup {None}) \X (Chassis \cup {None})
Plain(n) == <<n, None>>
Unknown == Plain(None)
Seed    == Plain(SeedName)

ASSUME NamesAssumption ==
  /\ Names \subseteq Nat \ {None} /\ Chassis \subseteq Nat \ {None}
  /\ Ports \subseteq Nat \ {None} /\ SeedName \in Names
ASSUME BoxesAssumption ==
  /\ SeedBox \in Boxes /\ None \notin Boxes
  /\ Networks \subseteq [Boxes -> Seq(Row)]
ASSUME FamiliesAssumption ==
  /\ SeedFamily \in Families
  /\ Canonical \in [Families \cup {Unstated} -> [Ports -> Ports]]
ASSUME BoundsAssumption ==
  Budgets \subseteq Nat /\ MaxCrawls \in Nat /\ MaxSilent \in Nat

VARIABLES
  network,     \* the tables of the boxes
  budget,      \* max_devices
  pc,          \* where crawl is
  refs,        \* the references issued, in any crawl of this engine
  seen,        \* the chassis ids an observer has seen behind a name
  resolution,  \* the reference a row was given, Unknown if never asked
  family,      \* the vendor family the engine remembers of a reference
  held,        \* the box whose table the twin holds under a reference
  links,       \* the FSM-4 state of each link that has a machine
  visited,     \* the devices crawled
  frontier,    \* the next wave: a reference, the box it reaches, its family
  following,   \* the wave after it
  batch,       \* what is left of this wave
  unprobed,    \* the references the budget left out
  at, row,     \* the table being recorded, and its next row
  report,      \* the links reported, with their state
  crawls,      \* how many crawls were begun
  silent       \* how often a device did not answer

identity == <<refs, seen, resolution>>
walk     == <<visited, frontier, following, batch, unprobed>>
given    == <<network, budget>>
vars == <<given, pc, identity, family, held, links, walk, at, row, report, crawls, silent>>

-----------------------------------------------------------------------------
(* Device identity.                                                        *)

Key(o, r) == <<o, r.name, r.chassis>>

SeenWith(o, r) == seen[o][r.name] \cup ({r.chassis} \ {None})

(* Mutant: disagreement between any two observers splits a device.         *)
SecondHandSplit(o, r) ==
  r.chassis # None
  /\ Cardinality(UNION {seen[p][r.name] : p \in Ref} \cup {r.chassis}) > 1

(* This device itself sees more than one chassis id behind the name.       *)
FirstHandSplit(o, r) == r.chassis # None /\ Cardinality(SeenWith(o, r)) > 1

(* The first device of a name holds the plain name; nothing but a split    *)
(* separates a sighting from it.                                           *)
Register(o, r) ==
  IF FirstHandSplit(o, r) THEN <<r.name, r.chassis>> ELSE Plain(r.name)

(* Mutant: a row is resolved anew each time it is read.                    *)
ResolveAnew(o, r) == IF r.name = None THEN Unknown ELSE Register(o, r)

(* A row of evidence always names the device it named first.               *)
Resolve(o, r) ==
  IF r.name = None THEN Unknown
  ELSE IF resolution[Key(o, r)] # Unknown THEN resolution[Key(o, r)]
  ELSE Register(o, r)

Note(o, r) ==
  IF r.name = None THEN UNCHANGED identity
  ELSE /\ refs' = refs \cup {Resolve(o, r)}
       /\ seen' = [seen EXCEPT ![o] = [@ EXCEPT ![r.name] = SeenWith(o, r)]]
       /\ resolution' = [resolution EXCEPT ![Key(o, r)] = Resolve(o, r)]

-----------------------------------------------------------------------------
(* Links.                                                                  *)

TableOf(o) == IF held[o] = None THEN << >> ELSE network[held[o]]

(* A link is named by its two ends, in whichever order, and an end by its  *)
(* port as it was printed: one cable may be two links.                     *)
Ends(o, r) == {<<o, r.port>>, <<Resolve(o, r), r.far>>}
StateOf(l) == IF l \in DOMAIN links THEN links[l] ELSE "UNKNOWN"

(* Two printed names of one port of a device, by the rules of its family.  *)
SamePort(d, x, y) == Canonical[family[d]][x] = Canonical[family[d]][y]

(* Mutant: ports are compared as they were printed.                        *)
NamesBackAsPrinted(o, r) ==
  \E back \in Range(TableOf(Resolve(o, r))) :
    /\ back.name = o[1] /\ r.far \in {back.port, None}

(* The neighbour's own table names this device, by its hostname, on the    *)
(* port it was seen to advertise.                                          *)
NamesBack(o, r) ==
  \E back \in Range(TableOf(Resolve(o, r))) :
    /\ back.name = o[1]
    /\ r.far = None \/ SamePort(Resolve(o, r), r.far, back.port)

(* FSM-4 as the crawl drives it: 4.2 on the first sighting, 4.5 once both  *)
(* ends tell of each other; no other row of the table is ever fired.       *)
OneSided(s) == IF s = "UNKNOWN" THEN "ONE_SIDED" ELSE s

(* Mutant: passive evidence from both ends confirms a link.                *)
Confirmed(s) == IF s = "ONE_SIDED" THEN "DIRECT_NEIGHBOR_CONFIRMED" ELSE s

(* The ceiling of passive evidence.                                        *)
Probable(s) == IF s = "ONE_SIDED" THEN "DIRECT_NEIGHBOR_PROBABLE" ELSE s

Grade(o, r) ==
  LET l == Ends(o, r)
      s == OneSided(StateOf(l))
  IN  links' = [m \in DOMAIN links \cup {l} |->
                  IF m # l THEN links[m]
                  ELSE IF Resolve(o, r) # Unknown /\ NamesBack(o, r)
                       THEN Probable(s) ELSE s]

-----------------------------------------------------------------------------
(* The walk.                                                               *)

TheSeed == <<Seed, SeedBox, SeedFamily>>

Init ==
  /\ network \in Networks /\ budget \in Budgets /\ pc = "select"
  /\ refs = {Seed} /\ seen = [o \in Ref |-> [n \in Names |-> {}]]
  /\ resolution = [k \in Ref \X Names \X (Chassis \cup {None}) |-> Unknown]
  /\ family = [o \in Ref |-> Unstated]
  /\ held = [o \in Ref |-> None] /\ links = << >>
  /\ visited = {} /\ frontier = {TheSeed} /\ following = {}
  /\ batch = {} /\ unprobed = {} /\ at = Seed /\ row = 1 /\ report = {}
  /\ crawls = 1 /\ silent = 0

Before(e, f) == e[1][1] < f[1][1] \/ (e[1][1] = f[1][1] /\ e[1][2] < f[1][2])

SelectWave ==
  /\ pc = "select" /\ frontier # {} /\ Cardinality(visited) < budget
  /\ LET new    == {e \in frontier : e[1] \notin visited}
         chosen == {e \in new : Cardinality({f \in new : Before(f, e)})
                                  < budget - Cardinality(visited)}
     IN  /\ batch' = chosen
         /\ unprobed' = unprobed \cup {e[1] : e \in new \ chosen}
  /\ pc' = "admit" /\ following' = {}
  /\ UNCHANGED <<given, identity, family, held, links, visited, frontier, at, row,
       report, crawls, silent>>

(* One device after another, by reference. What it told of its neighbours  *)
(* replaces what the twin holds of it; if it told nothing that stays, and  *)
(* is recorded again. No plan is made for a device of no family, which     *)
(* therefore tells nothing.                                                *)
Admit(e, answers) ==
  /\ pc = "admit" /\ e \in batch /\ \A f \in batch \ {e} : Before(e, f)
  /\ batch' = batch \ {e} /\ visited' = visited \cup {e[1]}
  /\ answers => e[3] # Unstated
  /\ family' = [family EXCEPT ![e[1]] = e[3]]
  /\ held' = IF answers THEN [held EXCEPT ![e[1]] = e[2]] ELSE held
  /\ silent' = IF answers \/ e[3] = Unstated THEN silent ELSE silent + 1
  /\ silent' <= MaxSilent
  /\ at' = e[1] /\ row' = 1 /\ pc' = "record"
  /\ UNCHANGED <<given, identity, links, frontier, following, unprobed, report,
       crawls>>

(* _record_links, row by row.                                              *)
RecordRow ==
  /\ pc = "record" /\ row <= Len(TableOf(at))
  /\ Note(at, TableOf(at)[row]) /\ Grade(at, TableOf(at)[row])
  /\ row' = row + 1
  /\ UNCHANGED <<given, pc, family, held, walk, at, report, crawls, silent>>

(* The neighbours not crawled yet, each reached as its first row says.     *)
Named(o) ==
  {<<Resolve(o, TableOf(o)[i]), TableOf(o)[i].box, TableOf(o)[i].hint>> :
     i \in {j \in DOMAIN TableOf(o) :
              /\ Resolve(o, TableOf(o)[j]) \notin visited \cup {Unknown}
              /\ \A k \in 1 .. j - 1 :
                   Resolve(o, TableOf(o)[k]) # Resolve(o, TableOf(o)[j])}}

Enqueue ==
  /\ pc = "record" /\ row > Len(TableOf(at))
  /\ following' = following \cup
       {e \in Named(at) : \A f \in following : f[1] # e[1]}
  /\ pc' = "admit"
  /\ UNCHANGED <<given, identity, family, held, links, visited, frontier, batch,
       unprobed, at, row, report, crawls, silent>>

EndWave ==
  /\ pc = "admit" /\ batch = {} /\ frontier' = following /\ pc' = "select"
  /\ UNCHANGED <<given, identity, family, held, links, visited, following, batch,
       unprobed, at, row, report, crawls, silent>>

(* The walk is over: every table is read again, and each link reported     *)
(* with the state its machine is in.                                       *)
Report ==
  /\ pc = "select" /\ (frontier = {} \/ Cardinality(visited) >= budget)
  /\ unprobed' = (unprobed \cup {e[1] : e \in frontier}) \ visited
  /\ report' = UNION { { [ends |-> Ends(o, r), state |-> StateOf(Ends(o, r))] :
                           r \in Range(TableOf(o)) } : o \in visited }
  /\ pc' = "done"
  /\ UNCHANGED <<given, identity, family, held, links, visited, frontier,
       following, batch, at, row, crawls, silent>>

(* The engine crawls again after access was granted: what it knows of      *)
(* identities, families, tables and links stays.                           *)
CrawlAgain ==
  /\ pc = "done" /\ crawls < MaxCrawls /\ crawls' = crawls + 1 /\ pc' = "select"
  /\ visited' = {} /\ frontier' = {TheSeed} /\ following' = {}
  /\ batch' = {} /\ unprobed' = {} /\ report' = {}
  /\ UNCHANGED <<given, identity, family, held, links, at, row, silent>>

Next == \/ SelectWave \/ RecordRow \/ Enqueue \/ EndWave \/ Report \/ CrawlAgain
        \/ \E e \in batch, answers \in BOOLEAN : Admit(e, answers)

Spec == Init /\ [][Next]_vars

-----------------------------------------------------------------------------
Queue == Ref \X Boxes \X (Families \cup {Unstated})

TypeOK ==
  /\ network \in Networks /\ budget \in Budgets
  /\ pc \in {"select", "admit", "record", "done"}
  /\ refs \subseteq Ref
  /\ seen \in [Ref -> [Names -> SUBSET Chassis]]
  /\ resolution \in [Ref \X Names \X (Chassis \cup {None}) -> Ref]
  /\ family \in [Ref -> Families \cup {Unstated}]
  /\ held \in [Ref -> Boxes \cup {None}]
  /\ \A l \in DOMAIN links : /\ l \subseteq Ref \X (Ports \cup {None})
                             /\ links[l] \in {"ONE_SIDED", "DIRECT_NEIGHBOR_PROBABLE"}
  /\ visited \subseteq Ref /\ unprobed \subseteq Ref
  /\ frontier \subseteq Queue /\ following \subseteq Queue /\ batch \subseteq Queue
  /\ at \in Ref /\ row \in Nat \ {0} /\ crawls \in Nat /\ silent \in Nat

(* Reporters disagreeing about a third device's chassis id proves nothing: *)
(* in one crawl a device is set apart from the one of the plain name only  *)
(* where a box itself shows its chassis id and another behind the name. (A *)
(* reference may reach another box in the next crawl, which the code does  *)
(* not notice.)                                                            *)
Shows(b, n, c) == \E r \in Range(network[b]) : r.name = n /\ r.chassis = c
SplitIsFirstHand ==
  crawls = 1 => \A ref \in refs : ref[2] # None =>
    \E b \in Boxes, c \in Chassis \ {ref[2]} :
      Shows(b, ref[1], ref[2]) /\ Shows(b, ref[1], c)

(* What one device sees on two of its ports under one name and two chassis *)
(* ids is two devices, and stays two.                                      *)
TwoBoxesAreTwo ==
  \A o \in Ref, n \in Names, c, d \in Chassis :
    /\ c # d
    /\ resolution[<<o, n, c>>] # Unknown /\ resolution[<<o, n, d>>] # Unknown
    => resolution[<<o, n, c>>] # resolution[<<o, n, d>>]

(* Devices are told apart where, and only where, a device saw two itself.  *)
ToldApart == SplitIsFirstHand /\ TwoBoxesAreTwo

(* One row of evidence always names the same device: every reported link   *)
(* ends at devices that are in the report, and has a machine that was      *)
(* told of it when the row was recorded.                                   *)
LinksEndAtDevices ==
  pc = "done" => \A l \in report :
    /\ l.state # "UNKNOWN"
    /\ \A e \in l.ends : e[1] \in visited \cup unprobed \cup {Unknown}

(* Row r of device o names device p at the port that row s of p is about.  *)
Points(o, r, p, s) ==
  Resolve(o, r) = p /\ r.far # None /\ SamePort(p, r.far, s.port)

(* Two devices whose tables name each other, with both ports, are reported *)
(* as probable neighbours, whichever of them was crawled first, and        *)
(* however the two tables print the ports: under the name one of the two   *)
(* rows gives their link. (Where the tables print the ports differently    *)
(* the other row names a link of its own, which may stay one-sided.)       *)
BothEndsCount ==
  pc = "done" =>
    \A o, p \in visited : \A r \in Range(TableOf(o)), s \in Range(TableOf(p)) :
      Points(o, r, p, s) /\ Points(p, s, o, r) =>
        \E l \in {Ends(o, r), Ends(p, s)} :
          [ends |-> l, state |-> "DIRECT_NEIGHBOR_PROBABLE"] \in report

-----------------------------------------------------------------------------
(* What the tests say of the program, and does not hold.                   *)

(* "Two neighbours seeing the SAME box with the SAME chassis id must not   *)
(* produce two refs".                                                      *)
CorroborationIsOneDevice ==
  \A o, p \in Ref, n \in Names, c \in Chassis :
    resolution[<<o, n, c>>] # Unknown /\ resolution[<<p, n, c>>] # Unknown
    => resolution[<<o, n, c>>] = resolution[<<p, n, c>>]
=============================================================================
