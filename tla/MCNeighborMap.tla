----------------------------- MODULE MCNeighborMap -----------------------------
(***************************************************************************)
(* Two cores (boxes 1 and 2, named 1 and 2) over two access switches       *)
(* (boxes 3 and 4) that are both named 3; box 5 is a core of its own where *)
(* it is cabled at all. Every port is cabled once. Ports 4 to 6 are ports  *)
(* 1 to 3 printed in full, which the cisco family folds.                   *)
(***************************************************************************)
EXTENDS NeighborMap

MCBoxes   == 1 .. 5
MCNames   == 1 .. 4
MCChassis == 1 .. 3
MCPorts   == 1 .. 6

MCFamilies  == {"cisco", "routeros"}
MCUnstated  == "UNKNOWN"
MCCanonical ==
  [f \in MCFamilies \cup {MCUnstated} |->
     [x \in MCPorts |-> IF f = "cisco" /\ x > 3 THEN x - 3 ELSE x]]

Told(port, name, chassis, far, box) ==
  [port |-> port, name |-> name, chassis |-> chassis, far |-> far, box |-> box,
   hint |-> "cisco"]

(* A table of another family, and one that prints its ports in full.       *)
Of(hint, table) == [i \in DOMAIN table |-> [table[i] EXCEPT !.hint = hint]]
InFull(table) ==
  [i \in DOMAIN table |-> [table[i] EXCEPT !.port = @ + 3, !.far = @ + 3]]

Core1(nameOfTwo) == << Told(1, 3, 1, 1, 3), Told(2, 3, 2, 1, 4),
                       Told(3, nameOfTwo, 3, 3, 2) >>
Access(first, second, nameOfOne, idOfOne) ==
  << Told(1, nameOfOne, idOfOne, first, 1), Told(2, 2, 3, second, 2) >>

(* The cores see the switches in opposite order; each is dual-homed, and   *)
(* prints its ports in full, as the cores do not.                          *)
Crossed ==
  << Core1(2),
     << Told(1, 3, 2, 2, 4), Told(2, 3, 1, 2, 3), Told(3, 1, 3, 3, 1) >>,
     InFull(Access(1, 2, 1, 3)), InFull(Access(2, 1, 1, 3)), << >> >>

(* One core sees one switch only; the switches describe the first core by  *)
(* different ids.                                                          *)
OneSeenTwice ==
  << Core1(2),
     << Told(1, 3, 2, 2, 4), Told(3, 1, 1, 3, 1) >>,
     Access(1, 3, 1, 2), Access(2, 1, 1, 3), << >> >>

(* No chassis ids and no far ports; one port hears a box without a name.   *)
(* One core states another vendor to the other, whose switch states none.  *)
Silent ==
  << << Told(1, 3, 0, 0, 3), Told(2, 3, 0, 0, 4) >>
       \o Of("routeros", << Told(3, 2, 0, 0, 2) >>),
     Of(MCUnstated, << Told(1, 3, 0, 0, 4) >>)
       \o << Told(2, 0, 0, 0, 3), Told(3, 1, 0, 0, 1) >>,
     << Told(1, 1, 0, 0, 1) >>, << Told(1, 2, 0, 0, 2), Told(2, 1, 0, 0, 1) >>,
     << >> >>

(* The seed is crawled under a name it does not advertise.                 *)
Renamed ==
  << Core1(2),
     << Told(1, 3, 2, 2, 4), Told(2, 3, 1, 2, 3), Told(3, 4, 3, 3, 1) >>,
     Access(1, 2, 4, 3), Access(2, 1, 4, 3), << >> >>

(* Each switch hangs off a core of its own and sees the third core; which  *)
(* of them holds the plain name depends on which core answers.             *)
Branches ==
  << << Told(1, 2, 3, 1, 2), Told(2, 4, 3, 1, 5) >>,
     << Told(1, 1, 3, 1, 1), Told(2, 3, 2, 1, 4) >>,
     << Told(1, 4, 1, 2, 5) >>,
     << Told(1, 2, 3, 2, 2), Told(2, 4, 2, 3, 5) >>,
     << Told(1, 1, 3, 2, 1), Told(2, 3, 1, 1, 3), Told(3, 3, 2, 2, 4) >> >>

MCNetworks == {Branches, Crossed, OneSeenTwice, Silent, Renamed}
=============================================================================
