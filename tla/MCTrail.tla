------------------------------ MODULE MCTrail ------------------------------
(***************************************************************************)
(* Instances of Trail: files with a trail of every zone, and with none.    *)
(***************************************************************************)
EXTENDS Trail, TLC

ZoneSymmetry == Permutations(Zones)

File(zones, pct, code) == [zones |-> zones, pct |-> pct, prev |-> code, split |-> FALSE]

(* Every zone has been mown before, in jobs whose coverage is known or not,*)
(* and the mower was last seen in its dock.                                *)
MCInDock ==
  {File([z \in AllZones |-> <<"old">>], pct, "docked") : pct \in {Empty, [z \in Zones |-> 0]}}

(* Nothing has been mown.                                                  *)
MCNothing == {File(Empty, Empty, "docked")}
=============================================================================
