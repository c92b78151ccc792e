----------------------------- MODULE MCEntries -----------------------------
(***************************************************************************)
(* Instances of Entries: two mowers, without an entry or with entries that *)
(* differ in their identity.  The facts about signing in are checked for   *)
(* every region and whichever hosts are down.                              *)
(***************************************************************************)
EXTENDS Entries, SignIn

CONSTANTS front, back

MCBefore == {<<>>, [m \in {front, back} |-> IF m = front THEN 1 ELSE 2]}

ASSUME EverybodyGetsIn
ASSUME OneDirectoryIsEnough
ASSUME SessionsAreKnown
=============================================================================
