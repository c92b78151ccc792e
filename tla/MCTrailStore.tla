---------------------------- MODULE MCTrailStore ----------------------------
(***************************************************************************)
(* Instances of TrailStore: a file of this version, and one of an older.   *)
(***************************************************************************)
EXTENDS TrailStore

MCFile == [zones |-> [z \in AllZones |-> <<"old">>], pct |-> Empty,
           prev |-> "docked", split |-> FALSE]
MCOldFile == [zones |-> [z \in {0} |-> <<"old">>], pct |-> Empty,
              prev |-> "docked", split |-> TRUE]

MCFiles == {MCFile, MCOldFile}
=============================================================================
