----------------------------- MODULE MCCommands -----------------------------
(***************************************************************************)
(* Instances of Commands: two zones, one of which may go.                  *)
(***************************************************************************)
EXTENDS Commands

CONSTANTS front, back

MCMaps == {{front, back}, {back}}
=============================================================================
