--------------------------- MODULE MCMowerEvents ---------------------------
(***************************************************************************)
(* The codes of const.py and, for each family, one it does not know.       *)
(***************************************************************************)
EXTENDS MowerEvents, TLC

MCFamily ==
  [c \in Codes |-> CASE c \in {"0101", "0102", "0103"} -> "01"
                     [] c \in {"0202", "0204", "0210", "0211", "0220", "0221"} -> "02"
                     [] c = "0301" -> "03"
                     [] c = "" -> ""]
=============================================================================
