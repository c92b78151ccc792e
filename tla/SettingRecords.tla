--------------------------- MODULE SettingRecords ---------------------------
(***************************************************************************)
(* What the record of a write promises to whoever reads setting_writes     *)
(* (the switch's attributes, the diagnostics), with no lock, poll, thread  *)
(* or task: each write of a switch has one record; the newest stands for   *)
(* the switch; a record gets one outcome of the submission and at most two *)
(* verdicts of the read-back, and those only while it is the newest.       *)
(*                                                                         *)
(* SettingWrites implements it (RecordsAreKept there).                     *)
(***************************************************************************)
EXTENDS Naturals

CONSTANTS
  Writes,        \* the calls of async_write_setting
  Keys,          \* the switches
  Nothing,       \* no write
  CallersCancel  \* whether a call may end without an outcome

VARIABLES
  latest,      \* setting_writes: the write whose record stands for the switch
  submission,  \* record["submission"]
  readback,    \* record["readback"]
  looks        \* how many of its two read-backs a record has had

vars == <<latest, submission, readback, looks>>

Init ==
  /\ latest = [k \in Keys |-> Nothing]
  /\ submission = [w \in Writes |-> "none"]
  /\ readback = [w \in Writes |-> "none"]
  /\ looks = [w \in Writes |-> 0]

Newest(w) == w \in {latest[k] : k \in Keys}

(* A write begins: its record replaces the one of the switch.              *)
Begin(w) ==
  /\ submission[w] = "none"
  /\ \E k \in Keys : latest' = [latest EXCEPT ![k] = w]
  /\ submission' = [submission EXCEPT ![w] = "pending"]
  /\ UNCHANGED <<readback, looks>>

(* Both stages went through, one did, or none.                             *)
End(w) ==
  /\ submission[w] = "pending"
  /\ submission' \in {[submission EXCEPT ![w] = outcome] :
                      outcome \in {"submitted", "partial_failure", "failed"}}
  /\ UNCHANGED <<latest, readback, looks>>

(* A read-back of the newest write notes its verdict.  One that finds no   *)
(* way to ask gives up the second.                                         *)
Look(w) ==
  /\ submission[w] # "none"
  /\ submission[w] = "pending" => CallersCancel
  /\ Newest(w)
  /\ looks[w] < 2
  /\ \/ /\ \E verdict \in {"unavailable", "matched", "mismatch"} :
             readback' = [readback EXCEPT ![w] = verdict]
        /\ looks' = [looks EXCEPT ![w] = looks[w] + 1]
     \/ /\ readback' = [readback EXCEPT ![w] = "unavailable"]
        /\ looks' = [looks EXCEPT ![w] = 2]
  /\ UNCHANGED <<latest, submission>>

Next == \E w \in Writes : Begin(w) \/ End(w) \/ Look(w)

Spec == Init /\ [][Next]_vars

=============================================================================
