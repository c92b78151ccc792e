---------------------------- MODULE MowerEvents ----------------------------
(***************************************************************************)
(* From the polls of the cloud to the events of the mower: mowing started, *)
(* returned to dock, mowing finished, error (event_detector.py, event.py,  *)
(* and _hold_error of coordinator.py).                                     *)
(*                                                                         *)
(* The mower (external) leaves its dock, works on a job and comes home.    *)
(* A poll samples it: one reported state code, a progress that may lag one *)
(* poll behind, and whether a fault is reported.  The snapshot is given to *)
(* the detector when the coordinator publishes it, which is at once unless *)
(* the poll has to wait for the save of the trail.                         *)
(***************************************************************************)
EXTENDS Naturals, FiniteSets

CONSTANTS
  Polls,           \* the polls that may be under way together
  Codes,           \* the state codes the mower reports ("" when it reports none)
  Family,          \* the first byte of each of them
  ErrorClearPolls, \* ERROR_CLEAR_POLLS
  Saves,           \* whether a poll may have to wait for the save of the trail
  Reloads          \* whether the entry may be reloaded

DockedStates == {"0101", "0102", "0202"}
OutStates == {"0210", "0211", "0220", "0221"}

ASSUME ConstantsAssumption ==
  /\ Family \in [Codes -> STRING]
  /\ "" \in Codes
  /\ \A c \in Codes \intersect OutStates : Family[c] # "01"
  /\ ErrorClearPolls \in Nat \ {0}
  /\ Saves \in BOOLEAN /\ Reloads \in BOOLEAN

VARIABLES
  at,        \* where the mower is (external)
  prog,      \* how far its job is (external): under way or complete
  moved,     \* whether prog has changed since the cloud last reported it
  reported,  \* the progress last reported
  held,      \* _error_held is not None
  quiet,     \* _error_quiet_polls
  calm,      \* polls without a fault since the last one with a fault (history)
  pending,   \* the snapshot of each poll that waits for a save, if any
  data,      \* coordinator.data
  detector,  \* the MowerEventDetector
  fired,     \* the events of the last update
  owed       \* the events that are true of the mower and not yet told (history)

mower == <<at, prog, moved>>
vars == <<mower, reported, held, quiet, calm, pending, data, detector, fired, owed>>

Progress == {"part", "full"}
Snapshots == [code : Codes, prog : Progress, error : BOOLEAN]
Waiting == [snap : Snapshots, waits : BOOLEAN]
Nobody == [snap |-> [code |-> "", prog |-> "part", error |-> FALSE], waits |-> FALSE]
Events == {"mowing_started", "returned_to_dock", "mowing_finished", "error"}

IsDocked(c) == c \in DockedStates \/ Family[c] = "01"

TypeOK ==
  /\ at \in {"dock", "lawn"}
  /\ prog \in Progress
  /\ moved \in BOOLEAN
  /\ reported \in Progress
  /\ held \in BOOLEAN
  /\ quiet \in 0..(ErrorClearPolls - 1)
  /\ calm \in 0..ErrorClearPolls
  /\ pending \in [Polls -> Waiting]
  /\ data \in Snapshots
  /\ detector \in [primed : BOOLEAN, error : BOOLEAN, at_dock : BOOLEAN,
                   on_trip : BOOLEAN, finish_pending : BOOLEAN]
  /\ fired \subseteq Events
  /\ owed \subseteq Events

-----------------------------------------------------------------------------
(* MowerEventDetector.                                                     *)

NewDetector == [primed |-> FALSE, error |-> FALSE, at_dock |-> FALSE,
                on_trip |-> FALSE, finish_pending |-> FALSE]

(* The first snapshot only tells where the mower is.                       *)
Primed(s) == [primed |-> TRUE, error |-> s.error, at_dock |-> IsDocked(s.code),
              on_trip |-> s.code \in OutStates, finish_pending |-> FALSE]

Returns(d, s) == IsDocked(s.code) /\ d.on_trip

(* Only on the way in.                                                     *)
FinishesOnArrival(d, s) == Returns(d, s) /\ s.prog = "full"

Finishes(d, s) ==
  IsDocked(s.code) /\ (d.finish_pending \/ d.on_trip) /\ s.prog = "full"

Starts(d, s) == ~IsDocked(s.code) /\ s.code = "0210" /\ d.at_dock

(* An unmapped 02xx code is a departure.                                   *)
OnTripByFamily(d, s) == ~IsDocked(s.code) /\ (d.on_trip \/ Family[s.code] = "02")

(* The trip is not over when the mower is home.                            *)
OnTripForEver(d, s) == d.on_trip \/ s.code \in OutStates

OnTrip(d, s) == ~IsDocked(s.code) /\ (d.on_trip \/ s.code \in OutStates)

(* What a snapshot other than the first makes of the detector.             *)
Updated(d, s) ==
  [primed         |-> TRUE,
   error          |-> s.error,
   at_dock        |-> IsDocked(s.code) \/ (d.at_dock /\ ~Starts(d, s)),
   on_trip        |-> OnTrip(d, s),
   finish_pending |-> (d.finish_pending \/ Returns(d, s)) /\ ~Finishes(d, s) /\ ~Starts(d, s)]

Reports(d, s) ==
  {e \in Events : \/ e = "error" /\ s.error /\ ~d.error
                  \/ e = "returned_to_dock" /\ Returns(d, s)
                  \/ e = "mowing_finished" /\ Finishes(d, s)
                  \/ e = "mowing_started" /\ Starts(d, s)}

(* update() of the detector, and the trigger of each event it returns.     *)
Update(s) ==
  \/ /\ s.code = ""
     /\ fired' = {}
     /\ UNCHANGED detector
  \/ /\ s.code # ""
     /\ ~detector.primed
     /\ detector' = Primed(s)
     /\ fired' = {}
  \/ /\ s.code # ""
     /\ detector.primed
     /\ detector' = Updated(detector, s)
     /\ fired' = Reports(detector, s)

-----------------------------------------------------------------------------
(* The mower.                                                              *)

(* It goes on with the job it has begun, or begins another.                *)
Depart ==
  /\ at = "dock"
  /\ at' = "lawn"
  /\ prog' = "part"
  /\ moved' = (moved \/ prog = "full")
  /\ owed' = owed \union {"mowing_started"}
  /\ fired' = {}
  /\ UNCHANGED <<reported, held, quiet, calm, pending, data, detector>>

(* A job lasts longer than a save.                                         *)
Complete ==
  /\ at = "lawn"
  /\ prog = "part"
  /\ \A p \in Polls : ~pending[p].waits
  /\ prog' = "full"
  /\ moved' = TRUE
  /\ owed' = owed \union {"mowing_finished"}
  /\ fired' = {}
  /\ UNCHANGED <<at, reported, held, quiet, calm, pending, data, detector>>

Arrive ==
  /\ at = "lawn"
  /\ at' = "dock"
  /\ owed' = owed \union {"returned_to_dock"}
  /\ fired' = {}
  /\ UNCHANGED <<prog, moved, reported, held, quiet, calm, pending, data, detector>>

(* The codes it may report: in its dock also unmapped 02xx codes, and the  *)
(* code of a fault anywhere.                                               *)
MayReport(c) ==
  IF at = "dock" THEN c \notin OutStates ELSE c # "" => ~IsDocked(c)

-----------------------------------------------------------------------------
(* A poll parses one snapshot.                                             *)

(* A poll too late.                                                        *)
HoldErrorLate(fault) ==
  IF fault THEN held' = TRUE /\ quiet' = 0
  ELSE IF ~held THEN UNCHANGED <<held, quiet>>
  ELSE IF quiet < ErrorClearPolls THEN quiet' = quiet + 1 /\ UNCHANGED held
  ELSE held' = FALSE /\ quiet' = 0

(* _hold_error: a fault goes away only after a run of quiet polls.         *)
HoldError(fault) ==
  IF fault THEN held' = TRUE /\ quiet' = 0
  ELSE IF ~held THEN UNCHANGED <<held, quiet>>
  ELSE IF quiet + 1 < ErrorClearPolls THEN quiet' = quiet + 1 /\ UNCHANGED held
  ELSE held' = FALSE /\ quiet' = 0

Parsed(c, pr) == [code |-> c, prog |-> pr, error |-> held']

(* A fault is a new one after a run of quiet polls.                        *)
NewFault == IF calm = ErrorClearPolls /\ calm' = 0 THEN {"error"} ELSE {}

(* What this poll makes too late to tell, unless an older snapshot waits.  *)
Missed(pr) ==
  IF \E p \in Polls : pending'[p].waits THEN {}
  ELSE {IF at = "dock" THEN "mowing_started" ELSE "returned_to_dock"}
       \union (IF pr = "part" /\ prog = "part" THEN {"mowing_finished"} ELSE {})

Poll(p) ==
  \E c \in Codes, pr \in Progress, fault \in BOOLEAN :
    /\ ~pending[p].waits
    /\ MayReport(c)
    /\ pr = prog \/ (moved /\ pr = reported)
    /\ reported' = pr
    /\ moved' = FALSE
    /\ HoldError(fault)
    /\ calm' = IF fault THEN 0 ELSE IF calm = ErrorClearPolls THEN calm ELSE calm + 1
    /\ \/ /\ data' = Parsed(c, pr)
          /\ Update(data')
          /\ UNCHANGED pending
       \/ /\ Saves
          /\ pending' = [pending EXCEPT ![p] = [snap |-> Parsed(c, pr), waits |-> TRUE]]
          /\ fired' = {}
          /\ UNCHANGED <<data, detector>>
    /\ owed' = (owed \union NewFault) \ (fired' \union Missed(pr))
    /\ UNCHANGED <<at, prog>>

(* The trail is saved and the snapshot published.                          *)
Publish(p) ==
  /\ pending[p].waits
  /\ data' = pending[p].snap
  /\ Update(data')
  /\ pending' = [pending EXCEPT ![p] = Nobody]
  /\ owed' = owed \ fired'
  /\ UNCHANGED <<mower, reported, held, quiet, calm>>

(* A poll that fails after one that succeeded tells the entities too, and  *)
(* they find the snapshot they have already seen.                          *)
PollFails ==
  /\ Update(data)
  /\ owed' = owed \ fired'
  /\ UNCHANGED <<mower, reported, held, quiet, calm, pending, data>>

(* The entry is loaded: a first poll, then the entity is added with it.    *)
(* What happened before is not told any more.                              *)
Loaded(c, pr, fault) ==
  /\ held' = fault
  /\ quiet' = 0
  /\ calm' = IF fault THEN 0 ELSE ErrorClearPolls
  /\ data' = [code |-> c, prog |-> pr, error |-> fault]
  /\ detector' = IF c = "" THEN NewDetector ELSE Primed(data')

Reload ==
  \E c \in Codes, fault \in BOOLEAN :
    /\ Reloads
    /\ \A p \in Polls : ~pending[p].waits
    /\ MayReport(c)
    /\ Loaded(c, prog, fault)
    /\ reported' = prog
    /\ moved' = FALSE
    /\ fired' = {}
    /\ owed' = IF at = "dock" THEN {} ELSE owed \ {"mowing_started", "error"}
    /\ UNCHANGED <<at, prog, pending>>

Init ==
  /\ at \in {"dock", "lawn"}
  /\ prog \in Progress
  /\ moved = FALSE
  /\ reported = prog
  /\ \E c \in Codes, fault \in BOOLEAN :
       /\ MayReport(c)
       /\ held = fault
       /\ calm = IF fault THEN 0 ELSE ErrorClearPolls
       /\ data = [code |-> c, prog |-> prog, error |-> fault]
       /\ detector = IF c = "" THEN NewDetector ELSE Primed(data)
  /\ quiet = 0
  /\ pending = [p \in Polls |-> Nobody]
  /\ fired = {}
  /\ owed = IF at = "lawn" /\ prog = "full" THEN {"mowing_finished"} ELSE {}

Next ==
  \/ Depart \/ Complete \/ Arrive
  \/ \E p \in Polls : Poll(p) \/ Publish(p)
  \/ PollFails
  \/ Reload

Spec == Init /\ [][Next]_vars

(* The mower polled in its dock does report, again and again, one of the   *)
(* codes of the dock: it flits between them and others, but for minutes.   *)
PollSeesDock(p) == Poll(p) /\ IsDocked(data'.code)

FairSpec == Spec /\ \A p \in Polls : SF_vars(PollSeesDock(p)) /\ WF_vars(Publish(p))

-----------------------------------------------------------------------------
(* Every event told is true of the mower and told once: a start for a      *)
(* departure, a return for a trip, a finish for a job that got to 100 %,   *)
(* an error for a fault that quiet polls separate from the one before      *)
(* (event_detector.py: "a return is reported once per trip and a start     *)
(* once per departure"; _hold_error: "fired twice for one fault").         *)
EventsAreOwed == [][fired' \subseteq owed \union NewFault]_vars

(* A job that is done is reported finished once the mower is home, if the  *)
(* trip was seen, whatever unmapped codes and lagging progress come first. *)
TripSeen == detector.primed /\ (detector.on_trip \/ detector.finish_pending)
JobEndIsReported ==
  "mowing_finished" \in owed /\ prog = "full" /\ at = "dock" /\ TripSeen
    ~> "mowing_finished" \notin owed \/ at = "lawn"

=============================================================================
