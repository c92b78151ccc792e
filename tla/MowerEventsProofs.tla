-------------------------- MODULE MowerEventsProofs --------------------------
(***************************************************************************)
(* Proofs about MowerEvents, whichever codes the mower reports, whatever   *)
(* the run of quiet polls, and for polls and failures in any order.        *)
(***************************************************************************)
EXTENDS MowerEvents, TLAPS

Detectors == [primed : BOOLEAN, error : BOOLEAN, at_dock : BOOLEAN,
              on_trip : BOOLEAN, finish_pending : BOOLEAN]

-----------------------------------------------------------------------------
(* Codes.                                                                  *)

LEMMA OutIsNotDocked ==
  ASSUME NEW c \in Codes, c \in OutStates
  PROVE  ~IsDocked(c)
BY ConstantsAssumption DEF IsDocked, OutStates, DockedStates

LEMMA RunIsPositive ==
  /\ ErrorClearPolls \in Nat /\ ErrorClearPolls > 0
  /\ 0 \in 0..(ErrorClearPolls - 1)
  /\ 0 \in 0..ErrorClearPolls /\ ErrorClearPolls \in 0..ErrorClearPolls
<1>1. ErrorClearPolls \in Nat \ {0}
  BY ConstantsAssumption, Zenon
<1>2. QED
  BY <1>1

(* A code of the lawn is only reported there, one of the dock only there.  *)
LEMMA CodesTellWhere ==
  ASSUME TypeOK, NEW c \in Codes, MayReport(c), c # ""
  PROVE  /\ IsDocked(c) => at = "dock"
         /\ c \in OutStates => at = "lawn"
BY DEF MayReport, TypeOK

-----------------------------------------------------------------------------
(* The detector.                                                           *)

LEMMA DetectorType ==
  ASSUME NEW s \in Snapshots, NEW d \in Detectors
  PROVE  /\ NewDetector \in Detectors
         /\ Primed(s) \in Detectors
         /\ Updated(d, s) \in Detectors
         /\ Reports(d, s) \subseteq Events
<1>1. /\ IsDocked(s.code) \in BOOLEAN /\ (s.code \in OutStates) \in BOOLEAN
      /\ s.error \in BOOLEAN
  BY DEF Snapshots, IsDocked
<1>2. Primed(s) \in Detectors /\ NewDetector \in Detectors
  BY <1>1 DEF Primed, NewDetector, Detectors
<1>3. OnTrip(d, s) \in BOOLEAN /\ Starts(d, s) \in BOOLEAN /\ Finishes(d, s) \in BOOLEAN
      /\ Returns(d, s) \in BOOLEAN
  BY <1>1 DEF OnTrip, Starts, Finishes, Returns, Detectors
<1>4. Updated(d, s) \in Detectors
  BY <1>1, <1>3 DEF Updated, Detectors
<1>5. QED
  BY <1>2, <1>4 DEF Reports

(* The detector has taken in a snapshot: the same once more would change   *)
(* and tell nothing.                                                       *)
TakenIn(d, s) == d.primed /\ Updated(d, s) = d /\ Reports(d, s) = {}

LEMMA PrimedTakesIn ==
  ASSUME NEW s \in Snapshots
  PROVE  TakenIn(Primed(s), s)
<1>1. s.code \in Codes /\ s.error \in BOOLEAN
  BY DEF Snapshots
<1>2. s.code \in OutStates => ~IsDocked(s.code)
  BY <1>1, OutIsNotDocked
<1> DEFINE e == Primed(s)
<1>3. /\ e.primed = TRUE /\ e.error = s.error /\ e.at_dock = IsDocked(s.code)
      /\ e.on_trip = (s.code \in OutStates) /\ e.finish_pending = FALSE
  BY DEF Primed
<1>4. ~Starts(e, s) /\ ~Returns(e, s) /\ ~Finishes(e, s)
  BY <1>2, <1>3 DEF Starts, Returns, Finishes
<1>5. OnTrip(e, s) = e.on_trip
  <2>1. CASE IsDocked(s.code)
    BY <1>2, <1>3, <2>1 DEF OnTrip
  <2>2. CASE ~IsDocked(s.code)
    <3>1. e.on_trip \/ s.code \in OutStates <=> e.on_trip
      BY <1>3
    <3>2. e.on_trip \in BOOLEAN
      BY <1>3
    <3>3. QED
      BY <2>2, <3>1, <3>2 DEF OnTrip
  <2>3. QED
    BY <2>1, <2>2
<1>6. Updated(e, s) = e
  <2>1. (IsDocked(s.code) \/ (e.at_dock /\ ~Starts(e, s))) = e.at_dock
    <3>1. CASE IsDocked(s.code)
      BY <1>3, <3>1
    <3>2. CASE ~IsDocked(s.code)
      <4>1. e.at_dock = FALSE
        BY <1>3, <3>2
      <4>2. QED
        BY <3>2, <4>1
    <3>3. QED
      BY <3>1, <3>2
  <2>2. ((e.finish_pending \/ Returns(e, s)) /\ ~Finishes(e, s) /\ ~Starts(e, s))
        = e.finish_pending
    BY <1>3, <1>4
  <2>3. Updated(e, s) = [primed |-> TRUE, error |-> s.error, at_dock |-> e.at_dock,
                         on_trip |-> e.on_trip, finish_pending |-> e.finish_pending]
    BY <1>5, <2>1, <2>2 DEF Updated
  <2>4. QED
    BY <1>3, <2>3 DEF Primed
<1>7. Reports(e, s) = {}
  BY <1>3, <1>4 DEF Reports
<1>8. QED
  BY <1>3, <1>6, <1>7 DEF TakenIn

LEMMA UpdateTakesIn ==
  ASSUME NEW s \in Snapshots, NEW d \in Detectors
  PROVE  TakenIn(Updated(d, s), s)
<1> DEFINE e == Updated(d, s)
<1>1. /\ e.error = s.error /\ e.on_trip = OnTrip(d, s) /\ e.primed = TRUE
      /\ e.at_dock = (IsDocked(s.code) \/ (d.at_dock /\ ~Starts(d, s)))
      /\ e.finish_pending
         = ((d.finish_pending \/ Returns(d, s)) /\ ~Finishes(d, s) /\ ~Starts(d, s))
  BY DEF Updated
<1>2. ~Starts(e, s)
  BY <1>1 DEF Starts
<1>3. ~Returns(e, s)
  BY <1>1 DEF Returns, OnTrip
<1>4. ~Finishes(e, s)
  BY <1>1 DEF Finishes, Returns, OnTrip
<1>5. OnTrip(e, s) = e.on_trip
  BY <1>1 DEF OnTrip
<1>6. Updated(e, s) = e
  <2>1. (IsDocked(s.code) \/ (e.at_dock /\ ~Starts(e, s))) = e.at_dock
    BY <1>1, <1>2
  <2>2. ((e.finish_pending \/ Returns(e, s)) /\ ~Finishes(e, s) /\ ~Starts(e, s))
        = e.finish_pending
    BY <1>1, <1>2, <1>3, <1>4
  <2>3. QED
    BY <1>1, <1>5, <2>1, <2>2 DEF Updated
<1>7. Reports(e, s) = {}
  BY <1>1, <1>2, <1>3, <1>4 DEF Reports
<1>8. QED
  BY <1>1, <1>6, <1>7 DEF TakenIn

-----------------------------------------------------------------------------
(* Types.                                                                  *)

LEMMA UpdateType ==
  ASSUME TypeOK, NEW s \in Snapshots, Update(s)
  PROVE  detector' \in Detectors /\ fired' \subseteq Events
<1>1. detector \in Detectors
  BY DEF TypeOK, Detectors
<1>2. QED
  BY <1>1, DetectorType DEF Update

LEMMA HoldType ==
  ASSUME TypeOK, NEW fault \in BOOLEAN, HoldError(fault)
  PROVE  held' \in BOOLEAN /\ quiet' \in 0..(ErrorClearPolls - 1)
<1>1. held \in BOOLEAN /\ quiet \in 0..(ErrorClearPolls - 1)
  BY DEF TypeOK
<1>2. CASE fault
  BY <1>2, RunIsPositive DEF HoldError
<1>3. CASE ~fault /\ ~held
  BY <1>1, <1>3 DEF HoldError
<1>4. CASE ~fault /\ held /\ quiet + 1 < ErrorClearPolls
  <2>1. held' = held /\ quiet' = quiet + 1
    BY <1>4 DEF HoldError
  <2>2. quiet' \in 0..(ErrorClearPolls - 1)
    BY <1>1, <1>4, <2>1, RunIsPositive
  <2>3. QED
    BY <1>1, <2>1, <2>2
<1>5. CASE ~fault /\ held /\ ~(quiet + 1 < ErrorClearPolls)
  <2>1. held' = FALSE /\ quiet' = 0
    BY <1>5 DEF HoldError
  <2>2. QED
    BY <2>1, RunIsPositive
<1>6. QED
  BY <1>2, <1>3, <1>4, <1>5

LEMMA TypeInit == Init => TypeOK
<1> SUFFICES ASSUME Init PROVE TypeOK
  OBVIOUS
<1>1. /\ quiet \in 0..(ErrorClearPolls - 1) /\ calm \in 0..ErrorClearPolls
      /\ held \in BOOLEAN /\ data \in Snapshots
  <2>1. PICK c \in Codes, fault \in BOOLEAN :
          /\ held = fault
          /\ calm = IF fault THEN 0 ELSE ErrorClearPolls
          /\ data = [code |-> c, prog |-> prog, error |-> fault]
    BY DEF Init
  <2>2. held \in BOOLEAN /\ data \in Snapshots
    BY <2>1 DEF Init, Snapshots
  <2>3. quiet \in 0..(ErrorClearPolls - 1) /\ calm \in 0..ErrorClearPolls
    BY <2>1, RunIsPositive DEF Init
  <2>4. QED
    BY <2>2, <2>3
<1>2. detector \in Detectors
  <2>1. NewDetector \in Detectors
    BY DEF NewDetector, Detectors
  <2>2. Primed(data) \in Detectors
    BY <1>1, <2>1, DetectorType
  <2>3. QED
    BY <2>1, <2>2 DEF Init
<1>3. pending \in [Polls -> Waiting]
  BY ConstantsAssumption DEF Init, Nobody, Waiting, Snapshots, Progress
<1>4. fired \subseteq Events /\ owed \subseteq Events
  BY DEF Init, Events
<1>5. QED
  BY <1>1, <1>2, <1>3, <1>4 DEF Init, TypeOK, Detectors

LEMMA TypeStep == TypeOK /\ [Next]_vars => TypeOK'
<1> SUFFICES ASSUME TypeOK, [Next]_vars
             PROVE  TypeOK'
  OBVIOUS
<1>1. CASE Depart \/ Complete \/ Arrive
  BY <1>1 DEF Depart, Complete, Arrive, TypeOK, Progress, Events
<1>2. ASSUME NEW p \in Polls, Poll(p)
      PROVE  TypeOK'
  <2>1. PICK c \in Codes, pr \in Progress, fault \in BOOLEAN :
          /\ HoldError(fault)
          /\ reported' = pr /\ moved' = FALSE
          /\ calm' = IF fault THEN 0 ELSE IF calm = ErrorClearPolls THEN calm ELSE calm + 1
          /\ \/ /\ data' = Parsed(c, pr)
                /\ Update(data')
                /\ UNCHANGED pending
             \/ /\ pending' = [pending EXCEPT ![p] = [snap |-> Parsed(c, pr), waits |-> TRUE]]
                /\ fired' = {}
                /\ UNCHANGED <<data, detector>>
          /\ owed' = (owed \union NewFault) \ (fired' \union Missed(pr))
          /\ UNCHANGED <<at, prog>>
    BY <1>2 DEF Poll
  <2>2. held' \in BOOLEAN /\ quiet' \in 0..(ErrorClearPolls - 1)
    BY <2>1, HoldType
  <2>3. Parsed(c, pr) \in Snapshots
    BY <2>2 DEF Parsed, Snapshots
  <2>4. /\ data' \in Snapshots /\ pending' \in [Polls -> Waiting]
        /\ detector' \in Detectors /\ fired' \subseteq Events
    <3>1. CASE data' = Parsed(c, pr) /\ Update(data') /\ UNCHANGED pending
      <4>1. data' \in Snapshots
        BY <2>3, <3>1
      <4>2. detector' \in Detectors /\ fired' \subseteq Events
        BY <3>1, <4>1, UpdateType
      <4>3. pending' \in [Polls -> Waiting]
        BY <3>1 DEF TypeOK
      <4>4. QED
        BY <4>1, <4>2, <4>3
    <3>2. CASE /\ pending' = [pending EXCEPT ![p] = [snap |-> Parsed(c, pr), waits |-> TRUE]]
               /\ fired' = {}
               /\ UNCHANGED <<data, detector>>
      <4>1. [snap |-> Parsed(c, pr), waits |-> TRUE] \in Waiting
        BY <2>3 DEF Waiting
      <4>2. pending' \in [Polls -> Waiting]
        BY <3>2, <4>1 DEF TypeOK
      <4>3. data' \in Snapshots /\ detector' \in Detectors /\ fired' \subseteq Events
        BY <3>2 DEF TypeOK, Detectors
      <4>4. QED
        BY <4>2, <4>3
    <3>3. QED
      BY <2>1, <3>1, <3>2
  <2>5. calm' \in 0..ErrorClearPolls
    BY <2>1, RunIsPositive DEF TypeOK
  <2>6. owed' \subseteq Events
    BY <2>1 DEF TypeOK, NewFault, Events
  <2>7. QED
    BY <2>1, <2>2, <2>4, <2>5, <2>6 DEF TypeOK, Detectors
<1>3. ASSUME NEW p \in Polls, Publish(p)
      PROVE  TypeOK'
  <2>1. data' \in Snapshots /\ Update(data')
    BY <1>3 DEF Publish, TypeOK, Waiting
  <2>2. Nobody \in Waiting
    BY ConstantsAssumption DEF Nobody, Waiting, Snapshots, Progress
  <2>3. QED
    BY <1>3, <2>1, <2>2, UpdateType DEF Publish, TypeOK, Detectors, mower
<1>4. CASE PollFails
  BY <1>4, UpdateType DEF PollFails, TypeOK, Detectors, mower
<1>5. CASE Reload
  <2>1. PICK c \in Codes, fault \in BOOLEAN : Loaded(c, prog, fault)
    BY <1>5 DEF Reload
  <2>2. /\ data' \in Snapshots /\ held' \in BOOLEAN
        /\ quiet' \in 0..(ErrorClearPolls - 1) /\ calm' \in 0..ErrorClearPolls
    <3>1. data' \in Snapshots /\ held' \in BOOLEAN
      BY <2>1 DEF Loaded, Snapshots, TypeOK
    <3>2. quiet' \in 0..(ErrorClearPolls - 1) /\ calm' \in 0..ErrorClearPolls
      BY <2>1, RunIsPositive DEF Loaded
    <3>3. QED
      BY <3>1, <3>2
  <2>3. detector' \in Detectors
    <3>1. NewDetector \in Detectors
      BY DEF NewDetector, Detectors
    <3>2. Primed(data') \in Detectors
      BY <2>2, <3>1, DetectorType
    <3>3. QED
      BY <2>1, <3>1, <3>2 DEF Loaded
  <2>4. QED
    BY <1>5, <2>2, <2>3 DEF Reload, TypeOK, Detectors, Events
<1>6. CASE UNCHANGED vars
  BY <1>6 DEF vars, mower, TypeOK
<1>7. QED
  BY <1>1, <1>2, <1>3, <1>4, <1>5, <1>6 DEF Next

(* Every variable keeps its type, saves and reloads included.              *)
THEOREM TypeCorrect == Spec => []TypeOK
BY TypeInit, TypeStep, PTL DEF Spec

-----------------------------------------------------------------------------
(* What the detector may still tell is owed.                               *)

(* Polls publish at once, or there is one at a time.                       *)
OneAtATime == Saves = FALSE \/ \A p, q \in Polls : p = q

NoneWaits == \A p \in Polls : ~pending[p].waits

(* What a snapshot that waits will tell is owed, and so is what happened   *)
(* since it was taken.                                                     *)
Promised(w) ==
  /\ w.error = held
  /\ w.code # "" /\ IsDocked(w.code) =>
       /\ detector.on_trip => "returned_to_dock" \in owed
       /\ w.prog = "full" /\ (detector.finish_pending \/ detector.on_trip)
            => "mowing_finished" \in owed
       /\ at = "lawn" => "mowing_started" \in owed /\ prog = "part"
  /\ w.code \in OutStates =>
       /\ detector.at_dock => "mowing_started" \in owed
       /\ at = "dock" => "returned_to_dock" \in owed
       /\ prog = "full" \/ (moved /\ reported = "full") => "mowing_finished" \in owed

WaitInv ==
  /\ Saves = FALSE => NoneWaits
  /\ \A p \in Polls : pending[p].waits => Promised(pending[p].snap)

(* The detector has taken in what is shown.                                *)
SyncInv == data.code # "" => TakenIn(detector, data)

(* A fault is held as long as the calm lasts less than the run.            *)
CalmInv ==
  /\ held => calm = quiet
  /\ ~held => calm = ErrorClearPolls

(* Before the first snapshot with a code the detector knows of nothing.    *)
UnprimedInv == ~detector.primed => detector = NewDetector

ReturnInv == at = "dock" /\ detector.on_trip => "returned_to_dock" \in owed

StartInv == at = "lawn" /\ detector.at_dock => "mowing_started" \in owed

FinishInv ==
  /\ at = "lawn" /\ prog = "full" => "mowing_finished" \in owed
  /\ /\ detector.finish_pending \/ detector.on_trip
     /\ prog = "full" \/ (moved /\ reported = "full")
     => "mowing_finished" \in owed

ErrorInv == detector.primed /\ held /\ ~detector.error => "error" \in owed

OwedInv == /\ WaitInv /\ SyncInv /\ CalmInv /\ UnprimedInv
           /\ ReturnInv /\ StartInv /\ FinishInv /\ ErrorInv

LEMMA CalmStep ==
  ASSUME TypeOK, CalmInv, NEW fault \in BOOLEAN, HoldError(fault),
         calm' = IF fault THEN 0 ELSE IF calm = ErrorClearPolls THEN calm ELSE calm + 1
  PROVE  CalmInv' /\ (held' => held \/ NewFault = {"error"})
BY RunIsPositive DEF CalmInv, HoldError, TypeOK, NewFault

(* A poll that publishes at once tells only what is owed, and leaves owed  *)
(* what may still be told.                                                 *)
LEMMA PollTellsOwed ==
  ASSUME TypeOK, OwedInv, NoneWaits, NEW p \in Polls, Poll(p), UNCHANGED pending
  PROVE  OwedInv' /\ fired' \subseteq owed \union NewFault
<1> USE DEF TypeOK
<1>1. PICK c \in Codes, pr \in Progress, fault \in BOOLEAN :
        /\ MayReport(c)
        /\ pr = prog \/ (moved /\ pr = reported)
        /\ reported' = pr /\ moved' = FALSE
        /\ HoldError(fault)
        /\ calm' = IF fault THEN 0 ELSE IF calm = ErrorClearPolls THEN calm ELSE calm + 1
        /\ data' = Parsed(c, pr)
        /\ Update(data')
        /\ UNCHANGED pending
        /\ owed' = (owed \union NewFault) \ (fired' \union Missed(pr))
        /\ UNCHANGED <<at, prog>>
  <2>1. \A s : pending' # [pending EXCEPT ![p] = [snap |-> s, waits |-> TRUE]]
    BY DEF NoneWaits
  <2>2. QED
    BY <2>1 DEF Poll
<1>2. /\ CalmInv' /\ (held' => held \/ NewFault = {"error"})
      /\ NoneWaits' /\ WaitInv'
  BY <1>1, CalmStep DEF OwedInv, NoneWaits, WaitInv
<1>3. data'.code = c /\ data'.prog = pr /\ data'.error = held' /\ data' \in Snapshots
  BY <1>1, HoldType DEF Parsed, Snapshots
<1>4. Missed(pr) = {IF at = "dock" THEN "mowing_started" ELSE "returned_to_dock"}
        \union (IF pr = "part" /\ prog = "part" THEN {"mowing_finished"} ELSE {})
  BY <1>2 DEF Missed, NoneWaits
<1>5. CASE c = ""
  <2>1. fired' = {} /\ UNCHANGED detector
    BY <1>1, <1>3, <1>5 DEF Update
  <2>2. SyncInv' /\ UnprimedInv'
    BY <1>3, <1>5, <2>1 DEF SyncInv, OwedInv, UnprimedInv
  <2>3. ReturnInv' /\ StartInv'
    BY <1>1, <1>4, <2>1 DEF ReturnInv, StartInv, OwedInv
  <2>4. FinishInv'
    BY <1>1, <1>4, <2>1 DEF FinishInv, OwedInv, Progress
  <2>5. ErrorInv'
    BY <1>1, <1>2, <1>4, <2>1 DEF ErrorInv, OwedInv
  <2>6. QED
    BY <1>2, <2>1, <2>2, <2>3, <2>4, <2>5 DEF OwedInv
<1>6. CASE c # "" /\ ~detector.primed
  <2>1. fired' = {} /\ detector' = Primed(data')
    BY <1>1, <1>3, <1>6 DEF Update
  <2>2. /\ detector'.primed /\ detector'.error = held' /\ detector'.at_dock = IsDocked(c)
        /\ detector'.on_trip = (c \in OutStates) /\ ~detector'.finish_pending
    BY <1>3, <2>1 DEF Primed
  <2>3. (IsDocked(c) => at = "dock") /\ (c \in OutStates => at = "lawn")
    BY <1>1, <1>6, CodesTellWhere
  <2>4. SyncInv' /\ UnprimedInv'
    BY <1>3, <2>1, <2>2, PrimedTakesIn DEF SyncInv, UnprimedInv
  <2>5. ReturnInv' /\ StartInv' /\ ErrorInv'
    BY <1>1, <2>2, <2>3 DEF ReturnInv, StartInv, ErrorInv
  <2>6. FinishInv'
    BY <1>1, <1>4, <2>1, <2>2, <2>3 DEF FinishInv, OwedInv, Progress
  <2>7. QED
    BY <1>2, <2>1, <2>4, <2>5, <2>6 DEF OwedInv
<1>7. CASE c # "" /\ detector.primed
  <2>1. fired' = Reports(detector, data') /\ detector' = Updated(detector, data')
    BY <1>1, <1>3, <1>7 DEF Update
  <2>2. /\ detector'.primed /\ detector'.error = held'
        /\ detector'.at_dock = (IsDocked(c) \/ (detector.at_dock /\ ~Starts(detector, data')))
        /\ detector'.on_trip = (~IsDocked(c) /\ (detector.on_trip \/ c \in OutStates))
        /\ detector'.finish_pending
           = (/\ detector.finish_pending \/ Returns(detector, data')
              /\ ~Finishes(detector, data') /\ ~Starts(detector, data'))
    BY <1>3, <2>1 DEF Updated, OnTrip
  <2>3. (IsDocked(c) => at = "dock") /\ (c \in OutStates => at = "lawn")
    BY <1>1, <1>7, CodesTellWhere
  <2>4. /\ Returns(detector, data') = (IsDocked(c) /\ detector.on_trip)
        /\ Starts(detector, data') = (~IsDocked(c) /\ c = "0210" /\ detector.at_dock)
        /\ Finishes(detector, data')
           = (IsDocked(c) /\ (detector.finish_pending \/ detector.on_trip) /\ pr = "full")
    BY <1>3 DEF Returns, Starts, Finishes
  <2>5. /\ ("error" \in fired') = (held' /\ ~detector.error)
        /\ ("returned_to_dock" \in fired') = Returns(detector, data')
        /\ ("mowing_finished" \in fired') = Finishes(detector, data')
        /\ ("mowing_started" \in fired') = Starts(detector, data')
        /\ fired' \subseteq Events
    <3>1. fired' = {e \in Events :
                      \/ e = "error" /\ held' /\ ~detector.error
                      \/ e = "returned_to_dock" /\ Returns(detector, data')
                      \/ e = "mowing_finished" /\ Finishes(detector, data')
                      \/ e = "mowing_started" /\ Starts(detector, data')}
      BY <1>3, <2>1 DEF Reports
    <3>2. Returns(detector, data') \in BOOLEAN /\ Finishes(detector, data') \in BOOLEAN
          /\ Starts(detector, data') \in BOOLEAN
      BY <2>4
    <3>3. ("error" \in fired') = (held' /\ ~detector.error)
      BY <3>1 DEF Events
    <3>4. ("returned_to_dock" \in fired') = Returns(detector, data')
      BY <3>1, <3>2 DEF Events
    <3>5. ("mowing_finished" \in fired') = Finishes(detector, data')
      BY <3>1, <3>2 DEF Events
    <3>6. ("mowing_started" \in fired') = Starts(detector, data')
      BY <3>1, <3>2 DEF Events
    <3>7. QED
      BY <3>1, <3>3, <3>4, <3>5, <3>6
  <2>6. "error" \in fired' => "error" \in owed \union NewFault
    BY <1>2, <1>7, <2>5 DEF OwedInv, ErrorInv
  <2>7. "returned_to_dock" \in fired' => "returned_to_dock" \in owed
    BY <2>3, <2>4, <2>5 DEF OwedInv, ReturnInv
  <2>8. "mowing_started" \in fired' => "mowing_started" \in owed
    BY <2>3, <2>4, <2>5 DEF OwedInv, StartInv, OutStates
  <2>9. "mowing_finished" \in fired' => "mowing_finished" \in owed
    BY <1>1, <2>4, <2>5 DEF OwedInv, FinishInv
  <2>10. fired' \subseteq owed \union NewFault
    BY <2>5, <2>6, <2>7, <2>8, <2>9 DEF Events
  <2>11. SyncInv' /\ UnprimedInv'
    <3>1. detector \in Detectors
      BY DEF Detectors
    <3>2. QED
      BY <1>3, <2>1, <2>2, <3>1, UpdateTakesIn DEF SyncInv, UnprimedInv
  <2>12. ReturnInv'
    BY <1>1, <1>4, <2>2, <2>3, <2>4, <2>5 DEF ReturnInv, OwedInv
  <2>13. StartInv'
    BY <1>1, <1>4, <2>2, <2>3, <2>4, <2>5 DEF StartInv, OwedInv
  <2>14. FinishInv'
    BY <1>1, <1>4, <2>2, <2>3, <2>4, <2>5 DEF FinishInv, OwedInv, Progress
  <2>15. ErrorInv'
    BY <2>2 DEF ErrorInv
  <2>16. QED
    BY <1>2, <2>10, <2>11, <2>12, <2>13, <2>14, <2>15 DEF OwedInv
<1>8. QED
  BY <1>5, <1>6, <1>7

(* A snapshot repeated tells nothing.                                      *)
LEMMA RepeatsAreSilent ==
  ASSUME OwedInv, Update(data), TypeOK
  PROVE  fired' = {} /\ UNCHANGED detector
BY DEF OwedInv, SyncInv, TakenIn, Update

LEMMA OwedInit == Init => OwedInv
<1> SUFFICES ASSUME Init
             PROVE  OwedInv
  OBVIOUS
<1>1. PICK c \in Codes, fault \in BOOLEAN :
        /\ MayReport(c)
        /\ held = fault
        /\ calm = IF fault THEN 0 ELSE ErrorClearPolls
        /\ data = [code |-> c, prog |-> prog, error |-> fault]
        /\ detector = IF c = "" THEN NewDetector ELSE Primed(data)
  BY DEF Init
<1>2. TypeOK /\ data \in Snapshots
  BY TypeInit DEF TypeOK
<1>3. WaitInv /\ CalmInv
  BY <1>1 DEF Init, WaitInv, NoneWaits, Nobody, CalmInv
<1>4. CASE c = ""
  BY <1>1, <1>3, <1>4
  DEF Init, OwedInv, SyncInv, UnprimedInv, ReturnInv, StartInv, FinishInv, ErrorInv, NewDetector
<1>5. CASE c # ""
  <2>1. TakenIn(detector, data)
    BY <1>1, <1>2, <1>5, PrimedTakesIn
  <2>2. /\ detector.primed /\ detector.error = held /\ detector.at_dock = IsDocked(c)
        /\ detector.on_trip = (c \in OutStates) /\ ~detector.finish_pending
    BY <1>1, <1>5 DEF Primed
  <2>3. (IsDocked(c) => at = "dock") /\ (c \in OutStates => at = "lawn")
    BY <1>1, <1>2, <1>5, CodesTellWhere
  <2>4. SyncInv /\ UnprimedInv /\ ReturnInv /\ StartInv /\ ErrorInv
    BY <2>1, <2>2, <2>3 DEF SyncInv, UnprimedInv, ReturnInv, StartInv, ErrorInv
  <2>5. FinishInv
    BY <2>2, <2>3 DEF FinishInv, Init
  <2>6. QED
    BY <1>3, <2>4, <2>5 DEF OwedInv
<1>6. QED
  BY <1>4, <1>5

(* A poll that has to wait leaves its snapshot with what it will tell.     *)
LEMMA PollWaits ==
  ASSUME TypeOK, OwedInv, \A p, q \in Polls : p = q, NEW p \in Polls, Poll(p),
         pending' # pending
  PROVE  OwedInv' /\ fired' = {}
<1> USE DEF TypeOK
<1>1. PICK c \in Codes, pr \in Progress, fault \in BOOLEAN :
        /\ MayReport(c)
        /\ pr = prog \/ (moved /\ pr = reported)
        /\ reported' = pr /\ moved' = FALSE
        /\ HoldError(fault)
        /\ calm' = IF fault THEN 0 ELSE IF calm = ErrorClearPolls THEN calm ELSE calm + 1
        /\ Saves
        /\ pending' = [pending EXCEPT ![p] = [snap |-> Parsed(c, pr), waits |-> TRUE]]
        /\ fired' = {}
        /\ UNCHANGED <<data, detector>>
        /\ owed' = (owed \union NewFault) \ (fired' \union Missed(pr))
        /\ UNCHANGED <<at, prog>>
  BY DEF Poll
<1> PICK w : w = Parsed(c, pr)
  OBVIOUS
<1>2. CalmInv' /\ (held' => held \/ NewFault = {"error"})
  BY <1>1, CalmStep DEF OwedInv
<1>3. pending'[p].waits = TRUE /\ pending'[p].snap = w
  BY <1>1
<1>4. Missed(pr) = {}
  BY <1>3 DEF Missed
<1>5. owed' = owed \union NewFault
  BY <1>1, <1>4
<1>6. w.code = c /\ w.prog = pr /\ w.error = held'
  BY DEF Parsed
<1>7. /\ c # "" /\ IsDocked(c) => at = "dock"
      /\ c \in OutStates => at = "lawn" /\ c # ""
  BY <1>1, CodesTellWhere DEF OutStates
<1>8. SyncInv' /\ UnprimedInv' /\ ReturnInv' /\ StartInv'
  BY <1>1, <1>5 DEF OwedInv, SyncInv, UnprimedInv, ReturnInv, StartInv
<1>9. FinishInv'
  BY <1>1, <1>5 DEF OwedInv, FinishInv
<1>10. ErrorInv'
  BY <1>1, <1>2, <1>5 DEF OwedInv, ErrorInv
<1>11. Promised(w)'
  <2>1. c # "" /\ IsDocked(c) =>
          /\ detector.on_trip => "returned_to_dock" \in owed
          /\ pr = "full" /\ (detector.finish_pending \/ detector.on_trip)
               => "mowing_finished" \in owed
    BY <1>1, <1>7 DEF OwedInv, ReturnInv, FinishInv
  <2>2. c \in OutStates =>
          /\ detector.at_dock => "mowing_started" \in owed
          /\ prog = "full" => "mowing_finished" \in owed
    BY <1>7 DEF OwedInv, StartInv, FinishInv
  <2>3. QED
    BY <1>1, <1>5, <1>6, <1>7, <2>1, <2>2 DEF Promised
<1>12. WaitInv'
  BY <1>1, <1>3, <1>11 DEF WaitInv
<1>13. QED
  BY <1>1, <1>2, <1>8, <1>9, <1>10, <1>12 DEF OwedInv

(* A snapshot published late tells what it promised.                       *)
LEMMA PublishTellsOwed ==
  ASSUME TypeOK, OwedInv, \A p, q \in Polls : p = q, NEW p \in Polls, Publish(p)
  PROVE  OwedInv' /\ fired' \subseteq owed
<1> USE DEF TypeOK
<1> DEFINE w == pending[p].snap
           d == detector
           c == w.code
<1>1. /\ pending[p].waits /\ data' = w /\ Update(w)
      /\ pending' = [pending EXCEPT ![p] = Nobody]
      /\ owed' = owed \ fired'
      /\ UNCHANGED <<at, prog, moved, reported, held, quiet, calm>>
  BY DEF Publish, mower
<1>2. w \in Snapshots /\ c \in Codes /\ Promised(w)
  BY <1>1 DEF Waiting, Snapshots, OwedInv, WaitInv
<1>3. WaitInv' /\ CalmInv'
  BY <1>1 DEF Nobody, NoneWaits, WaitInv, OwedInv, CalmInv
<1> HIDE DEF w
<1>4. c \in OutStates => ~IsDocked(c) /\ c # ""
  BY <1>2, OutIsNotDocked DEF OutStates
<1>5. CASE c = ""
  <2>1. fired' = {} /\ UNCHANGED detector
    BY <1>1, <1>5 DEF Update
  <2>2. QED
    BY <1>1, <1>3, <1>5, <2>1
    DEF OwedInv, SyncInv, UnprimedInv, ReturnInv, StartInv, FinishInv, ErrorInv
<1>6. CASE c # "" /\ ~d.primed
  <2>1. fired' = {} /\ detector' = Primed(w)
    BY <1>1, <1>6 DEF Update
  <2>2. /\ detector'.primed /\ detector'.error = held /\ detector'.at_dock = IsDocked(c)
        /\ detector'.on_trip = (c \in OutStates) /\ ~detector'.finish_pending
    BY <1>2, <2>1 DEF Primed, Promised
  <2>3. SyncInv' /\ UnprimedInv'
    BY <1>1, <1>2, <2>1, <2>2, PrimedTakesIn DEF SyncInv, UnprimedInv
  <2>4. ReturnInv' /\ StartInv' /\ ErrorInv'
    BY <1>1, <1>2, <1>6, <2>1, <2>2 DEF ReturnInv, StartInv, ErrorInv, Promised
  <2>5. FinishInv'
    BY <1>1, <1>2, <2>1, <2>2 DEF FinishInv, OwedInv, Promised
  <2>6. QED
    BY <1>3, <2>1, <2>3, <2>4, <2>5 DEF OwedInv
<1>7. CASE c # "" /\ d.primed
  <2>1. fired' = Reports(d, w) /\ detector' = Updated(d, w)
    BY <1>1, <1>7 DEF Update
  <2>2. /\ detector'.primed /\ detector'.error = held
        /\ detector'.at_dock = (IsDocked(c) \/ (d.at_dock /\ ~Starts(d, w)))
        /\ detector'.on_trip = (~IsDocked(c) /\ (d.on_trip \/ c \in OutStates))
        /\ detector'.finish_pending
           = ((d.finish_pending \/ Returns(d, w)) /\ ~Finishes(d, w) /\ ~Starts(d, w))
    BY <1>2, <2>1 DEF Updated, OnTrip, Promised
  <2>3. /\ Returns(d, w) = (IsDocked(c) /\ d.on_trip)
        /\ Starts(d, w) = (~IsDocked(c) /\ c = "0210" /\ d.at_dock)
        /\ Finishes(d, w)
           = (IsDocked(c) /\ (d.finish_pending \/ d.on_trip) /\ w.prog = "full")
    BY DEF Returns, Starts, Finishes
  <2>4. /\ ("error" \in fired') = (held /\ ~d.error)
        /\ ("returned_to_dock" \in fired') = Returns(d, w)
        /\ ("mowing_finished" \in fired') = Finishes(d, w)
        /\ ("mowing_started" \in fired') = Starts(d, w)
        /\ fired' \subseteq Events
    <3>1. fired' = {e \in Events :
                      \/ e = "error" /\ held /\ ~d.error
                      \/ e = "returned_to_dock" /\ Returns(d, w)
                      \/ e = "mowing_finished" /\ Finishes(d, w)
                      \/ e = "mowing_started" /\ Starts(d, w)}
      BY <1>2, <2>1 DEF Reports, Promised
    <3>2. Returns(d, w) \in BOOLEAN /\ Finishes(d, w) \in BOOLEAN /\ Starts(d, w) \in BOOLEAN
      BY <2>3
    <3>3. ("error" \in fired') = (held /\ ~d.error)
      BY <3>1 DEF Events
    <3>4. ("returned_to_dock" \in fired') = Returns(d, w)
      BY <3>1, <3>2 DEF Events
    <3>5. ("mowing_finished" \in fired') = Finishes(d, w)
      BY <3>1, <3>2 DEF Events
    <3>6. ("mowing_started" \in fired') = Starts(d, w)
      BY <3>1, <3>2 DEF Events
    <3>7. QED
      BY <3>1, <3>3, <3>4, <3>5, <3>6
  <2>5. "error" \in fired' => "error" \in owed
    BY <1>7, <2>4 DEF OwedInv, ErrorInv
  <2>6. "returned_to_dock" \in fired' => "returned_to_dock" \in owed
    BY <1>2, <1>7, <2>3, <2>4 DEF Promised
  <2>7. "mowing_finished" \in fired' => "mowing_finished" \in owed
    BY <1>2, <1>7, <2>3, <2>4 DEF Promised
  <2>8. "mowing_started" \in fired' => "mowing_started" \in owed
    BY <1>2, <1>7, <2>3, <2>4 DEF Promised, OutStates
  <2>9. fired' \subseteq owed
    BY <2>4, <2>5, <2>6, <2>7, <2>8 DEF Events
  <2>10. SyncInv' /\ UnprimedInv'
    <3>1. detector \in Detectors
      BY DEF Detectors
    <3>2. QED
      BY <1>1, <1>2, <2>1, <2>2, <3>1, UpdateTakesIn DEF SyncInv, UnprimedInv
  <2>11. ReturnInv'
    BY <1>1, <1>2, <2>2, <2>3, <2>4 DEF ReturnInv, OwedInv, Promised
  <2>12. StartInv'
    BY <1>1, <1>2, <1>7, <2>2, <2>3, <2>4 DEF StartInv, OwedInv, Promised
  <2>13. FinishInv'
    BY <1>1, <1>2, <1>4, <1>7, <2>2, <2>3, <2>4 DEF FinishInv, OwedInv, Promised, Progress
  <2>14. ErrorInv'
    BY <1>1, <2>2 DEF ErrorInv
  <2>15. QED
    BY <1>3, <2>9, <2>10, <2>11, <2>12, <2>13, <2>14 DEF OwedInv
<1>8. QED
  BY <1>5, <1>6, <1>7

LEMMA OwedStep ==
  ASSUME OneAtATime, TypeOK, OwedInv, [Next]_vars
  PROVE  OwedInv' /\ (fired' \subseteq owed \union NewFault \/ UNCHANGED vars)
<1>1. CASE Depart
  <2>1. WaitInv'
    BY <1>1 DEF Depart, TypeOK, Progress, OwedInv, WaitInv, NoneWaits, Promised
  <2>2. QED
    BY <1>1, <2>1
    DEF Depart, TypeOK, Progress, OwedInv, SyncInv, CalmInv, UnprimedInv, ReturnInv,
        StartInv, FinishInv, ErrorInv
<1>2. CASE Complete
  <2>1. WaitInv'
    BY <1>2 DEF Complete, OwedInv, WaitInv, NoneWaits
  <2>2. QED
    BY <1>2, <2>1
    DEF Complete, TypeOK, OwedInv, SyncInv, CalmInv, UnprimedInv, ReturnInv, StartInv,
        FinishInv, ErrorInv
<1>3. CASE Arrive
  <2>1. WaitInv'
    BY <1>3 DEF Arrive, TypeOK, OwedInv, WaitInv, NoneWaits, Promised
  <2>2. QED
    BY <1>3, <2>1
    DEF Arrive, TypeOK, OwedInv, SyncInv, CalmInv, UnprimedInv, ReturnInv, StartInv,
        FinishInv, ErrorInv
<1>4. ASSUME NEW p \in Polls, Poll(p)
      PROVE  OwedInv' /\ fired' \subseteq owed \union NewFault
  <2>1. NoneWaits
    BY <1>4 DEF Poll, OneAtATime, OwedInv, WaitInv, NoneWaits
  <2>2. CASE UNCHANGED pending
    BY <1>4, <2>1, <2>2, PollTellsOwed
  <2>3. CASE pending' # pending
    <3>1. Saves
      BY <1>4, <2>3 DEF Poll
    <3>2. \A q, r \in Polls : q = r
      BY <3>1 DEF OneAtATime
    <3>3. QED
      BY <1>4, <2>3, <3>2, PollWaits
  <2>4. QED
    BY <2>2, <2>3
<1>5. ASSUME NEW p \in Polls, Publish(p)
      PROVE  OwedInv' /\ fired' \subseteq owed \union NewFault
  <2>1. \A q, r \in Polls : q = r
    BY <1>5 DEF Publish, OneAtATime, OwedInv, WaitInv, NoneWaits
  <2>2. QED
    BY <1>5, <2>1, PublishTellsOwed
<1>6. CASE PollFails
  <2>1. /\ fired' = {} /\ owed' = owed
        /\ UNCHANGED <<detector, mower, reported, held, quiet, calm, pending, data>>
    BY <1>6, RepeatsAreSilent DEF PollFails
  <2>2. WaitInv'
    BY <2>1 DEF mower, OwedInv, WaitInv, NoneWaits, Promised
  <2>3. QED
    BY <2>1, <2>2
    DEF mower, OwedInv, SyncInv, CalmInv, UnprimedInv, ReturnInv, StartInv, FinishInv, ErrorInv
<1>7. CASE Reload
  <2>1. PICK c \in Codes, fault \in BOOLEAN :
          /\ MayReport(c)
          /\ Loaded(c, prog, fault)
          /\ reported' = prog /\ moved' = FALSE /\ fired' = {}
          /\ owed' = IF at = "dock" THEN {} ELSE owed \ {"mowing_started", "error"}
          /\ UNCHANGED <<at, prog, pending>>
    BY <1>7 DEF Reload
  <2>2. data'.code = c /\ data' \in Snapshots /\ WaitInv' /\ CalmInv'
    BY <1>7, <2>1 DEF Reload, Loaded, Snapshots, TypeOK, OwedInv, WaitInv, NoneWaits, CalmInv
  <2>3. FinishInv' /\ ReturnInv' /\ StartInv' /\ ErrorInv' /\ UnprimedInv' /\ SyncInv'
    <3>1. CASE c = ""
      <4>1. detector' = NewDetector
        BY <2>1, <3>1 DEF Loaded
      <4>2. QED
        BY <2>1, <2>2, <3>1, <4>1
        DEF NewDetector, FinishInv, ReturnInv, StartInv, ErrorInv, UnprimedInv, SyncInv,
            OwedInv, TypeOK
    <3>2. CASE c # ""
      <4>1. detector' = Primed(data') /\ data'.error = held'
        BY <2>1, <3>2 DEF Loaded
      <4>2. /\ detector'.primed /\ detector'.error = held'
            /\ detector'.at_dock = IsDocked(c)
            /\ detector'.on_trip = (c \in OutStates) /\ ~detector'.finish_pending
        BY <2>2, <4>1 DEF Primed
      <4>3. (IsDocked(c) => at = "dock") /\ (c \in OutStates => at = "lawn")
        BY <2>1, <3>2, CodesTellWhere
      <4>4. SyncInv' /\ UnprimedInv'
        BY <2>2, <4>1, <4>2, PrimedTakesIn DEF SyncInv, UnprimedInv
      <4>5. ReturnInv' /\ StartInv' /\ ErrorInv'
        BY <2>1, <4>2, <4>3 DEF ReturnInv, StartInv, ErrorInv
      <4>6. FinishInv'
        BY <2>1, <4>2, <4>3 DEF FinishInv, OwedInv, TypeOK
      <4>7. QED
        BY <4>4, <4>5, <4>6
    <3>3. QED
      BY <3>1, <3>2
  <2>4. QED
    BY <2>1, <2>2, <2>3 DEF OwedInv
<1>8. CASE UNCHANGED vars
  <2>1. WaitInv'
    BY <1>8 DEF vars, mower, OwedInv, WaitInv, NoneWaits, Promised
  <2>2. QED
    BY <1>8, <2>1
    DEF vars, mower, OwedInv, SyncInv, CalmInv, UnprimedInv, ReturnInv, StartInv, FinishInv,
        ErrorInv
<1>9. QED
  BY <1>1, <1>2, <1>3, <1>4, <1>5, <1>6, <1>7, <1>8 DEF Next, Depart, Complete, Arrive

(* Every event told is true of the mower and told once, for any codes, any *)
(* number of polls that fail or repeat, lagging progress, flapping faults  *)
(* and reloads, as long as polls publish at once or, if they wait for a    *)
(* save, come one at a time (MowerEventDetector, _hold_error).             *)
THEOREM ToldIsOwed ==
  ASSUME OneAtATime
  PROVE  Spec => EventsAreOwed
<1>1. Init => OwedInv
  BY OwedInit
<1>2. TypeOK /\ OwedInv /\ [Next]_vars => OwedInv'
  BY OwedStep
<1>3. TypeOK /\ OwedInv /\ [Next]_vars => [fired' \subseteq owed \union NewFault]_vars
  BY OwedStep
<1>4. QED
  BY <1>1, <1>2, <1>3, TypeCorrect, PTL DEF Spec, EventsAreOwed

=============================================================================
