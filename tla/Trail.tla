------------------------------- MODULE Trail -------------------------------
(***************************************************************************)
(* The mowed trail: the path drawn zone by zone from the positions the     *)
(* polls see, and cut when the cloud starts a zone over (coordinator.py,   *)
(* _update_trail, _restart_zone, _split_old_trail).                        *)
(*                                                                         *)
(* A point is reduced to the trip it was drawn on: "new" since the mower   *)
(* last left its dock, "old" before.  Zone 0 takes what belongs to none.   *)
(***************************************************************************)
EXTENDS Naturals, Sequences, FiniteSets, SequencesExt

CONSTANTS
  Codes,       \* the states the mower reports, as far as the trail tells them apart
  Zones,       \* the zones of the map
  Pcts,        \* the coverages the cloud may report of a zone
  ResetDrop,   \* ZONE_RESET_DROP
  MaxPoints,   \* TRAIL_MAX_POINTS
  DecidePolls, \* TRAIL_DECIDE_POLLS
  Files        \* what the trail file may hold when the entry is set up

AllZones == Zones \union {0}

ASSUME ConstantsAssumption ==
  /\ Codes \subseteq {"docked", "mowing", "away"}
  /\ 0 \notin Zones
  /\ Pcts \subseteq Nat
  /\ ResetDrop \in Nat \ {0}
  /\ MaxPoints \in Nat \ {0}
  /\ DecidePolls \in Nat \ {0}

VARIABLES
  trail,    \* what the coordinator keeps of the trail
  told,     \* what the cloud has said since the mower was last in its dock (history)
  waited,   \* how many polls have left the question of a new job open (history)
  leftWith  \* the points of each zone when it was opened (history)

vars == <<trail, told, waited, leftWith>>

(* A dict with some of the zones for keys.                                 *)
Partial(S) == UNION {[D -> S] : D \in SUBSET AllZones}
Empty == [z \in {} |-> 0]
Get(f, z, default) == IF z \in DOMAIN f THEN f[z] ELSE default
Put(f, z, v) == [y \in DOMAIN f \union {z} |-> IF y = z THEN v ELSE f[y]]

(* Of a trail that is too long only the end is loaded.                     *)
ASSUME FilesAssumption ==
  \A file \in Files :
    /\ file.zones \in Partial(BoundedSeq({"old"}, MaxPoints))
    /\ file.pct \in Partial(Pcts)
    /\ file.prev \in Codes
    /\ file.split \in BOOLEAN

Trails ==
  [zones  : Partial(BoundedSeq({"old", "new"}, MaxPoints)), \* _trail_zones
   marks  : Partial(0..MaxPoints), \* _trail_marks
   pct    : Partial(Pcts),         \* _zone_pct
   prev   : Codes,                 \* _prev_state_code
   last   : AllZones,              \* _trail_last_zone (0 for none)
   decide : 0..DecidePolls,        \* _trail_decide_polls
   split  : BOOLEAN,               \* _trail_split_pending
   dirty  : BOOLEAN]               \* _trail_dirty

TypeOK ==
  /\ trail \in Trails
  /\ told \in {"home", "open", "zero", "some", "other"}
  /\ waited \in 0..DecidePolls
  /\ leftWith \in [AllZones -> 0..MaxPoints]

(* What a poll sees.  The zone being cut is unknown in the dock, and its   *)
(* progress without the zone; progress is looked at while mowing, if no    *)
(* coverage is reported.                                                   *)
Sightings ==
  {s \in [code : Codes, active : AllZones, progress : {"none", "zero", "some"},
          pct : UNION {[D -> Pcts] : D \in SUBSET Zones},
          moved : BOOLEAN] :
     /\ s.code = "docked" => s.active = 0
     /\ s.progress # "none" => s.active # 0 /\ s.code = "mowing" /\ s.pct = Empty
     /\ s.moved => s.code = "mowing"}

-----------------------------------------------------------------------------
(* One operator per part of _update_trail, each making of the trail t what *)
(* comes of it.                                                            *)

Drop(pts, n) == SubSeq(pts, n + 1, Len(pts))

(* Without a cap.                                                          *)
AllOf(pts) == pts

LastOf(pts) == IF Len(pts) > MaxPoints THEN Drop(pts, Len(pts) - MaxPoints) ELSE pts

(* In the dock there are no marks.  Leaving it, each trail there is gets a *)
(* mark at its end, and a mow that leaves it opens the question of a new   *)
(* job.                                                                    *)
Left(t, code) ==
  LET leaves == t.prev = "docked" /\ code # "docked" IN
  [t EXCEPT !.marks = IF code = "docked" THEN Empty
                      ELSE IF leaves THEN [z \in DOMAIN t.zones |-> Len(t.zones[z])]
                      ELSE @,
            !.last = IF leaves THEN 0 ELSE @,
            !.decide = IF leaves /\ code = "mowing" THEN DecidePolls ELSE @,
            !.prev = code]

(* _split_old_trail: the one list of an older version is shared out once   *)
(* the map is known; where its i-th point lies is lies[i].                 *)
Split(t, lies) ==
  LET old == Get(t.zones, 0, <<>>)
      PartOf(z) == LET picks == SetToSortSeq({i \in DOMAIN old : lies[i] = z}, <)
                   IN [k \in DOMAIN picks |-> old[picks[k]]]
      takers == {lies[i] : i \in DOMAIN old} \ {0}
  IN IF old = <<>> THEN [t EXCEPT !.split = FALSE]
     ELSE [t EXCEPT
             !.split = FALSE,
             !.zones = [z \in DOMAIN t.zones \union takers |->
                          IF z = 0 THEN PartOf(0)
                          ELSE LastOf(PartOf(z) \o Get(t.zones, z, <<>>))],
             !.dirty = TRUE]

(* What is drawn after the mark, or nothing if there is none.              *)
Kept(t, S) ==
  [z \in DOMAIN t.zones |->
     IF z \in S THEN Drop(t.zones[z], Get(t.marks, z, Len(t.zones[z]))) ELSE t.zones[z]]

(* The mark is left where it was.                                          *)
RestartKeepingMarks(t, S) ==
  [t EXCEPT !.zones = Kept(t, S), !.dirty = @ \/ Kept(t, S) # t.zones]

(* _restart_zone, of every zone in S: only this trip's part is kept, and   *)
(* from now on all of it is this trip's.                                   *)
Restart(t, S) ==
  [t EXCEPT !.zones = Kept(t, S),
            !.marks = [z \in DOMAIN t.marks \union S |-> IF z \in S THEN 0 ELSE t.marks[z]],
            !.dirty = @ \/ Kept(t, S) # t.zones]

Fell(t, pct) ==
  {z \in DOMAIN pct \intersect DOMAIN t.pct :
     pct[z] < t.pct[z] /\ (pct[z] = 0 \/ t.pct[z] - pct[z] >= ResetDrop)}

StartedOver(t, pct) == Fell(t, pct) \union (IF Fell(t, pct) # {} THEN {0} ELSE {})

Noted(t, pct) ==
  [t EXCEPT !.decide = 0,
            !.pct = [z \in DOMAIN @ \union DOMAIN pct |-> IF z \in DOMAIN pct THEN pct[z] ELSE @[z]],
            !.dirty = @ \/ \E z \in DOMAIN pct : z \notin DOMAIN t.pct \/ t.pct[z] # pct[z]]

(* Nothing is cut of a zone first seen at 0 %.                             *)
CoveredByFalls(t, pct) == Noted(Restart(t, StartedOver(t, pct)), pct)

(* Per-zone coverage is reported.                                          *)
Covered(t, pct) ==
  Noted(Restart(t, StartedOver(t, pct) \union {z \in DOMAIN pct : pct[z] = 0}), pct)

(* Any answer is taken for a job that goes on.                             *)
DecidedToGoOn(t, s) ==
  IF t.decide = 0 THEN t
  ELSE IF s.code = "mowing" /\ s.progress = "none" THEN [t EXCEPT !.decide = @ - 1]
  ELSE [t EXCEPT !.decide = 0]

(* The question is given up a poll too soon.                               *)
DecidedTooSoon(t, s) ==
  IF t.decide = 0 THEN t
  ELSE IF s.code # "mowing" THEN [t EXCEPT !.decide = 0]
  ELSE IF s.progress = "none" /\ t.decide > 2 THEN [t EXCEPT !.decide = @ - 1]
  ELSE [IF s.progress = "some" THEN t ELSE Restart(t, DOMAIN t.zones) EXCEPT !.decide = 0]

(* The question of a new job is decided by the progress of the zone being  *)
(* cut, or by its not being told for too long.                             *)
Decided(t, s) ==
  IF t.decide = 0 THEN t
  ELSE IF s.code # "mowing" THEN [t EXCEPT !.decide = 0]
  ELSE IF s.progress = "none" /\ t.decide > 1 THEN [t EXCEPT !.decide = @ - 1]
  ELSE [IF s.progress = "some" THEN t ELSE Restart(t, DOMAIN t.zones) EXCEPT !.decide = 0]

(* A sample that moved far enough goes to the zone being cut, or the last  *)
(* one that was; the cap moves the mark along.                             *)
Sampled(t, s) ==
  LET zone == IF s.active # 0 THEN s.active ELSE t.last
      pts == Append(Get(t.zones, zone, <<>>), "new")
      over == Len(pts) > MaxPoints
  IN IF ~s.moved THEN [t EXCEPT !.last = zone]
     ELSE [t EXCEPT !.last = zone,
                    !.zones = Put(t.zones, zone, LastOf(pts)),
                    !.marks = IF over /\ Get(t.marks, zone, 0) > 0
                              THEN [t.marks EXCEPT ![zone] = @ - 1] ELSE @,
                    !.dirty = TRUE]

(* A trip ends in the dock: its points are old ones for the next (history).*)
Aged(zones) == [z \in DOMAIN zones |-> [i \in DOMAIN zones[z] |-> "old"]]

(* _update_trail.                                                          *)
Update(t, s, lies) ==
  LET aged == IF told = "home" /\ s.code # "docked"
              THEN [t EXCEPT !.zones = Aged(@), !.dirty = FALSE]
              ELSE [t EXCEPT !.dirty = FALSE]
      left == Left(aged, s.code)
      split == IF lies # Empty THEN Split(left, lies) ELSE left
      judged == IF s.pct # Empty THEN Covered(split, s.pct) ELSE Decided(split, s)
  IN Sampled(judged, s)

Told(s) ==
  IF s.code = "docked" THEN "home"
  ELSE IF told \notin {"home", "open"} THEN told
  ELSE IF s.code # "mowing" \/ s.pct # Empty THEN "other"
  ELSE IF s.progress = "none" THEN "open" ELSE s.progress

Points(t, z) == Get(t.zones, z, <<>>)

(* How many polls have left the question open, and what there was when it  *)
(* was opened, as long as the answer is not late.                          *)
Opening == IF told = "home" THEN [z \in AllZones |-> Len(Points(trail, z))] ELSE leftWith

Waits(s) ==
  /\ waited' = IF Told(s) # "open" THEN 0
               ELSE IF told = "home" THEN 1
               ELSE IF waited < DecidePolls THEN waited + 1 ELSE waited
  /\ leftWith' = IF Told(s) = "open" /\ waited' < DecidePolls THEN Opening
                 ELSE [z \in AllZones |-> 0]

(* Without the map, or once split, no point lies anywhere.                 *)
Shares == {Empty} \union (IF trail.split THEN [1..MaxPoints -> AllZones] ELSE {})

Poll ==
  \E s \in Sightings, lies \in Shares :
    /\ trail' = Update(trail, s, lies)
    /\ told' = Told(s)
    /\ Waits(s)

-----------------------------------------------------------------------------
(* async_load_trail.  The mower may have left its dock meanwhile.          *)
Loaded(file) ==
  [zones |-> file.zones, marks |-> Empty, pct |-> file.pct, prev |-> file.prev,
   last |-> 0, decide |-> 0, split |-> file.split, dirty |-> FALSE]

Init ==
  /\ \E file \in Files : trail = Loaded(file)
  /\ told \in {"home", "other"}
  /\ waited = 0
  /\ leftWith = [z \in AllZones |-> 0]

Next == Poll

Spec == Init /\ [][Next]_vars

-----------------------------------------------------------------------------
Drawn(t, z, trip) == Cardinality({i \in DOMAIN Points(t, z) : Points(t, z)[i] = trip})

(* What was drawn on a zone since the mower last left the dock stays as    *)
(* long as it is out, whatever coverage the cloud reports, late or not     *)
(* (_update_trail: "What was drawn since the mower last left the dock is   *)
(* kept").                                                                 *)
KeepsThisTrip ==
  [][told # "home" /\ told' # "home" =>
       \A z \in Zones : Drawn(trail', z, "new") >= Drawn(trail, z, "new")]_vars

(* A poll that reports a zone at 0 % leaves nothing on it but this trip's  *)
(* points, even if the zone was never seen higher (_update_trail: "A zone  *)
(* at 0 % keeps only that part too").                                      *)
ZeroKeepsOnlyThisTrip ==
  \A s \in Sightings : \A z \in DOMAIN s.pct :
    s.pct[z] = 0 => Drawn(Update(trail, s, Empty), z, "old") = 0

(* Without coverage, a mow that leaves the dock with its zone at 0 % is a  *)
(* new job: nothing stays of the one before.                               *)
NewJobClears == told = "zero" => \A z \in AllZones : Drawn(trail, z, "old") = 0

(* Without coverage, a mow that leaves the dock with its zone under way    *)
(* goes on with the job: from the poll that opens the question to the one  *)
(* that answers it, no zone has fewer points than when the mower left.     *)
(* The answer may lag, but not for ever: the poll that is the last of      *)
(* DecidePolls and still has none takes the mow for a new job, and nothing *)
(* is said of what it cuts (_update_trail: "the question held open for     *)
(* TRAIL_DECIDE_POLLS because the progress can lag by a poll or two").     *)
InTime ==
  /\ told \in {"home", "open"}
  /\ \/ told' = "some" /\ waited < DecidePolls
     \/ told' = "open" /\ waited' < DecidePolls

ResumedJobIsKept ==
  [][InTime => \A z \in AllZones : Len(Points(trail', z)) >= Opening[z]]_vars

=============================================================================
