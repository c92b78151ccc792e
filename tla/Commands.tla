------------------------------ MODULE Commands ------------------------------
(***************************************************************************)
(* Motion commands: what Start asks the mower for (lawn_mower.py), what    *)
(* the zone select and the services ask for (select.py, services.py),      *)
(* which zones there are (coordinator.py: _maybe_fetch_map,                *)
(* _resolve_zones), and the wait for the mower's answer                    *)
(* (async_send, async_send_confirmed, async_await_command).                *)
(*                                                                         *)
(* The cloud queues a command and numbers it; the mower takes it from the  *)
(* queue, or does not.  What is asked for is decided from the snapshot     *)
(* shown, which may be a poll old.  Every command that was sent also asks  *)
(* for a poll that reads the settings: OtherCommand of SettingWrites.      *)
(***************************************************************************)
EXTENDS Naturals, FiniteSets

CONSTANTS
  Calls,     \* the calls of Start, Pause, Dock and the services under way at once
  Zones,     \* the zones a map may have
  AllZones,  \* the option of the select for all zones
  NoOption,  \* the select shows no option
  Maps,      \* the maps (sets of zones) the mower may have
  Options,   \* the zones typed into the options, perhaps none
  LacksOrder,\* model_lacks(model, "ordered_mow"): the mower ignores a zone mow
             \* with the custom order
  Resets,    \* the reset flags the service mow is called with
  Faults     \* what may fail: the "send" of a command, a "probe" of its status,
             \* the "map"; an "odd" status; a cloud without a command "number"

ASSUME CommandsAssumption ==
  /\ Maps \subseteq (SUBSET Zones) \ {{}}
  /\ Options \subseteq Zones
  /\ AllZones \notin Zones /\ NoOption \notin Zones /\ AllZones # NoOption
  /\ LacksOrder \in BOOLEAN /\ Resets \subseteq BOOLEAN
  /\ Faults \subseteq {"send", "probe", "map", "odd", "number"}

VARIABLES
  vehicle,  \* the mower (external): its code, how far its job is, its map
  shown,    \* coordinator.data: code, job, zones, and the decoded map
            \* (_map_geometry, {} before there is one)
  picks,    \* selected_zone_ids
  at,       \* where each call is
  sent,     \* the command it sends or has sent
  queue,    \* what the cloud says of that command (external)
  last,     \* the "last" of async_await_command
  late,     \* the calls whose deadline has passed
  result,   \* how the call ended
  heard,    \* the last answer to a probe that got through (history)
  keeps     \* the calls of Start at a mower that waited to go on, with nothing
            \* shown to the contrary or picked (history)

callVars == <<at, sent, last, late, result, heard, keeps>>
vars == <<vehicle, shown, picks, callVars, queue>>

-----------------------------------------------------------------------------
Codes == {"docked", "mowing", "paused", "pausedReturning", "returning"}

(* mowing_progress: strictly between 0 and 100, or not.                    *)
Jobs == {"part", "other"}

Vehicles == [code : Codes, job : Jobs, map : Maps]
Snapshots == [code : Codes, job : Jobs, zones : SUBSET Zones, map : {{}} \union Maps]

NoCommand == [do |-> "nothing"]
Simple(what) == [do |-> what]
Mow(zones, reset, ordered) ==
  [do |-> "mow", zones |-> zones, reset |-> reset, ordered |-> ordered]

CommandSet ==
  {NoCommand} \union {Simple(what) : what \in {"pause", "dock", "resume"}}
    \union [do : {"mow"}, zones : SUBSET Zones, reset : BOOLEAN, ordered : BOOLEAN]

TypeOK ==
  /\ vehicle \in Vehicles
  /\ shown \in Snapshots
  /\ picks \subseteq Zones /\ Cardinality(picks) <= 1
  /\ at \in [Calls -> {"idle", "send", "sendOnly", "probe", "sleep"}]
  /\ sent \in [Calls -> CommandSet]
  /\ queue \in [Calls -> {"none", "queued", "pending", "answered"}]
  /\ last \in [Calls -> {"nothing", "queued", "pending", "odd"}]
  /\ late \subseteq {c \in Calls : at[c] \in {"probe", "sleep"}}
  /\ result \in [Calls -> {"none", "sent", "confirmed", "unconfirmed", "unknown",
                           "failed", "signIn"}]
  /\ heard \in [Calls -> {"nothing", "queued", "pending", "odd", "answered"}]
  /\ keeps \subseteq Calls

(* _resolve_zones: the decoded map, else the options, else the zones of    *)
(* the job.                                                                *)
ResolveZones(decoded, ofJob) ==
  IF decoded # {} THEN decoded ELSE IF Options # {} THEN Options ELSE ofJob

Init ==
  /\ vehicle \in [code : {"docked"}, job : Jobs, map : Maps]
  /\ shown = [code |-> "docked", job |-> vehicle.job,
              zones |-> ResolveZones({}, {}), map |-> {}]
  /\ picks = {}
  /\ at = [c \in Calls |-> "idle"]
  /\ sent = [c \in Calls |-> NoCommand]
  /\ queue = [c \in Calls |-> "none"]
  /\ last = [c \in Calls |-> "nothing"]
  /\ late = {}
  /\ result = [c \in Calls |-> "none"]
  /\ heard = [c \in Calls |-> "nothing"]
  /\ keeps = {}

-----------------------------------------------------------------------------
(* A poll: _maybe_fetch_map, then _parse.  A map of an older version is    *)
(* kept until the newer one can be read.                                   *)

Poll ==
  /\ \E geometry \in {vehicle.map} \union (IF "map" \in Faults THEN {shown.map} ELSE {}),
        ofJob \in {{}, vehicle.map} :
       shown' = [code |-> vehicle.code, job |-> vehicle.job,
                 zones |-> ResolveZones(geometry, ofJob), map |-> geometry]
  /\ UNCHANGED <<vehicle, picks, callVars, queue>>

(* NavimowZoneSelect.                                                      *)
CurrentOption(zones, chosen) ==
  IF zones = {} THEN NoOption
  ELSE IF chosen = {} \/ chosen = zones THEN AllZones
  ELSE IF chosen \subseteq zones THEN CHOOSE z \in zones : z \in chosen
  ELSE NoOption

(* Picks add up.                                                           *)
SelectOptionAdds(option) ==
  /\ option \in shown.zones \union {AllZones}
  /\ shown.zones # {}
  /\ picks' = IF option = AllZones THEN {} ELSE picks \union {option}
  /\ UNCHANGED <<vehicle, shown, callVars, queue>>

SelectOption(option) ==
  /\ option \in shown.zones \union {AllZones}
  /\ shown.zones # {}
  /\ picks' = IF option = AllZones THEN {} ELSE {option}
  /\ UNCHANGED <<vehicle, shown, callVars, queue>>

-----------------------------------------------------------------------------
(* What Start asks for.                                                    *)

(* Only the pause of a mow counts as one.                                  *)
GoesOnIfPaused(snapshot, chosen) ==
  \/ snapshot.code = "paused"
  \/ snapshot.code = "docked" /\ snapshot.job = "part" /\ chosen = {}

GoesOn(snapshot, chosen) ==
  \/ snapshot.code \in {"paused", "pausedReturning"}
  \/ snapshot.code = "docked" /\ snapshot.job = "part" /\ chosen = {}

(* A pick the mower's zones no longer have is sent all the same.           *)
StartZonesUnchecked(snapshot, chosen) ==
  IF chosen # {} THEN chosen ELSE snapshot.zones

(* The picks there are, or else all zones.                                 *)
StartZones(snapshot, chosen) ==
  IF chosen \intersect snapshot.zones # {} THEN chosen \intersect snapshot.zones
  ELSE snapshot.zones

StartOrdered(snapshot, chosen) ==
  chosen \intersect snapshot.zones # {} /\ ~LacksOrder

StartCommand(snapshot, chosen) ==
  IF GoesOn(snapshot, chosen) THEN Simple("resume")
  ELSE Mow(StartZones(snapshot, chosen), TRUE, StartOrdered(snapshot, chosen))

-----------------------------------------------------------------------------
(* The calls.  A call begins with its command; what a former call left is  *)
(* forgotten.                                                              *)

Begins(c, command, how) ==
  /\ at[c] = "idle"
  /\ at' = [at EXCEPT ![c] = how]
  /\ sent' = [sent EXCEPT ![c] = command]
  /\ queue' = [queue EXCEPT ![c] = "none"]
  /\ last' = [last EXCEPT ![c] = "nothing"]
  /\ result' = [result EXCEPT ![c] = "none"]
  /\ heard' = [heard EXCEPT ![c] = "nothing"]
  /\ UNCHANGED <<vehicle, shown, picks, late>>

(* The mower waits to go on with a job, and the snapshot says so.          *)
WaitsToGoOn ==
  /\ shown.code = vehicle.code /\ shown.job = vehicle.job
  /\ \/ vehicle.code \in {"paused", "pausedReturning"}
     \/ vehicle.code = "docked" /\ vehicle.job = "part" /\ picks = {}

(* async_start_mowing; without zones it is refused.                        *)
Start(c) ==
  LET command == StartCommand(shown, picks) IN
  /\ command.do = "mow" => command.zones # {}
  /\ Begins(c, command, IF command.do = "resume" THEN "sendOnly" ELSE "send")
  /\ keeps' = IF WaitsToGoOn THEN keeps \union {c} ELSE keeps \ {c}

PauseOrDock(c) ==
  /\ \E what \in {"pause", "dock"} : Begins(c, Simple(what), "send")
  /\ keeps' = keeps \ {c}

ResumeService(c) ==
  /\ Begins(c, Simple("resume"), "sendOnly")
  /\ keeps' = keeps \ {c}

(* _check_zones: only a decoded map can tell which zones there are.        *)
CheckZones(asked) == shown.map = {} \/ asked \subseteq shown.map

(* Without an argument, all the zones shown; without any, it is refused.   *)
MowService(c) ==
  /\ \E asked \in SUBSET Zones, reset \in Resets :
       LET zones == IF asked # {} THEN asked ELSE shown.zones IN
       /\ CheckZones(asked)
       /\ zones # {}
       /\ Begins(c, Mow(zones, reset, asked # {} /\ ~LacksOrder), "send")
  /\ keeps' = keeps \ {c}

(* How a call ends; the statuses it saw go with it.                        *)
Ends(c, how) ==
  /\ at' = [at EXCEPT ![c] = "idle"]
  /\ result' = [result EXCEPT ![c] = how]
  /\ late' = late \ {c}
  /\ last' = [last EXCEPT ![c] = "nothing"]

(* The request is made; one that fails may have reached the cloud.         *)
Send(c) ==
  /\ at[c] \in {"send", "sendOnly"}
  /\ \/ /\ queue' = [queue EXCEPT ![c] = "queued"]
        /\ \/ /\ at[c] = "send"
              /\ at' = [at EXCEPT ![c] = "probe"]
              /\ UNCHANGED <<late, last, result>>
           \/ /\ at[c] = "sendOnly" \/ "number" \in Faults
              /\ Ends(c, "sent")
     \/ /\ "send" \in Faults
        /\ queue' \in {queue, [queue EXCEPT ![c] = "queued"]}
        /\ Ends(c, "failed")
  /\ UNCHANGED <<vehicle, shown, picks, sent, heard, keeps>>

(* What async_send_confirmed makes of the last status it got.              *)
Verdict(status) ==
  IF status \in {"queued", "pending"} THEN "unconfirmed" ELSE "unknown"

EndsOrSleeps(c, status) ==
  IF c \in late THEN Ends(c, Verdict(status))
  ELSE /\ at' = [at EXCEPT ![c] = "sleep"]
       /\ last' = [last EXCEPT ![c] = status]
       /\ UNCHANGED <<late, result>>

(* The cloud tells: an answer, or another status.                          *)
Hears(c) ==
  \/ /\ queue[c] = "answered"
     /\ heard' = [heard EXCEPT ![c] = "answered"]
     /\ Ends(c, "confirmed")
  \/ \E status \in {queue[c]} \union (IF "odd" \in Faults THEN {"odd"} ELSE {}) :
       /\ status # "answered"
       /\ heard' = [heard EXCEPT ![c] = status]
       /\ EndsOrSleeps(c, status)

(* A probe that fails takes back what an earlier one said.                 *)
ProbeForgets(c) ==
  /\ at[c] = "probe"
  /\ \/ Hears(c)
     \/ EndsOrSleeps(c, "nothing") /\ UNCHANGED heard
  /\ UNCHANGED <<vehicle, shown, picks, sent, queue, keeps>>

(* The deadline only counts after a probe that got through.                *)
ProbeTriesAgain(c) ==
  /\ at[c] = "probe"
  /\ \/ Hears(c)
     \/ at' = [at EXCEPT ![c] = "sleep"] /\ UNCHANGED <<heard, last, late, result>>
  /\ UNCHANGED <<vehicle, shown, picks, sent, queue, keeps>>

(* One turn of async_await_command.  A probe that fails is no answer       *)
(* either way; a dead session ends the wait.                               *)
Probe(c) ==
  /\ at[c] = "probe"
  /\ \/ Hears(c)
     \/ /\ "probe" \in Faults
        /\ EndsOrSleeps(c, last[c]) \/ Ends(c, "signIn")
        /\ UNCHANGED heard
  /\ UNCHANGED <<vehicle, shown, picks, sent, queue, keeps>>

Sleep(c) ==
  /\ at[c] = "sleep"
  /\ at' = [at EXCEPT ![c] = "probe"]
  /\ UNCHANGED <<vehicle, shown, picks, sent, queue, last, late,
                 result, heard, keeps>>

DeadlinePasses(c) ==
  /\ at[c] \in {"probe", "sleep"}
  /\ late' = late \union {c}
  /\ UNCHANGED <<vehicle, shown, picks, at, sent, queue, last,
                 result, heard, keeps>>

-----------------------------------------------------------------------------
(* External.                                                               *)

Ignored(command) == command.do = "mow" /\ command.ordered /\ LacksOrder

Obeyed(v, command) ==
  CASE command.do = "pause" ->
         [v EXCEPT !.code = IF v.code = "mowing" THEN "paused"
                            ELSE IF v.code = "returning" THEN "pausedReturning"
                            ELSE v.code]
    [] command.do = "dock" ->
         [v EXCEPT !.code = IF v.code = "docked" THEN "docked" ELSE "returning"]
    [] command.do = "resume" ->
         [v EXCEPT !.code = IF v.code \in {"paused", "docked"} /\ v.job = "part" THEN "mowing"
                            ELSE IF v.code = "pausedReturning" THEN "returning"
                            ELSE v.code]
    [] command.do = "mow" ->
         [v EXCEPT !.code = "mowing",
                   !.job = IF command.reset \/ v.job # "part" THEN "other" ELSE v.job]

(* The cloud hands the command over, and the mower answers it; or the      *)
(* mower never does.                                                       *)
MowerTakes(c) ==
  /\ queue[c] \in {"queued", "pending"}
  /\ \/ /\ queue[c] = "queued"
        /\ queue' = [queue EXCEPT ![c] = "pending"]
        /\ UNCHANGED vehicle
     \/ /\ ~Ignored(sent[c])
        /\ vehicle' = Obeyed(vehicle, sent[c])
        /\ queue' = [queue EXCEPT ![c] = "answered"]
  /\ UNCHANGED <<shown, picks, callVars>>

(* Where the mower gets by itself, and how far with its job.               *)
Onward(v) == CASE v.code = "mowing" -> {"mowing", "returning"}
               [] v.code = "returning" -> {"docked"}
               [] OTHER -> {v.code}
Worked(v) == IF v.code = "mowing" THEN {"part", "other"} ELSE {v.job}

(* By itself the mower gets on with its job, goes home, gets stuck, and is *)
(* given another map by its owner.                                         *)
MowerMoves ==
  /\ \/ \E code \in Onward(vehicle), job \in Worked(vehicle) :
          vehicle' = [vehicle EXCEPT !.code = code, !.job = job]
     \/ \E map \in Maps : vehicle' = [vehicle EXCEPT !.map = map]
  /\ vehicle' # vehicle
  /\ UNCHANGED <<shown, picks, callVars, queue>>

Next ==
  \/ Poll
  \/ \E option \in Zones \union {AllZones} : SelectOption(option)
  \/ \E c \in Calls : \/ Start(c) \/ PauseOrDock(c) \/ ResumeService(c) \/ MowService(c)
                      \/ Send(c) \/ Probe(c) \/ Sleep(c) \/ DeadlinePasses(c)
                      \/ MowerTakes(c)
  \/ MowerMoves

Spec == Init /\ [][Next]_vars

(* Requests have timeouts and timers fire.                                 *)
FairSpec ==
  /\ Spec
  /\ \A c \in Calls : /\ WF_vars(Send(c)) /\ WF_vars(Probe(c))
                      /\ WF_vars(Sleep(c)) /\ WF_vars(DeadlinePasses(c))

-----------------------------------------------------------------------------
(* Start never throws away a job that waits to be gone on with: a pause of *)
(* a mow or of a return, faulty or not, or an unfinished job in the dock   *)
(* with nothing picked, if the snapshot is up to date                      *)
(* (async_start_mowing: "Start used to throw the job away and begin again  *)
(* from 0 %"; "an activity test cannot match").                            *)
JobIsKept ==
  [][\A c \in keeps : MowerTakes(c) /\ vehicle.job = "part" => vehicle'.job = "part"]_vars

(* What the select shows is what Start sends the mower out to mow.  And    *)
(* neither Start nor the service ever sends a mow without zones, a zone    *)
(* that the decoded map does not have, or an order to a mower that would   *)
(* ignore the command for it, whichever way the map, the pick and the      *)
(* snapshot have changed since (current_option: "what the mow button will  *)
(* use"; _check_zones; model_lacks).                                       *)
AsksToMow(c) == at[c] = "idle" /\ at'[c] # "idle" /\ sent'[c].do = "mow"

ShownChoiceIsMown ==
  [][\A c \in Calls :
       LET option == CurrentOption(shown.zones, picks)
           zones == sent'[c].zones
       IN AsksToMow(c) =>
            /\ zones # {}
            /\ shown.map # {} => zones \subseteq shown.map
            /\ ~Ignored(sent'[c])
            /\ Start(c) => /\ option = AllZones => zones = shown.zones
                           /\ option \in Zones => zones = {option}]_vars

(* A call ends well only if the mower answered, or the cloud has not told  *)
(* that it did not; and it says that the command was not confirmed only    *)
(* if that is the last thing the cloud said of it                          *)
(* (test_acknowledgement: "a mower that ignored the payload was            *)
(* indistinguishable from one that obeyed").                               *)
IgnoredIsReported ==
  \A c \in Calls :
    /\ result[c] = "confirmed" => queue[c] = "answered"
    /\ result[c] = "unknown" => heard[c] \notin {"queued", "pending"}
    /\ result[c] = "unconfirmed" => heard[c] \in {"queued", "pending"}

(* A caller is told within the deadline, whatever becomes of the command   *)
(* and of the probes.                                                      *)
EveryCommandEnds == \A c \in Calls : at[c] # "idle" ~> at[c] = "idle"

=============================================================================
