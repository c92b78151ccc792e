---------------------------- MODULE CommandsProofs ----------------------------
(***************************************************************************)
(* Proofs about Commands, for every number of calls, whichever zones and   *)
(* maps there are, and whatever fails.                                     *)
(***************************************************************************)
EXTENDS Commands, FiniteSetTheorems, TLAPS

(* Of the zones, one is picked, or none.                                   *)
PicksInv == picks = {} \/ \E z \in Zones : picks = {z}

(* What was sent is a command, and what waits for an answer was sent.      *)
SentInv ==
  \A c \in Calls :
    /\ at[c] # "idle" \/ queue[c] # "none" => sent[c] # NoCommand
    /\ at[c] \in {"probe", "sleep"} => queue[c] # "none"

(* A call under way has no result, and remembers what it last heard.       *)
WaitInv ==
  \A c \in Calls : at[c] # "idle" => result[c] = "none" /\ last[c] = heard[c]

IInv == TypeOK /\ PicksInv /\ SentInv /\ WaitInv /\ IgnoredIsReported

-----------------------------------------------------------------------------
(* The types of what is computed.                                          *)

LEMMA ZonesType ==
  ASSUME NEW decoded \in SUBSET Zones, NEW ofJob \in SUBSET Zones
  PROVE  ResolveZones(decoded, ofJob) \subseteq Zones
BY CommandsAssumption DEF ResolveZones

LEMMA MapsType == \A map \in {{}} \union Maps : map \subseteq Zones
BY CommandsAssumption

LEMMA CommandType ==
  /\ NoCommand \in CommandSet
  /\ \A what \in {"pause", "dock", "resume"} :
       Simple(what) \in CommandSet /\ Simple(what) # NoCommand
  /\ \A zones \in SUBSET Zones, reset, ordered \in BOOLEAN :
       /\ Mow(zones, reset, ordered) \in CommandSet
       /\ Mow(zones, reset, ordered) # NoCommand
<1>1. NoCommand \in CommandSet
  BY DEF CommandSet
<1>2. ASSUME NEW what \in {"pause", "dock", "resume"}
      PROVE  Simple(what) \in CommandSet /\ Simple(what) # NoCommand
  <2>1. Simple(what) \in CommandSet
    BY DEF CommandSet
  <2>2. Simple(what).do # NoCommand.do
    BY DEF Simple, NoCommand
  <2>3. QED
    BY <2>1, <2>2
<1>3. ASSUME NEW zones \in SUBSET Zones, NEW reset \in BOOLEAN, NEW ordered \in BOOLEAN
      PROVE  /\ Mow(zones, reset, ordered) \in CommandSet
             /\ Mow(zones, reset, ordered) # NoCommand
  <2>1. Mow(zones, reset, ordered) \in CommandSet
    BY DEF CommandSet, Mow
  <2>2. Mow(zones, reset, ordered).do # NoCommand.do
    BY DEF Mow, NoCommand
  <2>3. QED
    BY <2>1, <2>2
<1>4. QED
  BY <1>1, <1>2, <1>3

(* A mower that ignores the order is sent none.                            *)
LEMMA UnorderedMow ==
  ASSUME NEW zones, NEW reset, NEW ordered \in BOOLEAN, ordered => ~LacksOrder
  PROVE  /\ Mow(zones, reset, ordered).zones = zones
         /\ ~Ignored(Mow(zones, reset, ordered))
<1>1. Mow(zones, reset, ordered).zones = zones
  BY DEF Mow
<1>2. Mow(zones, reset, ordered).ordered = ordered
  BY DEF Mow
<1>3. QED
  BY <1>1, <1>2, CommandsAssumption, Zenon DEF Ignored

LEMMA DoType ==
  ASSUME NEW command \in CommandSet, command # NoCommand
  PROVE  command.do \in {"pause", "dock", "resume", "mow"}
BY DEF CommandSet, Simple, NoCommand

LEMMA StartType ==
  ASSUME NEW snapshot \in Snapshots, NEW chosen
  PROVE  StartCommand(snapshot, chosen) \in CommandSet \ {NoCommand}
<1>1. StartOrdered(snapshot, chosen) \in BOOLEAN /\ StartZones(snapshot, chosen) \subseteq Zones
  BY DEF StartOrdered, StartZones, Snapshots
<1>2. QED
  BY <1>1, CommandType DEF StartCommand

LEMMA ObeyedType ==
  ASSUME NEW v \in Vehicles, NEW command \in CommandSet, command # NoCommand
  PROVE  Obeyed(v, command) \in Vehicles
<1>1. command.do \in {"pause", "dock", "resume", "mow"}
  BY DoType
<1>2. v.code \in Codes /\ v.job \in Jobs
  BY DEF Vehicles
<1>3. CASE command.do = "pause"
  BY <1>2, <1>3 DEF Obeyed, Vehicles, Codes
<1>4. CASE command.do = "dock"
  BY <1>2, <1>4 DEF Obeyed, Vehicles, Codes
<1>5. CASE command.do = "resume"
  BY <1>2, <1>5 DEF Obeyed, Vehicles, Codes
<1>6. CASE command.do = "mow"
  BY <1>2, <1>6 DEF Obeyed, Vehicles, Codes, Jobs
<1>7. QED
  BY <1>1, <1>3, <1>4, <1>5, <1>6

LEMMA PicksType == PicksInv => picks \subseteq Zones /\ Cardinality(picks) <= 1
<1>1. Cardinality({}) = 0 /\ \A z \in Zones : Cardinality({z}) = 1
  BY FS_EmptySet, FS_Singleton
<1>2. QED
  BY <1>1 DEF PicksInv

-----------------------------------------------------------------------------
(* A call begins.                                                          *)
LEMMA BeginsKeeps ==
  ASSUME IInv, NEW c \in Calls, NEW command \in CommandSet \ {NoCommand},
         NEW how \in {"send", "sendOnly"}, Begins(c, command, how),
         keeps' \subseteq Calls
  PROVE  IInv'
<1> USE DEF IInv, Begins
<1>1. TypeOK'
  BY DEF TypeOK
<1>2. PicksInv'
  BY DEF PicksInv
<1>3. SentInv'
  BY DEF SentInv, TypeOK
<1>4. WaitInv'
  BY DEF WaitInv, TypeOK
<1>5. IgnoredIsReported'
  BY DEF IgnoredIsReported, TypeOK
<1>6. QED
  BY <1>1, <1>2, <1>3, <1>4, <1>5

(* A call ends with what it last heard.                                    *)
LEMMA EndsKeeps ==
  ASSUME IInv, NEW c \in Calls, NEW how, Ends(c, how),
         how \in {"sent", "confirmed", "unconfirmed", "unknown", "failed", "signIn"},
         UNCHANGED <<vehicle, shown, picks, sent, keeps>>,
         sent[c] # NoCommand,
         \A d \in Calls \ {c} : queue'[d] = queue[d] /\ heard'[d] = heard[d],
         queue' \in [Calls -> {"none", "queued", "pending", "answered"}],
         heard' \in [Calls -> {"nothing", "queued", "pending", "odd", "answered"}],
         how = "confirmed" => queue'[c] = "answered",
         how = "unknown" => heard'[c] \notin {"queued", "pending"},
         how = "unconfirmed" => heard'[c] \in {"queued", "pending"}
  PROVE  IInv'
<1> USE DEF IInv, Ends
<1>1. TypeOK'
  BY DEF TypeOK
<1>2. PicksInv'
  BY DEF PicksInv
<1>3. SentInv'
  BY DEF SentInv, TypeOK
<1>4. WaitInv'
  BY DEF WaitInv, TypeOK
<1>5. IgnoredIsReported'
  BY DEF IgnoredIsReported, TypeOK
<1>6. QED
  BY <1>1, <1>2, <1>3, <1>4, <1>5

(* A call that is told of a status waits on, or ends.                      *)
LEMMA WaitsKeeps ==
  ASSUME IInv, NEW c \in Calls, at[c] = "probe",
         NEW status \in {"nothing", "queued", "pending", "odd"}, EndsOrSleeps(c, status),
         heard' = [heard EXCEPT ![c] = status],
         UNCHANGED <<vehicle, shown, picks, sent, queue, keeps>>
  PROVE  IInv'
<1>1. sent[c] # NoCommand
  BY DEF IInv, SentInv
<1>2. CASE c \in late
  <2>1. Ends(c, Verdict(status))
    BY <1>2 DEF EndsOrSleeps
  <2>2. /\ Verdict(status) \in {"unconfirmed", "unknown"}
        /\ Verdict(status) = "unknown" => status \notin {"queued", "pending"}
        /\ Verdict(status) = "unconfirmed" => status \in {"queued", "pending"}
    BY DEF Verdict
  <2>3. QED
    BY <1>1, <2>1, <2>2, EndsKeeps DEF IInv, TypeOK
<1>3. CASE c \notin late
  <2> USE <1>3 DEF IInv, EndsOrSleeps
  <2>1. TypeOK'
    BY DEF TypeOK
  <2>2. PicksInv'
    BY DEF PicksInv
  <2>3. SentInv'
    BY DEF SentInv, TypeOK
  <2>4. WaitInv'
    BY DEF WaitInv, TypeOK
  <2>5. IgnoredIsReported'
    BY DEF IgnoredIsReported, WaitInv, TypeOK
  <2>6. QED
    BY <2>1, <2>2, <2>3, <2>4, <2>5
<1>4. QED
  BY <1>2, <1>3

LEMMA ProbeKeeps ==
  ASSUME IInv, NEW c \in Calls, Probe(c)
  PROVE  IInv'
<1>1. /\ at[c] = "probe" /\ queue[c] # "none" /\ sent[c] # NoCommand
      /\ last[c] = heard[c] /\ last[c] \in {"nothing", "queued", "pending", "odd"}
      /\ queue[c] \in {"queued", "pending", "answered"}
      /\ UNCHANGED <<vehicle, shown, picks, sent, queue, keeps>>
  BY DEF Probe, IInv, SentInv, WaitInv, TypeOK
<1>2. CASE /\ queue[c] = "answered"
           /\ heard' = [heard EXCEPT ![c] = "answered"]
           /\ Ends(c, "confirmed")
  BY <1>1, <1>2, EndsKeeps DEF IInv, TypeOK
<1>3. ASSUME NEW status, status \in {queue[c], "odd"}, status # "answered",
             heard' = [heard EXCEPT ![c] = status], EndsOrSleeps(c, status)
      PROVE  IInv'
  BY <1>1, <1>3, WaitsKeeps
<1>4. CASE EndsOrSleeps(c, last[c]) /\ UNCHANGED heard
  <2>1. heard' = [heard EXCEPT ![c] = last[c]]
    BY <1>1, <1>4 DEF IInv, TypeOK
  <2>2. QED
    BY <1>1, <1>4, <2>1, WaitsKeeps
<1>5. CASE Ends(c, "signIn") /\ UNCHANGED heard
  BY <1>1, <1>5, EndsKeeps DEF IInv, TypeOK
<1>6. QED
  BY <1>2, <1>3, <1>4, <1>5 DEF Probe, Hears

LEMMA SendKeeps ==
  ASSUME IInv, NEW c \in Calls, Send(c)
  PROVE  IInv'
<1>1. /\ at[c] \in {"send", "sendOnly"} /\ sent[c] # NoCommand
      /\ UNCHANGED <<vehicle, shown, picks, sent, heard, keeps>>
      /\ queue' \in {queue, [queue EXCEPT ![c] = "queued"]}
  BY DEF Send, IInv, SentInv
<1>2. CASE Ends(c, "sent") \/ Ends(c, "failed")
  BY <1>1, <1>2, EndsKeeps DEF IInv, TypeOK
<1>3. CASE /\ queue' = [queue EXCEPT ![c] = "queued"]
           /\ at' = [at EXCEPT ![c] = "probe"]
           /\ UNCHANGED <<late, last, result>>
  <2> USE <1>1, <1>3 DEF IInv
  <2>1. TypeOK'
    BY DEF TypeOK
  <2>2. PicksInv'
    BY DEF PicksInv
  <2>3. SentInv'
    BY DEF SentInv, TypeOK
  <2>4. WaitInv'
    BY DEF WaitInv, TypeOK
  <2>5. IgnoredIsReported'
    BY DEF IgnoredIsReported, WaitInv, TypeOK
  <2>6. QED
    BY <2>1, <2>2, <2>3, <2>4, <2>5
<1>4. QED
  BY <1>2, <1>3 DEF Send

(* Nothing is asked, sent or told: only the mower, what is shown of it and *)
(* the pick change.                                                        *)
LEMMA AsideKeeps ==
  ASSUME IInv, vehicle' \in Vehicles, shown' \in Snapshots, PicksInv',
         UNCHANGED <<callVars, queue>>
  PROVE  IInv'
<1> USE DEF IInv, callVars
<1>1. TypeOK'
  <2>1. (picks \subseteq Zones /\ Cardinality(picks) <= 1)'
    <3>1. Cardinality({}) = 0 /\ \A z \in Zones : Cardinality({z}) = 1
      BY FS_EmptySet, FS_Singleton
    <3>2. QED
      BY <3>1 DEF PicksInv
  <2>2. QED
    BY <2>1 DEF TypeOK
<1>2. SentInv' /\ WaitInv' /\ IgnoredIsReported'
  BY DEF SentInv, WaitInv, IgnoredIsReported
<1>3. QED
  BY <1>1, <1>2

LEMMA InvInit == Init => IInv
<1> SUFFICES ASSUME Init PROVE IInv
  OBVIOUS
<1> USE DEF Init
<1>1. vehicle \in Vehicles
  BY DEF Vehicles, Codes
<1>2. shown \in Snapshots
  BY <1>1, ZonesType DEF Snapshots, Vehicles, Codes
<1>3. PicksInv
  BY DEF PicksInv
<1>4. TypeOK
  BY <1>1, <1>2, <1>3, PicksType, CommandType DEF TypeOK
<1>5. SentInv /\ WaitInv /\ IgnoredIsReported
  BY DEF SentInv, WaitInv, IgnoredIsReported
<1>6. QED
  BY <1>3, <1>4, <1>5 DEF IInv

LEMMA InvStep == IInv /\ [Next]_vars => IInv'
<1> SUFFICES ASSUME IInv, [Next]_vars
             PROVE  IInv'
  OBVIOUS
<1>1. CASE Poll
  <2>1. vehicle' \in Vehicles /\ vehicle.map \in Maps /\ shown.map \in {{}} \union Maps
    BY <1>1 DEF Poll, IInv, TypeOK, Vehicles, Snapshots
  <2>2. PICK geometry \in {vehicle.map, shown.map}, ofJob \in {{}, vehicle.map} :
          shown' = [code |-> vehicle.code, job |-> vehicle.job,
                    zones |-> ResolveZones(geometry, ofJob), map |-> geometry]
    BY <1>1 DEF Poll
  <2>3. geometry \in {{}} \union Maps /\ geometry \subseteq Zones /\ ofJob \subseteq Zones
    BY <2>1, <2>2, MapsType
  <2>4. shown' \in Snapshots
    BY <2>2, <2>3, ZonesType DEF IInv, TypeOK, Vehicles, Snapshots
  <2>5. QED
    BY <1>1, <2>1, <2>4, AsideKeeps DEF Poll, IInv, PicksInv
<1>2. ASSUME NEW option \in Zones \union {AllZones}, SelectOption(option)
      PROVE  IInv'
  <2>1. PicksInv'
    BY <1>2 DEF SelectOption, PicksInv
  <2>2. QED
    BY <1>2, <2>1, AsideKeeps DEF SelectOption, IInv, TypeOK
<1>3. ASSUME NEW c \in Calls, Start(c)
      PROVE  IInv'
  BY <1>3, StartType, BeginsKeeps DEF Start, IInv, TypeOK
<1>4. ASSUME NEW c \in Calls, PauseOrDock(c) \/ ResumeService(c)
      PROVE  IInv'
  BY <1>4, CommandType, BeginsKeeps DEF PauseOrDock, ResumeService, IInv, TypeOK
<1>5. ASSUME NEW c \in Calls, MowService(c)
      PROVE  IInv'
  <2>1. PICK zones \in SUBSET Zones, reset \in Resets, ordered \in BOOLEAN :
          Begins(c, Mow(zones, reset, ordered), "send")
    BY <1>5 DEF MowService, IInv, TypeOK, Snapshots
  <2>2. reset \in BOOLEAN
    BY CommandsAssumption
  <2>3. Mow(zones, reset, ordered) \in CommandSet \ {NoCommand}
    BY <2>2, CommandType
  <2>4. keeps' \subseteq Calls
    BY <1>5 DEF MowService, IInv, TypeOK
  <2>5. QED
    BY <2>1, <2>3, <2>4, BeginsKeeps
<1>6. ASSUME NEW c \in Calls, Send(c)
      PROVE  IInv'
  BY <1>6, SendKeeps
<1>7. ASSUME NEW c \in Calls, Probe(c)
      PROVE  IInv'
  BY <1>7, ProbeKeeps
<1>8. ASSUME NEW c \in Calls, Sleep(c) \/ DeadlinePasses(c)
      PROVE  IInv'
  BY <1>8
  DEF Sleep, DeadlinePasses, IInv, TypeOK, PicksInv, SentInv, WaitInv, IgnoredIsReported
<1>9. ASSUME NEW c \in Calls, MowerTakes(c)
      PROVE  IInv'
  <2>1. sent[c] \in CommandSet /\ sent[c] # NoCommand /\ vehicle \in Vehicles
    BY <1>9 DEF MowerTakes, IInv, SentInv, TypeOK
  <2>2. vehicle' \in Vehicles
    BY <1>9, <2>1, ObeyedType DEF MowerTakes
  <2>3. /\ queue' \in [Calls -> {"none", "queued", "pending", "answered"}]
        /\ \A d \in Calls : /\ queue[d] = "answered" => queue'[d] = "answered"
                            /\ queue'[d] = "none" <=> queue[d] = "none"
        /\ UNCHANGED <<shown, picks, callVars>>
    BY <1>9 DEF MowerTakes, IInv, TypeOK
  <2>4. QED
    BY <2>2, <2>3
    DEF callVars, IInv, TypeOK, PicksInv, SentInv, WaitInv, IgnoredIsReported
<1>10. CASE MowerMoves
  <2>1. vehicle' \in Vehicles
    <3>1. Onward(vehicle) \subseteq Codes /\ Worked(vehicle) \subseteq Jobs
      BY DEF IInv, TypeOK, Vehicles, Codes, Jobs, Onward, Worked
    <3>2. QED
      BY <1>10, <3>1 DEF MowerMoves, IInv, TypeOK, Vehicles
  <2>2. QED
    BY <1>10, <2>1, AsideKeeps DEF MowerMoves, IInv, TypeOK, PicksInv
<1>11. CASE UNCHANGED vars
  BY <1>11, AsideKeeps DEF vars, IInv, TypeOK, PicksInv
<1>12. QED
  BY <1>1, <1>2, <1>3, <1>4, <1>5, <1>6, <1>7, <1>8, <1>9, <1>10, <1>11 DEF Next

-----------------------------------------------------------------------------
(* Every variable keeps its type: no call is without a command, none waits *)
(* for an answer to what was not sent.                                     *)
THEOREM TypeCorrect == Spec => []TypeOK
<1>1. Spec => []IInv
  BY InvInit, InvStep, PTL DEF Spec
<1>2. QED
  BY <1>1, PTL DEF IInv

(* How a call ends is what the cloud last said of its command, for any     *)
(* number of calls at once, whichever probes fail or come too late         *)
(* (async_await_command, async_send_confirmed).                            *)
THEOREM EndsAsHeard == Spec => []IgnoredIsReported
<1>1. Spec => []IInv
  BY InvInit, InvStep, PTL DEF Spec
<1>2. QED
  BY <1>1, PTL DEF IInv

(* Once there is a decoded map, its zones are the ones shown.              *)
ShownInv == shown.map # {} => shown.zones = shown.map

LEMMA ShownStep == ASSUME TypeOK, ShownInv, [Next]_vars PROVE ShownInv'
<1>1. CASE Poll
  BY <1>1 DEF Poll, ResolveZones, ShownInv
<1>2. CASE UNCHANGED shown
  BY <1>2 DEF ShownInv
<1>3. ASSUME NEW c \in Calls,
             \/ Start(c) \/ PauseOrDock(c) \/ ResumeService(c) \/ MowService(c)
             \/ Send(c) \/ Probe(c) \/ Sleep(c) \/ DeadlinePasses(c) \/ MowerTakes(c)
      PROVE  UNCHANGED shown
  BY <1>3 DEF Start, PauseOrDock, ResumeService, MowService, Begins, Send, Probe, Sleep,
              DeadlinePasses, MowerTakes
<1>4. (\E option : SelectOption(option)) \/ MowerMoves \/ UNCHANGED vars => UNCHANGED shown
  BY DEF SelectOption, MowerMoves, vars
<1>5. QED
  BY <1>1, <1>2, <1>3, <1>4 DEF Next

(* A call that is asked to mow is one of Start or of the service.          *)
LEMMA AskedByStartOrService ==
  ASSUME IInv, [Next]_vars, NEW c \in Calls, AsksToMow(c)
  PROVE  Start(c) \/ MowService(c)
<1> DEFINE Asks(d) == Start(d) \/ PauseOrDock(d) \/ ResumeService(d) \/ MowService(d)
<1>1. ASSUME NEW d \in Calls, Asks(d)
      PROVE  d = c
  <2>1. at' = [at EXCEPT ![d] = at'[d]]
    BY <1>1 DEF Start, PauseOrDock, ResumeService, MowService, Begins, IInv, TypeOK
  <2>2. QED
    BY <2>1 DEF AsksToMow, IInv, TypeOK
<1>2. ~(PauseOrDock(c) \/ ResumeService(c))
  <2>1. ASSUME PauseOrDock(c) \/ ResumeService(c)
        PROVE  \E what \in {"pause", "dock", "resume"} : sent'[c] = Simple(what)
    BY <2>1 DEF PauseOrDock, ResumeService, Begins, IInv, TypeOK
  <2>2. QED
    BY <2>1 DEF AsksToMow, Simple
<1>3. ASSUME NEW d \in Calls,
             Send(d) \/ Probe(d) \/ Sleep(d) \/ DeadlinePasses(d)
      PROVE  FALSE
  <2>1. at[d] # "idle" /\ at' = [at EXCEPT ![d] = at'[d]]
    BY <1>3 DEF Send, Probe, Hears, EndsOrSleeps, Ends, Sleep, DeadlinePasses, IInv, TypeOK
  <2>2. QED
    BY <2>1 DEF AsksToMow, IInv, TypeOK
<1>4. ~UNCHANGED at
  BY DEF AsksToMow
<1>5. \A d \in Calls : MowerTakes(d) => UNCHANGED at
  BY DEF MowerTakes, callVars
<1>6. Poll \/ (\E option : SelectOption(option)) \/ MowerMoves \/ UNCHANGED vars
      => UNCHANGED at
  BY DEF Poll, SelectOption, MowerMoves, vars, callVars
<1>7. QED
  BY <1>1, <1>2, <1>3, <1>4, <1>5, <1>6 DEF Next

(* What the select shows, and what Start makes of the pick.                *)
LEMMA PickedZones ==
  ASSUME IInv
  PROVE  LET option == CurrentOption(shown.zones, picks)
             zones == StartZones(shown, picks)
         IN /\ zones \subseteq shown.zones
            /\ option = AllZones => zones = shown.zones
            /\ option \in Zones => zones = {option}
<1>1. shown.zones \subseteq Zones /\ AllZones \notin Zones /\ NoOption \notin Zones
      /\ AllZones # NoOption
  BY CommandsAssumption DEF IInv, TypeOK, Snapshots
<1>2. CASE shown.zones = {}
  BY <1>1, <1>2 DEF CurrentOption, StartZones
<1>3. CASE shown.zones # {} /\ picks = {}
  BY <1>1, <1>3 DEF CurrentOption, StartZones
<1>4. ASSUME NEW z \in Zones, picks = {z}, z \in shown.zones
      PROVE  /\ StartZones(shown, picks) = {z}
             /\ IF shown.zones = {z} THEN CurrentOption(shown.zones, picks) = AllZones
                ELSE CurrentOption(shown.zones, picks) = z
  BY <1>4 DEF CurrentOption, StartZones
<1>5. ASSUME NEW z \in Zones, picks = {z}, z \notin shown.zones, shown.zones # {}
      PROVE  /\ StartZones(shown, picks) = shown.zones
             /\ CurrentOption(shown.zones, picks) = NoOption
  BY <1>5 DEF CurrentOption, StartZones
<1>6. QED
  BY <1>1, <1>2, <1>3, <1>4, <1>5 DEF IInv, PicksInv

(* What Start and the service ask the mower to mow is what there is to     *)
(* mow, for any zones, maps and options, however old the pick is; and what *)
(* Start asks for is what the select shows (current_option,                *)
(* async_start_mowing, _check_zones, model_lacks).                         *)
THEOREM PickIsMown == Spec => ShownChoiceIsMown
<1>1. Spec => []IInv
  BY InvInit, InvStep, PTL DEF Spec
<1>2. Init => ShownInv
  BY CommandsAssumption DEF Init, ShownInv
<1>3. TypeOK /\ ShownInv /\ [Next]_vars => ShownInv'
  BY ShownStep
<1>4. IInv => TypeOK
  BY DEF IInv
<1>5. IInv /\ ShownInv /\ [Next]_vars
      => [\A c \in Calls :
            LET option == CurrentOption(shown.zones, picks)
                zones == sent'[c].zones
            IN AsksToMow(c) =>
                 /\ zones # {}
                 /\ shown.map # {} => zones \subseteq shown.map
                 /\ ~Ignored(sent'[c])
                 /\ Start(c) => /\ option = AllZones => zones = shown.zones
                                /\ option \in Zones => zones = {option}]_vars
  <2> DEFINE option == CurrentOption(shown.zones, picks)
  <2>1. SUFFICES ASSUME IInv, ShownInv, Next, NEW c \in Calls, AsksToMow(c)
                 PROVE  LET zones == sent'[c].zones
                        IN /\ zones # {}
                           /\ shown.map # {} => zones \subseteq shown.map
                           /\ ~Ignored(sent'[c])
                           /\ Start(c) => /\ option = AllZones => zones = shown.zones
                                          /\ option \in Zones => zones = {option}
    OBVIOUS
  <2>2. CASE Start(c)
    <3>1. sent'[c] = StartCommand(shown, picks) /\ sent'[c].do = "mow"
      BY <2>1, <2>2 DEF Start, Begins, AsksToMow, IInv, TypeOK
    <3>2. sent'[c] = Mow(StartZones(shown, picks), TRUE, StartOrdered(shown, picks))
      <4>1. Simple("resume").do # "mow"
        BY DEF Simple
      <4>2. QED
        BY <3>1, <4>1 DEF StartCommand
    <3>3. sent'[c].zones = StartZones(shown, picks) /\ ~Ignored(sent'[c])
      <4>1. /\ StartOrdered(shown, picks) \in BOOLEAN
            /\ StartOrdered(shown, picks) => ~LacksOrder
        BY DEF StartOrdered
      <4>2. QED
        BY <3>2, <4>1, UnorderedMow
    <3>4. sent'[c].zones # {}
      BY <2>2, <3>1 DEF Start
    <3>5. QED
      BY <2>1, <3>3, <3>4, PickedZones DEF ShownInv
  <2>3. CASE ~Start(c)
    <3>1. MowService(c)
      BY <2>1, <2>3, AskedByStartOrService
    <3>2. PICK asked \in SUBSET Zones, reset \in Resets, ordered \in BOOLEAN :
            LET zones == IF asked # {} THEN asked ELSE shown.zones IN
            /\ CheckZones(asked)
            /\ zones # {}
            /\ ordered => ~LacksOrder
            /\ Begins(c, Mow(zones, reset, ordered), "send")
      BY <3>1 DEF MowService
    <3>3. sent'[c] = Mow(IF asked # {} THEN asked ELSE shown.zones, reset, ordered)
      BY <2>1, <3>2 DEF Begins, IInv, TypeOK
    <3>4. /\ sent'[c].zones = IF asked # {} THEN asked ELSE shown.zones
          /\ ~Ignored(sent'[c])
      BY <3>2, <3>3, UnorderedMow
    <3>5. QED
      BY <2>1, <2>3, <3>2, <3>4 DEF ShownInv, CheckZones
  <2>4. QED
    BY <2>2, <2>3
<1>6. QED
  BY <1>1, <1>2, <1>3, <1>4, <1>5, PTL DEF Spec, ShownChoiceIsMown

(* What is sent for a Start that must keep the job is a resume, however    *)
(* the snapshot, the picks and the mower change before it arrives.         *)
KeepInv == \A c \in keeps : c \in Calls /\ sent[c] = Simple("resume")

LEMMA KeepStep ==
  ASSUME TypeOK, KeepInv, [Next]_vars
  PROVE  KeepInv'
<1>1. ASSUME NEW c \in Calls, Start(c)
      PROVE  KeepInv'
  <2>1. WaitsToGoOn => StartCommand(shown, picks) = Simple("resume")
    BY DEF WaitsToGoOn, StartCommand, GoesOn
  <2>2. /\ sent' = [sent EXCEPT ![c] = StartCommand(shown, picks)]
        /\ keeps' = IF WaitsToGoOn THEN keeps \union {c} ELSE keeps \ {c}
    BY <1>1 DEF Start, Begins
  <2>3. QED
    BY <2>1, <2>2 DEF KeepInv, TypeOK
<1>2. ASSUME NEW c \in Calls, PauseOrDock(c) \/ ResumeService(c) \/ MowService(c)
      PROVE  KeepInv'
  <2>1. keeps' = keeps \ {c} /\ \E command : sent' = [sent EXCEPT ![c] = command]
    BY <1>2 DEF PauseOrDock, ResumeService, MowService, Begins
  <2>2. QED
    BY <2>1 DEF KeepInv, TypeOK
<1>3. CASE UNCHANGED <<sent, keeps>>
  BY <1>3 DEF KeepInv
<1>4. ASSUME NEW c \in Calls,
             Send(c) \/ Probe(c) \/ Sleep(c) \/ DeadlinePasses(c) \/ MowerTakes(c)
      PROVE  UNCHANGED <<sent, keeps>>
  BY <1>4 DEF Send, Probe, Sleep, DeadlinePasses, MowerTakes, callVars
<1>5. Poll \/ (\E option : SelectOption(option)) \/ MowerMoves \/ UNCHANGED vars
      => UNCHANGED <<sent, keeps>>
  BY DEF Poll, SelectOption, MowerMoves, vars, callVars
<1>6. QED
  BY <1>1, <1>2, <1>3, <1>4, <1>5 DEF Next

(* A Start at a mower that waits to go on ends no job, for any number of   *)
(* calls that overtake each other in the queue and any change between its  *)
(* decision and its arrival (async_start_mowing).                          *)
THEOREM JobsAreKept == Spec => JobIsKept
<1>1. Spec => []IInv
  BY InvInit, InvStep, PTL DEF Spec
<1>2. Init => KeepInv
  BY DEF Init, KeepInv
<1>3. TypeOK /\ KeepInv /\ [Next]_vars => KeepInv'
  BY KeepStep
<1>4. IInv => TypeOK
  BY DEF IInv
<1>5. TypeOK /\ KeepInv /\ [Next]_vars
      => [\A c \in keeps : MowerTakes(c) /\ vehicle.job = "part" => vehicle'.job = "part"]_vars
  <2>1. SUFFICES ASSUME TypeOK, KeepInv, NEW c \in keeps, MowerTakes(c), vehicle.job = "part"
                 PROVE  vehicle'.job = "part"
    OBVIOUS
  <2>2. vehicle \in Vehicles /\ sent[c].do = "resume"
    BY <2>1 DEF TypeOK, KeepInv, Simple
  <2>3. Obeyed(vehicle, sent[c]).job = vehicle.job
    BY <2>2 DEF Obeyed, Vehicles
  <2>4. vehicle' = vehicle \/ vehicle' = Obeyed(vehicle, sent[c])
    BY <2>1 DEF MowerTakes
  <2>5. QED
    BY <2>1, <2>3, <2>4
<1>6. QED
  BY <1>1, <1>2, <1>3, <1>4, <1>5, PTL DEF Spec, JobIsKept

=============================================================================
