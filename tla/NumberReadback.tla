--------------------------- MODULE NumberReadback ---------------------------
(***************************************************************************)
(* A number of the mower, the cutting height (number.py): the value asked  *)
(* for is shown until the mower reports it or half a minute has passed,    *)
(* and half a minute after the write the settings are read again to see    *)
(* whether the mower took it.  If not, a warning is put up, and taken down *)
(* again should the value arrive after all.                                *)
(*                                                                         *)
(* Calls of async_set_native_value are not serialised: a second may begin  *)
(* at any await of the first.  Polls read one at a time, under the lock of *)
(* the coordinator.  That the flag _force_slow is read and cleared by two  *)
(* statements is modelled in SettingWrites, here it is one step.           *)
(***************************************************************************)
EXTENDS Integers, FiniteSets

CONSTANTS
  Calls,    \* calls of async_set_native_value; they name their timers, too,
            \* and the polls made by their read-backs
  Requests, \* the values the slider may be set to
  Allowed,  \* the heights the mower lists (none if it lists none)
  Tick,     \* the poll of the coordinator, on its timer or requested
  Nothing,  \* no value, no timer
  Faults,   \* what may fail: a stage ("refuse"), a poll ("poll"), the settings
            \* of a poll ("settings"); or lack the height ("missing")
  Removes   \* whether the entity may be removed

ASSUME ConstantsAssumption ==
  /\ Tick \notin Calls
  /\ Nothing \notin Calls \union Requests \union Allowed
  /\ Requests \subseteq Nat /\ Requests # {}
  /\ Allowed \subseteq Nat
  /\ Faults \subseteq {"refuse", "poll", "settings", "missing"}
  /\ Removes \in BOOLEAN

Heights == IF Allowed = {} THEN Requests ELSE Allowed

Polls == Calls \union {Tick}
OrNothing(S) == S \union {Nothing}

VARIABLES
  cpc,       \* where each call is
  target,    \* the wire value it asks for
  number,    \* the entity
  note,      \* the height the notification tells of, if there is one
  confirming,\* the _async_confirm tasks that await their refresh
  entity,    \* the entity is there
  ppc,       \* where each poll is
  force,     \* _force_slow
  raw,       \* the height in _raw_cache["set_list"]
  data,      \* the height in coordinator.data
  lastOk,    \* last_update_success
  reported,  \* the height the cloud reports (external)
  verdict    \* what has become of the height expected last (history)

calls == <<cpc, target>>
polls == <<ppc, force, raw, data, lastOk>>
vars == <<calls, number, note, confirming, entity, polls, reported, verdict>>

(* A height that was read, and whether since the last call came to its end *)
(* (history).                                                              *)
Readings == [height : OrNothing(Heights), fresh : BOOLEAN]

TypeOK ==
  /\ cpc \in [Calls -> {"idle", "device", "cloud", "done", "refused"}]
  /\ target \in [Calls -> OrNothing(Heights)]
  /\ number \in [shown : OrNothing(Heights), shownTimer : OrNothing(Calls),
                 pending : OrNothing(Heights), confirmTimer : OrNothing(Calls),
                 failed : OrNothing(Heights),
                 armed : SUBSET ({"shown", "confirm"} \X Calls)]
  /\ note \in OrNothing(Heights)
  /\ confirming \subseteq Calls
  /\ entity \in BOOLEAN
  /\ ppc \in [Polls -> {"idle", "queued", "read", "failed"}]
  /\ force \in BOOLEAN
  /\ raw \in Readings
  /\ data \in Readings
  /\ lastOk \in BOOLEAN
  /\ reported \in Heights
  /\ verdict \in {"none", "open", "applied", "warned"}

-----------------------------------------------------------------------------
(* The entity.  "armed" are the timers Home Assistant runs; shownTimer and *)
(* confirmTimer are the ones that can be cancelled (_unsub_shown,          *)
(* _unsub_confirm).                                                        *)

(* _drop_shown *)
Dropped(n) ==
  [n EXCEPT !.shown = Nothing, !.shownTimer = Nothing,
            !.armed = @ \ {<<"shown", n.shownTimer>>}]

(* The timer of the call before is not cancelled.                          *)
ShowsAnyway(n, c) ==
  [n EXCEPT !.shown = target'[c], !.shownTimer = c, !.armed = @ \union {<<"shown", c>>}]

(* _show *)
Shows(n, c) ==
  [Dropped(n) EXCEPT !.shown = target'[c], !.shownTimer = c,
                     !.armed = @ \union {<<"shown", c>>}]

(* _cancel_confirm *)
Unconfirmed(n) ==
  [n EXCEPT !.confirmTimer = Nothing, !.armed = @ \ {<<"confirm", n.confirmTimer>>}]

(* No timer is started if there was one.                                   *)
ExpectsOnce(n, c) ==
  [Unconfirmed(n) EXCEPT !.pending = target[c], !.confirmTimer = c,
                         !.armed = IF n.confirmTimer = Nothing
                                   THEN @ \union {<<"confirm", c>>} ELSE @]

(* _expect *)
Expects(n, c) ==
  [Unconfirmed(n) EXCEPT !.pending = target[c], !.confirmTimer = c,
                         !.armed = @ \union {<<"confirm", c>>}]

(* The warning stands.                                                     *)
MeetsLatest(n, height) ==
  LET d == IF n.shown # Nothing /\ height = n.shown THEN Dropped(n) ELSE n
  IN IF n.pending # Nothing /\ height = n.pending
     THEN [Unconfirmed(d) EXCEPT !.pending = Nothing, !.failed = Nothing] ELSE d

(* _handle_coordinator_update: what a snapshot makes of the entity.        *)
Meets(n, height) ==
  LET shownSeen == n.shown # Nothing /\ height = n.shown
      pendingSeen == n.pending # Nothing /\ height = n.pending
      d == IF shownSeen THEN Dropped(n) ELSE n
      p == IF pendingSeen THEN [Unconfirmed(d) EXCEPT !.pending = Nothing] ELSE d
  IN [p EXCEPT !.failed = IF height = @ THEN Nothing ELSE @]

-----------------------------------------------------------------------------
(* async_set_native_value.  In the awaits of async_send the call waits for *)
(* its thread, and for the refresh it asked for if that comes at once;     *)
(* the refresh is one of those Tick stands for.                            *)

Far(a, b) == IF a < b THEN b - a ELSE a - b

WireAsAsked(value) == value

(* The nearest height the mower listed, the lower of two.                  *)
Wire(value) ==
  IF Allowed = {} THEN value
  ELSE CHOOSE h \in Allowed :
         \A g \in Allowed : \/ Far(h, value) < Far(g, value)
                            \/ Far(h, value) = Far(g, value) /\ h <= g

SetCalled(c, value) ==
  /\ entity
  /\ cpc[c] = "idle"
  /\ cpc' = [cpc EXCEPT ![c] = "device"]
  /\ target' = [target EXCEPT ![c] = Wire(value)]
  /\ number' = Shows(number, c)
  /\ UNCHANGED <<note, confirming, entity, polls, reported, verdict>>

(* Refused, by the mower or the cloud: the slider goes back.               *)
SetRefused(c) ==
  /\ "refuse" \in Faults
  /\ cpc[c] \in {"device", "cloud"}
  /\ cpc' = [cpc EXCEPT ![c] = "refused"]
  /\ number' = Dropped(number)
  /\ UNCHANGED <<target, note, confirming, entity, polls, reported, verdict>>

DeviceAccepts(c) ==
  /\ cpc[c] = "device"
  /\ cpc' = [cpc EXCEPT ![c] = "cloud"]
  /\ force' = TRUE
  /\ UNCHANGED <<target, number, note, confirming, entity, ppc, raw, data, lastOk,
                 reported, verdict>>

(* The cloud saves the height, and the call comes to its end.              *)
SetEnds(c) ==
  /\ cpc[c] = "cloud"
  /\ cpc' = [cpc EXCEPT ![c] = "done"]
  /\ force' = TRUE
  /\ number' = Expects(number, c)
  /\ verdict' = "open"
  /\ raw' = [raw EXCEPT !.fresh = FALSE]
  /\ data' = [data EXCEPT !.fresh = FALSE]
  /\ UNCHANGED <<target, note, confirming, entity, ppc, lastOk,
                 reported>>

-----------------------------------------------------------------------------
(* The timers.                                                             *)

(* _async_shown_expired *)
ShownExpires(c) ==
  /\ <<"shown", c>> \in number.armed
  /\ number' = [number EXCEPT !.shown = Nothing, !.shownTimer = Nothing,
                              !.armed = @ \ {<<"shown", c>>}]
  /\ UNCHANGED <<calls, note, confirming, entity, polls, reported, verdict>>

(* _async_confirm, up to its refresh.                                      *)
ConfirmFires(c) ==
  /\ <<"confirm", c>> \in number.armed
  /\ number' = [number EXCEPT !.confirmTimer = Nothing,
                              !.armed = @ \ {<<"confirm", c>>}]
  /\ IF number.pending = Nothing
     THEN UNCHANGED <<confirming, force, ppc>>
     ELSE /\ confirming' = confirming \union {c}
          /\ force' = TRUE
          /\ ppc' = [ppc EXCEPT ![c] = "queued"]
  /\ UNCHANGED <<calls, note, entity, raw, data, lastOk, reported, verdict>>

-----------------------------------------------------------------------------
(* A poll.                                                                 *)

TickFires ==
  /\ ppc[Tick] = "idle"
  /\ ppc' = [ppc EXCEPT ![Tick] = "queued"]
  /\ UNCHANGED <<calls, number, note, confirming, entity, force, raw, data, lastOk,
                 reported, verdict>>

Reading(height) == [height |-> height, fresh |-> TRUE]

PollTurn(p) ==
  /\ ppc[p] = "queued"
  /\ \A q \in Polls : ppc[q] \notin {"read", "failed"}
  /\ force' = FALSE
  /\ UNCHANGED <<calls, number, note, confirming, entity, data, lastOk, reported, verdict>>

(* The settings are read.                                                  *)
PollReads(p) ==
  /\ PollTurn(p)
  /\ ppc' = [ppc EXCEPT ![p] = "read"]
  /\ \/ raw' = Reading(reported)
     \/ "missing" \in Faults /\ raw' = Reading(Nothing)

(* Only the fast group was due, or the settings could not be read.         *)
PollSkipsSettings(p) ==
  /\ PollTurn(p)
  /\ ~force \/ "settings" \in Faults
  /\ ppc' = [ppc EXCEPT ![p] = "read"]
  /\ UNCHANGED raw

PollFails(p) ==
  /\ "poll" \in Faults
  /\ PollTurn(p)
  /\ ppc' = [ppc EXCEPT ![p] = "failed"]
  /\ UNCHANGED raw

PollFetches(p) == PollReads(p) \/ PollSkipsSettings(p) \/ PollFails(p)

(* The entity is told of a snapshot, and of the first failure.             *)
Told(ok) == IF entity /\ (ok \/ lastOk) THEN Meets(number, data'.height) ELSE number

(* What is expected was noted before the refresh.                          *)
ConcludesAsBefore(p, met) ==
  IF p \in confirming /\ number.pending # Nothing
  THEN /\ number' = [met EXCEPT !.pending = Nothing, !.failed = number.pending]
       /\ note' = number.pending
       /\ verdict' = "warned"
  ELSE /\ number' = met
       /\ note' = IF met.failed # number.failed THEN Nothing ELSE note
       /\ verdict' = IF number.pending # met.pending THEN "applied" ELSE verdict

(* _async_confirm, after its refresh: what is still pending has failed.    *)
Concludes(p, met) ==
  IF p \in confirming /\ met.pending # Nothing
  THEN /\ number' = [met EXCEPT !.pending = Nothing, !.failed = met.pending]
       /\ note' = met.pending
       /\ verdict' = "warned"
  ELSE /\ number' = met
       /\ note' = IF met.failed # number.failed THEN Nothing ELSE note
       /\ verdict' = IF number.pending # met.pending THEN "applied" ELSE verdict

(* The snapshot is published, the entity is told, and the read-back that   *)
(* awaited the refresh concludes.                                          *)
PollEnds(p) ==
  /\ ppc[p] \in {"read", "failed"}
  /\ LET ok == ppc[p] = "read" IN
     /\ data' = IF ok THEN raw ELSE data
     /\ lastOk' = ok
     /\ Concludes(p, Told(ok))
  /\ confirming' = confirming \ {p}
  /\ ppc' = [ppc EXCEPT ![p] = "idle"]
  /\ UNCHANGED <<calls, entity, force, raw, reported>>

-----------------------------------------------------------------------------
(* async_will_remove_from_hass *)
Remove ==
  /\ Removes
  /\ entity
  /\ entity' = FALSE
  /\ number' = Dropped(Unconfirmed(number))
  /\ UNCHANGED <<calls, note, confirming, polls, reported, verdict>>

(* The cloud reports what was saved, what the mower has, or what the app   *)
(* set meanwhile: the mower obeys at once, late or never.                  *)
ReportMoves ==
  /\ reported' \in Heights \ {reported}
  /\ UNCHANGED <<calls, number, note, confirming, entity, polls, verdict>>

Init ==
  /\ cpc = [c \in Calls |-> "idle"]
  /\ target = [c \in Calls |-> Nothing]
  /\ number = [shown |-> Nothing, shownTimer |-> Nothing, pending |-> Nothing,
               confirmTimer |-> Nothing, failed |-> Nothing, armed |-> {}]
  /\ note = Nothing
  /\ confirming = {}
  /\ entity = TRUE
  /\ ppc = [p \in Polls |-> "idle"]
  /\ force = FALSE
  /\ reported \in Heights
  /\ raw = Reading(reported)
  /\ data = raw
  /\ lastOk = TRUE
  /\ verdict = "none"

CallSteps(c) == SetRefused(c) \/ DeviceAccepts(c) \/ SetEnds(c)

Next ==
  \/ \E c \in Calls, value \in Requests : SetCalled(c, value)
  \/ \E c \in Calls : CallSteps(c) \/ ShownExpires(c) \/ ConfirmFires(c)
  \/ TickFires
  \/ \E p \in Polls : PollFetches(p) \/ PollEnds(p)
  \/ Remove
  \/ ReportMoves

Spec == Init /\ [][Next]_vars

(* Timers fire and threads make progress; the lock serves its waiters in   *)
(* turn, hence strong fairness of a poll.  As long as there are entities   *)
(* the coordinator polls, and the cloud answers again and again.           *)
Fairness ==
  /\ \A c \in Calls : WF_vars(ConfirmFires(c))
  /\ \A p \in Polls : SF_vars(PollFetches(p) \/ PollEnds(p))
  /\ WF_vars(TickFires)
  /\ SF_vars(PollReads(Tick) /\ raw'.height = reported)

FairSpec == Spec /\ Fairness

-----------------------------------------------------------------------------
(* What is shown instead of the mower's own height has a timer that will   *)
(* end it, the one of the call whose height it is: an older call's timer   *)
(* never ends it, nor does one that was forgotten fire later (_show and    *)
(* _drop_shown, _expect and _cancel_confirm).                              *)
TimersAreHeld ==
  /\ \A c \in Calls : <<"shown", c>> \in number.armed
                        => number.shownTimer = c /\ number.shown = target[c]
  /\ number.shown # Nothing => \E c \in Calls : <<"shown", c>> \in number.armed
  /\ \A c \in Calls : <<"confirm", c>> \in number.armed => number.confirmTimer = c

(* As long as the entity is there to be told of snapshots, a height that   *)
(* was reported while it was expected is not warned of, even               *)
(* if the read-back was under way by then, or read it itself               *)
(* (_async_confirm: "if the value arrived, _handle_coordinator_update has  *)
(* already cleared _pending").                                             *)
Warned == verdict' = "warned" /\ verdict # "warned"
AppliedIsNotWarned ==
  [][Warned /\ entity => verdict = "open" /\ (lastOk' => data'.height # number'.failed)]_vars

(* Every height expected is judged in the end, whatever other calls and    *)
(* read-backs are under way (_expect: "come back to check it was applied").*)
EveryExpectationIsJudged == number.pending # Nothing ~> number.pending = Nothing \/ ~entity

(* A warning does not stay up while the mower reports the height it tells  *)
(* of ("Arrived late after all: take the warning back").                   *)
WarningIsTakenBack ==
  \A height \in Heights : ~<>[](entity /\ note = height /\ reported = height)

(* A height is warned of after the settings were read since its write      *)
(* (_async_confirm: "read the settings afresh, then decide").              *)
WarningIsEarned == [][Warned => data'.fresh]_vars

=============================================================================
