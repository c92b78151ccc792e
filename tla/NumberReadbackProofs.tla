------------------------ MODULE NumberReadbackProofs ------------------------
(***************************************************************************)
(* Proofs about NumberReadback, for any calls, any slider and any heights  *)
(* the mower lists.                                                        *)
(***************************************************************************)
EXTENDS NumberReadback, WellFoundedInduction, TLAPS

Numbers == [shown : OrNothing(Heights), shownTimer : OrNothing(Calls),
            pending : OrNothing(Heights), confirmTimer : OrNothing(Calls),
            failed : OrNothing(Heights),
            armed : SUBSET ({"shown", "confirm"} \X Calls)]

-----------------------------------------------------------------------------
(* The height the mower is asked for.                                      *)

LEMMA LeastNumber ==
  ASSUME NEW S \in SUBSET Nat, S # {}
  PROVE  \E n \in S : \A m \in S : n <= m
<1>1. PICK n \in S : \A m \in S : <<m, n>> \notin OpToRel(<, Nat)
  BY WFMin, NatLessThanWellFounded, Zenon
<1>2. \A m \in S : ~(m < n)
  <2>1. SUFFICES ASSUME NEW m \in S, m < n PROVE FALSE
    OBVIOUS
  <2>2. <<m, n>> \in OpToRel(<, Nat)
    BY <2>1, Zenon DEF OpToRel
  <2>3. QED
    BY <1>1, <2>2
<1>3. QED
  BY <1>2

(* There is a nearest height, and a lower of two that are as near.         *)
LEMMA NearestHeight ==
  ASSUME NEW value \in Requests, Allowed # {}
  PROVE  \E h \in Allowed : \A g \in Allowed :
           \/ Far(h, value) < Far(g, value)
           \/ Far(h, value) = Far(g, value) /\ h <= g
<1>1. value \in Nat /\ Allowed \subseteq Nat
  BY ConstantsAssumption
<1>2. \A h \in Allowed : Far(h, value) \in Nat
  BY <1>1 DEF Far
<1> DEFINE Ways == {Far(h, value) : h \in Allowed}
<1>3. PICK near \in Ways : \A way \in Ways : near <= way
  <2>1. Ways \in SUBSET Nat /\ Ways # {}
    BY <1>2
  <2> HIDE DEF Ways
  <2>2. QED
    BY <2>1, LeastNumber
<1> DEFINE Nearest == {h \in Allowed : Far(h, value) = near}
<1>4. PICK low \in Nearest : \A h \in Nearest : low <= h
  <2>1. Nearest \in SUBSET Nat /\ Nearest # {}
    BY <1>1
  <2> HIDE DEF Nearest
  <2>2. QED
    BY <2>1, LeastNumber
<1>5. ASSUME NEW g \in Allowed
      PROVE  \/ Far(low, value) < Far(g, value)
             \/ Far(low, value) = Far(g, value) /\ low <= g
  <2>1. near <= Far(g, value)
    BY <1>3
  <2>2. CASE Far(g, value) = near
    BY <1>4, <2>2
  <2>3. CASE Far(g, value) # near
    BY <1>2, <2>1, <2>3
  <2>4. QED
    BY <2>2, <2>3
<1>6. QED
  BY <1>5

LEMMA WireType ==
  ASSUME NEW value \in Requests
  PROVE  Wire(value) \in Heights
<1>1. CASE Allowed = {}
  BY <1>1 DEF Wire, Heights
<1>2. CASE Allowed # {}
  BY <1>2, NearestHeight DEF Wire, Heights
<1>3. QED
  BY <1>1, <1>2

-----------------------------------------------------------------------------
(* What the operators of the entity do to its timers.                      *)

(* An entity as it should be: TimersAreHeld, of n and of the heights asked *)
(* for.                                                                    *)
Held(n, asked) ==
  /\ \A c \in Calls : <<"shown", c>> \in n.armed
                        => n.shownTimer = c /\ n.shown = asked[c]
  /\ n.shown # Nothing => \E c \in Calls : <<"shown", c>> \in n.armed
  /\ \A c \in Calls : <<"confirm", c>> \in n.armed => n.confirmTimer = c

LEMMA NothingIsNoCall == Nothing \notin Calls /\ Nothing \notin Heights
BY ConstantsAssumption DEF Heights

LEMMA DroppedIsHeld ==
  ASSUME NEW n \in Numbers, NEW asked, Held(n, asked)
  PROVE  /\ Dropped(n) \in Numbers
         /\ Held(Dropped(n), asked)
         /\ \A c \in Calls : <<"shown", c>> \notin Dropped(n).armed
         /\ Dropped(n).pending = n.pending /\ Dropped(n).failed = n.failed
BY DEF Dropped, Numbers, Held, OrNothing

LEMMA UnconfirmedIsHeld ==
  ASSUME NEW n \in Numbers, NEW asked, Held(n, asked)
  PROVE  /\ Unconfirmed(n) \in Numbers
         /\ Held(Unconfirmed(n), asked)
         /\ \A c \in Calls : <<"confirm", c>> \notin Unconfirmed(n).armed
         /\ Unconfirmed(n).pending = n.pending
BY DEF Unconfirmed, Numbers, Held, OrNothing

(* A snapshot takes what is expected away only if it has it.               *)
LEMMA MeetsIsHeld ==
  ASSUME NEW n \in Numbers, NEW asked, Held(n, asked), NEW height \in OrNothing(Heights)
  PROVE  /\ Meets(n, height) \in Numbers
         /\ Held(Meets(n, height), asked)
         /\ Meets(n, height).pending
            = IF n.pending # Nothing /\ height = n.pending THEN Nothing ELSE n.pending
<1> DEFINE d == IF n.shown # Nothing /\ height = n.shown THEN Dropped(n) ELSE n
           p == IF n.pending # Nothing /\ height = n.pending
                THEN [Unconfirmed(d) EXCEPT !.pending = Nothing] ELSE d
<1>1. d \in Numbers /\ Held(d, asked) /\ d.pending = n.pending
  BY DroppedIsHeld
<1> HIDE DEF d
<1>2. /\ p \in Numbers /\ Held(p, asked)
      /\ p.pending = IF n.pending # Nothing /\ height = n.pending THEN Nothing ELSE n.pending
  <2>1. CASE n.pending # Nothing /\ height = n.pending
    <3>1. PICK u \in Numbers : u = Unconfirmed(d) /\ Held(u, asked)
      BY <1>1, UnconfirmedIsHeld
    <3>2. p = [u EXCEPT !.pending = Nothing]
      BY <2>1, <3>1
    <3>3. QED
      BY <2>1, <3>1, <3>2 DEF Numbers, Held, OrNothing
  <2>2. CASE ~(n.pending # Nothing /\ height = n.pending)
    BY <1>1, <2>2
  <2>3. QED
    BY <2>1, <2>2
<1> HIDE DEF p
<1>3. Meets(n, height) = [p EXCEPT !.failed = IF height = @ THEN Nothing ELSE @]
  BY DEF Meets, p, d
<1>4. QED
  BY <1>2, <1>3 DEF Numbers, Held, OrNothing

-----------------------------------------------------------------------------
(* Types and timers: each needs the other, since a timer that is cancelled *)
(* is the one the entity holds.                                            *)

SafeInv == TypeOK /\ TimersAreHeld

LEMMA TimersHeld == TimersAreHeld <=> Held(number, target)
BY DEF TimersAreHeld, Held

LEMMA NumberType == TypeOK => number \in Numbers
BY DEF TypeOK, Numbers

LEMMA SafeInit == Init => SafeInv
<1> SUFFICES ASSUME Init PROVE SafeInv
  OBVIOUS
<1>1. Nothing \notin Calls
  BY NothingIsNoCall
<1>2. TypeOK
  BY DEF Init, TypeOK, OrNothing, Polls, Readings, Reading
<1>3. TimersAreHeld
  BY DEF Init, TimersAreHeld
<1>4. QED
  BY <1>2, <1>3 DEF SafeInv

(* A poll that ends, for what it tells the entity.                         *)
LEMMA PollEndsSafely ==
  ASSUME SafeInv, NEW p \in Polls, PollEnds(p)
  PROVE  SafeInv'
<1> DEFINE met == Told(ppc[p] = "read")
<1>1. /\ data' \in Readings /\ lastOk' \in BOOLEAN
      /\ confirming' \subseteq Calls
      /\ ppc' \in [Polls -> {"idle", "queued", "read", "failed"}]
      /\ UNCHANGED <<calls, entity, force, raw, reported>>
  BY DEF PollEnds, SafeInv, TypeOK
<1>2. met \in Numbers /\ Held(met, target) /\ number \in Numbers
  <2>1. data'.height \in OrNothing(Heights)
    BY <1>1 DEF Readings
  <2>2. number \in Numbers /\ Held(number, target)
    BY NumberType, TimersHeld DEF SafeInv
  <2>3. QED
    BY <2>1, <2>2, MeetsIsHeld DEF Told
<1>3. /\ number' \in Numbers /\ Held(number', target)
      /\ note' \in OrNothing(Heights)
      /\ verdict' \in {"none", "open", "applied", "warned"}
  <2> HIDE DEF met
  <2>1. Concludes(p, met)
    BY DEF PollEnds, met
  <2>2. CASE p \in confirming /\ met.pending # Nothing
    <3>1. number' = [met EXCEPT !.pending = Nothing, !.failed = met.pending]
          /\ note' = met.pending /\ verdict' = "warned"
      BY <2>1, <2>2 DEF Concludes
    <3>2. number' \in Numbers /\ note' \in OrNothing(Heights)
      BY <1>2, <3>1 DEF Numbers, OrNothing
    <3>3. /\ number'.shown = met.shown /\ number'.shownTimer = met.shownTimer
          /\ number'.confirmTimer = met.confirmTimer /\ number'.armed = met.armed
      BY <1>2, <3>1 DEF Numbers
    <3>4. QED
      BY <1>2, <3>1, <3>2, <3>3 DEF Held
  <2>3. CASE ~(p \in confirming /\ met.pending # Nothing)
    BY <1>2, <2>1, <2>3 DEF Concludes, SafeInv, TypeOK, OrNothing
  <2>4. QED
    BY <2>2, <2>3
<1>4. QED
  BY <1>1, <1>3, TimersHeld DEF SafeInv, TypeOK, TimersAreHeld, Held, Numbers, calls

LEMMA SafeStep == SafeInv /\ [Next]_vars => SafeInv'
<1> SUFFICES ASSUME SafeInv, [Next]_vars
             PROVE  SafeInv'
  OBVIOUS
<1> USE NothingIsNoCall
<1>1. TypeOK /\ number \in Numbers /\ Held(number, target)
  BY NumberType, TimersHeld DEF SafeInv
<1>2. ASSUME NEW c \in Calls, NEW value \in Requests, SetCalled(c, value)
      PROVE  SafeInv'
  <2>1. target' \in [Calls -> OrNothing(Heights)] /\ target'[c] \in Heights
    BY <1>1, <1>2, WireType DEF SetCalled, TypeOK, OrNothing
  <2>2. PICK d \in Numbers :
          d = Dropped(number) /\ Held(d, target)
          /\ \A e \in Calls : <<"shown", e>> \notin d.armed
    BY <1>1, DroppedIsHeld
  <2>3. number' = [d EXCEPT !.shown = target'[c], !.shownTimer = c,
                           !.armed = @ \union {<<"shown", c>>}]
    BY <1>2, <2>2 DEF SetCalled, Shows
  <2>4. number' \in Numbers /\ Held(number', target')
    <3>1. number' \in Numbers
      <4>1. d.armed \union {<<"shown", c>>} \in SUBSET ({"shown", "confirm"} \X Calls)
        BY <2>2 DEF Numbers
      <4>2. target'[c] \in OrNothing(Heights) /\ c \in OrNothing(Calls)
        BY <2>1 DEF OrNothing
      <4>3. QED
        BY <2>2, <2>3, <4>1, <4>2 DEF Numbers
    <3>2. /\ number'.shown = target'[c] /\ number'.shownTimer = c
          /\ number'.confirmTimer = d.confirmTimer
          /\ number'.armed = d.armed \union {<<"shown", c>>}
      BY <2>2, <2>3 DEF Numbers
    <3>3. QED
      BY <2>1, <2>2, <3>1, <3>2 DEF Held
  <2>5. cpc' \in [Calls -> {"idle", "device", "cloud", "done", "refused"}]
    BY <1>1, <1>2 DEF SetCalled, TypeOK
  <2>6. QED
    BY <1>1, <1>2, <2>1, <2>4, <2>5
    DEF SetCalled, polls, SafeInv, TypeOK, TimersAreHeld, Held, Numbers
<1>3. ASSUME NEW c \in Calls, SetRefused(c)
      PROVE  SafeInv'
  <2>1. number' \in Numbers /\ Held(number', target)
    BY <1>1, <1>3, DroppedIsHeld DEF SetRefused
  <2>2. QED
    BY <1>1, <1>3, <2>1
    DEF SetRefused, polls, SafeInv, TypeOK, TimersAreHeld, Held, Numbers
<1>4. ASSUME NEW c \in Calls, DeviceAccepts(c)
      PROVE  SafeInv'
  BY <1>1, <1>4 DEF DeviceAccepts, SafeInv, TypeOK, TimersAreHeld, Held
<1>5. ASSUME NEW c \in Calls, SetEnds(c)
      PROVE  SafeInv'
  <2>1. PICK u \in Numbers :
          u = Unconfirmed(number) /\ Held(u, target)
          /\ \A e \in Calls : <<"confirm", e>> \notin u.armed
    BY <1>1, UnconfirmedIsHeld
  <2>2. number' = [u EXCEPT !.pending = target[c], !.confirmTimer = c,
                           !.armed = @ \union {<<"confirm", c>>}]
    BY <1>5, <2>1 DEF SetEnds, Expects
  <2>3. number' \in Numbers /\ Held(number', target)
    <3>1. number' \in Numbers
      <4>1. u.armed \union {<<"confirm", c>>} \in SUBSET ({"shown", "confirm"} \X Calls)
        BY <2>1 DEF Numbers
      <4>2. target[c] \in OrNothing(Heights) /\ c \in OrNothing(Calls)
        BY <1>1 DEF OrNothing, TypeOK
      <4>3. QED
        BY <2>1, <2>2, <4>1, <4>2 DEF Numbers
    <3>2. /\ number'.shown = u.shown /\ number'.shownTimer = u.shownTimer
          /\ number'.confirmTimer = c
          /\ number'.armed = u.armed \union {<<"confirm", c>>}
      BY <2>1, <2>2 DEF Numbers
    <3>3. QED
      BY <2>1, <3>1, <3>2 DEF Held
  <2>4. raw' \in Readings /\ data' \in Readings
    BY <1>1, <1>5 DEF SetEnds, TypeOK, Readings
  <2>5. QED
    BY <1>1, <1>5, <2>3, <2>4
    DEF SetEnds, SafeInv, TypeOK, TimersAreHeld, Held, Numbers
<1>6. ASSUME NEW c \in Calls, ShownExpires(c)
      PROVE  SafeInv'
  <2>1. number' \in Numbers /\ Held(number', target)
    BY <1>1, <1>6 DEF ShownExpires, Numbers, Held, OrNothing
  <2>2. QED
    BY <1>1, <1>6, <2>1
    DEF ShownExpires, calls, polls, SafeInv, TypeOK, TimersAreHeld, Held, Numbers
<1>7. ASSUME NEW c \in Calls, ConfirmFires(c)
      PROVE  SafeInv'
  <2>1. number' \in Numbers /\ Held(number', target)
    BY <1>1, <1>7 DEF ConfirmFires, Numbers, Held, OrNothing
  <2>2. /\ confirming' \subseteq Calls /\ force' \in BOOLEAN
        /\ ppc' \in [Polls -> {"idle", "queued", "read", "failed"}]
    <3>1. CASE number.pending = Nothing
      BY <1>1, <1>7, <3>1 DEF ConfirmFires, TypeOK
    <3>2. CASE number.pending # Nothing
      BY <1>1, <1>7, <3>2 DEF ConfirmFires, TypeOK, Polls
    <3>3. QED
      BY <3>1, <3>2
  <2>3. QED
    BY <1>1, <1>7, <2>1, <2>2
    DEF ConfirmFires, calls, SafeInv, TypeOK, TimersAreHeld, Held, Numbers
<1>8. CASE TickFires
  BY <1>1, <1>8 DEF TickFires, calls, SafeInv, TypeOK, TimersAreHeld, Held
<1>9. ASSUME NEW p \in Polls, PollFetches(p)
      PROVE  SafeInv'
  <2>1. raw' \in Readings
    <3>1. Reading(reported) \in Readings /\ Reading(Nothing) \in Readings
      BY <1>1 DEF Reading, Readings, TypeOK, OrNothing
    <3>2. raw' \in {Reading(reported), Reading(Nothing), raw}
      BY <1>9 DEF PollFetches, PollReads, PollSkipsSettings, PollFails
    <3>3. QED
      BY <1>1, <3>1, <3>2 DEF TypeOK
  <2>2. /\ ppc' \in [Polls -> {"idle", "queued", "read", "failed"}] /\ force' = FALSE
        /\ UNCHANGED <<calls, number, note, confirming, entity, data, lastOk, reported,
                       verdict>>
    BY <1>1, <1>9
    DEF PollFetches, PollReads, PollSkipsSettings, PollFails, PollTurn, TypeOK
  <2>3. QED
    BY <1>1, <2>1, <2>2 DEF calls, SafeInv, TypeOK, TimersAreHeld, Held
<1>10. ASSUME NEW p \in Polls, PollEnds(p)
       PROVE  SafeInv'
  BY <1>10, PollEndsSafely
<1>11. CASE Remove
  <2>1. number' \in Numbers /\ Held(number', target)
    BY <1>1, <1>11, DroppedIsHeld, UnconfirmedIsHeld DEF Remove
  <2>2. QED
    BY <1>1, <1>11, <2>1
    DEF Remove, calls, polls, SafeInv, TypeOK, TimersAreHeld, Held, Numbers
<1>12. CASE ReportMoves
  BY <1>1, <1>12 DEF ReportMoves, calls, polls, SafeInv, TypeOK, TimersAreHeld, Held
<1>13. CASE UNCHANGED vars
  BY <1>1, <1>13 DEF vars, calls, polls, SafeInv, TypeOK, TimersAreHeld, Held
<1>14. QED
  BY <1>2, <1>3, <1>4, <1>5, <1>6, <1>7, <1>8, <1>9, <1>10, <1>11, <1>12, <1>13
  DEF Next, CallSteps

(* Every variable keeps its type: what the mower is asked for is a height  *)
(* it lists, and a nearest one there always is.                            *)
THEOREM TypeCorrect == Spec => []TypeOK
<1>1. SafeInv => TypeOK
  BY DEF SafeInv
<1>2. QED
  BY SafeInit, SafeStep, <1>1, PTL DEF Spec

(* What is shown in place of the mower's own height is ended by the timer  *)
(* of the call it is from, and no timer that was forgotten fires later,    *)
(* however many calls overlap (_show, _drop_shown, _expect).               *)
THEOREM TimersStayHeld == Spec => []TimersAreHeld
<1>1. SafeInv => TimersAreHeld
  BY DEF SafeInv
<1>2. QED
  BY SafeInit, SafeStep, <1>1, PTL DEF Spec

-----------------------------------------------------------------------------
(* The verdict.                                                            *)

(* What is expected has not been judged.                                   *)
PendingInv == number.pending # Nothing => verdict = "open"

LEMMA PendingInit == Init => PendingInv
BY DEF Init, PendingInv

(* The step of an end of a poll, the only one that judges.                 *)
LEMMA PollEndsJudges ==
  ASSUME SafeInv, PendingInv, NEW p \in Polls, PollEnds(p)
  PROVE  /\ PendingInv'
         /\ Warned /\ entity
            => verdict = "open" /\ (lastOk' => data'.height # number'.failed)
<1> DEFINE met == Told(ppc[p] = "read")
<1>1. number \in Numbers /\ Held(number, target) /\ data'.height \in OrNothing(Heights)
  BY NumberType, TimersHeld DEF SafeInv, TypeOK, PollEnds, Readings
<1>2. met.pending = number.pending \/ met.pending = Nothing
  BY <1>1, MeetsIsHeld DEF Told
<1>3. entity /\ lastOk' /\ met.pending # Nothing => data'.height # met.pending
  <2>1. lastOk' = (ppc[p] = "read")
    BY DEF PollEnds
  <2>2. entity /\ lastOk' => met = Meets(number, data'.height)
    BY <2>1 DEF Told
  <2> HIDE DEF met
  <2>3. QED
    BY <1>1, <2>2, MeetsIsHeld
<1>4. met \in Numbers
  BY <1>1, MeetsIsHeld DEF Told
<1> HIDE DEF met
<1>5. Concludes(p, met)
  BY DEF PollEnds, met
<1>6. CASE p \in confirming /\ met.pending # Nothing
  <2>1. number' = [met EXCEPT !.pending = Nothing, !.failed = met.pending]
    BY <1>5, <1>6 DEF Concludes
  <2>2. number'.pending = Nothing /\ number'.failed = met.pending
    BY <1>4, <2>1 DEF Numbers
  <2>3. QED
    BY <1>2, <1>3, <1>6, <2>2 DEF PendingInv
<1>7. CASE ~(p \in confirming /\ met.pending # Nothing)
  BY <1>2, <1>5, <1>7 DEF Concludes, PendingInv, Warned
<1>8. QED
  BY <1>6, <1>7

LEMMA PendingStep ==
  ASSUME SafeInv, PendingInv, [Next]_vars
  PROVE  /\ PendingInv'
         /\ Warned /\ entity
            => verdict = "open" /\ (lastOk' => data'.height # number'.failed)
<1>1. number \in Numbers
  BY NumberType DEF SafeInv
<1>2. ASSUME NEW p \in Polls, PollEnds(p)
      PROVE  /\ PendingInv'
             /\ Warned /\ entity
                => verdict = "open" /\ (lastOk' => data'.height # number'.failed)
  BY <1>2, PollEndsJudges
<1>3. ASSUME NEW c \in Calls, SetEnds(c)
      PROVE  PendingInv' /\ ~Warned
  BY <1>3 DEF SetEnds, PendingInv, Warned
<1>4. ASSUME ~(\E p \in Polls : PollEnds(p)), ~(\E c \in Calls : SetEnds(c))
      PROVE  verdict' = verdict /\ number'.pending = number.pending
  <2>1. ASSUME NEW c \in Calls, NEW value \in Requests, SetCalled(c, value)
        PROVE  verdict' = verdict /\ number'.pending = number.pending
    BY <1>1, <2>1 DEF SetCalled, Shows, Dropped, Numbers
  <2>2. ASSUME NEW c \in Calls, SetRefused(c) \/ DeviceAccepts(c)
        PROVE  verdict' = verdict /\ number'.pending = number.pending
    BY <1>1, <2>2 DEF SetRefused, DeviceAccepts, Dropped, Numbers
  <2>3. ASSUME NEW c \in Calls, ShownExpires(c) \/ ConfirmFires(c)
        PROVE  verdict' = verdict /\ number'.pending = number.pending
    BY <1>1, <2>3 DEF ShownExpires, ConfirmFires, Numbers
  <2>4. ASSUME NEW p \in Polls, PollFetches(p)
        PROVE  verdict' = verdict /\ number'.pending = number.pending
    BY <2>4 DEF PollFetches, PollReads, PollSkipsSettings, PollFails, PollTurn
  <2>5. CASE Remove
    BY <1>1, <2>5 DEF Remove, Dropped, Unconfirmed, Numbers
  <2>6. CASE TickFires \/ ReportMoves \/ UNCHANGED vars
    BY <2>6 DEF TickFires, ReportMoves, vars
  <2>7. QED
    BY <1>4, <2>1, <2>2, <2>3, <2>4, <2>5, <2>6 DEF Next, CallSteps
<1>5. QED
  BY <1>2, <1>3, <1>4 DEF PendingInv, Warned

(* A height that was reported while it was expected is not warned of, for  *)
(* any number of calls and read-backs under way and polls that fail        *)
(* (_async_confirm).                                                       *)
THEOREM ArrivedIsNotWarned == Spec => AppliedIsNotWarned
<1> DEFINE Fair == Warned /\ entity
                   => verdict = "open" /\ (lastOk' => data'.height # number'.failed)
<1>1. SafeInv /\ PendingInv /\ [Next]_vars => PendingInv'
  BY PendingStep
<1>2. SafeInv /\ PendingInv /\ [Next]_vars => [Fair]_vars
  BY PendingStep
<1>3. QED
  BY SafeInit, SafeStep, PendingInit, <1>1, <1>2, PTL DEF Spec, AppliedIsNotWarned

=============================================================================
