------------------------------ MODULE Entries ------------------------------
(***************************************************************************)
(* The config entries of one account, one for a mower: how the config flow *)
(* makes and renews them (config_flow.py), which device identity and which *)
(* tokens they hold, and how the tokens go between an entry and the        *)
(* coordinator built from it (coordinator.py: _persist_session;            *)
(* client.py: refresh_session; __init__.py: set up, unload, reload).       *)
(*                                                                         *)
(* A renewal of the session replaces its tokens, and the older ones are    *)
(* refused from then on.  Tokens are "new" if they are the last ones of    *)
(* the mower's session and "old" otherwise.  They may be held by the       *)
(* entry, by the coordinator, and by a call that outlives the coordinator  *)
(* it began with.                                                          *)
(***************************************************************************)
EXTENDS Naturals, FiniteSets

CONSTANTS
  Mowers,    \* the mowers of the account
  NewFlows,  \* the flows under way at once that add a mower
  Ids,       \* device identities, in the order of their texts
  Before,    \* entries of before identities were shared, by mower
  Lives      \* what may end a coordinator: a "crash", a change of the "options",
             \* the removal of its entry ("remove")

ASSUME EntriesAssumption ==
  /\ Ids \subseteq Nat \ {0}
  /\ \A some \in SUBSET Ids : some # {} => \E i \in some : \A j \in some : i <= j
  /\ Mowers \intersect NewFlows = {}
  /\ \A old \in Before : DOMAIN old \subseteq Mowers /\ \A m \in DOMAIN old : old[m] \in Ids
  /\ Lives \subseteq {"crash", "options", "remove"}

VARIABLES
  id,      \* the identity in each entry, 0 if the mower has none
  saved,   \* the tokens in each entry are the newest
  live,    \* the tokens of the coordinator of each entry
  orphan,  \* the tokens of a call that outlived its coordinator, or "none"
  flow,    \* the flows that add a mower, and the one that signs in again, of each
  recent   \* the entries written by a flow whose form was sent with entries
           \* there, and none of them removed or written by any other flow
           \* since (history)

vars == <<id, saved, live, orphan, flow, recent>>
sessions == <<saved, live, orphan>>

Flows == Mowers \union NewFlows

NoFlow == [at |-> "none", id |-> 0, recent |-> FALSE]

TypeOK ==
  /\ id \in [Mowers -> Ids \union {0}]
  /\ saved \in [Mowers -> BOOLEAN]
  /\ live \in [Mowers -> {"none", "old", "new"}]
  /\ orphan \in [Mowers -> {"none", "old", "new"}]
  /\ flow \in [Flows -> [at : {"none", "form", "signing", "select"}, id : Ids \union {0},
                         recent : BOOLEAN]]
  /\ recent \subseteq {m \in Mowers : id[m] # 0}
  /\ \A m \in Mowers : id[m] = 0 => live[m] = "none"

There == {m \in Mowers : id[m] # 0}

Init ==
  /\ \E old \in Before : id = [m \in Mowers |-> IF m \in DOMAIN old THEN old[m] ELSE 0]
  /\ saved = [m \in Mowers |-> id[m] # 0]
  /\ live = [m \in Mowers |-> IF id[m] # 0 THEN "new" ELSE "none"]
  /\ orphan = [m \in Mowers |-> "none"]
  /\ flow = [f \in Flows |-> NoFlow]
  /\ recent = {}

-----------------------------------------------------------------------------
(* The config flow.                                                        *)

(* _shared_device_id.                                                      *)
SharedDeviceId(ids) == CHOOSE i \in ids : \A j \in ids : i <= j

IdsOfEntries == {id[m] : m \in There}

(* The flow's own identity comes first.                                    *)
DeviceIdsOwnFirst(own) ==
  IF own # 0 THEN {own}
  ELSE IF IdsOfEntries # {} THEN {SharedDeviceId(IdsOfEntries)}
  ELSE Ids \ {flow[f].id : f \in Flows}

(* _authenticate: an identity of the account's entries, or else the flow's *)
(* own, or else a new one.                                                 *)
DeviceIds(own) ==
  IF IdsOfEntries # {} THEN {SharedDeviceId(IdsOfEntries)}
  ELSE IF own # 0 THEN {own}
  ELSE Ids \ {flow[f].id : f \in Flows}

Opens(f) ==
  /\ flow[f].at = "none"
  /\ flow' = [flow EXCEPT ![f] =
       [NoFlow EXCEPT !.at = "form", !.id = IF f \in Mowers THEN id[f] ELSE 0]]

(* The user adds a mower; Home Assistant asks to sign in again             *)
(* (ConfigEntryAuthFailed), once at a time, when a poll found its session  *)
(* dead: refused, or no host reached by the renewal.                       *)
OpenFlow(f) ==
  /\ f \in NewFlows
  /\ Opens(f)
  /\ UNCHANGED <<id, sessions, recent>>

AskAgain(m) ==
  /\ id[m] # 0
  /\ Opens(m)
  /\ UNCHANGED <<id, sessions, recent>>

(* The form is sent; the identity is chosen before the sign-in is waited   *)
(* for.                                                                    *)
Submit(f) ==
  /\ flow[f].at = "form"
  /\ \E own \in DeviceIds(flow[f].id) :
       flow' = [flow EXCEPT ![f] = [@ EXCEPT !.at = "signing", !.id = own,
                                     !.recent = There # {}]]
  /\ UNCHANGED <<id, sessions, recent>>

(* An attempt that fails, a wrong password included, leads back to the     *)
(* form, with the identity it has.                                         *)
SignInFails(f) ==
  /\ flow[f].at = "signing"
  /\ flow' = [flow EXCEPT ![f].at = "form"]
  /\ UNCHANGED <<id, sessions, recent>>

(* What the entry has wins over what is new.                               *)
WritesEntryOver(f, m) ==
  /\ id' = [id EXCEPT ![m] = IF @ = 0 THEN flow[f].id ELSE @]
  /\ saved' = [saved EXCEPT ![m] = @ \/ id[m] = 0]
  /\ live' = [live EXCEPT ![m] = IF saved'[m] THEN "new" ELSE "old"]
  /\ recent' = {}
  /\ flow' = [g \in Flows |-> IF g = f THEN NoFlow ELSE [flow[g] EXCEPT !.recent = FALSE]]

(* What is new wins over what the entry has.                               *)
WritesEntry(f, m) ==
  LET own == flow[f].id IN
  /\ id' = [id EXCEPT ![m] = own]
  /\ saved' = [saved EXCEPT ![m] = TRUE]
  /\ live' = [live EXCEPT ![m] = "new"]
  /\ IF flow[f].recent
     THEN recent' = recent \union {m} /\ flow' = [flow EXCEPT ![f] = NoFlow]
     ELSE /\ recent' = {}
          /\ flow' = [g \in Flows |-> IF g = f THEN NoFlow ELSE [flow[g] EXCEPT !.recent = FALSE]]

(* _create, the entry added: the mower must not have one by now.           *)
Creates(f, m) ==
  IF id[m] = 0
  THEN WritesEntry(f, m) /\ orphan' = orphan
  ELSE /\ flow' = [flow EXCEPT ![f] = NoFlow]
       /\ UNCHANGED <<id, sessions, recent>>

(* _create, signed in again: the entry is updated and reloaded; a call of  *)
(* the former coordinator may go on, with tokens of the session before.    *)
Updates(f, m) ==
  /\ WritesEntry(f, m)
  /\ orphan' \in {[orphan EXCEPT ![m] = "old"],
                  [orphan EXCEPT ![m] = IF @ = "none" THEN "none" ELSE "old"]}

(* The attempt succeeds (SignIn tells when).  A mower that is the only one *)
(* left is added at once.                                                  *)
SignedIn(f) ==
  /\ flow[f].at = "signing"
  /\ IF f \in Mowers THEN Updates(f, f)
     ELSE IF Cardinality(Mowers \ There) = 1
     THEN \E m \in Mowers \ There : Creates(f, m)
     ELSE /\ flow' = [flow EXCEPT ![f].at = "select"]
          /\ UNCHANGED <<id, sessions, recent>>

(* A mower of the list is picked, or a serial is typed.                    *)
SelectVehicle(f) ==
  /\ flow[f].at = "select"
  /\ \E m \in Mowers : Creates(f, m)

AbortFlow(f) ==
  /\ f \in NewFlows
  /\ flow[f].at # "none"
  /\ flow' = [flow EXCEPT ![f] = NoFlow]
  /\ UNCHANGED <<id, sessions, recent>>

-----------------------------------------------------------------------------
(* The coordinators.                                                       *)

TokensOf(isSaved) == IF isSaved THEN "new" ELSE "old"

(* _async_update_listener, on any change of the entry, or of its options:  *)
(* a new coordinator gets the tokens of the entry.  A call of the old one  *)
(* may go on; at most one is followed.                                     *)
Reload(m) ==
  /\ live' = [live EXCEPT ![m] = TokensOf(saved'[m])]
  /\ orphan' \in {orphan, [orphan EXCEPT ![m] = live[m]]}

(* A poll or a call finds its session dead, and renews it; only the newest *)
(* tokens are good for that.                                               *)
Renew(m) ==
  /\ live[m] = "new"
  /\ saved' = [saved EXCEPT ![m] = FALSE]
  /\ orphan' = [orphan EXCEPT ![m] = IF @ = "none" THEN "none" ELSE "old"]
  /\ UNCHANGED <<id, live, flow, recent>>

OrphanRenews(m) ==
  /\ orphan[m] = "new"
  /\ saved' = [saved EXCEPT ![m] = FALSE]
  /\ live' = [live EXCEPT ![m] = "old"]
  /\ UNCHANGED <<id, orphan, flow, recent>>

(* _persist_session, after a poll that succeeded and after every command:  *)
(* the entry takes the tokens, and changes by that.                        *)
Persist(m) ==
  /\ live[m] = "new"
  /\ ~saved[m]
  /\ saved' = [saved EXCEPT ![m] = TRUE]
  /\ Reload(m)
  /\ UNCHANGED <<id, flow, recent>>

(* The call that outlived its coordinator ends.  A command persists its    *)
(* tokens whatever came of it (async_send_confirmed).                      *)
OrphanEnds(m) ==
  /\ orphan[m] # "none"
  /\ \/ /\ orphan' = [orphan EXCEPT ![m] = "none"]
        /\ UNCHANGED <<saved, live>>
     \/ /\ saved' = [saved EXCEPT ![m] = orphan[m] = "new"]
        /\ saved'[m] # saved[m]
        /\ live' = [live EXCEPT ![m] = TokensOf(saved'[m])]
        /\ orphan' \in {[orphan EXCEPT ![m] = left] : left \in {"none", live[m]}}
  /\ UNCHANGED <<id, flow, recent>>

ChangeOptions(m) ==
  /\ "options" \in Lives
  /\ id[m] # 0
  /\ UNCHANGED saved
  /\ Reload(m)
  /\ UNCHANGED <<id, flow, recent>>

(* Flows, and what is in memory only, are gone.  The first poll after the  *)
(* restart is not waited for: one with dead tokens asks to sign in again.  *)
Crash ==
  /\ "crash" \in Lives
  /\ live' = [m \in Mowers |-> IF id[m] = 0 THEN "none" ELSE TokensOf(saved[m])]
  /\ orphan' = [m \in Mowers |-> "none"]
  /\ flow' = [f \in Flows |-> IF f \in There /\ ~saved[f]
                              THEN [NoFlow EXCEPT !.at = "form", !.id = id[f]] ELSE NoFlow]
  /\ UNCHANGED <<id, saved, recent>>

(* The coordinator goes on without its entry.                              *)
RemoveEntryOnly(m) ==
  /\ "remove" \in Lives
  /\ id[m] # 0
  /\ id' = [id EXCEPT ![m] = 0]
  /\ saved' = [saved EXCEPT ![m] = FALSE]
  /\ flow' = [f \in Flows |-> IF f = m THEN NoFlow ELSE [flow[f] EXCEPT !.recent = FALSE]]
  /\ recent' = {}
  /\ UNCHANGED <<live, orphan>>

Remove(m) ==
  /\ "remove" \in Lives
  /\ id[m] # 0
  /\ id' = [id EXCEPT ![m] = 0]
  /\ saved' = [saved EXCEPT ![m] = FALSE]
  /\ live' = [live EXCEPT ![m] = "none"]
  /\ orphan' = [orphan EXCEPT ![m] = "none"]
  /\ flow' = [f \in Flows |-> IF f = m THEN NoFlow ELSE [flow[f] EXCEPT !.recent = FALSE]]
  /\ recent' = {}

Next ==
  \/ \E f \in Flows : \/ OpenFlow(f) \/ Submit(f) \/ SignInFails(f) \/ SignedIn(f)
                      \/ SelectVehicle(f) \/ AbortFlow(f)
  \/ \E m \in Mowers : \/ AskAgain(m) \/ Renew(m) \/ OrphanRenews(m) \/ Persist(m)
                       \/ OrphanEnds(m) \/ ChangeOptions(m) \/ Remove(m)
  \/ Crash

Spec == Init /\ [][Next]_vars

(* Polls go on, and one of them succeeds at last if the session is alive;  *)
(* a poll refused asks to sign in; the user does, again and again, until   *)
(* it succeeds.                                                            *)
FairSpec ==
  /\ Spec
  /\ \A m \in Mowers :
       /\ WF_vars(Persist(m))
       /\ WF_vars(live[m] = "old" /\ AskAgain(m))
       /\ WF_vars(Submit(m))
       /\ SF_vars(SignedIn(m))

-----------------------------------------------------------------------------
(* Entries added or signed in again, by forms sent with entries there, get *)
(* one identity, whichever identities the entries had, whichever order and *)
(* however close together that is done in, other flows failing, waiting or *)
(* going on (_shared_device_id: "entries created before this fix converge  *)
(* onto one identity instead of ping-ponging between two").                *)
IdentitiesConverge == \A m, n \in recent : id[m] = id[n]

(* An entry whose tokens are refused gets good ones again, from a poll     *)
(* that saves them or from the sign-in that is asked for, whatever is      *)
(* saved late by a call of a former coordinator or lost in a crash.        *)
SessionComesBack == \A m \in Mowers : id[m] # 0 /\ ~saved[m] ~> id[m] = 0 \/ saved[m]

=============================================================================
