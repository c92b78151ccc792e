----------------------------- MODULE TrailStore -----------------------------
(***************************************************************************)
(* The file the mowed trail is kept in (coordinator.py: trail_store,       *)
(* async_load_trail, _trail_store_data and the save in _async_update_data; *)
(* the Store of Home Assistant is external).                               *)
(*                                                                         *)
(* A poll that changes the trail writes it at once, if the last write was  *)
(* long enough ago, and otherwise asks the Store for a delayed save, which *)
(* takes the trail as it is by then.  A save that fails is not tried again.*)
(***************************************************************************)
EXTENDS Trail

CONSTANT
  Lives \* what may end the coordinator: "crash" or "stop" of Home Assistant,
        \* "reload" of the entry

ASSUME LivesAssumption == Lives \subseteq {"crash", "stop", "reload"}

VARIABLES
  file,    \* the trail file
  delayed, \* the Store has a delayed save to do
  elapsed, \* _TRAIL_SAVE_DELAY has passed since _last_trail_save
  failed,  \* a save has failed, and the trail has not changed since (history)
  orphans, \* what a coordinator unloaded with a delayed save has yet to save
  spoiled  \* an unloaded coordinator was the last to write (history)

store == <<file, delayed, elapsed, failed, orphans, spoiled>>

(* _trail_store_data.  The file does not tell of which trip a point is.    *)
Image(t) ==
  [zones |-> Aged([z \in {y \in DOMAIN t.zones : t.zones[y] # <<>>} |-> t.zones[z]]),
   pct |-> t.pct, prev |-> t.prev, split |-> FALSE]

-----------------------------------------------------------------------------
(* The delay counts from the last write, and nothing is put off.           *)
SaveOnlyWhenElapsed ==
  /\ elapsed' = FALSE
  /\ IF elapsed THEN file' = Image(trail') /\ spoiled' = FALSE ELSE UNCHANGED <<file, spoiled>>
  /\ failed' = FALSE
  /\ UNCHANGED delayed

(* A real checkpoint, which makes up for a delayed save; or a delayed save.*)
(* The trail is no longer dirty and the time of the save is noted before   *)
(* the checkpoint is written: one that fails is logged and forgotten, and  *)
(* the Store has called off the delayed save by then.                      *)
Save ==
  \/ /\ elapsed
     /\ elapsed' = FALSE
     /\ \/ /\ file' = Image(trail')
           /\ delayed' = FALSE
           /\ spoiled' = FALSE
           /\ failed' = FALSE
        \/ /\ delayed' = FALSE
           /\ failed' = TRUE
           /\ UNCHANGED <<file, spoiled>>
  \/ /\ ~elapsed
     /\ delayed' = TRUE
     /\ failed' = FALSE
     /\ UNCHANGED <<file, elapsed, spoiled>>

(* A poll, after which the trail is dirty no longer.  Of the history, only  *)
(* whether the mower is home matters here.                                 *)
PollAndSave ==
  /\ \E s \in Sightings : \E lies \in Shares : \E polled \in {Update(trail, s, lies)} :
       /\ trail' = [polled EXCEPT !.dirty = FALSE]
       /\ told' = IF s.code = "docked" THEN "home" ELSE "other"
       /\ UNCHANGED <<waited, leftWith>>
       /\ IF polled.dirty THEN Save ELSE UNCHANGED <<file, delayed, elapsed, failed, spoiled>>
  /\ UNCHANGED orphans

DelayPasses ==
  /\ ~elapsed
  /\ elapsed' = TRUE
  /\ UNCHANGED <<vars, file, delayed, failed, orphans, spoiled>>

(* No poll has asked for it again for as long as the delay.                *)
DelayedSave ==
  /\ delayed
  /\ elapsed
  /\ delayed' = FALSE
  /\ \/ file' = Image(trail) /\ spoiled' = FALSE /\ failed' = FALSE
     \/ failed' = TRUE /\ UNCHANGED <<file, spoiled>>
  /\ UNCHANGED <<vars, elapsed, orphans>>

(* The delayed save of an unloaded coordinator is not called off.          *)
OrphanSave ==
  /\ \/ file' \in orphans /\ spoiled' = TRUE
     \/ orphans # {} /\ UNCHANGED <<file, spoiled>>
  /\ orphans' = {}
  /\ UNCHANGED <<vars, delayed, elapsed, failed>>

(* A new coordinator starts from the file, with no question open.          *)
Starts(image) ==
  /\ trail' = Loaded(image)
  /\ delayed' = FALSE
  /\ elapsed' = TRUE
  /\ failed' = FALSE
  /\ spoiled' = FALSE
  /\ UNCHANGED <<told, waited, leftWith>>

Crash ==
  /\ "crash" \in Lives
  /\ Starts(file)
  /\ orphans' = {}
  /\ UNCHANGED file

(* Home Assistant stops: the delayed saves are done before it is over, or  *)
(* fail.                                                                   *)
Stop ==
  /\ "stop" \in Lives
  /\ \E last \in (IF delayed THEN {Image(trail)} ELSE {}) \union orphans \union {file} :
       file' = last /\ Starts(last)
  /\ orphans' = {}

Reload ==
  /\ "reload" \in Lives
  /\ orphans = {}
  /\ orphans' = IF delayed THEN {Image(trail)} ELSE {}
  /\ Starts(file)
  /\ UNCHANGED file

StoreInit ==
  /\ Init
  /\ file \in Files
  /\ trail = Loaded(file)
  /\ delayed = FALSE
  /\ elapsed = TRUE
  /\ failed = FALSE
  /\ orphans = {}
  /\ spoiled = FALSE

StoreNext ==
  \/ PollAndSave \/ DelayPasses \/ DelayedSave \/ OrphanSave
  \/ Crash \/ Stop \/ Reload

StoreSpec == StoreInit /\ [][StoreNext]_<<vars, store>>

(* Timers fire: a delayed save is put off by the polls that change the     *)
(* trail, but the first of them after the delay writes it itself.          *)
FairStoreSpec ==
  /\ StoreSpec
  /\ WF_<<vars, store>>(DelayPasses)
  /\ WF_<<vars, store>>(DelayedSave)

-----------------------------------------------------------------------------
Saved == file.zones = Image(trail).zones /\ file.pct = trail.pct

(* What is drawn and not yet in the file gets into it, unless a            *)
(* coordinator unloaded before has written last, or its save has failed: a *)
(* save that fails is made good when the trail changes again and not       *)
(* before, nor if that one fails too (_async_update_data: a delayed save   *)
(* alone "would never fire" as long as the trail grows; the dirty flag and *)
(* _last_trail_save are set before the save they stand for).               *)
UnsavedIsSaved == []<>(Saved \/ spoiled \/ failed)

=============================================================================
