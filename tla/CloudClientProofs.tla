------------------------- MODULE CloudClientProofs -------------------------
(***************************************************************************)
(* Proofs about CloudClient, for any number of threads.                    *)
(***************************************************************************)
EXTENDS CloudClient, TLAPS

(* TypeOK without the bounds that only hold for reasons of their own.      *)
ThreadTypes ==
  /\ lock \in Threads \union {Free}
  /\ pc \in [Threads -> {"idle", "waiting", "refresh"} \union Posts \union Ends]
  /\ body \in [Threads -> 0..MaxTokens]
  /\ began \in [Threads -> BOOLEAN]

HistoryTypes ==
  /\ refused \in [Threads -> BOOLEAN]
  /\ died \in [Threads -> BOOLEAN]
  /\ logins \in Nat
  /\ losses \in 0..MaxLosses
  /\ obeyed \in [Threads -> Nat]
  /\ stray \in BOOLEAN

SessionTypes ==
  /\ kept \in {"none", "open", "dirty"}
  /\ uid \in BOOLEAN
  /\ token \in 0..MaxTokens
  /\ valid \in 0..MaxTokens
  /\ issued \in 0..MaxTokens

Types == ThreadTypes /\ HistoryTypes /\ SessionTypes

Renewing == {"refresh", "login", "signed login"}

(* A thread that posts or renews holds the lock.                           *)
LockInv == \A t \in Threads : pc[t] \in Posts \union {"refresh"} => lock = t

(* The request about to be posted names the newest session.                *)
BodyInv == \A t \in Threads : pc[t] = "request" => body[t] = token

(* Each login follows a refresh of its own, so that logins are bounded and *)
(* no session the cloud knows is newer than the last token.                *)
TokenInv ==
  /\ token <= issued
  /\ valid <= issued
  /\ logins + 1 <= issued
  /\ \A t \in Threads : pc[t] \in {"login", "signed login"} => logins + 2 <= issued

(* A loss not yet made good by a login is left as long as the session is   *)
(* not the cloud's, or a thread is renewing it (its login may have been    *)
(* obeyed with the answer lost).                                           *)
RenewInv ==
  /\ logins <= losses
  /\ ~uid \/ valid # token => logins < losses
  /\ \A t \in Threads : pc[t] \in Renewing => logins < losses

(* How often the cloud can have obeyed a call that is under way: once for  *)
(* each connection that died under it, one for each of its two requests.   *)
Obeyed(t) ==
  /\ obeyed[t] <= 3
  /\ obeyed[t] > 1 => died[t]
  /\ pc[t] = "waiting" => obeyed[t] = 0 /\ ~began[t]
  /\ pc[t] \in Posts \union {"refresh"} => obeyed[t] = 0 \/ died[t]
  /\ pc[t] \in Renewing => obeyed[t] = 0 \/ (obeyed[t] = 1 /\ began[t])
  /\ pc[t] = "request" => \/ obeyed[t] = 0
                          \/ obeyed[t] = 1 /\ (began[t] \/ kept # "open")
                          \/ obeyed[t] = 2 /\ began[t] /\ kept # "open"

ObeyInv == \A t \in Threads : Obeyed(t)

(* No answer is left on a connection that is kept.                         *)
AnswerInv == kept # "dirty" /\ ~stray

Inv == Types /\ LockInv /\ BodyInv /\ TokenInv /\ RenewInv /\ ObeyInv /\ AnswerInv

-----------------------------------------------------------------------------
(* What a step of a thread does to the others: nothing.                    *)
OthersStay(t) ==
  \A s \in Threads \ {t} :
    /\ pc'[s] = pc[s]
    /\ body'[s] = body[s]
    /\ began'[s] = began[s]
    /\ obeyed'[s] = obeyed[s]
    /\ died'[s] = died[s]

(* What the cloud may have done when a request was posted.                 *)
CloudDid(t) ==
  /\ \/ obeyed'[t] = obeyed[t]
     \/ pc[t] = "request" /\ body[t] = valid /\ obeyed'[t] = obeyed[t] + 1
  /\ \A s \in Threads \ {t} : obeyed'[s] = obeyed[s]
  /\ valid' = valid \/ (pc[t] # "request" /\ valid' = token)

(* A request that reached the cloud, or missed it, does no more than that. *)
LEMMA CloudEffect ==
  ASSUME Types, NEW t \in Threads, CloudObeys(t) \/ CloudMissesIt
  PROVE  CloudDid(t) /\ obeyed' \in [Threads -> Nat] /\ valid' \in 0..MaxTokens
<1>1. CASE CloudMissesIt
    BY <1>1 DEF CloudMissesIt, CloudDid, Types, HistoryTypes, SessionTypes
<1>2. CASE CloudObeys(t) /\ pc[t] = "request"
    BY <1>2 DEF CloudObeys, CloudDid, Types, HistoryTypes, SessionTypes
<1>3. CASE CloudObeys(t) /\ pc[t] # "request"
    BY <1>3 DEF CloudObeys, CloudDid, Types, HistoryTypes, SessionTypes
<1> QED BY <1>1, <1>2, <1>3

(* The counters are numbers: this is all the arithmetic needs of Types.    *)
LEMMA Numbers ==
  ASSUME Types
  PROVE  /\ token \in Nat /\ valid \in Nat /\ issued \in Nat
         /\ logins \in Nat /\ losses \in Nat
BY ConstantsAssumption DEF Types, HistoryTypes, SessionTypes

LEMMA CountIsNumber ==
  ASSUME Types, NEW t \in Threads
  PROVE  obeyed[t] \in Nat
BY DEF Types, HistoryTypes

(* A call that waits has not been obeyed.                                  *)
LEMMA ObeyedAnew ==
  ASSUME NEW t \in Threads, pc'[t] = "waiting", obeyed'[t] = 0, ~began'[t]
  PROVE  Obeyed(t)'
BY DEF Obeyed, Posts, Renewing

(* The last request of a call may be obeyed once more.                     *)
LEMMA ObeyedEnds ==
  ASSUME NEW t \in Threads, pc[t] \in Posts, Obeyed(t), obeyed[t] \in Nat, CloudDid(t),
         died'[t] = died[t], pc'[t] \in Ends
  PROVE  Obeyed(t)'
<1>1. obeyed[t] <= 2 /\ (pc[t] # "request" => obeyed[t] <= 1)
  <2>1. CASE pc[t] = "request"
      BY <2>1 DEF Obeyed
  <2>2. CASE pc[t] \in Renewing
      BY <2>2 DEF Obeyed
  <2> QED BY <2>1, <2>2 DEF Posts, Renewing
<1>2. obeyed[t] = 0 \/ died[t]
    BY DEF Obeyed
<1>3. obeyed'[t] <= 3 /\ (obeyed'[t] > 1 => died'[t])
    BY <1>1, <1>2 DEF CloudDid
<1> QED BY <1>3 DEF Obeyed, Posts, Ends, Renewing

(* The invariant holds at the start, and each step keeps it.               *)
LEMMA InvInit == Init => Inv
<1> SUFFICES ASSUME Init PROVE Inv
    OBVIOUS
<1> USE DEF Init
<1>1. ThreadTypes
    BY ConstantsAssumption DEF ThreadTypes, Posts, Ends
<1>2. HistoryTypes
  <2>1. losses \in 0..MaxLosses
      BY ConstantsAssumption
  <2>2. /\ refused \in [Threads -> BOOLEAN]
        /\ died \in [Threads -> BOOLEAN]
        /\ logins \in Nat
        /\ obeyed \in [Threads -> Nat]
        /\ stray \in BOOLEAN
      OBVIOUS
  <2> QED BY <2>1, <2>2 DEF HistoryTypes
<1>3. SessionTypes
    BY ConstantsAssumption DEF SessionTypes
<1>4. LockInv
    BY ConstantsAssumption DEF LockInv, Posts
<1>5. BodyInv
    BY ConstantsAssumption DEF BodyInv
<1>6. TokenInv
    BY ConstantsAssumption DEF TokenInv
<1>7. RenewInv
    BY ConstantsAssumption DEF RenewInv, Renewing
<1>8. ObeyInv
    BY ConstantsAssumption DEF ObeyInv, Obeyed, Posts, Renewing
<1>9. AnswerInv
    BY ConstantsAssumption DEF AnswerInv
<1> QED
    BY <1>1, <1>2, <1>3, <1>4, <1>5, <1>6, <1>7, <1>8, <1>9 DEF Inv, Types

-----------------------------------------------------------------------------
LEMMA InvStep == Inv /\ [Next]_vars => Inv'
<1> SUFFICES ASSUME Inv, [Next]_vars PROVE Inv'
    OBVIOUS
<1> USE ConstantsAssumption DEF Inv, Posts, Ends
<1>1. ASSUME NEW t \in Threads, Called(t) PROVE Inv'
  <2>1. Types'
    <3>1. ThreadTypes'
        BY <1>1 DEF Called, client, cloud, Types, ThreadTypes, SessionTypes
    <3>2. HistoryTypes'
        BY <1>1 DEF Called, client, cloud, Types, HistoryTypes
    <3>3. SessionTypes'
        BY <1>1 DEF Called, client, cloud, Types, SessionTypes
    <3> QED BY <3>1, <3>2, <3>3 DEF Types
  <2>2. OthersStay(t)
      BY <1>1 DEF Called, client, cloud, OthersStay, Types, ThreadTypes,
         HistoryTypes
  <2>3. /\ pc[t] \notin Posts \union Renewing \union {"waiting"}
        /\ pc'[t] = "waiting" /\ obeyed'[t] = 0 /\ ~began'[t]
        /\ UNCHANGED <<lock, kept, uid, token, valid, issued, losses, logins, stray>>
      BY <1>1
         DEF Called, client, cloud, AnswerInv, Renewing, Types, ThreadTypes,
             HistoryTypes
  <2>5. LockInv' /\ BodyInv' /\ AnswerInv'
      BY <2>2, <2>3 DEF OthersStay, LockInv, BodyInv, AnswerInv
  <2>6. TokenInv'
      BY <2>2, <2>3, Numbers DEF OthersStay, LockInv, TokenInv
  <2>7. RenewInv'
      BY <2>2, <2>3, Numbers
         DEF OthersStay, LockInv, BodyInv, TokenInv, RenewInv, Renewing
  <2>8. ObeyInv'
    <3> SUFFICES ASSUME NEW s \in Threads PROVE Obeyed(s)'
        BY DEF ObeyInv
    <3>1. Obeyed(t)'
        BY <2>3, ObeyedAnew
    <3>2. CASE s # t
        BY <2>2, <2>3, <3>2 DEF OthersStay, LockInv, ObeyInv, Obeyed, Renewing
    <3> QED BY <3>1, <3>2
  <2> QED BY <2>1, <2>5, <2>6, <2>7, <2>8
<1>2. ASSUME NEW t \in Threads, Begins(t) PROVE Inv'
  <2>1. Types'
    <3>1. ThreadTypes'
        BY <1>2 DEF Begins, Body, client, cloud, Types, ThreadTypes, SessionTypes
    <3>2. HistoryTypes'
        BY <1>2 DEF Begins, Body, client, cloud, Types, HistoryTypes
    <3>3. SessionTypes'
        BY <1>2 DEF Begins, Body, client, cloud, Types, SessionTypes
    <3> QED BY <3>1, <3>2, <3>3 DEF Types
  <2>2. OthersStay(t)
      BY <1>2
         DEF Begins, Body, client, cloud, OthersStay, Types, ThreadTypes,
             HistoryTypes
  <2>3. /\ pc[t] = "waiting" /\ lock = Free /\ lock' = t
        /\ pc'[t] = IF uid THEN "request" ELSE "refresh"
        /\ body'[t] = token
        /\ UNCHANGED <<began, died, obeyed>>
        /\ UNCHANGED <<kept, uid, token, valid, issued, losses, logins, stray>>
      BY <1>2
         DEF Begins, Body, client, cloud, AnswerInv, Renewing, Types, ThreadTypes,
             HistoryTypes
  <2>5. LockInv' /\ BodyInv' /\ AnswerInv'
      BY <2>2, <2>3 DEF OthersStay, LockInv, BodyInv, AnswerInv
  <2>6. TokenInv'
      BY <2>2, <2>3, Numbers DEF OthersStay, LockInv, TokenInv
  <2>7. RenewInv'
      BY <2>2, <2>3, Numbers
         DEF OthersStay, LockInv, BodyInv, TokenInv, RenewInv, Renewing
  <2>8. ObeyInv'
    <3> SUFFICES ASSUME NEW s \in Threads PROVE Obeyed(s)'
        BY DEF ObeyInv
    <3>1. Obeyed(t)'
        BY <2>2, <2>3, CountIsNumber DEF ObeyInv, Obeyed, Renewing
    <3>2. CASE s # t
        BY <2>2, <2>3, <3>2 DEF OthersStay, LockInv, ObeyInv, Obeyed, Renewing
    <3> QED BY <3>1, <3>2
  <2> QED BY <2>1, <2>5, <2>6, <2>7, <2>8
<1>3. ASSUME NEW t \in Threads, Refreshes(t) PROVE Inv'
  <2>1. Types'
    <3>1. ThreadTypes'
        BY <1>3 DEF Refreshes, Goes, Types, ThreadTypes, SessionTypes
    <3>2. HistoryTypes'
        BY <1>3 DEF Refreshes, Goes, Types, HistoryTypes
    <3>3. SessionTypes'
        BY <1>3 DEF Refreshes, Goes, Types, SessionTypes
    <3> QED BY <3>1, <3>2, <3>3 DEF Types
  <2>2. OthersStay(t)
      BY <1>3 DEF Refreshes, Goes, OthersStay, Types, ThreadTypes, HistoryTypes
  <2>3. /\ pc[t] = "refresh" /\ pc'[t] = "login"
        /\ issued' = issued + 1 /\ token' = issued + 1
        /\ UNCHANGED <<began, died, obeyed>>
        /\ UNCHANGED <<lock, kept, uid, valid, losses, logins, stray>>
      BY <1>3 DEF Refreshes, Goes, AnswerInv, Renewing, Types, ThreadTypes,
         HistoryTypes
  <2>5. LockInv' /\ BodyInv' /\ AnswerInv'
      BY <2>2, <2>3 DEF OthersStay, LockInv, BodyInv, AnswerInv
  <2>6. TokenInv'
    <3>0. token \in Nat /\ valid \in Nat /\ issued \in Nat /\ logins \in Nat
        BY Numbers
    <3>1. valid <= issued /\ logins + 1 <= issued
        BY DEF TokenInv
    <3>2. valid' = valid /\ logins' = logins /\ issued' = issued + 1 /\ token' = issued + 1
        BY <2>3
    <3>3. token' <= issued' /\ valid' <= issued' /\ logins' + 2 <= issued'
        BY <3>0, <3>1, <3>2
    <3>4. logins' + 1 <= issued'
        BY <3>0, <3>1, <3>2
    <3> QED BY <3>3, <3>4 DEF TokenInv
  <2>7. RenewInv'
      BY <2>2, <2>3, Numbers
         DEF OthersStay, LockInv, BodyInv, TokenInv, RenewInv, Renewing
  <2>8. ObeyInv'
    <3> SUFFICES ASSUME NEW s \in Threads PROVE Obeyed(s)'
        BY DEF ObeyInv
    <3>1. Obeyed(t)'
        BY <2>2, <2>3, CountIsNumber DEF ObeyInv, Obeyed, Renewing
    <3>2. CASE s # t
        BY <2>2, <2>3, <3>2 DEF OthersStay, LockInv, ObeyInv, Obeyed, Renewing
    <3> QED BY <3>1, <3>2
  <2> QED BY <2>1, <2>5, <2>6, <2>7, <2>8
<1>4. ASSUME NEW t \in Threads, RefreshFails(t) PROVE Inv'
  <2>1. Types'
    <3>1. ThreadTypes'
        BY <1>4 DEF RefreshFails, Ended, client, cloud, Types, ThreadTypes,
           SessionTypes
    <3>2. HistoryTypes'
        BY <1>4 DEF RefreshFails, Ended, client, cloud, Types, HistoryTypes
    <3>3. SessionTypes'
        BY <1>4 DEF RefreshFails, Ended, client, cloud, Types, SessionTypes
    <3> QED BY <3>1, <3>2, <3>3 DEF Types
  <2>2. OthersStay(t)
      BY <1>4
         DEF RefreshFails, Ended, client, cloud, OthersStay, Types, ThreadTypes,
             HistoryTypes
  <2>3. /\ pc[t] = "refresh" /\ pc'[t] = "auth error" /\ lock' = Free
        /\ UNCHANGED <<began, died, obeyed>>
        /\ UNCHANGED <<kept, uid, token, valid, issued, losses, logins, stray>>
      BY <1>4
         DEF RefreshFails, Ended, client, cloud, AnswerInv, Renewing, Types,
             ThreadTypes, HistoryTypes
  <2>5. LockInv' /\ BodyInv' /\ AnswerInv'
      BY <2>2, <2>3 DEF OthersStay, LockInv, BodyInv, AnswerInv
  <2>6. TokenInv'
      BY <2>2, <2>3, Numbers DEF OthersStay, LockInv, TokenInv
  <2>7. RenewInv'
      BY <2>2, <2>3, Numbers
         DEF OthersStay, LockInv, BodyInv, TokenInv, RenewInv, Renewing
  <2>8. ObeyInv'
    <3> SUFFICES ASSUME NEW s \in Threads PROVE Obeyed(s)'
        BY DEF ObeyInv
    <3>1. Obeyed(t)'
        BY <2>2, <2>3, CountIsNumber DEF ObeyInv, Obeyed, Renewing
    <3>2. CASE s # t
        BY <2>2, <2>3, <3>2 DEF OthersStay, LockInv, ObeyInv, Obeyed, Renewing
    <3> QED BY <3>1, <3>2
  <2> QED BY <2>1, <2>5, <2>6, <2>7, <2>8
<1>5. ASSUME NEW t \in Threads, FindsDead(t) PROVE Inv'
  <2>0. /\ CloudObeys(t) \/ CloudMissesIt
        /\ lock = t /\ pc[t] \in Posts
        /\ obeyed' \in [Threads -> Nat] /\ valid' \in 0..MaxTokens
        /\ CloudDid(t)
      BY <1>5, CloudEffect DEF FindsDead, Posting
  <2>1. Types'
    <3>1. ThreadTypes'
        BY <2>0, <1>5 DEF FindsDead, Posting, Types, ThreadTypes, SessionTypes
    <3>2. HistoryTypes'
        BY <2>0, <1>5 DEF FindsDead, Posting, Types, HistoryTypes
    <3>3. SessionTypes'
        BY <2>0, <1>5 DEF FindsDead, Posting, Types, SessionTypes
    <3> QED BY <3>1, <3>2, <3>3 DEF Types
  <2>2. OthersStay(t)
      BY <2>0, <1>5
         DEF FindsDead, Posting, CloudDid, OthersStay, Types, ThreadTypes,
             HistoryTypes
  <2>3. /\ kept = "open" /\ kept' = "none" /\ died'[t]
        /\ UNCHANGED <<pc, body, began>>
        /\ UNCHANGED <<lock, uid, token, issued, losses, logins, stray>>
      BY <1>5
         DEF FindsDead, Posting, AnswerInv, Renewing, Types, ThreadTypes,
             HistoryTypes
  <2>5. LockInv' /\ BodyInv' /\ AnswerInv'
      BY <2>0, <2>2, <2>3 DEF OthersStay, LockInv, BodyInv, AnswerInv
  <2>6. TokenInv'
      BY <2>0, <2>2, <2>3, Numbers DEF CloudDid, OthersStay, LockInv, TokenInv
  <2>7. RenewInv'
      BY <2>0, <2>2, <2>3, Numbers
         DEF CloudDid, OthersStay, LockInv, BodyInv, TokenInv, RenewInv, Renewing
  <2>8. ObeyInv'
    <3> SUFFICES ASSUME NEW s \in Threads PROVE Obeyed(s)'
        BY DEF ObeyInv
    <3>0. obeyed[t] \in Nat /\ Obeyed(t)
        BY CountIsNumber DEF ObeyInv
    <3>1. Obeyed(t)'
      <4>1. CASE pc[t] = "request" /\ obeyed[t] = 0
          BY <2>0, <2>3, <4>1 DEF CloudDid, Obeyed, Renewing
      <4>2. CASE pc[t] = "request" /\ obeyed[t] = 1 /\ began[t]
          BY <2>0, <2>3, <4>2 DEF CloudDid, Obeyed, Renewing
      <4>3. CASE pc[t] # "request"
          BY <2>0, <2>3, <3>0, <4>3 DEF CloudDid, Obeyed, Renewing
      <4> QED BY <2>3, <3>0, <4>1, <4>2, <4>3 DEF Obeyed
    <3>2. CASE s # t
        BY <2>0, <2>2, <2>3, <3>2 DEF OthersStay, LockInv, ObeyInv, Obeyed, Renewing
    <3> QED BY <3>1, <3>2
  <2> QED BY <2>1, <2>5, <2>6, <2>7, <2>8
<1>6. ASSUME NEW t \in Threads, PostFails(t) PROVE Inv'
  <2>0. /\ CloudObeys(t) \/ CloudMissesIt
        /\ lock = t /\ pc[t] \in Posts
        /\ obeyed' \in [Threads -> Nat] /\ valid' \in 0..MaxTokens
        /\ CloudDid(t)
      BY <1>6, CloudEffect DEF PostFails, Posting, DropsOnFailure, Ended
  <2>1. Types'
    <3>1. ThreadTypes'
        BY <2>0, <1>6
           DEF PostFails, Posting, DropsOnFailure, Ended, Types, ThreadTypes,
               SessionTypes
    <3>2. HistoryTypes'
        BY <2>0, <1>6 DEF PostFails, Posting, DropsOnFailure, Ended, Types,
           HistoryTypes
    <3>3. SessionTypes'
        BY <2>0, <1>6 DEF PostFails, Posting, DropsOnFailure, Ended, Types,
           SessionTypes
    <3> QED BY <3>1, <3>2, <3>3 DEF Types
  <2>2. OthersStay(t)
      BY <2>0, <1>6
         DEF PostFails, Posting, DropsOnFailure, Ended, CloudDid, OthersStay, Types,
             ThreadTypes, HistoryTypes
  <2>3. /\ pc'[t] = "error" /\ lock' = Free /\ kept' = "none"
        /\ UNCHANGED <<body, began, died>>
        /\ UNCHANGED <<uid, token, issued, losses, logins, stray>>
      BY <1>6
         DEF PostFails, Posting, DropsOnFailure, Ended, AnswerInv, Renewing, Types,
             ThreadTypes, HistoryTypes
  <2>5. LockInv' /\ BodyInv' /\ AnswerInv'
      BY <2>0, <2>2, <2>3 DEF OthersStay, LockInv, BodyInv, AnswerInv
  <2>6. TokenInv'
      BY <2>0, <2>2, <2>3, Numbers DEF CloudDid, OthersStay, LockInv, TokenInv
  <2>7. RenewInv'
      BY <2>0, <2>2, <2>3, Numbers
         DEF CloudDid, OthersStay, LockInv, BodyInv, TokenInv, RenewInv, Renewing
  <2>8. ObeyInv'
    <3> SUFFICES ASSUME NEW s \in Threads PROVE Obeyed(s)'
        BY DEF ObeyInv
    <3>0. obeyed[t] \in Nat /\ Obeyed(t)
        BY CountIsNumber DEF ObeyInv
    <3>1. Obeyed(t)'
        BY <2>0, <2>3, <3>0, ObeyedEnds
    <3>2. CASE s # t
        BY <2>0, <2>2, <2>3, <3>2 DEF OthersStay, LockInv, ObeyInv, Obeyed, Renewing
    <3> QED BY <3>1, <3>2
  <2> QED BY <2>1, <2>5, <2>6, <2>7, <2>8
<1>7. ASSUME NEW t \in Threads, PostGarbled(t) PROVE Inv'
  <2>0. /\ CloudObeys(t) \/ CloudMissesIt
        /\ lock = t /\ pc[t] \in Posts
        /\ obeyed' \in [Threads -> Nat] /\ valid' \in 0..MaxTokens
        /\ CloudDid(t)
      BY <1>7, CloudEffect DEF PostGarbled, Posting, Ended
  <2>1. Types'
    <3>1. ThreadTypes'
        BY <2>0, <1>7 DEF PostGarbled, Posting, Ended, Types, ThreadTypes,
           SessionTypes
    <3>2. HistoryTypes'
        BY <2>0, <1>7 DEF PostGarbled, Posting, Ended, Types, HistoryTypes
    <3>3. SessionTypes'
        BY <2>0, <1>7 DEF PostGarbled, Posting, Ended, Types, SessionTypes
    <3> QED BY <3>1, <3>2, <3>3 DEF Types
  <2>2. OthersStay(t)
      BY <2>0, <1>7
         DEF PostGarbled, Posting, Ended, CloudDid, OthersStay, Types, ThreadTypes,
             HistoryTypes
  <2>3. /\ pc'[t] = "error" /\ lock' = Free /\ kept' # "dirty"
        /\ UNCHANGED <<body, began, died>>
        /\ UNCHANGED <<uid, token, issued, losses, logins, stray>>
      BY <1>7
         DEF PostGarbled, Posting, Ended, AnswerInv, Renewing, Types, ThreadTypes,
             HistoryTypes
  <2>5. LockInv' /\ BodyInv' /\ AnswerInv'
      BY <2>0, <2>2, <2>3 DEF OthersStay, LockInv, BodyInv, AnswerInv
  <2>6. TokenInv'
      BY <2>0, <2>2, <2>3, Numbers DEF CloudDid, OthersStay, LockInv, TokenInv
  <2>7. RenewInv'
      BY <2>0, <2>2, <2>3, Numbers
         DEF CloudDid, OthersStay, LockInv, BodyInv, TokenInv, RenewInv, Renewing
  <2>8. ObeyInv'
    <3> SUFFICES ASSUME NEW s \in Threads PROVE Obeyed(s)'
        BY DEF ObeyInv
    <3>0. obeyed[t] \in Nat /\ Obeyed(t)
        BY CountIsNumber DEF ObeyInv
    <3>1. Obeyed(t)'
        BY <2>0, <2>3, <3>0, ObeyedEnds
    <3>2. CASE s # t
        BY <2>0, <2>2, <2>3, <3>2 DEF OthersStay, LockInv, ObeyInv, Obeyed, Renewing
    <3> QED BY <3>1, <3>2
  <2> QED BY <2>1, <2>5, <2>6, <2>7, <2>8
<1>8. ASSUME NEW t \in Threads, RequestGranted(t) PROVE Inv'
  <2>0. /\ CloudObeys(t) \/ CloudMissesIt
        /\ lock = t /\ pc[t] \in Posts
        /\ obeyed' \in [Threads -> Nat] /\ valid' \in 0..MaxTokens
        /\ CloudDid(t)
      BY <1>8, CloudEffect DEF RequestGranted, Posting, Answered, Ended
  <2>1. Types'
    <3>1. ThreadTypes'
        BY <2>0, <1>8
           DEF RequestGranted, Posting, Answered, Ended, Types, ThreadTypes,
               SessionTypes
    <3>2. HistoryTypes'
        BY <2>0, <1>8 DEF RequestGranted, Posting, Answered, Ended, Types,
           HistoryTypes
    <3>3. SessionTypes'
        BY <2>0, <1>8 DEF RequestGranted, Posting, Answered, Ended, Types,
           SessionTypes
    <3> QED BY <3>1, <3>2, <3>3 DEF Types
  <2>2. OthersStay(t)
      BY <2>0, <1>8
         DEF RequestGranted, Posting, Answered, Ended, CloudDid, OthersStay, Types,
             ThreadTypes, HistoryTypes
  <2>3. /\ pc[t] = "request" /\ pc'[t] = "ok" /\ lock' = Free /\ kept' # "dirty"
        /\ UNCHANGED <<body, began, died>>
        /\ UNCHANGED <<uid, token, issued, losses, logins>> /\ ~stray'
      BY <1>8
         DEF RequestGranted, Posting, Answered, Ended, AnswerInv, Renewing, Types,
             ThreadTypes, HistoryTypes
  <2>5. LockInv' /\ BodyInv' /\ AnswerInv'
      BY <2>0, <2>2, <2>3 DEF OthersStay, LockInv, BodyInv, AnswerInv
  <2>6. TokenInv'
      BY <2>0, <2>2, <2>3, Numbers DEF CloudDid, OthersStay, LockInv, TokenInv
  <2>7. RenewInv'
      BY <2>0, <2>2, <2>3, Numbers
         DEF CloudDid, OthersStay, LockInv, BodyInv, TokenInv, RenewInv, Renewing
  <2>8. ObeyInv'
    <3> SUFFICES ASSUME NEW s \in Threads PROVE Obeyed(s)'
        BY DEF ObeyInv
    <3>0. obeyed[t] \in Nat /\ Obeyed(t)
        BY CountIsNumber DEF ObeyInv
    <3>1. Obeyed(t)'
        BY <2>0, <2>3, <3>0, ObeyedEnds
    <3>2. CASE s # t
        BY <2>0, <2>2, <2>3, <3>2 DEF OthersStay, LockInv, ObeyInv, Obeyed, Renewing
    <3> QED BY <3>1, <3>2
  <2> QED BY <2>1, <2>5, <2>6, <2>7, <2>8
<1>9. ASSUME NEW t \in Threads, RequestRefused(t) PROVE Inv'
  <2>0. /\ CloudObeys(t) \/ CloudMissesIt
        /\ lock = t /\ pc[t] \in Posts
        /\ obeyed' \in [Threads -> Nat] /\ valid' \in 0..MaxTokens
        /\ CloudDid(t)
      BY <1>9, CloudEffect DEF RequestRefused, Posting, Answered, Ended, Goes
  <2>1. Types'
    <3>1. ThreadTypes'
        BY <2>0, <1>9
           DEF RequestRefused, Posting, Answered, Ended, Goes, Types, ThreadTypes,
               SessionTypes
    <3>2. HistoryTypes'
        BY <2>0, <1>9
           DEF RequestRefused, Posting, Answered, Ended, Goes, Types, HistoryTypes
    <3>3. SessionTypes'
        BY <2>0, <1>9
           DEF RequestRefused, Posting, Answered, Ended, Goes, Types, SessionTypes
    <3> QED BY <3>1, <3>2, <3>3 DEF Types
  <2>2. OthersStay(t)
      BY <2>0, <1>9
         DEF RequestRefused, Posting, Answered, Ended, Goes, CloudDid, OthersStay,
             Types, ThreadTypes, HistoryTypes
  <2>3. /\ \/ began[t] /\ pc'[t] = "auth error" /\ lock' = Free
           \/ ~began[t] /\ pc'[t] = "refresh" /\ lock' = lock
        /\ began'[t]
        /\ pc[t] = "request" /\ body[t] # valid
        /\ UNCHANGED <<body, died, uid, token, issued, losses, logins>>
        /\ kept' # "dirty" /\ ~stray'
    <3>1. \/ began[t] /\ pc'[t] = "auth error" /\ lock' = Free
          \/ ~began[t] /\ pc'[t] = "refresh" /\ lock' = lock
        BY <1>9 DEF RequestRefused, Ended, Goes, Types, ThreadTypes
    <3>2. began'[t]
        BY <1>9 DEF RequestRefused, Types, ThreadTypes
    <3>3. /\ pc[t] = "request" /\ body[t] # valid
          /\ UNCHANGED <<body, died, uid, token, issued, losses, logins>>
        BY <1>9 DEF RequestRefused, Answered
    <3>4. kept' # "dirty" /\ ~stray'
        BY <1>9 DEF RequestRefused, Answered, AnswerInv
    <3> QED BY <3>1, <3>2, <3>3, <3>4
  <2>5. LockInv' /\ BodyInv' /\ AnswerInv'
      BY <2>0, <2>2, <2>3 DEF OthersStay, LockInv, BodyInv, AnswerInv
  <2>6. TokenInv'
      BY <2>0, <2>2, <2>3, Numbers DEF CloudDid, OthersStay, LockInv, TokenInv
  <2>7. RenewInv'
      BY <2>0, <2>2, <2>3, Numbers
         DEF CloudDid, OthersStay, LockInv, BodyInv, TokenInv, RenewInv, Renewing
  <2>8. ObeyInv'
    <3> SUFFICES ASSUME NEW s \in Threads PROVE Obeyed(s)'
        BY DEF ObeyInv
    <3>0. obeyed[t] \in Nat /\ Obeyed(t)
        BY CountIsNumber DEF ObeyInv
    <3>1. Obeyed(t)'
        BY <2>0, <2>3, <3>0 DEF CloudDid, Obeyed, Renewing
    <3>2. CASE s # t
        BY <2>0, <2>2, <2>3, <3>2 DEF OthersStay, LockInv, ObeyInv, Obeyed, Renewing
    <3> QED BY <3>1, <3>2
  <2> QED BY <2>1, <2>5, <2>6, <2>7, <2>8
<1>10. ASSUME NEW t \in Threads, RequestDenied(t) PROVE Inv'
  <2>1. Types'
    <3>1. ThreadTypes'
        BY <1>10
           DEF RequestDenied, Posting, Ended, cloud, Types, ThreadTypes,
               SessionTypes
    <3>2. HistoryTypes'
        BY <1>10 DEF RequestDenied, Posting, Ended, cloud, Types, HistoryTypes
    <3>3. SessionTypes'
        BY <1>10 DEF RequestDenied, Posting, Ended, cloud, Types, SessionTypes
    <3> QED BY <3>1, <3>2, <3>3 DEF Types
  <2>2. OthersStay(t)
      BY <1>10
         DEF RequestDenied, Posting, Ended, cloud, OthersStay, Types, ThreadTypes,
             HistoryTypes
  <2>3. /\ pc'[t] \in {"auth error", "error"} /\ lock' = Free /\ kept' # "dirty"
        /\ pc[t] = "request"
        /\ UNCHANGED <<body, began, died, obeyed>>
        /\ UNCHANGED <<uid, token, valid, issued, losses, logins>> /\ ~stray'
      BY <1>10
         DEF RequestDenied, Posting, Ended, cloud, AnswerInv, Renewing, Types,
             ThreadTypes, HistoryTypes
  <2>5. LockInv' /\ BodyInv' /\ AnswerInv'
      BY <2>2, <2>3 DEF OthersStay, LockInv, BodyInv, AnswerInv
  <2>6. TokenInv'
      BY <2>2, <2>3, Numbers DEF OthersStay, LockInv, TokenInv
  <2>7. RenewInv'
      BY <2>2, <2>3, Numbers
         DEF OthersStay, LockInv, BodyInv, TokenInv, RenewInv, Renewing
  <2>8. ObeyInv'
    <3> SUFFICES ASSUME NEW s \in Threads PROVE Obeyed(s)'
        BY DEF ObeyInv
    <3>1. Obeyed(t)'
        BY <2>2, <2>3, CountIsNumber DEF ObeyInv, Obeyed, Renewing
    <3>2. CASE s # t
        BY <2>2, <2>3, <3>2 DEF OthersStay, LockInv, ObeyInv, Obeyed, Renewing
    <3> QED BY <3>1, <3>2
  <2> QED BY <2>1, <2>5, <2>6, <2>7, <2>8
<1>11. ASSUME NEW t \in Threads, LoggedIn(t) PROVE Inv'
  <2>0. /\ CloudObeys(t) \/ CloudMissesIt
        /\ lock = t /\ pc[t] \in Posts
        /\ obeyed' \in [Threads -> Nat] /\ valid' \in 0..MaxTokens
        /\ CloudDid(t)
      BY <1>11, CloudEffect DEF LoggedIn, Posting, Answered, Goes
  <2>1. Types'
    <3>1. ThreadTypes'
        BY <2>0, <1>11
           DEF LoggedIn, Posting, Answered, Goes, Types, ThreadTypes, SessionTypes
    <3>2. HistoryTypes'
      <4>0. logins \in Nat
          BY Numbers
      <4>3. logins' = logins + 1
          BY <1>11 DEF LoggedIn
      <4>1. logins' \in Nat
          BY <4>0, <4>3
      <4>2. /\ UNCHANGED <<refused, died, losses>>
            /\ stray' = (stray \/ kept = "dirty")
          BY <1>11 DEF LoggedIn, Answered
      <4> QED BY <2>0, <4>1, <4>2 DEF Types, HistoryTypes
    <3>3. SessionTypes'
        BY <2>0, <1>11 DEF LoggedIn, Posting, Answered, Goes, Types, SessionTypes
    <3> QED BY <3>1, <3>2, <3>3 DEF Types
  <2>2. OthersStay(t)
      BY <2>0, <1>11
         DEF LoggedIn, Posting, Answered, Goes, CloudDid, OthersStay, Types,
             ThreadTypes, HistoryTypes
  <2>3. /\ pc[t] \in {"login", "signed login"} /\ pc'[t] = "request" /\ kept' # "dirty"
        /\ uid' /\ logins' = logins + 1 /\ body'[t] = token
        /\ UNCHANGED <<began, died>>
        /\ UNCHANGED <<lock, token, issued, losses>> /\ ~stray'
      BY <1>11
         DEF LoggedIn, Posting, Answered, Goes, AnswerInv, Renewing, Types,
             ThreadTypes, HistoryTypes
  <2>5. LockInv' /\ BodyInv' /\ AnswerInv'
      BY <2>0, <2>2, <2>3 DEF OthersStay, LockInv, BodyInv, AnswerInv
  <2>6. TokenInv'
    <3>0. token \in Nat /\ valid \in Nat /\ issued \in Nat /\ logins \in Nat
        BY Numbers
    <3>1. token' <= issued'
        BY <2>0, <2>2, <2>3, <3>0 DEF TokenInv
    <3>2. valid' <= issued'
        BY <2>0, <2>2, <2>3, <3>0 DEF CloudDid, TokenInv
    <3>5. logins + 2 <= issued
        BY <2>3 DEF TokenInv
    <3>6. logins' = logins + 1 /\ issued' = issued
        BY <2>3
    <3>3. logins' + 1 <= issued'
        BY <3>0, <3>5, <3>6
    <3>4. ASSUME NEW s \in Threads, pc'[s] \in {"login", "signed login"}
          PROVE  logins' + 2 <= issued'
        BY <2>0, <2>2, <2>3, <3>0, <3>4 DEF OthersStay, LockInv, TokenInv
    <3> QED BY <3>1, <3>2, <3>3, <3>4 DEF TokenInv
  <2>7. RenewInv'
    <3>0. logins \in Nat /\ losses \in Nat
        BY Numbers
    <3>1. logins < losses
        BY <2>3 DEF RenewInv, Renewing
    <3>2. logins' = logins + 1 /\ losses' = losses
        BY <2>3
    <3>3. logins' <= losses'
        BY <3>0, <3>1, <3>2
    <3>4. uid' /\ valid' = token'
        BY <1>11 DEF LoggedIn, Answered, CloudObeys
    <3>5. \A s \in Threads : pc'[s] \notin Renewing
        BY <2>0, <2>2, <2>3 DEF OthersStay, LockInv, Renewing
    <3> QED BY <3>3, <3>4, <3>5 DEF RenewInv
  <2>8. ObeyInv'
    <3> SUFFICES ASSUME NEW s \in Threads PROVE Obeyed(s)'
        BY DEF ObeyInv
    <3>0. obeyed[t] \in Nat /\ Obeyed(t)
        BY CountIsNumber DEF ObeyInv
    <3>1. Obeyed(t)'
        BY <2>0, <2>3, <3>0 DEF CloudDid, Obeyed, Renewing
    <3>2. CASE s # t
        BY <2>0, <2>2, <2>3, <3>2 DEF OthersStay, LockInv, ObeyInv, Obeyed, Renewing
    <3> QED BY <3>1, <3>2
  <2> QED BY <2>1, <2>5, <2>6, <2>7, <2>8
<1>12. ASSUME NEW t \in Threads, LoginRefused(t) PROVE Inv'
  <2>1. Types'
    <3>1. ThreadTypes'
        BY <1>12
           DEF LoginRefused, Posting, Ended, Goes, cloud, Types, ThreadTypes,
               SessionTypes
    <3>2. HistoryTypes'
        BY <1>12 DEF LoginRefused, Posting, Ended, Goes, cloud, Types, HistoryTypes
    <3>3. SessionTypes'
        BY <1>12 DEF LoginRefused, Posting, Ended, Goes, cloud, Types, SessionTypes
    <3> QED BY <3>1, <3>2, <3>3 DEF Types
  <2>2. OthersStay(t)
      BY <1>12
         DEF LoginRefused, Posting, Ended, Goes, cloud, OthersStay, Types,
             ThreadTypes, HistoryTypes
  <2>3. /\ \/ pc'[t] = "signed login" /\ lock' = lock
           \/ pc'[t] = "auth error" /\ lock' = Free
        /\ pc[t] \in {"login", "signed login"}
        /\ UNCHANGED <<body, began, died, obeyed, uid, token, valid, issued, losses, logins>>
        /\ kept' # "dirty" /\ ~stray'
    <3>1. \/ pc'[t] = "signed login" /\ lock' = lock
          \/ pc'[t] = "auth error" /\ lock' = Free
        BY <1>12 DEF LoginRefused, Ended, Goes, Types, ThreadTypes
    <3>2. /\ pc[t] \in {"login", "signed login"}
          /\ UNCHANGED <<body, began, died, obeyed, uid, token, valid, issued, losses, logins>>
        BY <1>12 DEF LoginRefused, cloud
    <3>3. kept' # "dirty" /\ ~stray'
        BY <1>12 DEF LoginRefused, AnswerInv
    <3> QED BY <3>1, <3>2, <3>3
  <2>5. LockInv' /\ BodyInv' /\ AnswerInv'
      BY <2>2, <2>3 DEF OthersStay, LockInv, BodyInv, AnswerInv
  <2>6. TokenInv'
      BY <2>2, <2>3, Numbers DEF OthersStay, LockInv, TokenInv
  <2>7. RenewInv'
      BY <2>2, <2>3, Numbers
         DEF OthersStay, LockInv, BodyInv, TokenInv, RenewInv, Renewing
  <2>8. ObeyInv'
    <3> SUFFICES ASSUME NEW s \in Threads PROVE Obeyed(s)'
        BY DEF ObeyInv
    <3>1. Obeyed(t)'
        BY <2>2, <2>3, CountIsNumber DEF ObeyInv, Obeyed, Renewing
    <3>2. CASE s # t
        BY <2>2, <2>3, <3>2 DEF OthersStay, LockInv, ObeyInv, Obeyed, Renewing
    <3> QED BY <3>1, <3>2
  <2> QED BY <2>1, <2>5, <2>6, <2>7, <2>8
<1>13. CASE Closes
    BY <1>13
       DEF Closes, cloud, Types, ThreadTypes, HistoryTypes, SessionTypes, LockInv,
           BodyInv, TokenInv, RenewInv,
       ObeyInv, Obeyed, AnswerInv, Renewing
<1>14. CASE SessionLost
  <2> USE <1>14 DEF SessionLost, client
  <2>1. ThreadTypes' /\ SessionTypes'
    <3>1. ThreadTypes'
        BY DEF Types, ThreadTypes
    <3>2. SessionTypes'
        BY DEF Types, SessionTypes
    <3> QED BY <3>1, <3>2
  <2>2. HistoryTypes'
      BY DEF Types, HistoryTypes
  <2>3. LockInv' /\ BodyInv' /\ ObeyInv' /\ AnswerInv'
      BY DEF LockInv, BodyInv, ObeyInv, Obeyed, AnswerInv
  <2>4. TokenInv'
    <3>0. issued \in Nat
        BY Numbers
    <3>1. UNCHANGED <<pc, token, issued, logins>> /\ valid' = 0
        OBVIOUS
    <3>2. valid' <= issued'
        BY <3>0, <3>1
    <3>3. /\ token' <= issued' /\ logins' + 1 <= issued'
          /\ \A t \in Threads : pc'[t] \in {"login", "signed login"} => logins' + 2 <= issued'
        BY <3>1 DEF TokenInv
    <3> QED BY <3>2, <3>3 DEF TokenInv
  <2>5. RenewInv'
      BY Numbers DEF RenewInv
  <2> QED BY <2>1, <2>2, <2>3, <2>4, <2>5 DEF Types
<1>15. CASE UNCHANGED vars
    BY <1>15
       DEF vars, client, cloud, Types, ThreadTypes, HistoryTypes, SessionTypes,
           LockInv, BodyInv, TokenInv, RenewInv,
       ObeyInv, Obeyed, AnswerInv, Renewing
<1> QED
    BY <1>1, <1>2, <1>3, <1>4, <1>5, <1>6, <1>7, <1>8, <1>9, <1>10, <1>11, <1>12,
       <1>13, <1>14, <1>15
       DEF Next, CallSteps, RequestSteps, LoginSteps, PostSteps

LEMMA Invariant == Spec => []Inv
BY InvInit, InvStep, PTL DEF Spec

-----------------------------------------------------------------------------
(* Every variable of the client keeps its type; a call is carried out      *)
(* three times at the most.                                                *)
THEOREM TypeCorrect == Spec => []TypeOK
<1>1. Inv => TypeOK
  <2> SUFFICES ASSUME Inv PROVE TypeOK
      OBVIOUS
  <2>1. Types /\ logins \in Nat /\ issued \in 0..MaxTokens
      BY Numbers DEF Inv, Types, SessionTypes
  <2>2. logins + 1 <= issued
      BY DEF Inv, TokenInv
  <2>3. logins \in 0..MaxTokens
      BY <2>1, <2>2, ConstantsAssumption
  <2>4. ASSUME NEW t \in Threads PROVE obeyed[t] \in 0..3
    <3>1. obeyed[t] \in Nat
        BY <2>1, CountIsNumber
    <3>2. obeyed[t] <= 3
        BY DEF Inv, ObeyInv, Obeyed
    <3> QED BY <3>1, <3>2
  <2>5. obeyed \in [Threads -> 0..3]
      BY <2>1, <2>4 DEF Types, HistoryTypes
  <2> QED BY <2>1, <2>3, <2>5
          DEF TypeOK, Types, ThreadTypes, HistoryTypes, SessionTypes
<1> QED BY <1>1, Invariant, PTL

(* However many threads find the session lost, it is renewed once (call,   *)
(* under the lock).                                                        *)
THEOREM RenewedOnce == Spec => []RenewedOncePerLoss
<1>1. Inv => RenewedOncePerLoss
    BY DEF Inv, RenewInv, RenewedOncePerLoss
<1> QED BY <1>1, Invariant, PTL

(* A request is carried out twice only if its connection died (_post).     *)
THEOREM RepeatedIfDead == Spec => []RepeatedOnlyIfDead
<1>1. Inv => RepeatedOnlyIfDead
    BY DEF Inv, ObeyInv, Obeyed, RepeatedOnlyIfDead
<1> QED BY <1>1, Invariant, PTL

(* A thread never takes the answer to another request (_post).             *)
THEOREM AnswersMatch == Spec => []AnswerIsOwn
<1>1. Inv => AnswerIsOwn
    BY DEF Inv, AnswerInv, AnswerIsOwn
<1> QED BY <1>1, Invariant, PTL

=============================================================================
