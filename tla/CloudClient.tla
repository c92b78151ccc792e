---------------------------- MODULE CloudClient ----------------------------
(***************************************************************************)
(* Calls of the mower cloud by the threads of one client (api/client.py:   *)
(* call, _post, _reauth, mower_login, close; passport.refresh).            *)
(*                                                                         *)
(* A call holds the re-entrant lock from end to end.  It posts on the kept *)
(* connection if there is one; a kept connection that turns out dead is    *)
(* replaced and the request posted once more, any other failure ends the   *)
(* call.  If the cloud refuses the session, the passport tokens are        *)
(* refreshed, the mower login repeated, and the request posted again.      *)
(*                                                                         *)
(* A session is a number: that of the access token the client last got.    *)
(***************************************************************************)
EXTENDS Naturals, FiniteSets

CONSTANTS
  Threads,     \* executor threads with a call to make
  Free,        \* nobody holds the lock
  MaxLosses,   \* bound: how often the session is lost
  MaxTokens    \* bound: how often the passport renews the tokens

ASSUME ConstantsAssumption ==
  /\ Free \notin Threads
  /\ MaxLosses \in Nat \ {0}
  /\ MaxTokens \in Nat \ {0}

VARIABLES
  lock,     \* _lock
  pc,       \* what each thread is about to post, or how its call ended
  body,     \* the session named in the body of its request
  began,    \* its session was refused before, in this call
  refused,  \* the last answer it got was a refusal of the session (history)
  kept,     \* _conn: none, open, or open with an answer still to come
  uid,      \* _uid is set
  token,    \* the number of the access token in _tokens
  valid,    \* the session the cloud accepts, 0 for none (external)
  issued,   \* the last token the passport issued (external)
  losses,   \* how often the session was lost, or not there at the start (history)
  logins,   \* how often the client has logged in to the mower cloud (history)
  obeyed,   \* how often the cloud has obeyed each call (history)
  died,     \* the kept connection died under the call (history)
  stray     \* a thread has taken an answer to another request (history)

client == <<kept, uid, token>>
cloud == <<valid, issued, losses>>
vars == <<lock, pc, body, began, refused, client, cloud, logins, obeyed, died, stray>>

Posts == {"request", "login", "signed login"}
Ends == {"ok", "auth error", "error"}

TypeOK ==
  /\ lock \in Threads \union {Free}
  /\ pc \in [Threads -> {"idle", "waiting", "refresh"} \union Posts \union Ends]
  /\ body \in [Threads -> 0..MaxTokens]
  /\ began \in [Threads -> BOOLEAN]
  /\ refused \in [Threads -> BOOLEAN]
  /\ kept \in {"none", "open", "dirty"}
  /\ uid \in BOOLEAN
  /\ token \in 0..MaxTokens
  /\ valid \in 0..MaxTokens
  /\ issued \in 0..MaxTokens
  /\ losses \in 0..MaxLosses
  /\ logins \in 0..MaxTokens
  /\ obeyed \in [Threads -> 0..3]
  /\ died \in [Threads -> BOOLEAN]
  /\ stray \in BOOLEAN

-----------------------------------------------------------------------------
(* call                                                                    *)

Called(t) ==
  /\ pc[t] \in {"idle"} \union Ends
  /\ pc' = [pc EXCEPT ![t] = "waiting"]
  /\ obeyed' = [obeyed EXCEPT ![t] = 0]
  /\ died' = [died EXCEPT ![t] = FALSE]
  /\ began' = [began EXCEPT ![t] = FALSE]
  /\ refused' = [refused EXCEPT ![t] = FALSE]
  /\ body' = [body EXCEPT ![t] = token]
  /\ UNCHANGED <<lock, client, cloud, logins, stray>>

(* The body was made before the lock was taken.                            *)
BodyMadeEarly(t) == body[t]

(* _auth_body, once the lock is held.                                      *)
Body(t) == token'

(* The lock is taken.  Without a uid there is no session yet.              *)
Begins(t) ==
  /\ pc[t] = "waiting"
  /\ lock = Free
  /\ lock' = t
  /\ pc' = [pc EXCEPT ![t] = IF uid THEN "request" ELSE "refresh"]
  /\ UNCHANGED client
  /\ body' = [body EXCEPT ![t] = Body(t)]
  /\ UNCHANGED <<began, refused, cloud, logins, obeyed, died, stray>>

Ended(t, how) ==
  /\ pc' = [pc EXCEPT ![t] = how]
  /\ lock' = Free

Goes(t, where) ==
  /\ pc' = [pc EXCEPT ![t] = where]
  /\ UNCHANGED lock

-----------------------------------------------------------------------------
(* passport.refresh, over connections of its own.                          *)

Refreshes(t) ==
  /\ pc[t] = "refresh"
  /\ issued < MaxTokens
  /\ issued' = issued + 1
  /\ token' = issued + 1
  /\ Goes(t, "login")
  /\ UNCHANGED <<body, began, refused, kept, uid, valid, losses, logins, obeyed,
                 died, stray>>

(* Refused, or no host could be reached: the user is asked to sign in.     *)
RefreshFails(t) ==
  /\ pc[t] = "refresh"
  /\ \E answer \in BOOLEAN : refused' = [refused EXCEPT ![t] = answer]
  /\ Ended(t, "auth error")
  /\ UNCHANGED <<body, began, client, cloud, logins, obeyed, died, stray>>

-----------------------------------------------------------------------------
(* _post                                                                   *)

Posting(t) == pc[t] \in Posts /\ lock = t

(* What the cloud does with the request that reached it.                   *)
CloudObeys(t) ==
  IF pc[t] = "request"
  THEN /\ obeyed' = [obeyed EXCEPT ![t] = IF body[t] = valid THEN @ + 1 ELSE @]
       /\ UNCHANGED valid
  ELSE /\ valid' = token
       /\ UNCHANGED obeyed

CloudMissesIt == UNCHANGED <<obeyed, valid>>

(* After a failure the connection is not used again.                       *)
KeepsOnFailure == kept' = "dirty"

DropsOnFailure == kept' = "none"

(* The kept connection is dead: once more, on a fresh one.  The request    *)
(* may have been obeyed all the same.                                      *)
FindsDead(t) ==
  /\ Posting(t)
  /\ kept = "open"
  /\ CloudObeys(t) \/ CloudMissesIt
  /\ kept' = "none"
  /\ died' = [died EXCEPT ![t] = TRUE]
  /\ UNCHANGED <<lock, pc, body, began, refused, uid, token, issued, losses,
                 logins, stray>>

(* A timeout is taken for a dead connection.                               *)
RepeatsTimeout(t) ==
  /\ Posting(t)
  /\ CloudObeys(t) \/ CloudMissesIt
  /\ DropsOnFailure
  /\ IF kept = "open" THEN UNCHANGED <<lock, pc>> ELSE Ended(t, "error")
  /\ UNCHANGED <<body, began, refused, uid, token, issued, losses, logins,
                 died, stray>>

(* A timeout, a refused connection or a garbled answer.                    *)
PostFails(t) ==
  /\ Posting(t)
  /\ CloudObeys(t) \/ CloudMissesIt
  /\ DropsOnFailure
  /\ Ended(t, "error")
  /\ UNCHANGED <<body, began, refused, uid, token, issued, losses, logins,
                 died, stray>>

(* The answer is not JSON, but was read to its end.                        *)
PostGarbled(t) ==
  /\ Posting(t)
  /\ CloudObeys(t)
  /\ kept' \in {"open", "none"}
  /\ Ended(t, "error")
  /\ UNCHANGED <<body, began, refused, uid, token, issued, losses, logins,
                 died, stray>>

(* An answer arrives and is read to its end.  The cloud may close the      *)
(* connection after it.  An answer that was still to come on the           *)
(* connection would be taken for this one.                                 *)
Answered(t) ==
  /\ Posting(t)
  /\ CloudObeys(t)
  /\ kept' \in {"open", "none"}
  /\ stray' = (stray \/ kept = "dirty")
  /\ UNCHANGED <<issued, losses, died>>

(* The request: code 1, a refusal of the session, or another code.         *)
RequestGranted(t) ==
  /\ pc[t] = "request"
  /\ body[t] = valid
  /\ Answered(t)
  /\ refused' = [refused EXCEPT ![t] = FALSE]
  /\ Ended(t, "ok")
  /\ UNCHANGED <<body, began, uid, token, logins>>

(* It renews the session however often it was refused.                     *)
RefusedTimeAndAgain(t) ==
  /\ pc[t] = "request"
  /\ body[t] # valid
  /\ Answered(t)
  /\ refused' = [refused EXCEPT ![t] = TRUE]
  /\ Goes(t, "refresh")
  /\ UNCHANGED <<body, began, uid, token, logins>>

(* For the first time it renews the session.                               *)
RequestRefused(t) ==
  /\ pc[t] = "request"
  /\ body[t] # valid
  /\ Answered(t)
  /\ refused' = [refused EXCEPT ![t] = TRUE]
  /\ began' = [began EXCEPT ![t] = TRUE]
  /\ IF began[t] THEN Ended(t, "auth error") ELSE Goes(t, "refresh")
  /\ UNCHANGED <<body, uid, token, logins>>

(* A busy mower, say.  After a renewal the code of the first answer still  *)
(* decides, and that was a refusal of the session.                         *)
RequestDenied(t) ==
  /\ pc[t] = "request"
  /\ body[t] = valid
  /\ Posting(t)
  /\ kept' \in {"open", "none"}
  /\ stray' = (stray \/ kept = "dirty")
  /\ refused' = [refused EXCEPT ![t] = FALSE]
  /\ Ended(t, IF began[t] THEN "auth error" ELSE "error")
  /\ UNCHANGED <<body, began, uid, token, cloud, logins, obeyed, died>>

(* The login gave a uid, and the request is posted.                        *)
LoggedIn(t) ==
  /\ pc[t] \in {"login", "signed login"}
  /\ Answered(t)
  /\ uid' = TRUE
  /\ logins' = logins + 1
  /\ body' = [body EXCEPT ![t] = token]
  /\ Goes(t, "request")
  /\ UNCHANGED <<began, refused, token>>

(* Both variants are tried until the cloud gives in.                       *)
LoginTriedOnAndOn(t) ==
  /\ pc[t] \in {"login", "signed login"}
  /\ Posting(t)
  /\ kept' \in {"open", "none"}
  /\ stray' = (stray \/ kept = "dirty")
  /\ refused' = [refused EXCEPT ![t] = TRUE]
  /\ Goes(t, IF pc[t] = "login" THEN "signed login" ELSE "login")
  /\ UNCHANGED <<body, began, uid, token, cloud, logins, obeyed, died>>

(* No uid: the signed variant is tried, then the call fails.               *)
LoginRefused(t) ==
  /\ pc[t] \in {"login", "signed login"}
  /\ Posting(t)
  /\ kept' \in {"open", "none"}
  /\ stray' = (stray \/ kept = "dirty")
  /\ refused' = [refused EXCEPT ![t] = TRUE]
  /\ IF pc[t] = "login" THEN Goes(t, "signed login") ELSE Ended(t, "auth error")
  /\ UNCHANGED <<body, began, uid, token, cloud, logins, obeyed, died>>

-----------------------------------------------------------------------------
(* close, when the entry is unloaded                                       *)
Closes ==
  /\ lock = Free
  /\ kept' = "none"
  /\ UNCHANGED <<lock, pc, body, began, refused, uid, token, cloud, logins, obeyed,
                 died, stray>>

(* The cloud drops the session: it has expired, or the account has signed  *)
(* in elsewhere.                                                           *)
SessionLost ==
  /\ losses < MaxLosses
  /\ valid # 0
  /\ valid' = 0
  /\ losses' = losses + 1
  /\ UNCHANGED <<lock, pc, body, began, refused, client, issued, logins, obeyed, died,
                 stray>>

(* A start with the tokens of the entry, with or without its uid; their    *)
(* session may be good or not.                                             *)
Init ==
  /\ lock = Free
  /\ pc = [t \in Threads |-> "idle"]
  /\ body = [t \in Threads |-> 0]
  /\ began = [t \in Threads |-> FALSE]
  /\ refused = [t \in Threads |-> FALSE]
  /\ kept = "none"
  /\ uid \in BOOLEAN
  /\ token = 1
  /\ valid \in {0, 1}
  /\ issued = 1
  /\ losses = IF uid /\ valid = 1 THEN 0 ELSE 1
  /\ logins = 0
  /\ obeyed = [t \in Threads |-> 0]
  /\ died = [t \in Threads |-> FALSE]
  /\ stray = FALSE

RequestSteps(t) == RequestGranted(t) \/ RequestRefused(t) \/ RequestDenied(t)
LoginSteps(t) == Refreshes(t) \/ RefreshFails(t) \/ LoggedIn(t) \/ LoginRefused(t)
PostSteps(t) == FindsDead(t) \/ PostFails(t) \/ PostGarbled(t)
CallSteps(t) == RequestSteps(t) \/ LoginSteps(t) \/ PostSteps(t)

Next ==
  \/ \E t \in Threads : Called(t) \/ Begins(t) \/ CallSteps(t)
  \/ Closes
  \/ SessionLost

Spec == Init /\ [][Next]_vars

(* A request has a timeout, so a thread moves on.  The lock is free again  *)
(* and again and each of the few threads waiting for it gets it.           *)
Fairness ==
  \A t \in Threads : WF_vars(CallSteps(t)) /\ SF_vars(Begins(t))

FairSpec == Spec /\ Fairness

-----------------------------------------------------------------------------
(* The answer a thread takes is the one to its own request: an answer that *)
(* did not arrive in time does not wait on the connection for the next     *)
(* request, of this thread or another ("an unread body makes the socket    *)
(* unusable").                                                             *)
AnswerIsOwn == ~stray

(* However many threads find the session lost, it is renewed once: a       *)
(* thread that waited for the lock sends the session renewed meanwhile.    *)
RenewedOncePerLoss == logins <= losses

(* The cloud carries out a request a second time only if the connection    *)
(* died under it, not because it was slow to answer ("re-sending a command *)
(* in that case would be wrong") and not because the session was renewed.  *)
RepeatedOnlyIfDead == \A t \in Threads : obeyed[t] > 1 => died[t]

(* Every call comes to an end, whatever the other threads' calls come to.  *)
EveryCallEnds == \A t \in Threads : pc[t] = "waiting" ~> pc[t] \in Ends

(* A call that asks for a new sign-in was refused its session last         *)
(* (NavimowAuthError: "Auth/session problem (token expired, wrong uid,     *)
(* kicked, bad creds)").                                                   *)
AuthErrorIsOfTheSession == \A t \in Threads : pc[t] = "auth error" => refused[t]

=============================================================================
