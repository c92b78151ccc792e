--------------------------- MODULE EntriesProofs ---------------------------
(***************************************************************************)
(* Proofs about Entries, for every number of mowers, of flows and of       *)
(* identities.                                                             *)
(***************************************************************************)
EXTENDS Entries, TLAPS

-----------------------------------------------------------------------------
(* The identity shared.                                                    *)

LEMMA LeastIsThere ==
  ASSUME NEW S \in SUBSET Ids, S # {}
  PROVE  /\ SharedDeviceId(S) \in S
         /\ \A j \in S : SharedDeviceId(S) <= j
  BY EntriesAssumption DEF SharedDeviceId

LEMMA LeastIsOne ==
  ASSUME NEW S \in SUBSET Ids, NEW i \in S, \A j \in S : i <= j
  PROVE  SharedDeviceId(S) = i
<1>1. PICK k \in S : k = SharedDeviceId(S) /\ k <= i
  BY LeastIsThere
<1>2. i <= k /\ i \in Nat /\ k \in Nat
  BY EntriesAssumption
<1>3. k = i
  BY <1>1, <1>2
<1> QED
  BY <1>1, <1>3

LEMMA IdsAreIds ==
  ASSUME TypeOK
  PROVE  /\ IdsOfEntries \subseteq Ids
         /\ There # {} <=> IdsOfEntries # {}
         /\ 0 \notin Ids
  BY EntriesAssumption DEF TypeOK, IdsOfEntries, There

-----------------------------------------------------------------------------
(* A flow that has sent its form has an identity.                          *)
SigningInv == \A f \in Flows : flow[f].at \in {"signing", "select"} => flow[f].id # 0

(* A call only outlives the coordinator of an entry that is there.         *)
OrphanInv == \A m \in Mowers : orphan[m] # "none" => id[m] # 0

(* Entries and flows that count have the identity a form sent now would    *)
(* choose.                                                                 *)
RecentInv ==
  /\ \A m \in recent : id[m] = SharedDeviceId(IdsOfEntries)
  /\ \A f \in Flows : flow[f].recent =>
       There # {} /\ flow[f].id = SharedDeviceId(IdsOfEntries)

TypeInv == TypeOK /\ SigningInv /\ OrphanInv

LEMMA ChosenIsAnId ==
  ASSUME TypeInv, NEW f \in Flows, NEW own \in DeviceIds(flow[f].id)
  PROVE  own \in Ids /\ (There # {} => own = SharedDeviceId(IdsOfEntries))
<1>1. flow[f].id \in Ids \union {0}
  BY DEF TypeInv, TypeOK
<1>2. CASE IdsOfEntries # {}
  BY <1>2, LeastIsThere, IdsAreIds DEF DeviceIds, TypeInv
<1>3. CASE IdsOfEntries = {}
  BY <1>1, <1>3, IdsAreIds DEF DeviceIds, TypeInv
<1> QED
  BY <1>2, <1>3

(* What writing an entry leaves behind.                                    *)
LEMMA WriteKeepsTypes ==
  ASSUME TypeInv, NEW f \in Flows, NEW m \in Mowers,
         flow[f].at \in {"signing", "select"}, WritesEntry(f, m),
         orphan' \in [Mowers -> {"none", "old", "new"}],
         \A n \in Mowers \ {m} : orphan'[n] # "none" => orphan[n] # "none"
  PROVE  TypeInv'
<1> DEFINE own == flow[f].id
<1>1. own \in Ids /\ own # 0
  BY DEF TypeInv, TypeOK, SigningInv
<1>2. /\ id' = [id EXCEPT ![m] = own]
      /\ saved' = [saved EXCEPT ![m] = TRUE]
      /\ live' = [live EXCEPT ![m] = "new"]
  BY DEF WritesEntry
<1>3. /\ recent' \subseteq recent \union {m}
      /\ flow' \in [Flows -> [at : {"none", "form", "signing", "select"},
                              id : Ids \union {0}, recent : BOOLEAN]]
      /\ \A g \in Flows : /\ flow'[g].at \in {"none", flow[g].at}
                          /\ flow'[g].at # "none" => flow'[g].id = flow[g].id
  <2> DEFINE Form == [at : {"none", "form", "signing", "select"},
                      id : Ids \union {0}, recent : BOOLEAN]
  <2>1. flow \in [Flows -> Form]
    BY DEF TypeInv, TypeOK
  <2>2. NoFlow \in Form /\ NoFlow.at = "none"
    BY DEF NoFlow
  <2>3. \A g \in Flows :
          /\ [flow[g] EXCEPT !.recent = FALSE] \in Form
          /\ [flow[g] EXCEPT !.recent = FALSE].at = flow[g].at
          /\ [flow[g] EXCEPT !.recent = FALSE].id = flow[g].id
    BY <2>1
  <2>4. CASE flow[f].recent
    BY <2>1, <2>2, <2>4 DEF WritesEntry
  <2>5. CASE ~flow[f].recent
    BY <2>2, <2>3, <2>5 DEF WritesEntry
  <2> QED
    BY <2>4, <2>5
<1>4. TypeOK'
  BY <1>1, <1>2, <1>3 DEF TypeInv, TypeOK
<1>5. SigningInv'
  BY <1>3 DEF TypeInv, SigningInv
<1>6. OrphanInv'
  BY <1>1, <1>2 DEF TypeInv, TypeOK, OrphanInv
<1> QED
  BY <1>4, <1>5, <1>6 DEF TypeInv

LEMMA CreatesKeepsTypes ==
  ASSUME TypeInv, NEW f \in Flows, NEW m \in Mowers,
         flow[f].at \in {"signing", "select"}, Creates(f, m)
  PROVE  TypeInv'
<1>1. CASE id[m] = 0
  BY <1>1, WriteKeepsTypes DEF Creates, TypeInv, TypeOK
<1>2. CASE id[m] # 0
  <2>1. flow' = [flow EXCEPT ![f] = NoFlow] /\ UNCHANGED <<id, sessions, recent>>
    BY <1>2 DEF Creates
  <2> QED
    BY <2>1 DEF TypeInv, TypeOK, SigningInv, OrphanInv, sessions, NoFlow
<1> QED
  BY <1>1, <1>2

LEMMA UpdatesKeepsTypes ==
  ASSUME TypeInv, NEW m \in Mowers, flow[m].at = "signing", Updates(m, m)
  PROVE  TypeInv'
<1>1. m \in Flows
  BY DEF Flows
<1>2. /\ orphan' \in [Mowers -> {"none", "old", "new"}]
      /\ \A n \in Mowers \ {m} : orphan'[n] # "none" => orphan[n] # "none"
  BY DEF Updates, TypeInv, TypeOK
<1> QED
  BY <1>1, <1>2, WriteKeepsTypes DEF Updates

LEMMA TypeInit == Init => TypeInv
<1> SUFFICES ASSUME Init PROVE TypeInv
  OBVIOUS
<1> USE EntriesAssumption DEF Init, NoFlow
<1>1. id \in [Mowers -> Ids \union {0}]
  OBVIOUS
<1>2. TypeOK
  BY <1>1 DEF TypeOK
<1>3. SigningInv /\ OrphanInv
  BY DEF SigningInv, OrphanInv
<1> QED
  BY <1>2, <1>3 DEF TypeInv

LEMMA TypeStep == TypeInv /\ [Next]_vars => TypeInv'
<1> SUFFICES ASSUME TypeInv, [Next]_vars PROVE TypeInv'
  OBVIOUS
<1> USE DEF TypeInv, sessions
<1>1. ASSUME NEW f \in Flows, OpenFlow(f) PROVE TypeInv'
  BY <1>1 DEF OpenFlow, Opens, TypeOK, SigningInv, OrphanInv, NoFlow
<1>2. ASSUME NEW f \in Flows, Submit(f) PROVE TypeInv'
  <2>1. PICK own \in DeviceIds(flow[f].id) :
          flow' = [flow EXCEPT ![f] = [@ EXCEPT !.at = "signing", !.id = own,
                                        !.recent = There # {}]]
    BY <1>2 DEF Submit
  <2>2. own \in Ids /\ own # 0
    BY ChosenIsAnId, IdsAreIds
  <2> QED
    BY <1>2, <2>1, <2>2 DEF Submit, TypeOK, SigningInv, OrphanInv
<1>3. ASSUME NEW f \in Flows, SignInFails(f) PROVE TypeInv'
  BY <1>3 DEF SignInFails, TypeOK, SigningInv, OrphanInv
<1>4. ASSUME NEW f \in Flows, SignedIn(f) PROVE TypeInv'
  <2>1. CASE f \in Mowers
    BY <1>4, <2>1, UpdatesKeepsTypes DEF SignedIn
  <2>2. CASE f \notin Mowers /\ \E m \in Mowers \ There : Creates(f, m)
    BY <1>4, <2>2, CreatesKeepsTypes DEF SignedIn
  <2>3. CASE flow' = [flow EXCEPT ![f].at = "select"] /\ UNCHANGED <<id, sessions, recent>>
    BY <1>4, <2>3 DEF SignedIn, TypeOK, SigningInv, OrphanInv
  <2> QED
    BY <1>4, <2>1, <2>2, <2>3 DEF SignedIn
<1>5. ASSUME NEW f \in Flows, SelectVehicle(f) PROVE TypeInv'
  BY <1>5, CreatesKeepsTypes DEF SelectVehicle
<1>6. ASSUME NEW f \in Flows, AbortFlow(f) PROVE TypeInv'
  BY <1>6 DEF AbortFlow, TypeOK, SigningInv, OrphanInv, NoFlow
<1>7. ASSUME NEW m \in Mowers, AskAgain(m) PROVE TypeInv'
  BY <1>7 DEF AskAgain, Opens, Flows, TypeOK, SigningInv, OrphanInv, NoFlow
<1>8. ASSUME NEW m \in Mowers, Renew(m) PROVE TypeInv'
  BY <1>8 DEF Renew, TypeOK, SigningInv, OrphanInv
<1>9. ASSUME NEW m \in Mowers, OrphanRenews(m) PROVE TypeInv'
  BY <1>9 DEF OrphanRenews, TypeOK, SigningInv, OrphanInv
<1>10. ASSUME NEW m \in Mowers, Persist(m) PROVE TypeInv'
  BY <1>10 DEF Persist, Reload, TokensOf, TypeOK, SigningInv, OrphanInv
<1>11. ASSUME NEW m \in Mowers, OrphanEnds(m) PROVE TypeInv'
  <2> USE <1>11 DEF TypeOK, SigningInv, OrphanInv
  <2>1. CASE orphan' = [orphan EXCEPT ![m] = "none"] /\ UNCHANGED <<saved, live>>
    BY <2>1 DEF OrphanEnds
  <2>2. CASE /\ saved' = [saved EXCEPT ![m] = orphan[m] = "new"]
             /\ live' = [live EXCEPT ![m] = TokensOf(saved'[m])]
             /\ orphan' \in {[orphan EXCEPT ![m] = left] : left \in {"none", live[m]}}
    <3>1. TokensOf(saved'[m]) \in {"old", "new"}
      BY DEF TokensOf
    <3>2. live' \in [Mowers -> {"none", "old", "new"}] /\ id[m] # 0
      BY <2>2, <3>1 DEF OrphanEnds
    <3>3. orphan' \in [Mowers -> {"none", "old", "new"}]
      BY <2>2
    <3>4. saved' \in [Mowers -> BOOLEAN]
      BY <2>2
    <3> QED
      BY <2>2, <3>2, <3>3, <3>4 DEF OrphanEnds
  <2> QED
    BY <2>1, <2>2 DEF OrphanEnds
<1>12. ASSUME NEW m \in Mowers, ChangeOptions(m) PROVE TypeInv'
  BY <1>12 DEF ChangeOptions, Reload, TokensOf, TypeOK, SigningInv, OrphanInv
<1>13. ASSUME NEW m \in Mowers, Remove(m) PROVE TypeInv'
  BY <1>13 DEF Remove, TypeOK, SigningInv, OrphanInv, NoFlow
<1>14. CASE Crash
  BY <1>14 DEF Crash, TokensOf, There, TypeOK, SigningInv, OrphanInv, NoFlow
<1>15. CASE UNCHANGED vars
  BY <1>15 DEF vars, TypeOK, SigningInv, OrphanInv
<1> QED
  BY <1>1, <1>2, <1>3, <1>4, <1>5, <1>6, <1>7, <1>8, <1>9, <1>10, <1>11, <1>12,
     <1>13, <1>14, <1>15 DEF Next

(* Every variable keeps its type, however many mowers, flows and           *)
(* identities there are: no entry has tokens without being there.          *)
THEOREM TypeCorrect == Spec => []TypeOK
<1>1. Spec => []TypeInv
  BY TypeInit, TypeStep, PTL DEF Spec
<1> QED
  BY <1>1, PTL DEF TypeInv

-----------------------------------------------------------------------------
(* Identities converge.                                                    *)

(* Steps that write no entry and let no flow count anew.                   *)
LEMMA NothingWritten ==
  ASSUME RecentInv, id' = id, recent' = recent,
         \A f \in Flows : flow'[f].recent => flow[f].recent /\ flow'[f].id = flow[f].id
  PROVE  RecentInv'
<1>1. There' = There /\ SharedDeviceId(IdsOfEntries)' = SharedDeviceId(IdsOfEntries)
  BY DEF There, IdsOfEntries, SharedDeviceId
<1> QED
  BY <1>1 DEF RecentInv

(* Steps after which nothing counts.                                       *)
LEMMA NothingCounts ==
  ASSUME recent' = {}, \A f \in Flows : ~flow'[f].recent
  PROVE  RecentInv'
  BY DEF RecentInv

LEMMA WriteKeepsRecent ==
  ASSUME TypeInv, RecentInv, NEW f \in Flows, NEW m \in Mowers,
         flow[f].at \in {"signing", "select"}, WritesEntry(f, m)
  PROVE  RecentInv'
<1> DEFINE own == flow[f].id
<1>1. own \in Ids /\ own # 0 /\ id' = [id EXCEPT ![m] = own]
  BY DEF TypeInv, TypeOK, SigningInv, WritesEntry
<1>2. CASE ~flow[f].recent
  <2>1. \A g \in Flows : ~[flow[g] EXCEPT !.recent = FALSE].recent /\ ~NoFlow.recent
    BY DEF NoFlow, TypeInv, TypeOK
  <2>2. recent' = {} /\ \A g \in Flows : ~flow'[g].recent
    BY <1>2, <2>1 DEF WritesEntry
  <2> QED
    BY <2>2, NothingCounts
<1>3. CASE flow[f].recent
  <2>1. recent' = recent \union {m} /\ flow' = [flow EXCEPT ![f] = NoFlow]
    BY <1>3 DEF WritesEntry
  <2>2. There # {} /\ own = SharedDeviceId(IdsOfEntries)
    BY <1>3 DEF RecentInv
  <2>3. \A n \in Mowers : id'[n] = IF n = m THEN own ELSE id[n]
    BY <1>1 DEF TypeInv, TypeOK
  <2>4. own \in IdsOfEntries' /\ m \in There'
    BY <1>1, <2>3 DEF IdsOfEntries, There
  <2>5. \A j \in IdsOfEntries' : j = own \/ j \in IdsOfEntries
    BY <2>3 DEF IdsOfEntries, There
  <2>6. \A j \in IdsOfEntries' : j \in Ids /\ own <= j
    <3>1. IdsOfEntries \subseteq Ids /\ IdsOfEntries # {}
      BY <2>2, IdsAreIds DEF TypeInv
    <3>2. \A j \in IdsOfEntries : own <= j
      BY <2>2, <3>1, LeastIsThere
    <3>3. own \in Nat
      BY <1>1, EntriesAssumption
    <3>4. own <= own
      BY <3>3
    <3> QED
      BY <1>1, <2>5, <3>1, <3>2, <3>4
  <2>7. SharedDeviceId(IdsOfEntries)' = own
    <3>1. IdsOfEntries' \in SUBSET Ids
      BY <2>6
    <3>2. SharedDeviceId(IdsOfEntries') = own
      BY <2>4, <2>6, <3>1, LeastIsOne
    <3> QED
      BY <3>2 DEF SharedDeviceId
  <2>8. \A n \in recent' : id'[n] = own
    BY <2>1, <2>2, <2>3 DEF RecentInv, TypeInv, TypeOK
  <2>9. \A g \in Flows : flow'[g].recent => flow'[g].id = own
    BY <2>1, <2>2 DEF RecentInv, NoFlow, TypeInv, TypeOK
  <2> QED
    BY <2>4, <2>7, <2>8, <2>9 DEF RecentInv
<1> QED
  BY <1>2, <1>3

LEMMA CreatesKeepsRecent ==
  ASSUME TypeInv, RecentInv, NEW f \in Flows, NEW m \in Mowers,
         flow[f].at \in {"signing", "select"}, Creates(f, m)
  PROVE  RecentInv'
<1>1. CASE id[m] = 0
  BY <1>1, WriteKeepsRecent DEF Creates
<1>2. CASE id[m] # 0
  <2>1. flow' = [flow EXCEPT ![f] = NoFlow] /\ id' = id /\ recent' = recent
    BY <1>2 DEF Creates
  <2>2. \A g \in Flows : flow'[g].recent => flow[g].recent /\ flow'[g].id = flow[g].id
    BY <2>1 DEF NoFlow, TypeInv, TypeOK
  <2> QED
    BY <2>1, <2>2, NothingWritten
<1> QED
  BY <1>1, <1>2

LEMMA RecentStep == TypeInv /\ RecentInv /\ [Next]_vars => RecentInv'
<1> SUFFICES ASSUME TypeInv, RecentInv, [Next]_vars PROVE RecentInv'
  OBVIOUS
<1> DEFINE Quiet ==
      /\ id' = id
      /\ recent' = recent
      /\ \A f \in Flows : flow'[f].recent => flow[f].recent /\ flow'[f].id = flow[f].id
<1>1. ASSUME NEW f \in Flows, OpenFlow(f) \/ AbortFlow(f) \/ SignInFails(f)
      PROVE  Quiet
  <2>1. CASE OpenFlow(f)
    BY <2>1 DEF OpenFlow, Opens, NoFlow, TypeInv, TypeOK
  <2>2. CASE AbortFlow(f)
    BY <2>2 DEF AbortFlow, NoFlow, TypeInv, TypeOK
  <2>3. CASE SignInFails(f)
    BY <2>3 DEF SignInFails, TypeInv, TypeOK
  <2> QED
    BY <1>1, <2>1, <2>2, <2>3
<1>2. ASSUME NEW f \in Flows, Submit(f) PROVE RecentInv'
  <2>1. PICK own \in DeviceIds(flow[f].id) :
          flow' = [flow EXCEPT ![f] = [@ EXCEPT !.at = "signing", !.id = own,
                                        !.recent = There # {}]]
    BY <1>2 DEF Submit
  <2>2. There # {} => own = SharedDeviceId(IdsOfEntries)
    BY ChosenIsAnId
  <2>3. /\ There' = There
        /\ SharedDeviceId(IdsOfEntries)' = SharedDeviceId(IdsOfEntries)
        /\ id' = id /\ recent' = recent
    BY <1>2 DEF Submit, There, IdsOfEntries, SharedDeviceId
  <2>4. \A g \in Flows : flow'[g].recent =>
          There # {} /\ flow'[g].id = SharedDeviceId(IdsOfEntries)
    BY <2>1, <2>2 DEF RecentInv, TypeInv, TypeOK
  <2> QED
    BY <2>3, <2>4 DEF RecentInv
<1>3. ASSUME NEW f \in Flows, SignedIn(f) PROVE RecentInv'
  <2>1. CASE f \in Mowers
    BY <1>3, <2>1, WriteKeepsRecent DEF SignedIn, Updates
  <2>2. CASE f \notin Mowers /\ \E m \in Mowers \ There : Creates(f, m)
    BY <1>3, <2>2, CreatesKeepsRecent DEF SignedIn
  <2>3. CASE flow' = [flow EXCEPT ![f].at = "select"] /\ UNCHANGED <<id, sessions, recent>>
    <3>1. Quiet
      BY <2>3 DEF TypeInv, TypeOK
    <3> QED
      BY <3>1, NothingWritten
  <2> QED
    BY <1>3, <2>1, <2>2, <2>3 DEF SignedIn
<1>4. ASSUME NEW f \in Flows, SelectVehicle(f) PROVE RecentInv'
  BY <1>4, CreatesKeepsRecent DEF SelectVehicle
<1>5. ASSUME NEW m \in Mowers, AskAgain(m) PROVE Quiet
  BY <1>5 DEF AskAgain, Opens, Flows, NoFlow, TypeInv, TypeOK
<1>6. ASSUME NEW m \in Mowers,
             Renew(m) \/ OrphanRenews(m) \/ Persist(m) \/ OrphanEnds(m) \/ ChangeOptions(m)
      PROVE  Quiet
  BY <1>6 DEF Renew, OrphanRenews, Persist, OrphanEnds, ChangeOptions
<1>7. ASSUME NEW m \in Mowers, Remove(m) PROVE RecentInv'
  <2>1. recent' = {} /\ \A f \in Flows : ~flow'[f].recent
    BY <1>7 DEF Remove, NoFlow, TypeInv, TypeOK
  <2> QED
    BY <2>1, NothingCounts
<1>8. CASE Crash
  <2>1. Quiet
    BY <1>8 DEF Crash, NoFlow
  <2> QED
    BY <2>1, NothingWritten
<1>9. CASE UNCHANGED vars
  <2>1. Quiet
    BY <1>9 DEF vars
  <2> QED
    BY <2>1, NothingWritten
<1>10. Quiet => RecentInv'
  BY NothingWritten
<1> HIDE DEF Quiet
<1> QED
  BY <1>1, <1>2, <1>3, <1>4, <1>5, <1>6, <1>7, <1>8, <1>9, <1>10 DEF Next

(* Entries written by forms that were sent with entries there have one     *)
(* identity, for every number of mowers and flows and every identity the   *)
(* entries had before (_shared_device_id).                                 *)
THEOREM OneIdentity == Spec => []IdentitiesConverge
<1>1. Init => RecentInv
  BY DEF Init, RecentInv, NoFlow
<1>2. RecentInv => IdentitiesConverge
  BY DEF RecentInv, IdentitiesConverge
<1> QED
  BY <1>1, <1>2, TypeInit, TypeStep, RecentStep, PTL DEF Spec
=============================================================================
