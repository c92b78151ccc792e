----------------------------- MODULE TrailProofs -----------------------------
(***************************************************************************)
(* Proofs about Trail, for every map, any coverage and any cap, and for    *)
(* trail files of this version.                                            *)
(***************************************************************************)
EXTENDS Trail, FiniteSetTheorems, SequenceTheorems, TLAPS

Trips == {"old", "new"}
Lines == BoundedSeq(Trips, MaxPoints)

-----------------------------------------------------------------------------
(* Lines of points.                                                        *)

LEMMA Bounds ==
  /\ MaxPoints \in Nat /\ MaxPoints > 0
  /\ DecidePolls \in Nat /\ DecidePolls > 0
  /\ 0 \notin Zones
<1>1. MaxPoints \in Nat \ {0} /\ DecidePolls \in Nat \ {0} /\ 0 \notin Zones
  BY ConstantsAssumption, Zenon
<1>2. QED
  BY <1>1

LEMMA BoundedSeqs ==
  ASSUME NEW S, NEW s
  PROVE  s \in BoundedSeq(S, MaxPoints) <=> s \in Seq(S) /\ Len(s) <= MaxPoints
<1>1. BoundedSeq(S, MaxPoints) = UNION {[1..m -> S] : m \in 0..MaxPoints}
  BY DEF BoundedSeq, SeqOf
<1>2. Seq(S) = UNION {[1..n -> S] : n \in Nat}
  BY SeqDef
<1>3. ASSUME NEW m \in Nat, s \in [1..m -> S]
      PROVE  s \in Seq(S) /\ Len(s) = m
  BY <1>2, <1>3
<1>4. QED
  BY <1>1, <1>2, <1>3, Bounds

LEMMA LineType ==
  ASSUME NEW pts \in Lines
  PROVE  /\ pts \in Seq(Trips) /\ Len(pts) \in 0..MaxPoints
         /\ DOMAIN pts = 1..Len(pts)
         /\ \A i \in 1..Len(pts) : pts[i] \in Trips
BY BoundedSeqs, LenProperties, Bounds DEF Lines

LEMMA EmptyLine == <<>> \in Lines /\ Len(<<>>) = 0
<1>1. <<>> \in Seq(Trips) /\ Len(<<>>) = 0
  BY EmptySeq
<1>2. Len(<<>>) <= MaxPoints
  BY <1>1, Bounds
<1>3. QED
  BY <1>1, <1>2, BoundedSeqs, Zenon DEF Lines

LEMMA DroppedLine ==
  ASSUME NEW pts \in Seq(Trips), NEW n \in 0..Len(pts)
  PROVE  /\ Drop(pts, n) \in Seq(Trips)
         /\ Len(Drop(pts, n)) = Len(pts) - n
         /\ \A i \in 1..(Len(pts) - n) : Drop(pts, n)[i] = pts[i + n]
<1>1. Len(pts) \in Nat /\ \A i \in (n + 1)..Len(pts) : pts[i] \in Trips
  BY LenProperties
<1>2. /\ SubSeq(pts, n + 1, Len(pts)) \in Seq(Trips)
      /\ Len(SubSeq(pts, n + 1, Len(pts)))
         = IF n + 1 <= Len(pts) THEN Len(pts) - (n + 1) + 1 ELSE 0
      /\ \A i \in 1..(Len(pts) - (n + 1) + 1) :
           SubSeq(pts, n + 1, Len(pts))[i] = pts[(n + 1) + i - 1]
  BY <1>1, SubSeqProperties
<1>3. QED
  BY <1>1, <1>2 DEF Drop

(* A line whose first k points are of an older trip, and the others of     *)
(* this one.                                                               *)
Blocks(pts, k) ==
  k \in 0..Len(pts) /\ \A i \in 1..Len(pts) : pts[i] = IF i <= k THEN "old" ELSE "new"

OldFree(pts) == \A i \in 1..Len(pts) : pts[i] = "new"
AllOld(pts) == \A i \in 1..Len(pts) : pts[i] = "old"

News(pts) == Cardinality({i \in DOMAIN pts : pts[i] = "new"})
Olds(pts) == Cardinality({i \in DOMAIN pts : pts[i] = "old"})

LEMMA CountedNews ==
  ASSUME NEW pts \in Lines, NEW k, Blocks(pts, k)
  PROVE  News(pts) = Len(pts) - k
<1>1. Len(pts) \in Nat /\ DOMAIN pts = 1..Len(pts) /\ k \in 0..Len(pts)
  BY LineType DEF Blocks
<1>2. {i \in DOMAIN pts : pts[i] = "new"} = (k + 1)..Len(pts)
  BY <1>1 DEF Blocks
<1>3. Cardinality((k + 1)..Len(pts)) = Len(pts) - k
  <2>1. k + 1 \in Int /\ Len(pts) \in Int
    BY <1>1
  <2>2. Cardinality((k + 1)..Len(pts))
        = IF k + 1 > Len(pts) THEN 0 ELSE Len(pts) - (k + 1) + 1
    BY <2>1, FS_Interval, Zenon
  <2>3. QED
    BY <1>1, <2>2
<1>4. QED
  BY <1>1, <1>2, <1>3 DEF News

LEMMA NewsAreNatural ==
  ASSUME NEW pts \in Lines
  PROVE  News(pts) \in Nat
<1>1. IsFiniteSet(DOMAIN pts)
  BY LineType, FS_Interval
<1>2. QED
  BY <1>1, FS_Subset, FS_CardinalityType DEF News

LEMMA CountedOlds ==
  ASSUME NEW pts \in Lines
  PROVE  Olds(pts) = 0 <=> OldFree(pts)
<1>1. Len(pts) \in Nat /\ DOMAIN pts = 1..Len(pts) /\ \A i \in 1..Len(pts) : pts[i] \in Trips
  BY LineType
<1>2. IsFiniteSet({i \in DOMAIN pts : pts[i] = "old"})
  <2>1. IsFiniteSet(1..Len(pts))
    BY <1>1, FS_Interval
  <2>2. {i \in DOMAIN pts : pts[i] = "old"} \in SUBSET (1..Len(pts))
    BY <1>1
  <2>3. QED
    BY <2>1, <2>2, FS_Subset
<1>3. Olds(pts) = 0 <=> {i \in DOMAIN pts : pts[i] = "old"} = {}
  BY <1>2, FS_EmptySet DEF Olds
<1>4. QED
  BY <1>1, <1>3 DEF OldFree, Trips

LEMMA NoNewsInOld ==
  ASSUME NEW pts \in Lines, AllOld(pts)
  PROVE  Blocks(pts, Len(pts)) /\ News(pts) = 0
<1>1. Blocks(pts, Len(pts))
  BY LineType DEF Blocks, AllOld
<1>2. QED
  BY <1>1, LineType, CountedNews

(* What is kept of a line after its mark.                                  *)
LEMMA KeptLine ==
  ASSUME NEW pts \in Lines, NEW k \in 0..Len(pts)
  PROVE  /\ Drop(pts, k) \in Lines
         /\ OldFree(pts) => OldFree(Drop(pts, k))
         /\ Blocks(pts, k) => Blocks(Drop(pts, k), 0) /\ News(Drop(pts, k)) = News(pts)
         /\ Len(Drop(pts, k)) = Len(pts) - k
<1> DEFINE kept == Drop(pts, k)
<1>1. pts \in Seq(Trips) /\ Len(pts) \in 0..MaxPoints /\ MaxPoints \in Nat
  BY LineType, Bounds
<1>2. /\ kept \in Seq(Trips) /\ Len(kept) = Len(pts) - k
      /\ \A i \in 1..(Len(pts) - k) : kept[i] = pts[i + k]
  BY <1>1, DroppedLine
<1> HIDE DEF kept
<1>3. kept \in Lines
  BY <1>1, <1>2, BoundedSeqs DEF Lines
<1>4. OldFree(pts) => OldFree(kept)
  BY <1>1, <1>2 DEF OldFree
<1>5. ASSUME Blocks(pts, k)
      PROVE  Blocks(kept, 0)
  BY <1>1, <1>2, <1>5 DEF Blocks
<1>6. ASSUME Blocks(pts, k)
      PROVE  News(kept) = News(pts)
  BY <1>1, <1>2, <1>3, <1>5, <1>6, CountedNews
<1>7. QED
  BY <1>2, <1>3, <1>4, <1>5, <1>6 DEF kept

(* A line with one more point, under the cap.                              *)
Grown(pts) == LastOf(Append(pts, "new"))

LEMMA GrownLine ==
  ASSUME NEW pts \in Lines
  PROVE  /\ Grown(pts) \in Lines
         /\ Len(Grown(pts)) >= Len(pts)
         /\ OldFree(pts) => OldFree(Grown(pts))
         /\ \A k : Blocks(pts, k)
                   => Blocks(Grown(pts), IF Len(Append(pts, "new")) > MaxPoints /\ k > 0
                                         THEN k - 1 ELSE k)
<1> DEFINE more == Append(pts, "new")
<1>1. pts \in Seq(Trips) /\ Len(pts) \in 0..MaxPoints /\ MaxPoints \in Nat
  BY LineType, Bounds
<1>2. /\ more \in Seq(Trips) /\ Len(more) = Len(pts) + 1
      /\ \A i \in 1..Len(pts) : more[i] = pts[i]
      /\ more[Len(pts) + 1] = "new"
  BY <1>1, AppendProperties DEF Trips
<1> HIDE DEF more
<1>3. OldFree(pts) => OldFree(more)
  BY <1>1, <1>2 DEF OldFree
<1>4. \A k : Blocks(pts, k) => Blocks(more, k)
  BY <1>1, <1>2 DEF Blocks
<1>5. CASE Len(more) <= MaxPoints
  <2>1. Grown(pts) = more
    BY <1>1, <1>2, <1>5 DEF Grown, LastOf, more
  <2>2. more \in Lines
    BY <1>2, <1>5, BoundedSeqs DEF Lines
  <2>3. QED
    BY <1>1, <1>2, <1>3, <1>4, <1>5, <2>1, <2>2 DEF more
<1>6. CASE Len(more) > MaxPoints
  <2>1. Len(pts) = MaxPoints
    BY <1>1, <1>2, <1>6
  <2>2. Grown(pts) = Drop(more, 1)
    BY <1>1, <1>2, <1>6, <2>1 DEF Grown, LastOf, more
  <2> DEFINE last == Drop(more, 1)
  <2>3. /\ last \in Seq(Trips) /\ Len(last) = Len(pts)
        /\ \A i \in 1..Len(pts) : last[i] = more[i + 1]
    <3>1. 1 \in 0..Len(more) /\ Len(more) - 1 = Len(pts)
      BY <1>1, <1>2
    <3>2. /\ last \in Seq(Trips) /\ Len(last) = Len(more) - 1
          /\ \A i \in 1..(Len(more) - 1) : last[i] = more[i + 1]
      BY <1>2, <3>1, DroppedLine
    <3>3. QED
      BY <3>1, <3>2
  <2> HIDE DEF last
  <2>4. last \in Lines
    BY <1>1, <2>3, BoundedSeqs DEF Lines
  <2>5. OldFree(pts) => OldFree(last)
    BY <1>1, <1>2, <1>3, <2>3 DEF OldFree
  <2>6. ASSUME NEW k, Blocks(pts, k)
        PROVE  Blocks(last, IF k > 0 THEN k - 1 ELSE k)
    <3>1. k \in 0..Len(pts) /\ Blocks(more, k)
      BY <1>4, <2>6 DEF Blocks
    <3>2. QED
      BY <1>1, <1>2, <2>3, <3>1 DEF Blocks
  <2>7. QED
    BY <1>1, <1>6, <2>2, <2>3, <2>4, <2>5, <2>6 DEF more, last
<1>7. QED
  BY <1>1, <1>2, <1>5, <1>6

-----------------------------------------------------------------------------
(* The parts of _update_trail.                                             *)

LEMMA Partials ==
  ASSUME NEW S, NEW f
  PROVE  f \in Partial(S) <=> DOMAIN f \in SUBSET AllZones /\ f \in [DOMAIN f -> S]
BY DEF Partial

LEMMA TrailFields ==
  ASSUME NEW t \in Trails
  PROVE  /\ DOMAIN t.zones \in SUBSET AllZones /\ t.zones \in [DOMAIN t.zones -> Lines]
         /\ DOMAIN t.marks \in SUBSET AllZones /\ t.marks \in [DOMAIN t.marks -> 0..MaxPoints]
         /\ DOMAIN t.pct \in SUBSET AllZones /\ t.pct \in [DOMAIN t.pct -> Pcts]
         /\ t.prev \in Codes /\ t.last \in AllZones /\ t.decide \in 0..DecidePolls
         /\ t.split \in BOOLEAN /\ t.dirty \in BOOLEAN
<1>1. /\ t.zones \in Partial(Lines) /\ t.marks \in Partial(0..MaxPoints)
      /\ t.pct \in Partial(Pcts)
      /\ t.prev \in Codes /\ t.last \in AllZones /\ t.decide \in 0..DecidePolls
      /\ t.split \in BOOLEAN /\ t.dirty \in BOOLEAN
  BY DEF Trails, Lines, Trips
<1>2. QED
  BY <1>1, Partials

LEMMA PointsType ==
  ASSUME NEW t \in Trails, NEW z \in AllZones
  PROVE  Points(t, z) \in Lines
BY TrailFields, EmptyLine DEF Points, Get

(* Every mark tells exactly what is of an older trip.                      *)
MarkOK(t) == \A z \in DOMAIN t.marks : Blocks(Points(t, z), t.marks[z])

(* From t to u nothing of this trip is lost where there are marks, and     *)
(* nothing old comes back.                                                 *)
Keeps(t, u) ==
  /\ u \in Trails
  /\ MarkOK(u)
  /\ u.split = t.split /\ u.prev = t.prev
  /\ DOMAIN t.marks \subseteq DOMAIN u.marks
  /\ \A z \in AllZones : OldFree(Points(t, z)) => OldFree(Points(u, z))
  /\ \A z \in DOMAIN t.marks : News(Points(u, z)) >= News(Points(t, z))

LEMMA KeepsTransitive ==
  ASSUME NEW t \in Trails, NEW u, NEW v, Keeps(t, u), Keeps(u, v)
  PROVE  Keeps(t, v)
<1>1. ASSUME NEW z \in DOMAIN t.marks
      PROVE  News(Points(v, z)) >= News(Points(t, z))
  <2>1. z \in AllZones /\ z \in DOMAIN u.marks /\ t \in Trails /\ u \in Trails /\ v \in Trails
    BY TrailFields DEF Keeps
  <2>2. /\ News(Points(t, z)) \in Nat /\ News(Points(u, z)) \in Nat
        /\ News(Points(v, z)) \in Nat
    BY <2>1, PointsType, NewsAreNatural
  <2>3. /\ News(Points(u, z)) >= News(Points(t, z))
        /\ News(Points(v, z)) >= News(Points(u, z))
    BY <2>1 DEF Keeps
  <2>4. QED
    BY <2>2, <2>3
<1>2. QED
  BY <1>1 DEF Keeps

LEMMA SameLines ==
  ASSUME NEW t \in Trails, MarkOK(t), NEW u \in Trails,
         u.zones = t.zones, u.marks = t.marks, u.split = t.split, u.prev = t.prev
  PROVE  Keeps(t, u) /\ \A z : Points(u, z) = Points(t, z)
<1>1. \A z : Points(u, z) = Points(t, z)
  BY DEF Points
<1>2. \A z \in DOMAIN t.marks : News(Points(t, z)) \in Nat
  BY TrailFields, PointsType, NewsAreNatural
<1>3. QED
  BY <1>1, <1>2 DEF Keeps, MarkOK

LEMMA RestartedLine ==
  ASSUME NEW t \in Trails, MarkOK(t), NEW S \in SUBSET AllZones, NEW z \in AllZones
  PROVE  LET pts == Points(t, z)
             kept == Get(Kept(t, S), z, <<>>)
         IN /\ kept \in Lines
            /\ z \notin S => kept = pts
            /\ z \in S => OldFree(kept) /\ Blocks(kept, 0)
            /\ OldFree(pts) => OldFree(kept)
            /\ z \in DOMAIN t.marks => News(kept) = News(pts)
<1> DEFINE pts == Points(t, z)
           kept == Get(Kept(t, S), z, <<>>)
<1>1. pts \in Lines /\ Len(pts) \in Nat /\ DOMAIN Kept(t, S) = DOMAIN t.zones
  BY PointsType, LineType DEF Kept
<1>2. CASE z \notin DOMAIN t.zones
  <2>1. pts = <<>> /\ kept = <<>>
    BY <1>1, <1>2 DEF Points, Get
  <2>2. OldFree(<<>>) /\ Blocks(<<>>, 0)
    BY EmptyLine DEF OldFree, Blocks
  <2>3. QED
    BY <1>1, <2>1, <2>2
<1>3. CASE z \in DOMAIN t.zones /\ z \notin S
  <2>1. kept = pts
    BY <1>1, <1>3 DEF Points, Get, Kept
  <2>2. QED
    BY <1>1, <1>3, <2>1
<1>4. CASE z \in DOMAIN t.zones /\ z \in S
  <2>1. kept = Drop(pts, IF z \in DOMAIN t.marks THEN t.marks[z] ELSE Len(pts))
    BY <1>1, <1>4 DEF Points, Get, Kept
  <2>2. CASE z \in DOMAIN t.marks
    <3>1. Blocks(pts, t.marks[z]) /\ t.marks[z] \in 0..Len(pts)
      BY <2>2 DEF MarkOK, Blocks
    <3>2. kept = Drop(pts, t.marks[z])
      BY <2>1, <2>2
    <3> HIDE DEF kept, pts
    <3>3. kept \in Lines /\ Blocks(kept, 0) /\ News(kept) = News(pts)
      BY <1>1, <3>1, <3>2, KeptLine
    <3>4. OldFree(kept)
      BY <3>3, LineType DEF Blocks, OldFree
    <3>5. QED
      BY <1>4, <3>3, <3>4 DEF kept, pts
  <2>3. CASE z \notin DOMAIN t.marks
    <3>1. kept = Drop(pts, Len(pts))
      BY <2>1, <2>3
    <3> HIDE DEF kept, pts
    <3>2. kept \in Lines /\ Len(kept) = 0
      BY <1>1, <3>1, KeptLine
    <3>3. OldFree(kept) /\ Blocks(kept, 0)
      BY <3>2 DEF OldFree, Blocks
    <3>4. QED
      BY <1>4, <2>3, <3>2, <3>3 DEF kept, pts
  <2>4. QED
    BY <2>2, <2>3
<1>5. QED
  BY <1>2, <1>3, <1>4

(* A zone that is started over keeps what is of this trip.                 *)
LEMMA RestartKeeps ==
  ASSUME NEW t \in Trails, MarkOK(t), NEW S \in SUBSET AllZones
  PROVE  /\ Keeps(t, Restart(t, S))
         /\ \A z \in S : OldFree(Points(Restart(t, S), z))
         /\ Restart(t, S).pct = t.pct /\ Restart(t, S).decide = t.decide
         /\ DOMAIN Restart(t, S).zones = DOMAIN t.zones
<1> DEFINE u == Restart(t, S)
<1>1. /\ u.zones = Kept(t, S)
      /\ u.marks = [z \in DOMAIN t.marks \union S |-> IF z \in S THEN 0 ELSE t.marks[z]]
      /\ u.split = t.split /\ u.prev = t.prev /\ u.pct = t.pct /\ u.decide = t.decide
  BY DEF Restart, Trails
<1>2. \A z \in AllZones : Points(u, z) = Get(Kept(t, S), z, <<>>)
  BY <1>1 DEF Points
<1>3. DOMAIN Kept(t, S) = DOMAIN t.zones
  BY DEF Kept
<1>4. u.zones \in Partial(Lines)
  <2>1. \A z \in DOMAIN t.zones : Kept(t, S)[z] \in Lines
    BY <1>3, TrailFields, RestartedLine DEF Get
  <2>2. QED
    BY <1>1, <1>3, <2>1, TrailFields, Partials DEF Kept
<1>5. u.marks \in Partial(0..MaxPoints)
  BY <1>1, TrailFields, Partials, Bounds
<1>6. u \in Trails
  <2>1. (t.dirty \/ Kept(t, S) # t.zones) \in BOOLEAN
    OBVIOUS
  <2>2. QED
    BY <1>1, <1>4, <1>5, <2>1 DEF Restart, Trails, Lines, Trips
<1> HIDE DEF u
<1>7. MarkOK(u)
  <2>1. ASSUME NEW z \in DOMAIN u.marks
        PROVE  Blocks(Points(u, z), u.marks[z])
    <3>1. z \in AllZones
      BY <1>1, TrailFields
    <3>2. CASE z \in S
      BY <1>1, <1>2, <3>1, <3>2, RestartedLine
    <3>3. CASE z \notin S
      BY <1>1, <1>2, <3>1, <3>3, RestartedLine DEF MarkOK
    <3>4. QED
      BY <3>2, <3>3
  <2>2. QED
    BY <2>1 DEF MarkOK
<1>8. \A z \in DOMAIN t.marks : News(Points(u, z)) >= News(Points(t, z))
  <2>1. ASSUME NEW z \in DOMAIN t.marks
        PROVE  News(Points(u, z)) >= News(Points(t, z))
    <3>1. z \in AllZones /\ News(Points(t, z)) \in Nat
      BY TrailFields, PointsType, NewsAreNatural
    <3>2. News(Points(u, z)) = News(Points(t, z))
      BY <1>2, <3>1, RestartedLine
    <3>3. QED
      BY <3>1, <3>2
  <2>2. QED
    BY <2>1
<1>9. \A z \in AllZones : OldFree(Points(t, z)) => OldFree(Points(u, z))
  BY <1>2, RestartedLine
<1>10. \A z \in S : OldFree(Points(u, z))
  BY <1>2, RestartedLine
<1>11. QED
  BY <1>1, <1>3, <1>6, <1>7, <1>8, <1>9, <1>10 DEF Keeps, u

LEMMA CoverageType ==
  ASSUME NEW s \in Sightings
  PROVE  /\ DOMAIN s.pct \in SUBSET Zones /\ s.pct \in [DOMAIN s.pct -> Pcts]
         /\ s.active \in AllZones /\ s.code \in Codes /\ s.moved \in BOOLEAN
         /\ s.progress \in {"none", "zero", "some"}
         /\ s.moved => s.code = "mowing"
BY DEF Sightings

(* Coverage: the zones at 0 % lose what is old, no zone what is new.       *)
LEMMA CoveredKeeps ==
  ASSUME NEW t \in Trails, MarkOK(t), NEW s \in Sightings
  PROVE  /\ Keeps(t, Covered(t, s.pct))
         /\ \A z \in DOMAIN s.pct : s.pct[z] = 0 => OldFree(Points(Covered(t, s.pct), z))
         /\ DOMAIN Covered(t, s.pct).zones = DOMAIN t.zones
<1> DEFINE S == StartedOver(t, s.pct) \union {z \in DOMAIN s.pct : s.pct[z] = 0}
           r == Restart(t, S)
           u == Noted(r, s.pct)
<1>1. S \in SUBSET AllZones
  BY CoverageType DEF StartedOver, Fell, AllZones
<1>2. /\ Keeps(t, r) /\ r \in Trails /\ MarkOK(r) /\ DOMAIN r.zones = DOMAIN t.zones
      /\ \A z \in S : OldFree(Points(r, z))
  BY <1>1, RestartKeeps DEF Keeps
<1> HIDE DEF r
<1>3. /\ u \in Trails /\ u.zones = r.zones /\ u.marks = r.marks
      /\ u.split = r.split /\ u.prev = r.prev
  <2> DEFINE pct == [z \in DOMAIN r.pct \union DOMAIN s.pct |->
                       IF z \in DOMAIN s.pct THEN s.pct[z] ELSE r.pct[z]]
             dirty == r.dirty \/ \E z \in DOMAIN s.pct :
                                   z \notin DOMAIN r.pct \/ r.pct[z] # s.pct[z]
  <2>1. u = [r EXCEPT !.decide = 0, !.pct = pct, !.dirty = dirty]
    BY DEF Noted
  <2>2. pct \in Partial(Pcts)
    BY <1>2, TrailFields, CoverageType, Partials DEF AllZones
  <2>3. dirty \in BOOLEAN
    OBVIOUS
  <2>4. 0 \in 0..DecidePolls /\ r \in Trails
    BY <1>2, Bounds
  <2> HIDE DEF u, pct, dirty
  <2>5. QED
    BY <2>1, <2>2, <2>3, <2>4 DEF Trails
<1> HIDE DEF u
<1>4. Keeps(r, u) /\ \A z : Points(u, z) = Points(r, z)
  BY <1>2, <1>3, SameLines
<1>5. Keeps(t, u)
  BY <1>2, <1>4, KeepsTransitive
<1>6. Covered(t, s.pct) = u
  BY DEF Covered, u, r
<1>7. QED
  BY <1>2, <1>3, <1>4, <1>5, <1>6

(* Without coverage: a new job loses what is old of every zone.            *)
LEMMA DecidedKeeps ==
  ASSUME NEW t \in Trails, MarkOK(t), NEW s \in Sightings
  PROVE  /\ Keeps(t, Decided(t, s))
         /\ DOMAIN Decided(t, s).zones = DOMAIN t.zones
         /\ t.decide # 0 /\ s.code = "mowing" /\ s.progress # "some"
            => \/ \A z \in AllZones : OldFree(Points(Decided(t, s), z))
               \/ s.progress = "none" /\ Decided(t, s).decide # 0
         /\ t.decide = 0 \/ s.progress = "some"
            => \A z : Points(Decided(t, s), z) = Points(t, z)
         /\ t.decide = 0 => Decided(t, s).decide = 0
         /\ t.decide > 1 /\ s.code = "mowing" /\ s.progress = "none"
            => /\ \A z : Points(Decided(t, s), z) = Points(t, z)
               /\ Decided(t, s).decide = t.decide - 1
<1>1. t.decide \in 0..DecidePolls /\ DecidePolls \in Nat
  BY TrailFields, Bounds
<1>2. ASSUME NEW n \in 0..DecidePolls
      PROVE  LET u == [t EXCEPT !.decide = n] IN
             /\ Keeps(t, u) /\ u.decide = n /\ DOMAIN u.zones = DOMAIN t.zones
             /\ \A z : Points(u, z) = Points(t, z)
  <2> DEFINE u == [t EXCEPT !.decide = n]
  <2>1. /\ u \in Trails /\ u.decide = n
        /\ u.zones = t.zones /\ u.marks = t.marks /\ u.split = t.split /\ u.prev = t.prev
    BY DEF Trails
  <2> HIDE DEF u
  <2>2. Keeps(t, u) /\ \A z : Points(u, z) = Points(t, z)
    BY <2>1, SameLines
  <2>3. QED
    BY <2>1, <2>2 DEF u
<1>3. CASE t.decide = 0
  BY <1>3, SameLines DEF Decided
<1>4. CASE t.decide # 0 /\ s.code # "mowing"
  <2>1. Decided(t, s) = [t EXCEPT !.decide = 0]
    BY <1>4 DEF Decided
  <2>2. QED
    BY <1>1, <1>2, <1>4, <2>1
<1>5. CASE t.decide # 0 /\ s.code = "mowing" /\ s.progress = "none" /\ t.decide > 1
  <2>1. Decided(t, s) = [t EXCEPT !.decide = t.decide - 1]
    BY <1>5 DEF Decided
  <2>2. t.decide - 1 \in 0..DecidePolls /\ t.decide - 1 # 0
    BY <1>1, <1>5
  <2>3. QED
    BY <1>2, <1>5, <2>1, <2>2
<1>6. CASE /\ t.decide # 0 /\ s.code = "mowing" /\ ~(s.progress = "none" /\ t.decide > 1)
           /\ s.progress = "some"
  <2>1. Decided(t, s) = [t EXCEPT !.decide = 0]
    BY <1>6 DEF Decided
  <2>2. QED
    BY <1>1, <1>2, <1>6, <2>1
<1>7. CASE /\ t.decide # 0 /\ s.code = "mowing" /\ ~(s.progress = "none" /\ t.decide > 1)
           /\ s.progress # "some"
  <2> DEFINE r == Restart(t, DOMAIN t.zones)
             u == [r EXCEPT !.decide = 0]
  <2>1. Decided(t, s) = u
    BY <1>7 DEF Decided
  <2>2. /\ Keeps(t, r) /\ r \in Trails /\ MarkOK(r) /\ DOMAIN r.zones = DOMAIN t.zones
        /\ \A z \in DOMAIN t.zones : OldFree(Points(r, z))
    BY TrailFields, RestartKeeps DEF Keeps
  <2> HIDE DEF r
  <2>3. /\ u \in Trails /\ u.zones = r.zones /\ u.marks = r.marks
        /\ u.split = r.split /\ u.prev = r.prev
    BY <1>1, <2>2 DEF Trails
  <2> HIDE DEF u
  <2>4. Keeps(r, u) /\ \A z : Points(u, z) = Points(r, z)
    BY <2>2, <2>3, SameLines
  <2>5. Keeps(t, u)
    BY <2>2, <2>4, KeepsTransitive
  <2>6. \A z \in AllZones : OldFree(Points(r, z))
    <3>1. ASSUME NEW z \in AllZones, z \notin DOMAIN t.zones
          PROVE  OldFree(Points(r, z))
      BY <2>2, <3>1, EmptyLine DEF Points, Get, OldFree
    <3>2. QED
      BY <2>2, <3>1
  <2>7. QED
    BY <1>7, <2>1, <2>2, <2>3, <2>4, <2>5, <2>6
<1>8. QED
  BY <1>3, <1>4, <1>5, <1>6, <1>7

(* A sample adds one point of this trip, and the cap takes the oldest.     *)
LEMMA SampledKeeps ==
  ASSUME NEW t \in Trails, MarkOK(t), NEW s \in Sightings
  PROVE  /\ Keeps(t, Sampled(t, s))
         /\ Sampled(t, s).decide = t.decide
         /\ \A z \in AllZones : Len(Points(Sampled(t, s), z)) >= Len(Points(t, z))
         /\ DOMAIN t.zones \subseteq DOMAIN Sampled(t, s).zones
         /\ DOMAIN Sampled(t, s).zones \subseteq AllZones
<1> DEFINE zone == IF s.active # 0 THEN s.active ELSE t.last
           u == Sampled(t, s)
<1>1. zone \in AllZones /\ s.moved \in BOOLEAN
  BY CoverageType, TrailFields
<1>2. CASE ~s.moved
  <2>1. u = [t EXCEPT !.last = zone]
    BY <1>2 DEF Sampled
  <2>2. /\ u \in Trails /\ u.zones = t.zones /\ u.marks = t.marks
        /\ u.split = t.split /\ u.prev = t.prev /\ u.decide = t.decide
    BY <1>1, <2>1 DEF Trails
  <2> HIDE DEF u
  <2>3. Keeps(t, u) /\ \A z : Points(u, z) = Points(t, z)
    BY <2>2, SameLines
  <2>4. \A z \in AllZones : Len(Points(t, z)) \in Nat
    BY PointsType, LineType, Bounds
  <2>5. QED
    BY <2>2, <2>3, <2>4, TrailFields DEF u
<1>3. CASE s.moved
  <2> DEFINE pts == Points(t, zone)
             over == Len(Append(pts, "new")) > MaxPoints
             moves == over /\ Get(t.marks, zone, 0) > 0
             marks == IF moves THEN [t.marks EXCEPT ![zone] = @ - 1] ELSE t.marks
             zones == Put(t.zones, zone, Grown(pts))
  <2>1. u = [t EXCEPT !.last = zone, !.zones = zones, !.marks = marks, !.dirty = TRUE]
    <3>1. CASE moves
      BY <1>3, <3>1 DEF Sampled, Points, Grown
    <3>2. CASE ~moves
      BY <1>3, <3>2 DEF Sampled, Points, Grown
    <3>3. QED
      BY <3>1, <3>2
  <2>2. pts \in Lines
    BY <1>1, PointsType
  <2> DEFINE grown == Grown(pts)
  <2>3. grown \in Lines /\ Len(grown) >= Len(pts) /\ (OldFree(pts) => OldFree(grown))
    BY <2>2, GrownLine
  <2>4. zones \in Partial(Lines) /\ DOMAIN zones = DOMAIN t.zones \union {zone}
    <3> HIDE DEF grown
    <3>1. zones = [y \in DOMAIN t.zones \union {zone} |->
                    IF y = zone THEN grown ELSE t.zones[y]]
      BY DEF Put, grown
    <3> HIDE DEF zones
    <3>2. QED
      BY <1>1, <2>3, <3>1, TrailFields, Partials
  <2>5. moves => zone \in DOMAIN t.marks /\ t.marks[zone] \in 1..MaxPoints
    BY TrailFields, Bounds DEF Get
  <2>6. marks \in Partial(0..MaxPoints) /\ DOMAIN marks = DOMAIN t.marks
    <3> HIDE DEF moves
    <3>1. CASE moves
      BY <2>5, <3>1, TrailFields, Partials, Bounds
    <3>2. CASE ~moves
      BY <3>2, TrailFields, Partials
    <3>3. QED
      BY <3>1, <3>2
  <2>7. /\ u \in Trails /\ u.zones = zones /\ u.marks = marks
        /\ u.split = t.split /\ u.prev = t.prev /\ u.decide = t.decide
    <3> HIDE DEF zones, marks
    <3>1. QED
      BY <1>1, <2>1, <2>4, <2>6 DEF Trails, Lines, Trips
  <2>8. \A z : Points(u, z) = IF z = zone THEN grown ELSE Points(t, z)
    BY <2>4, <2>7 DEF Points, Get, Put
  <2>9. \A z \in DOMAIN t.marks : Blocks(Points(u, z), u.marks[z])
    <3>1. ASSUME NEW z \in DOMAIN t.marks, z # zone
          PROVE  Blocks(Points(u, z), u.marks[z])
      BY <2>5, <2>7, <2>8, <3>1 DEF MarkOK
    <3>2. ASSUME zone \in DOMAIN t.marks
          PROVE  Blocks(grown, u.marks[zone])
      <4>1. Blocks(pts, t.marks[zone])
        BY <3>2 DEF MarkOK
      <4>2. u.marks[zone] = IF over /\ t.marks[zone] > 0 THEN t.marks[zone] - 1
                            ELSE t.marks[zone]
        BY <2>7, <3>2 DEF Get
      <4>3. Blocks(grown, IF over /\ t.marks[zone] > 0 THEN t.marks[zone] - 1
                          ELSE t.marks[zone])
        BY <2>2, <4>1, GrownLine
      <4>4. QED
        BY <4>2, <4>3
    <3>3. QED
      BY <2>8, <3>1, <3>2
  <2>10. \A z \in DOMAIN t.marks : News(Points(u, z)) >= News(Points(t, z))
    <3>1. ASSUME NEW z \in DOMAIN t.marks, z # zone
          PROVE  News(Points(u, z)) >= News(Points(t, z))
      BY <2>8, <3>1, TrailFields, PointsType, NewsAreNatural
    <3>2. ASSUME zone \in DOMAIN t.marks
          PROVE  News(grown) >= News(pts)
      <4>1. /\ Blocks(pts, t.marks[zone]) /\ t.marks[zone] \in Nat
            /\ Blocks(grown, u.marks[zone]) /\ u.marks[zone] \in Nat
            /\ u.marks[zone] <= t.marks[zone]
        <5>1. Blocks(pts, t.marks[zone]) /\ Blocks(grown, u.marks[zone])
          BY <2>8, <2>9, <3>2 DEF MarkOK
        <5>2. t.marks[zone] \in Nat
          BY <3>2, TrailFields, Bounds
        <5>3. u.marks[zone] = IF over /\ t.marks[zone] > 0 THEN t.marks[zone] - 1
                              ELSE t.marks[zone]
          BY <2>7, <3>2 DEF Get
        <5>4. QED
          BY <5>1, <5>2, <5>3
      <4>2. Len(pts) \in Nat /\ Len(grown) \in Nat
        BY <2>2, <2>3, LineType, Bounds
      <4>3. News(pts) = Len(pts) - t.marks[zone] /\ News(grown) = Len(grown) - u.marks[zone]
        BY <2>2, <2>3, <4>1, CountedNews
      <4>4. QED
        BY <2>3, <4>1, <4>2, <4>3
    <3>3. QED
      BY <2>8, <3>1, <3>2
  <2> HIDE DEF u, grown
  <2>11. Keeps(t, u)
    BY <2>3, <2>6, <2>7, <2>8, <2>9, <2>10 DEF Keeps, MarkOK
  <2>12. \A z \in AllZones : Len(Points(u, z)) >= Len(Points(t, z))
    <3>1. \A z \in AllZones : Len(Points(t, z)) \in Nat
      BY PointsType, LineType, Bounds
    <3>2. QED
      BY <2>3, <2>8, <3>1
  <2>13. QED
    BY <1>1, <2>4, <2>7, <2>11, <2>12, TrailFields DEF u
<1>4. QED
  BY <1>1, <1>2, <1>3

-----------------------------------------------------------------------------
(* The trip begins: what is drawn is old, and marked at its end.           *)

AllLinesOld(t) == \A z \in DOMAIN t.zones : AllOld(t.zones[z])

LEMMA AgedLine ==
  ASSUME NEW pts \in Lines
  PROVE  LET old == [i \in DOMAIN pts |-> "old"]
         IN old \in Lines /\ AllOld(old) /\ Len(old) = Len(pts)
<1> DEFINE old == [i \in DOMAIN pts |-> "old"]
<1>1. Len(pts) \in Nat /\ Len(pts) <= MaxPoints /\ DOMAIN pts = 1..Len(pts)
  BY LineType, Bounds
<1>2. old \in [1..Len(pts) -> Trips]
  BY <1>1 DEF Trips
<1>3. old \in Seq(Trips) /\ Len(old) = Len(pts)
  BY <1>1, <1>2
<1>4. QED
  BY <1>1, <1>3, BoundedSeqs DEF Lines, AllOld

LEMMA AgedTrail ==
  ASSUME NEW t \in Trails
  PROVE  /\ [t EXCEPT !.zones = Aged(@), !.dirty = FALSE] \in Trails
         /\ [t EXCEPT !.dirty = FALSE] \in Trails
         /\ DOMAIN Aged(t.zones) = DOMAIN t.zones
         /\ \A z \in DOMAIN t.zones :
              AllOld(Aged(t.zones)[z]) /\ Len(Aged(t.zones)[z]) = Len(t.zones[z])
<1>1. DOMAIN Aged(t.zones) = DOMAIN t.zones
  BY DEF Aged
<1>2. \A z \in DOMAIN t.zones :
        /\ Aged(t.zones)[z] \in Lines /\ AllOld(Aged(t.zones)[z])
        /\ Len(Aged(t.zones)[z]) = Len(t.zones[z])
  BY TrailFields, AgedLine DEF Aged
<1>3. Aged(t.zones) \in Partial(Lines)
  <2>1. Aged(t.zones) \in [DOMAIN t.zones -> Lines]
    BY <1>2 DEF Aged
  <2>2. QED
    BY <1>1, <2>1, TrailFields, Partials
<1> DEFINE aged == Aged(t.zones)
<1>4. [t EXCEPT !.zones = Aged(@), !.dirty = FALSE] \in Trails
  <2>1. [t EXCEPT !.zones = Aged(@), !.dirty = FALSE]
        = [t EXCEPT !.zones = aged, !.dirty = FALSE]
    OBVIOUS
  <2>2. aged \in Partial(Lines)
    BY <1>3
  <2> HIDE DEF aged
  <2>3. [t EXCEPT !.zones = aged, !.dirty = FALSE] \in Trails
    BY <2>2 DEF Trails, Lines, Trips
  <2>4. QED
    BY <2>1, <2>3
<1>5. [t EXCEPT !.dirty = FALSE] \in Trails
  BY DEF Trails
<1>6. QED
  BY <1>1, <1>2, <1>4, <1>5

(* Until a poll sees the mower at home nothing is of this trip, and what   *)
(* was put up by a poll in the dock is marked anew on leaving it.          *)
TripInv ==
  /\ TypeOK
  /\ ~trail.split
  /\ MarkOK(trail)
  /\ trail.prev = "docked" /\ told # "home" => AllLinesOld(trail) /\ told = "other"
  /\ told = "home" => trail.prev = "docked" \/ trail.marks = Empty

(* The trail of a poll before coverage or progress is looked at.           *)
Departed(t, s) ==
  Left(IF told = "home" /\ s.code # "docked"
       THEN [t EXCEPT !.zones = Aged(@), !.dirty = FALSE]
       ELSE [t EXCEPT !.dirty = FALSE], s.code)

Judged(t, s) == IF s.pct # Empty THEN Covered(t, s.pct) ELSE Decided(t, s)

LEMMA UpdateParts ==
  ASSUME NEW s
  PROVE  Update(trail, s, Empty) = Sampled(Judged(Departed(trail, s), s), s)
BY DEF Update, Departed, Judged

LEMMA LeftType ==
  ASSUME NEW t \in Trails, NEW code \in Codes
  PROVE  LET l == Left(t, code)
             leaves == t.prev = "docked" /\ code # "docked"
         IN /\ l \in Trails /\ l.zones = t.zones /\ l.split = t.split /\ l.prev = code
            /\ code = "docked" => l.marks = Empty
            /\ leaves => l.marks = [z \in DOMAIN t.zones |-> Len(t.zones[z])]
            /\ code # "docked" /\ ~leaves => l.marks = t.marks
            /\ l.decide = IF leaves /\ code = "mowing" THEN DecidePolls ELSE t.decide
<1> DEFINE leaves == t.prev = "docked" /\ code # "docked"
           marks == IF code = "docked" THEN Empty
                    ELSE IF leaves THEN [z \in DOMAIN t.zones |-> Len(t.zones[z])]
                    ELSE t.marks
           last == IF leaves THEN 0 ELSE t.last
           decide == IF leaves /\ code = "mowing" THEN DecidePolls ELSE t.decide
           l == [t EXCEPT !.marks = marks, !.last = last, !.decide = decide, !.prev = code]
<1>1. Left(t, code) = l
  BY Zenon DEF Left
<1>2. marks \in Partial(0..MaxPoints)
  <2>1. Empty \in Partial(0..MaxPoints)
    BY Partials DEF Empty
  <2>2. [z \in DOMAIN t.zones |-> Len(t.zones[z])] \in Partial(0..MaxPoints)
    <3>1. \A z \in DOMAIN t.zones : Len(t.zones[z]) \in 0..MaxPoints
      BY TrailFields, LineType
    <3>2. QED
      BY <3>1, TrailFields, Partials
  <2>3. t.marks \in Partial(0..MaxPoints)
    BY DEF Trails
  <2>4. QED
    BY <2>1, <2>2, <2>3
<1>3. last \in AllZones /\ decide \in 0..DecidePolls
  BY TrailFields, Bounds DEF AllZones
<1> HIDE DEF marks, last, decide, leaves
<1>4. /\ l \in Trails /\ l.zones = t.zones /\ l.split = t.split /\ l.prev = code
      /\ l.marks = marks /\ l.decide = decide
  BY <1>2, <1>3 DEF Trails
<1> HIDE DEF l
<1>5. QED
  BY <1>1, <1>4 DEF marks, decide, leaves

LEMMA DepartedTrail ==
  ASSUME TripInv, NEW s \in Sightings
  PROVE  LET l == Departed(trail, s) IN
         /\ l \in Trails /\ MarkOK(l) /\ ~l.split /\ l.prev = s.code
         /\ DOMAIN l.zones = DOMAIN trail.zones
         /\ \A z : Len(Points(l, z)) = Len(Points(trail, z))
         /\ told # "home" \/ s.code = "docked" => l.zones = trail.zones
         /\ s.code # "docked" /\ trail.prev = "docked" => DOMAIN l.marks = DOMAIN trail.zones
         /\ s.code # "docked" /\ trail.prev # "docked" => l.marks = trail.marks
         /\ l.decide = IF /\ trail.prev = "docked" /\ s.code = "mowing"
                       THEN DecidePolls ELSE trail.decide
<1> DEFINE ages == told = "home" /\ s.code # "docked"
           a == IF ages THEN [trail EXCEPT !.zones = Aged(@), !.dirty = FALSE]
                ELSE [trail EXCEPT !.dirty = FALSE]
           l == Left(a, s.code)
<1>1. trail \in Trails /\ s.code \in Codes
  BY CoverageType DEF TripInv, TypeOK
<1>2. /\ a \in Trails /\ a.split = trail.split /\ a.prev = trail.prev
      /\ a.marks = trail.marks /\ a.decide = trail.decide
      /\ a.zones = IF ages THEN Aged(trail.zones) ELSE trail.zones
  <2>1. CASE ages
    BY <1>1, <2>1, AgedTrail DEF Trails
  <2>2. CASE ~ages
    BY <1>1, <2>2, AgedTrail DEF Trails
  <2>3. QED
    BY <2>1, <2>2
<1> HIDE DEF a
<1>3. /\ DOMAIN a.zones = DOMAIN trail.zones
      /\ \A z \in DOMAIN trail.zones : Len(a.zones[z]) = Len(trail.zones[z])
  BY <1>1, <1>2, AgedTrail
<1>4. trail.prev = "docked" /\ s.code # "docked" => AllLinesOld(a)
  <2>1. CASE ages
    BY <1>1, <1>2, <2>1, AgedTrail DEF AllLinesOld
  <2>2. CASE ~ages
    BY <1>2, <2>2 DEF TripInv, AllLinesOld
  <2>3. QED
    BY <2>1, <2>2
<1> DEFINE leaves == a.prev = "docked" /\ s.code # "docked"
<1>5. /\ l \in Trails /\ l.zones = a.zones /\ l.split = a.split /\ l.prev = s.code
      /\ s.code = "docked" => l.marks = Empty
      /\ leaves => l.marks = [z \in DOMAIN a.zones |-> Len(a.zones[z])]
      /\ s.code # "docked" /\ ~leaves => l.marks = a.marks
      /\ l.decide = IF leaves /\ s.code = "mowing" THEN DecidePolls ELSE a.decide
  BY <1>1, <1>2, LeftType
<1> HIDE DEF l
<1>6. MarkOK(l)
  <2>1. CASE s.code = "docked"
    BY <1>5, <2>1 DEF MarkOK, Empty
  <2>2. CASE leaves
    <3>1. ASSUME NEW z \in DOMAIN l.marks
          PROVE  Blocks(Points(l, z), l.marks[z])
      <4>1. /\ z \in DOMAIN a.zones /\ l.marks[z] = Len(a.zones[z])
            /\ Points(l, z) = a.zones[z]
        BY <1>5, <2>2 DEF Points, Get
      <4>2. a.zones[z] \in Lines /\ AllOld(a.zones[z])
        BY <1>2, <1>3, <1>4, <2>2, <4>1, TrailFields DEF AllLinesOld
      <4>3. QED
        BY <4>1, <4>2, NoNewsInOld
    <3>2. QED
      BY <3>1 DEF MarkOK
  <2>3. CASE s.code # "docked" /\ ~leaves /\ told = "home"
    BY <1>2, <1>5, <2>3 DEF TripInv, MarkOK, Empty
  <2>4. CASE s.code # "docked" /\ ~leaves /\ told # "home"
    BY <1>2, <1>5, <2>4 DEF TripInv, MarkOK, Points
  <2>5. QED
    BY <2>1, <2>2, <2>3, <2>4
<1>7. \A z : Len(Points(l, z)) = Len(Points(trail, z))
  BY <1>3, <1>5 DEF Points, Get
<1>8. Departed(trail, s) = l
  BY DEF Departed, l, a
<1>9. QED
  BY <1>2, <1>3, <1>5, <1>6, <1>7, <1>8 DEF TripInv

LEMMA JudgedKeeps ==
  ASSUME NEW t \in Trails, MarkOK(t), NEW s \in Sightings
  PROVE  /\ Keeps(t, Judged(t, s))
         /\ DOMAIN Judged(t, s).zones = DOMAIN t.zones
BY CoveredKeeps, DecidedKeeps DEF Judged

(* What a poll makes of the trail.                                         *)
LEMMA UpdatedTrail ==
  ASSUME TripInv, NEW s \in Sightings
  PROVE  LET l == Departed(trail, s)
             j == Judged(l, s)
             u == Update(trail, s, Empty)
         IN /\ Keeps(l, j) /\ Keeps(j, u) /\ Keeps(l, u)
            /\ u \in Trails /\ MarkOK(u) /\ ~u.split /\ u.prev = s.code
            /\ u.decide = j.decide
            /\ \A z \in AllZones : Len(Points(u, z)) >= Len(Points(j, z))
            /\ DOMAIN trail.zones \subseteq DOMAIN u.zones
<1> DEFINE l == Departed(trail, s)
           j == Judged(l, s)
           u == Sampled(j, s)
<1>1. /\ l \in Trails /\ MarkOK(l) /\ ~l.split /\ l.prev = s.code
      /\ DOMAIN l.zones = DOMAIN trail.zones
  BY DepartedTrail
<1> HIDE DEF l
<1>2. Keeps(l, j) /\ DOMAIN j.zones = DOMAIN l.zones
  BY <1>1, JudgedKeeps
<1>3. j \in Trails /\ MarkOK(j)
  BY <1>2 DEF Keeps
<1> HIDE DEF j
<1>4. /\ Keeps(j, u) /\ u.decide = j.decide
      /\ \A z \in AllZones : Len(Points(u, z)) >= Len(Points(j, z))
      /\ DOMAIN j.zones \subseteq DOMAIN u.zones
  BY <1>3, SampledKeeps
<1> HIDE DEF u
<1>5. Keeps(l, u)
  BY <1>1, <1>2, <1>4, KeepsTransitive
<1>6. Update(trail, s, Empty) = u
  BY UpdateParts DEF u, j, l
<1>7. QED
  BY <1>1, <1>2, <1>4, <1>5, <1>6 DEF Keeps, l, j

-----------------------------------------------------------------------------
(* What is assumed of the files: written by this version; saved with the   *)
(* mower in its dock; with a trail of every zone.                          *)
ThisVersion == \A file \in Files : ~file.split
InDock == ThisVersion /\ \A file \in Files : file.prev = "docked"
AllDrawn == InDock /\ \A file \in Files : DOMAIN file.zones = AllZones

LEMMA LoadedFile ==
  ASSUME NEW file \in Files
  PROVE  /\ Loaded(file) \in Trails
         /\ AllLinesOld(Loaded(file)) /\ MarkOK(Loaded(file))
<1>1. /\ DOMAIN file.zones \in SUBSET AllZones
      /\ file.zones \in [DOMAIN file.zones -> BoundedSeq({"old"}, MaxPoints)]
      /\ file.pct \in Partial(Pcts) /\ file.prev \in Codes /\ file.split \in BOOLEAN
  <2>1. /\ file.zones \in Partial(BoundedSeq({"old"}, MaxPoints))
        /\ file.pct \in Partial(Pcts) /\ file.prev \in Codes /\ file.split \in BOOLEAN
    BY FilesAssumption
  <2>2. QED
    BY <2>1, Partials
<1>2. \A z \in DOMAIN file.zones : file.zones[z] \in Lines /\ AllOld(file.zones[z])
  <2>1. ASSUME NEW z \in DOMAIN file.zones
        PROVE  file.zones[z] \in Lines /\ AllOld(file.zones[z])
    <3>1. file.zones[z] \in Seq({"old"}) /\ Len(file.zones[z]) <= MaxPoints
      BY <1>1, BoundedSeqs
    <3>2. \A i \in 1..Len(file.zones[z]) : file.zones[z][i] = "old"
      BY <3>1, LenProperties
    <3>3. file.zones[z] \in Seq(Trips)
      BY <3>1, LenProperties DEF Trips
    <3>4. QED
      BY <3>1, <3>2, <3>3, BoundedSeqs DEF Lines, AllOld
  <2>2. QED
    BY <2>1
<1>3. file.zones \in Partial(Lines)
  BY <1>1, <1>2, Partials
<1>4. Empty \in Partial(0..MaxPoints)
  BY Partials DEF Empty
<1>5. 0 \in AllZones /\ 0 \in 0..DecidePolls
  BY Bounds DEF AllZones
<1>6. Loaded(file) \in Trails
  BY <1>1, <1>3, <1>4, <1>5 DEF Loaded, Trails, Lines, Trips
<1>7. QED
  BY <1>2, <1>6 DEF Loaded, AllLinesOld, MarkOK, Empty

LEMMA PollIsUpdate ==
  ASSUME TripInv, Poll
  PROVE  \E s \in Sightings :
           trail' = Update(trail, s, Empty) /\ told' = Told(s) /\ Waits(s)
BY DEF Poll, Shares, TripInv

(* The polls that wait for an answer are counted, and so are the points.   *)
LEMMA WaitsType ==
  ASSUME TripInv, NEW s \in Sightings, Waits(s)
  PROVE  waited' \in 0..DecidePolls /\ leftWith' \in [AllZones -> 0..MaxPoints]
<1>1. \A z \in AllZones : Len(Points(trail, z)) \in 0..MaxPoints
  BY PointsType, LineType DEF TripInv, TypeOK
<1>2. Opening \in [AllZones -> 0..MaxPoints]
  BY <1>1 DEF Opening, TripInv, TypeOK
<1>3. [z \in AllZones |-> 0] \in [AllZones -> 0..MaxPoints]
  BY Bounds
<1>4. leftWith' \in [AllZones -> 0..MaxPoints]
  BY <1>2, <1>3 DEF Waits
<1>5. waited' \in 0..DecidePolls
  BY Bounds DEF Waits, TripInv, TypeOK
<1>6. QED
  BY <1>4, <1>5

LEMMA TripInvInit == ASSUME ThisVersion, Init PROVE TripInv
<1>1. PICK file \in Files : trail = Loaded(file)
  BY DEF Init
<1>2. trail.split = FALSE /\ trail.marks = Empty
  BY <1>1 DEF Loaded, ThisVersion
<1>3. waited \in 0..DecidePolls /\ leftWith \in [AllZones -> 0..MaxPoints]
  BY Bounds DEF Init
<1>4. QED
  BY <1>1, <1>2, <1>3, LoadedFile DEF TripInv, TypeOK, Init

LEMMA TripInvStep == ASSUME TripInv, [Next]_vars PROVE TripInv'
<1>1. CASE Poll
  <2>1. PICK s \in Sightings :
          trail' = Update(trail, s, Empty) /\ told' = Told(s) /\ Waits(s)
    BY <1>1, PollIsUpdate
  <2>2. trail' \in Trails /\ MarkOK(trail') /\ ~trail'.split /\ trail'.prev = s.code
    BY <2>1, UpdatedTrail
  <2>3. told' \in {"home", "open", "zero", "some", "other"} /\ (told' = "home" <=> s.code = "docked")
    BY <2>1, CoverageType DEF Told, TripInv, TypeOK
  <2>4. MarkOK(trail)'
    BY <2>2 DEF MarkOK, Points
  <2>5. waited' \in 0..DecidePolls /\ leftWith' \in [AllZones -> 0..MaxPoints]
    BY <2>1, WaitsType
  <2>6. QED
    BY <2>2, <2>3, <2>4, <2>5 DEF TripInv, TypeOK
<1>2. CASE UNCHANGED vars
  BY <1>2 DEF vars, TripInv, TypeOK, MarkOK, Points, AllLinesOld
<1>3. QED
  BY <1>1, <1>2 DEF Next

(* The trail keeps its type: under its cap in every zone, with marks that  *)
(* are within it.                                                          *)
THEOREM TypeCorrect == ASSUME ThisVersion PROVE Spec => []TypeOK
<1>1. Init => TripInv
  BY TripInvInit
<1>2. TripInv /\ [Next]_vars => TripInv'
  BY TripInvStep
<1>3. TripInv => TypeOK
  BY DEF TripInv
<1>4. QED
  BY <1>1, <1>2, <1>3, PTL DEF Spec

LEMMA DrawnIsCounted ==
  ASSUME NEW t, NEW z
  PROVE  Drawn(t, z, "new") = News(Points(t, z)) /\ Drawn(t, z, "old") = Olds(Points(t, z))
BY DEF Drawn, News, Olds

(* Whatever has been drawn, a poll that tells a zone at 0 % leaves nothing *)
(* on it but what is of this trip.                                         *)
THEOREM ZerosKeepOnlyThisTrip == ASSUME ThisVersion PROVE Spec => []ZeroKeepsOnlyThisTrip
<1>1. Init => TripInv
  BY TripInvInit
<1>2. TripInv /\ [Next]_vars => TripInv'
  BY TripInvStep
<1>3. ASSUME TripInv, NEW s \in Sightings, NEW z \in DOMAIN s.pct, s.pct[z] = 0
      PROVE  Drawn(Update(trail, s, Empty), z, "old") = 0
  <2> DEFINE l == Departed(trail, s)
             j == Judged(l, s)
             u == Update(trail, s, Empty)
  <2>1. z \in AllZones /\ s.pct # Empty
    BY <1>3, CoverageType DEF AllZones, Empty
  <2>2. l \in Trails /\ MarkOK(l)
    BY <1>3, DepartedTrail
  <2>3. Keeps(j, u) /\ u \in Trails
    BY <1>3, UpdatedTrail
  <2> HIDE DEF l, u
  <2>4. OldFree(Points(j, z))
    BY <1>3, <2>1, <2>2, CoveredKeeps DEF Judged
  <2>5. OldFree(Points(u, z)) /\ Points(u, z) \in Lines
    BY <2>1, <2>3, <2>4, PointsType DEF Keeps
  <2>6. QED
    BY <2>5, CountedOlds, DrawnIsCounted DEF u
<1>4. TripInv => ZeroKeepsOnlyThisTrip
  BY <1>3 DEF ZeroKeepsOnlyThisTrip
<1>5. QED
  BY <1>1, <1>2, <1>4, PTL DEF Spec

(* As long as the answer is not late, the polls that are left for it are   *)
(* those that have not waited, and nothing is cut.                         *)
OpenInv ==
  /\ TripInv
  /\ told = "home" => trail.prev = "docked" \/ trail.decide = 0
  /\ told = "open" => trail.prev # "docked" /\ waited > 0
  /\ told = "open" /\ waited < DecidePolls =>
       /\ trail.decide = 0 \/ trail.decide = DecidePolls - waited
       /\ \A z \in AllZones : Len(Points(trail, z)) >= leftWith[z]

LEMMA OpenInvInit == ASSUME ThisVersion, Init PROVE OpenInv
<1>1. PICK file \in Files : trail = Loaded(file)
  BY DEF Init
<1>2. trail.decide = 0
  BY <1>1 DEF Loaded
<1>3. QED
  BY <1>2, TripInvInit DEF OpenInv, Init

(* A poll that answers the question in time, or leaves it open.            *)
LEMMA InTimeKeeps ==
  ASSUME OpenInv, NEW s \in Sightings, trail' = Update(trail, s, Empty),
         told' = Told(s), Waits(s), InTime
  PROVE  /\ \A z \in AllZones : Len(Points(trail', z)) >= Opening[z]
         /\ told' = "open" => \/ trail'.decide = 0
                              \/ trail'.decide = DecidePolls - waited'
<1> DEFINE l == Departed(trail, s)
           j == Judged(l, s)
           u == Update(trail, s, Empty)
<1>1. TripInv /\ DecidePolls \in Nat /\ waited \in Nat /\ trail.decide \in Nat
  BY TrailFields, Bounds DEF OpenInv, TripInv, TypeOK
<1>2. /\ told \in {"home", "open"} /\ s.code = "mowing" /\ s.pct = Empty
      /\ s.progress = IF told' = "some" THEN "some" ELSE "none"
  BY CoverageType DEF InTime, Told
<1>3. /\ l \in Trails /\ MarkOK(l)
      /\ \A z : Len(Points(l, z)) = Len(Points(trail, z))
      /\ l.decide = IF trail.prev = "docked" THEN DecidePolls ELSE trail.decide
  BY <1>1, <1>2, DepartedTrail
<1>4. /\ u.decide = j.decide
      /\ \A z \in AllZones : Len(Points(u, z)) >= Len(Points(j, z))
  BY <1>1, UpdatedTrail
<1> HIDE DEF l, u
<1>5. j = Decided(l, s)
  BY <1>2 DEF Judged
<1>6. \A z \in AllZones : Len(Points(trail, z)) >= Opening[z]
  <2>1. CASE told = "home"
    <3>1. \A z \in AllZones : Len(Points(trail, z)) \in Nat
      BY <1>1, PointsType, LineType, Bounds DEF TripInv, TypeOK
    <3>2. QED
      BY <2>1, <3>1 DEF Opening
  <2>2. CASE told = "open"
    <3>1. waited < DecidePolls
      BY <1>1, <2>2 DEF InTime, Waits
    <3>2. QED
      BY <2>2, <3>1 DEF Opening, OpenInv
  <2>3. QED
    BY <1>2, <2>1, <2>2
<1>7. told' = "open" =>
        /\ waited' < DecidePolls
        /\ l.decide = 0 \/ (l.decide = DecidePolls - waited' + 1 /\ l.decide > 1)
  <2>1. SUFFICES ASSUME told' = "open"
                 PROVE  /\ waited' < DecidePolls
                        /\ \/ l.decide = 0
                           \/ l.decide = DecidePolls - waited' + 1 /\ l.decide > 1
    OBVIOUS
  <2>2. waited' < DecidePolls /\ told \in {"home", "open"}
    BY <1>2, <2>1 DEF InTime
  <2>3. CASE told = "home"
    <3>1. waited' = 1
      BY <2>1, <2>3 DEF Waits
    <3>2. QED
      BY <1>1, <1>3, <2>2, <2>3, <3>1 DEF OpenInv
  <2>4. CASE told = "open"
    <3>1. waited < DecidePolls /\ waited' = waited + 1
      BY <1>1, <2>1, <2>2, <2>4 DEF Waits
    <3>2. QED
      BY <1>1, <1>3, <2>2, <2>4, <3>1 DEF OpenInv
  <2>5. QED
    BY <2>2, <2>3, <2>4
<1>8. /\ \A z : Points(j, z) = Points(l, z)
      /\ told' = "open" => j.decide = 0 \/ j.decide = DecidePolls - waited'
  <2>1. CASE told' = "some"
    BY <1>2, <1>3, <1>5, <2>1, DecidedKeeps
  <2>2. CASE told' = "open"
    <3>1. s.progress = "none"
      BY <1>2, <2>2
    <3>2. CASE l.decide = 0
      BY <1>3, <1>5, <3>2, DecidedKeeps
    <3>3. CASE l.decide = DecidePolls - waited' + 1 /\ l.decide > 1
      <4>1. (\A z : Points(j, z) = Points(l, z)) /\ j.decide = l.decide - 1
        BY <1>2, <1>3, <1>5, <3>1, <3>3, DecidedKeeps
      <4>2. waited' \in Nat
        BY <1>1, WaitsType, Bounds
      <4>3. l.decide - 1 = DecidePolls - waited'
        BY <1>1, <3>3, <4>2
      <4>4. QED
        BY <4>1, <4>3
    <3>4. QED
      BY <1>7, <2>2, <3>2, <3>3
  <2>3. QED
    BY <2>1, <2>2 DEF InTime
<1>9. ASSUME NEW z \in AllZones
      PROVE  Len(Points(u, z)) >= Opening[z]
  <2>1. /\ Len(Points(u, z)) >= Len(Points(trail, z))
        /\ Len(Points(trail, z)) >= Opening[z]
    BY <1>3, <1>4, <1>6, <1>8
  <2>2. u \in Trails /\ trail \in Trails
    BY <1>1, UpdatedTrail DEF TripInv, TypeOK, u
  <2>3. Len(Points(u, z)) \in Nat /\ Len(Points(trail, z)) \in Nat
    BY <2>2, PointsType, LineType, Bounds
  <2>4. Opening[z] \in Nat
    BY <2>3, Bounds DEF Opening, OpenInv, TripInv, TypeOK
  <2>5. QED
    BY <2>1, <2>3, <2>4
<1>10. QED
  BY <1>4, <1>8, <1>9 DEF u

LEMMA OpenInvStep == ASSUME OpenInv, [Next]_vars PROVE OpenInv'
<1>1. TripInv'
  BY TripInvStep DEF OpenInv
<1>2. CASE Poll
  <2>1. TripInv /\ waited \in Nat /\ DecidePolls \in Nat /\ DecidePolls > 0
    BY Bounds DEF OpenInv, TripInv, TypeOK
  <2>2. PICK s \in Sightings :
          trail' = Update(trail, s, Empty) /\ told' = Told(s) /\ Waits(s)
    BY <1>2, <2>1, PollIsUpdate
  <2>3. trail'.prev = s.code
    BY <2>1, <2>2, UpdatedTrail
  <2>4. told' = "home" => trail'.prev = "docked"
    BY <2>1, <2>2, <2>3, CoverageType DEF Told, TripInv, TypeOK
  <2>5. told' = "open" => trail'.prev # "docked" /\ waited' > 0 /\ told \in {"home", "open"}
    BY <2>1, <2>2, <2>3, CoverageType DEF Told, Waits
  <2>6. ASSUME told' = "open", waited' < DecidePolls
        PROVE  /\ trail'.decide = 0 \/ trail'.decide = DecidePolls - waited'
               /\ \A z \in AllZones : Len(Points(trail', z)) >= leftWith'[z]
    <3>1. InTime
      BY <2>5, <2>6 DEF InTime
    <3>2. leftWith' = Opening
      BY <2>2, <2>6 DEF Waits
    <3>3. QED
      BY <2>2, <2>6, <3>1, <3>2, InTimeKeeps
  <2>7. QED
    BY <1>1, <2>4, <2>5, <2>6 DEF OpenInv, Points
<1>3. CASE UNCHANGED vars
  BY <1>1, <1>3 DEF vars, OpenInv, Points
<1>4. QED
  BY <1>2, <1>3 DEF Next

(* A job that is told to go on within DecidePolls polls of the mower's     *)
(* leaving its dock has lost nothing by then in any zone, however many of  *)
(* these polls had no answer.                                              *)
THEOREM ResumedJobsAreKept == ASSUME ThisVersion PROVE Spec => ResumedJobIsKept
<1>1. Init => OpenInv
  BY OpenInvInit
<1>2. OpenInv /\ [Next]_vars => OpenInv'
  BY OpenInvStep
<1>3. OpenInv /\ [Next]_vars
      => [InTime => \A z \in AllZones : Len(Points(trail', z)) >= Opening[z]]_vars
  <2>1. SUFFICES ASSUME OpenInv, Poll, InTime
                 PROVE  \A z \in AllZones : Len(Points(trail', z)) >= Opening[z]
    BY DEF Next
  <2>2. PICK s \in Sightings :
          trail' = Update(trail, s, Empty) /\ told' = Told(s) /\ Waits(s)
    BY <2>1, PollIsUpdate DEF OpenInv
  <2>3. QED
    BY <2>1, <2>2, InTimeKeeps
<1>4. QED
  BY <1>1, <1>2, <1>3, PTL DEF Spec, ResumedJobIsKept

-----------------------------------------------------------------------------
(* The question of a new job.                                              *)

NoneOld(t) == \A z \in AllZones : OldFree(Points(t, z))

(* It stays open until it is answered, and a new job has been cleared.     *)
JobInv ==
  /\ TripInv
  /\ told = "home" => trail.prev = "docked"
  /\ told = "open" => trail.decide # 0 \/ NoneOld(trail)
  /\ told = "zero" => NoneOld(trail)

LEMMA JobInvInit == ASSUME InDock, Init PROVE JobInv
<1>1. PICK file \in Files : trail = Loaded(file)
  BY DEF Init
<1>2. trail.prev = "docked" /\ TripInv
  BY <1>1, TripInvInit DEF Loaded, InDock
<1>3. QED
  BY <1>2 DEF JobInv, Init

LEMMA JobInvStep == ASSUME JobInv, [Next]_vars PROVE JobInv'
<1>1. TripInv'
  BY TripInvStep DEF JobInv
<1>2. CASE Poll
  <2>1. TripInv
    BY DEF JobInv
  <2>2. PICK s \in Sightings : trail' = Update(trail, s, Empty) /\ told' = Told(s)
    BY <1>2, <2>1, PollIsUpdate
  <2> DEFINE l == Departed(trail, s)
             j == Judged(l, s)
             u == Update(trail, s, Empty)
  <2>3. /\ l \in Trails /\ MarkOK(l)
        /\ told # "home" \/ s.code = "docked" => l.zones = trail.zones
        /\ l.decide = IF trail.prev = "docked" /\ s.code = "mowing"
                      THEN DecidePolls ELSE trail.decide
    BY <2>1, DepartedTrail
  <2>4. Keeps(l, j) /\ Keeps(j, u) /\ u.decide = j.decide /\ u.prev = s.code
    BY <2>1, UpdatedTrail
  <2>5. told' = "home" => u.prev = "docked"
    BY <2>1, <2>2, <2>4, CoverageType DEF Told, TripInv, TypeOK
  <2> HIDE DEF l, u
  <2>6. NoneOld(j) => NoneOld(u)
    BY <2>4 DEF Keeps, NoneOld
  <2>7. NoneOld(trail) /\ told # "home" => NoneOld(u)
    BY <2>3, <2>4, <2>6 DEF Keeps, NoneOld, Points
  <2>8. ASSUME told \in {"home", "open"}, s.code = "mowing", s.pct = Empty,
               s.progress # "some"
        PROVE  NoneOld(u) \/ (s.progress = "none" /\ u.decide # 0)
    <3>1. CASE l.decide # 0
      <4>1. j = Decided(l, s)
        BY <2>8 DEF Judged
      <4>2. \/ \A z \in AllZones : OldFree(Points(Decided(l, s), z))
            \/ s.progress = "none" /\ Decided(l, s).decide # 0
        BY <2>3, <2>8, <3>1, DecidedKeeps
      <4>3. NoneOld(j) \/ (s.progress = "none" /\ j.decide # 0)
        BY <4>1, <4>2 DEF NoneOld
      <4>4. QED
        BY <2>4, <2>6, <4>3
    <3>2. CASE l.decide = 0
      <4>1. told = "open" /\ NoneOld(trail)
        BY <2>3, <2>8, <3>2, Bounds DEF JobInv
      <4>2. told # "home"
        BY <4>1
      <4>3. QED
        BY <2>7, <4>1, <4>2
    <3>3. QED
      BY <3>1, <3>2
  <2>9. told' = "open" => u.decide # 0 \/ NoneOld(u)
    BY <2>2, <2>8, CoverageType DEF Told
  <2>10. told' = "zero" => NoneOld(u)
    BY <2>2, <2>7, <2>8, CoverageType DEF Told, JobInv
  <2>11. QED
    <3>1. trail' = u
      BY <2>2 DEF u
    <3>2. NoneOld(u) => NoneOld(trail)'
      BY <3>1 DEF NoneOld, Points
    <3>3. QED
      BY <1>1, <2>5, <2>9, <2>10, <3>1, <3>2 DEF JobInv
<1>3. CASE UNCHANGED vars
  BY <1>1, <1>3 DEF vars, JobInv, NoneOld, Points
<1>4. QED
  BY <1>2, <1>3 DEF Next

(* A mow that leaves the dock with its zone at 0 % has cleared what there  *)
(* was, however late it was told.                                          *)
THEOREM NewJobsClear == ASSUME InDock PROVE Spec => []NewJobClears
<1>1. Init => JobInv
  BY JobInvInit
<1>2. JobInv /\ [Next]_vars => JobInv'
  BY JobInvStep
<1>3. JobInv => NewJobClears
  <2>1. SUFFICES ASSUME JobInv, told = "zero", NEW z \in AllZones
                 PROVE  Drawn(trail, z, "old") = 0
    BY DEF NewJobClears
  <2>2. OldFree(Points(trail, z)) /\ Points(trail, z) \in Lines
    BY <2>1, PointsType DEF JobInv, NoneOld, TripInv, TypeOK
  <2>3. QED
    BY <2>2, CountedOlds, DrawnIsCounted
<1>4. QED
  BY <1>1, <1>2, <1>3, PTL DEF Spec

-----------------------------------------------------------------------------
(* This trip's points.                                                     *)

LEMMA MarkedIsKept ==
  ASSUME TripInv, Poll, told # "home", told' # "home",
         NEW z \in AllZones, trail.prev = "docked" \/ z \in DOMAIN trail.marks
  PROVE  News(Points(trail', z)) >= News(Points(trail, z))
<1>1. PICK s \in Sightings : trail' = Update(trail, s, Empty) /\ told' = Told(s)
  BY PollIsUpdate
<1> DEFINE l == Departed(trail, s)
           u == Update(trail, s, Empty)
<1>2. s.code # "docked"
  BY <1>1 DEF Told
<1>3. Keeps(l, u) /\ u \in Trails /\ trail \in Trails
  BY UpdatedTrail DEF TripInv, TypeOK
<1>4. /\ l.zones = trail.zones
      /\ trail.prev # "docked" => l.marks = trail.marks
  BY <1>2, DepartedTrail
<1> HIDE DEF l, u
<1>5. News(Points(u, z)) \in Nat /\ News(Points(trail, z)) \in Nat
  BY <1>3, PointsType, NewsAreNatural
<1>6. CASE trail.prev = "docked"
  <2>1. AllOld(Points(trail, z))
    BY <1>6, EmptyLine DEF TripInv, AllLinesOld, Points, Get, AllOld
  <2>2. News(Points(trail, z)) = 0
    BY <1>3, <2>1, PointsType, NoNewsInOld
  <2>3. QED
    BY <1>1, <1>5, <2>2 DEF u
<1>7. CASE trail.prev # "docked"
  BY <1>1, <1>3, <1>4, <1>7 DEF Keeps, Points, u
<1>8. QED
  BY <1>6, <1>7

(* On its way every zone has a mark, if every zone has a trail.            *)
MarkedInv ==
  /\ JobInv
  /\ DOMAIN trail.zones = AllZones
  /\ told # "home" => trail.prev = "docked" \/ DOMAIN trail.marks = AllZones

LEMMA MarkedInvInit == ASSUME AllDrawn, Init PROVE MarkedInv
<1>1. PICK file \in Files : trail = Loaded(file)
  BY DEF Init
<1>2. trail.prev = "docked" /\ DOMAIN trail.zones = AllZones
  BY <1>1 DEF Loaded, AllDrawn, InDock
<1>3. QED
  BY <1>2, JobInvInit DEF MarkedInv, AllDrawn

LEMMA MarkedInvStep == ASSUME MarkedInv, [Next]_vars PROVE MarkedInv'
<1>1. JobInv'
  BY JobInvStep DEF MarkedInv
<1>2. CASE Poll
  <2>1. TripInv
    BY DEF MarkedInv, JobInv
  <2>2. PICK s \in Sightings : trail' = Update(trail, s, Empty) /\ told' = Told(s)
    BY <1>2, <2>1, PollIsUpdate
  <2> DEFINE l == Departed(trail, s)
             u == Update(trail, s, Empty)
  <2>3. /\ s.code # "docked" /\ trail.prev = "docked" => DOMAIN l.marks = AllZones
        /\ s.code # "docked" /\ trail.prev # "docked" => l.marks = trail.marks
    BY <2>1, DepartedTrail DEF MarkedInv
  <2>4. /\ Keeps(l, u) /\ u \in Trails /\ u.prev = s.code
        /\ DOMAIN u.zones = AllZones
    BY <2>1, UpdatedTrail, TrailFields DEF MarkedInv
  <2> HIDE DEF l, u
  <2>5. s.code # "docked" => DOMAIN l.marks = AllZones
    BY <2>3 DEF MarkedInv, JobInv
  <2>6. s.code # "docked" => DOMAIN u.marks = AllZones
    BY <2>4, <2>5, TrailFields DEF Keeps
  <2>7. QED
    BY <1>1, <2>2, <2>4, <2>6 DEF MarkedInv, u
<1>3. CASE UNCHANGED vars
  BY <1>1, <1>3 DEF vars, MarkedInv
<1>4. QED
  BY <1>2, <1>3 DEF Next

(* While the mower is out no zone loses what this trip has drawn, whatever *)
(* coverage and progress the cloud tells.                                  *)
THEOREM ThisTripIsKept == ASSUME AllDrawn PROVE Spec => KeepsThisTrip
<1>1. Init => MarkedInv
  BY MarkedInvInit
<1>2. MarkedInv /\ [Next]_vars => MarkedInv'
  BY MarkedInvStep
<1>3. MarkedInv /\ [Next]_vars
      => [told # "home" /\ told' # "home" =>
            \A z \in Zones : Drawn(trail', z, "new") >= Drawn(trail, z, "new")]_vars
  <2>1. SUFFICES ASSUME MarkedInv, Poll, told # "home", told' # "home", NEW z \in Zones
                 PROVE  Drawn(trail', z, "new") >= Drawn(trail, z, "new")
    BY DEF Next
  <2>2. TripInv /\ z \in AllZones /\ (trail.prev = "docked" \/ z \in DOMAIN trail.marks)
    BY <2>1 DEF MarkedInv, JobInv, AllZones
  <2>3. QED
    BY <2>1, <2>2, MarkedIsKept, DrawnIsCounted
<1>4. QED
  BY <1>1, <1>2, <1>3, PTL DEF Spec, KeepsThisTrip

(* A zone that has a mark keeps them, whatever else is on the map.         *)
THEOREM MarkedTripIsKept ==
  ASSUME ThisVersion
  PROVE  Spec => [][told # "home" /\ told' # "home" =>
                      \A z \in DOMAIN trail.marks :
                        Drawn(trail', z, "new") >= Drawn(trail, z, "new")]_vars
<1>1. Init => TripInv
  BY TripInvInit
<1>2. TripInv /\ [Next]_vars => TripInv'
  BY TripInvStep
<1>3. TripInv /\ [Next]_vars
      => [told # "home" /\ told' # "home" =>
            \A z \in DOMAIN trail.marks :
              Drawn(trail', z, "new") >= Drawn(trail, z, "new")]_vars
  <2>1. SUFFICES ASSUME TripInv, Poll, told # "home", told' # "home",
                        NEW z \in DOMAIN trail.marks
                 PROVE  Drawn(trail', z, "new") >= Drawn(trail, z, "new")
    BY DEF Next
  <2>2. z \in AllZones
    BY <2>1, TrailFields DEF TripInv, TypeOK
  <2>3. QED
    BY <2>1, <2>2, MarkedIsKept, DrawnIsCounted
<1>4. QED
  BY <1>1, <1>2, <1>3, PTL DEF Spec

=============================================================================
