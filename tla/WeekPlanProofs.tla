--------------------------- MODULE WeekPlanProofs ---------------------------
(***************************************************************************)
(* Proofs about Schedule and WeekPlan, for a week of any days, a day of    *)
(* any slots, any plans, calls and faults.                                 *)
(***************************************************************************)
EXTENDS WeekPlan, NaturalsInduction, WellFoundedInduction, SequenceTheorems, TLAPS

-----------------------------------------------------------------------------
(* Arithmetic.                                                             *)

LEMMA Bounds ==
  /\ DaysAWeek \in Nat \ {0} /\ SlotsADay \in Nat \ {0} /\ SlotLen \in Nat \ {0}
  /\ DayLen \in Nat \ {0} /\ WeekLen \in Nat \ {0}
<1>1. DaysAWeek \in Nat \ {0} /\ SlotsADay \in Nat \ {0} /\ SlotLen \in Nat \ {0}
  BY WeekAssumption
<1>2. ASSUME NEW m \in Nat \ {0}, NEW n \in Nat \ {0}
      PROVE  m * n \in Nat \ {0}
  OBVIOUS
<1>3. DayLen \in Nat \ {0}
  BY <1>1, <1>2 DEF DayLen
<1>4. QED
  BY <1>1, <1>2, <1>3 DEF WeekLen

LEMMA DivMod ==
  ASSUME NEW n \in Nat \ {0}, NEW a \in Nat
  PROVE  /\ a \div n \in Nat /\ a % n \in 0..(n - 1)
         /\ a = n * (a \div n) + (a % n)
OBVIOUS

LEMMA Parts ==
  ASSUME NEW n \in Nat \ {0}, NEW q \in Nat, NEW r \in 0..(n - 1)
  PROVE  (q * n + r) \div n = q /\ (q * n + r) % n = r
OBVIOUS

LEMMA Multiples ==
  ASSUME NEW n \in Nat \ {0}, NEW a \in Nat, NEW b \in Nat, a % n = 0, b % n = 0
  PROVE  /\ a < b <=> a \div n < b \div n
         /\ a <= b <=> a \div n <= b \div n
OBVIOUS

LEMMA Monotonic ==
  ASSUME NEW n \in Nat \ {0}, NEW p \in Nat, NEW q \in Nat
  PROVE  /\ p <= q <=> p * n <= q * n
         /\ p < q => p * n + n <= q * n
<1>1. ASSUME p < q PROVE p * n + n <= q * n
  <2>1. (p + 1) * n <= q * n
    BY <1>1
  <2>2. QED
    BY <2>1
<1>2. QED
  BY <1>1

LEMMA Rearranged ==
  ASSUME NEW D \in Nat, NEW L \in Nat, NEW k \in Nat, NEW m \in Nat, NEW t \in Nat
  PROVE  (D * k + m) * L + t = k * (D * L) + (m * L + t)
<1>1. (D * k + m) * L = (D * k) * L + m * L
  OBVIOUS
<1>2. (D * k) * L = k * (D * L)
  OBVIOUS
<1>3. /\ (D * k) * L \in Nat /\ m * L \in Nat /\ k * (D * L) \in Nat
  OBVIOUS
<1>4. QED
  BY <1>1, <1>2, <1>3

LEMMA Carry ==
  ASSUME NEW L \in Nat \ {0}, NEW D \in Nat \ {0}, NEW d \in Nat, NEW t \in 0..(L - 1)
  PROVE  (d * L + t) % (D * L) = (d % D) * L + t
<1> DEFINE m == d % D
           k == d \div D
           N == D * L
           r == m * L + t
<1>1. d = D * k + m /\ m \in 0..(D - 1) /\ k \in Nat
  BY DivMod
<1> HIDE DEF m, k
<1>2. N \in Nat \ {0}
  OBVIOUS
<1>3. d * L + t = k * N + r
  BY <1>1, Rearranged
<1>4. r \in 0..(N - 1)
  <2>1. m * L \in Nat /\ m * L + L <= D * L
    BY <1>1, Monotonic
  <2>2. QED
    BY <1>2, <2>1
<1> HIDE DEF N, r
<1>5. (k * N + r) % N = r
  BY <1>1, <1>2, <1>4, Parts
<1>6. QED
  BY <1>3, <1>5 DEF N, r, m

LEMMA LeastNumber ==
  ASSUME NEW S \in SUBSET Nat, S # {}
  PROVE  \E n \in S : \A m \in S : n <= m
<1>1. PICK n \in S : \A m \in S : <<m, n>> \notin OpToRel(<, Nat)
  BY WFMin, NatLessThanWellFounded, Zenon
<1>2. \A m \in S : ~(m < n)
  <2>1. SUFFICES ASSUME NEW m \in S, m < n PROVE FALSE
    OBVIOUS
  <2>2. <<m, n>> \in OpToRel(<, Nat)
    BY <2>1, Zenon DEF OpToRel
  <2>3. QED
    BY <1>1, <2>2
<1>3. QED
  BY <1>2

-----------------------------------------------------------------------------
(* The plans the service accepts.                                          *)

LEMMA Sorted ==
  ASSUME NEW n \in Nat, NEW from \in [1..n -> Nat], NEW till \in [1..n -> Nat],
         \A i \in 1..n : from[i] < till[i],
         \A i \in 1..(n - 1) : till[i] <= from[i + 1],
         NEW i \in 1..n, NEW j \in 1..n, i < j
  PROVE  till[i] <= from[j]
<1>1. SUFFICES ASSUME from[j] < till[i] PROVE FALSE
  OBVIOUS
<1> DEFINE S == {k \in 1..n : i < k /\ from[k] < till[i]}
<1>2. PICK k \in S : \A m \in S : k <= m
  <2>1. S \in SUBSET Nat
    OBVIOUS
  <2>2. j \in S
    BY <1>1
  <2> HIDE DEF S
  <2>3. QED
    BY <2>1, <2>2, LeastNumber
<1>3. k # i + 1
  BY <1>2
<1>4. k - 1 \in 1..n /\ i < k - 1 /\ k - 1 \in 1..(n - 1)
  BY <1>2, <1>3
<1>5. from[k - 1] >= till[i]
  BY <1>2, <1>4
<1>6. till[k - 1] <= from[k]
  BY <1>4
<1>7. from[k - 1] < till[k - 1]
  BY <1>4
<1>8. from[k] < till[i] /\ from[k] \in Nat /\ till[i] \in Nat
  BY <1>2
<1>9. from[k - 1] \in Nat /\ till[k - 1] \in Nat
  BY <1>4
<1>10. QED
  BY <1>5, <1>6, <1>7, <1>8, <1>9

(* Neighbours that do not overlap, once sorted, are enough.                *)
LEMMA CheckedIsSound ==
  ASSUME NEW ps, Len(ps) \in Nat, \A i \in 1..Len(ps) : ps[i].start \in Nat /\ ps[i].end \in Nat,
         CheckPeriods(ps)
  PROVE  Sound(ps)
<1> DEFINE n == Len(ps)
<1>1. PICK order \in Orders(ps) :
        \A i \in 1..(n - 1) : ps[order[i + 1]].start >= ps[order[i]].end
  BY DEF CheckPeriods
<1>2. /\ order \in [1..n -> 1..n]
      /\ \A k \in 1..n : \E i \in 1..n : order[i] = k
  BY <1>1 DEF Orders, Bijection, Injection, Surjection
<1>3. \A i \in 1..n : Forward(ps[i])
  BY DEF CheckPeriods
<1> DEFINE from == [i \in 1..n |-> ps[order[i]].start]
           till == [i \in 1..n |-> ps[order[i]].end]
<1>4. from \in [1..n -> Nat] /\ till \in [1..n -> Nat]
  BY <1>2
<1>5. \A i \in 1..n : from[i] < till[i]
  BY <1>2, <1>3 DEF Forward
<1>6. \A i \in 1..(n - 1) : till[i] <= from[i + 1]
  <2>1. ASSUME NEW i \in 1..(n - 1)
        PROVE  ps[order[i]].end <= ps[order[i + 1]].start
    <3>1. i \in 1..n /\ i + 1 \in 1..n
      OBVIOUS
    <3>2. ps[order[i]].end \in Nat /\ ps[order[i + 1]].start \in Nat
      BY <1>2, <3>1
    <3>3. ps[order[i + 1]].start >= ps[order[i]].end
      BY <1>1
    <3>4. QED
      BY <3>2, <3>3
  <2>2. \A i \in 1..(n - 1) : i \in 1..n /\ i + 1 \in 1..n
    OBVIOUS
  <2>3. QED
    BY <2>1, <2>2
<1>7. ASSUME NEW i \in 1..n, NEW j \in 1..n, i < j
      PROVE  ps[order[i]].end <= ps[order[j]].start
  <2> HIDE DEF from, till
  <2>1. till[i] <= from[j]
    BY <1>4, <1>5, <1>6, <1>7, Sorted
  <2>2. QED
    BY <2>1 DEF from, till
<1>8. ASSUME NEW k \in 1..n, NEW l \in 1..n, k # l
      PROVE  ps[k].end <= ps[l].start \/ ps[l].end <= ps[k].start
  <2>1. PICK i \in 1..n, j \in 1..n : order[i] = k /\ order[j] = l
    BY <1>2
  <2>2. i < j \/ j < i
    BY <1>8, <2>1
  <2>3. QED
    BY <1>7, <2>1, <2>2
<1>9. QED
  BY <1>3, <1>8 DEF Sound

LEMMA RequestType ==
  ASSUME NEW r \in Requests
  PROVE  /\ r.day \in Week /\ r.enabled \in BOOLEAN
         /\ Len(r.times) \in Nat
         /\ \A i \in 1..Len(r.times) : r.times[i].start \in Nat /\ r.times[i].end \in Nat
<1>1. r.times \in Seq([start : Nat, end : Nat]) /\ r.day \in Week /\ r.enabled \in BOOLEAN
  BY PlansAssumption
<1>2. Len(r.times) \in Nat /\ \A i \in 1..Len(r.times) : r.times[i] \in [start : Nat, end : Nat]
  BY <1>1, LenProperties
<1>3. QED
  BY <1>1, <1>2

(* What is accepted is an entry of the grid, in order if it is on.         *)
LEMMA AcceptedEntry ==
  ASSUME NEW r \in Requests, Accepted(r.enabled, r.times)
  PROVE  LET entry == EntryFor(r.enabled, r.times)
         IN entry \in Entries /\ (entry.open => Sound(entry.period))
<1> DEFINE n == Len(r.times)
           ps == Wanted(r.times)
           slots == [i \in 1..n |-> [start |-> ps[i].start \div SlotLen,
                                     end |-> ps[i].end \div SlotLen]]
<1>1. /\ r.enabled \in BOOLEAN /\ n \in Nat
      /\ \A i \in 1..n : r.times[i].start \in Nat /\ r.times[i].end \in Nat
  BY RequestType
<1>2. EntryFor(r.enabled, r.times) = [open |-> r.enabled, period |-> slots]
  BY DEF EntryFor
<1>3. /\ DayLen % SlotLen = 0 /\ DayLen \div SlotLen = SlotsADay
      /\ DayLen \in Nat /\ SlotLen \in Nat \ {0} /\ SlotsADay \in Nat
  <2>1. SlotsADay * SlotLen + 0 = DayLen /\ 0 \in 0..(SlotLen - 1)
    BY Bounds DEF DayLen
  <2>2. QED
    BY <2>1, Bounds, Parts
<1>4. \A i \in 1..n : /\ ps[i].start \in 0..DayLen /\ ps[i].start % SlotLen = 0
                      /\ ps[i].end \in 0..DayLen /\ ps[i].end % SlotLen = 0
  BY <1>1, <1>3 DEF Wanted, Accepted, OnGrid, EndOf
<1> HIDE DEF ps
<1>5. \A i \in 1..n : slots[i] \in Periods
  <2>1. ASSUME NEW i \in 1..n
        PROVE  /\ ps[i].start \div SlotLen \in 0..SlotsADay
               /\ ps[i].end \div SlotLen \in 0..SlotsADay
    <3>1. ASSUME NEW a \in 0..DayLen, a % SlotLen = 0
          PROVE  a \div SlotLen \in 0..SlotsADay
      <4>1. a \in Nat /\ a <= DayLen
        BY <1>3
      <4>2. a \div SlotLen \in Nat
        BY <1>3, <4>1, DivMod
      <4>3. a \div SlotLen <= DayLen \div SlotLen
        BY <1>3, <3>1, <4>1, Multiples
      <4>4. QED
        BY <1>3, <4>2, <4>3
    <3>2. QED
      BY <1>4, <3>1
  <2>2. QED
    BY <2>1 DEF Periods
<1>6. slots \in Seq(Periods) /\ Len(slots) = n
  <2>1. slots \in [1..n -> Periods]
    BY <1>5
  <2> HIDE DEF slots
  <2>2. QED
    BY <1>1, <2>1
<1>7. ASSUME r.enabled
      PROVE  Sound(slots)
  <2>1. Len(ps) = n
    <3>1. ps = [i \in 1..n |-> ps[i]] /\ DOMAIN ps = 1..n
      BY DEF ps, Wanted
    <3>2. ps \in Seq({ps[i] : i \in 1..n})
      <4>1. ps \in [1..n -> {ps[i] : i \in 1..n}]
        BY <3>1
      <4>2. QED
        BY <1>1, <4>1
    <3>3. QED
      BY <1>1, <3>1, <3>2
  <2>2. CheckPeriods(ps)
    BY <1>7 DEF Accepted, ps
  <2>3. Sound(ps)
    BY <1>1, <1>3, <1>4, <2>1, <2>2, CheckedIsSound
  <2>4. ASSUME NEW i \in 1..n, NEW j \in 1..n
        PROVE  /\ Forward(ps[i]) => Forward(slots[i])
               /\ ps[i].end <= ps[j].start => slots[i].end <= slots[j].start
    <3>1. /\ ps[i].start \in Nat /\ ps[i].start % SlotLen = 0
          /\ ps[i].end \in Nat /\ ps[i].end % SlotLen = 0
          /\ ps[j].start \in Nat /\ ps[j].start % SlotLen = 0
      BY <1>3, <1>4
    <3>2. /\ ps[i].start < ps[i].end <=> ps[i].start \div SlotLen < ps[i].end \div SlotLen
          /\ ps[i].end <= ps[j].start <=> ps[i].end \div SlotLen <= ps[j].start \div SlotLen
      BY <1>3, <3>1, Multiples
    <3>3. QED
      BY <3>1, <3>2, <1>3, DivMod DEF Forward
  <2> HIDE DEF slots
  <2>5. QED
    BY <1>6, <2>1, <2>3, <2>4 DEF Sound
<1> HIDE DEF slots
<1>8. QED
  BY <1>1, <1>2, <1>6, <1>7 DEF Entries

-----------------------------------------------------------------------------
(* The moments of the week.                                                *)

LEMMA MomentParts ==
  ASSUME NEW m \in Moments
  PROVE  /\ DayOf(m) \in Week /\ TimeOf(m) \in 0..(DayLen - 1)
         /\ m = (DayOf(m) - 1) * DayLen + TimeOf(m)
<1>1. m \in Nat /\ m < DaysAWeek * DayLen /\ DaysAWeek \in Nat /\ DayLen \in Nat \ {0}
  BY Bounds DEF Moments, WeekLen
<1> DEFINE d == m \div DayLen
           t == m % DayLen
<1>2. d \in Nat /\ t \in 0..(DayLen - 1) /\ m = DayLen * d + t
  BY <1>1, DivMod
<1> HIDE DEF d, t
<1>3. m = d * DayLen + t /\ d * DayLen \in Nat
  BY <1>1, <1>2
<1>4. d < DaysAWeek
  <2>1. SUFFICES ASSUME DaysAWeek <= d PROVE FALSE
    BY <1>1, <1>2
  <2>2. DaysAWeek * DayLen <= d * DayLen
    BY <1>1, <1>2, <2>1, Monotonic
  <2>3. DaysAWeek * DayLen \in Nat
    BY <1>1
  <2>4. QED
    BY <1>1, <1>2, <1>3, <2>2, <2>3
<1>5. DayOf(m) = d + 1 /\ TimeOf(m) = t
  BY DEF DayOf, TimeOf, d, t
<1>6. DayOf(m) \in Week /\ DayOf(m) - 1 = d
  BY <1>1, <1>2, <1>4, <1>5 DEF Week
<1>7. QED
  BY <1>2, <1>3, <1>5, <1>6

LEMMA DayAfterType ==
  ASSUME NEW d \in Week, NEW o \in Nat
  PROVE  DayAfter(d, o) \in Week
<1>1. d - 1 + o \in Nat /\ DaysAWeek \in Nat \ {0}
  BY Bounds DEF Week
<1>2. (d - 1 + o) % DaysAWeek \in 0..(DaysAWeek - 1)
  BY <1>1, DivMod
<1>3. QED
  BY <1>1, <1>2 DEF DayAfter, Week

LEMMA WeekWraps ==
  ASSUME NEW d \in Week, NEW o \in Nat
  PROVE  DayAfter(d, o + DaysAWeek) = DayAfter(d, o)
<1> DEFINE a == d - 1 + o
           k == a \div DaysAWeek
           r == a % DaysAWeek
<1>1. a \in Nat /\ DaysAWeek \in Nat \ {0}
  BY Bounds DEF Week
<1>2. d - 1 + (o + DaysAWeek) = a + DaysAWeek
  BY Bounds DEF Week
<1> HIDE DEF a
<1>3. k \in Nat /\ r \in 0..(DaysAWeek - 1) /\ a = DaysAWeek * k + r
  BY <1>1, DivMod
<1> HIDE DEF k, r
<1>4. a + DaysAWeek = (k + 1) * DaysAWeek + r
  BY <1>1, <1>3
<1>5. ((k + 1) * DaysAWeek + r) % DaysAWeek = r
  BY <1>1, <1>3, Parts
<1>6. QED
  BY <1>2, <1>4, <1>5 DEF DayAfter, a, r

LEMMA LaterType ==
  ASSUME NEW m \in Moments, NEW by \in Nat
  PROVE  Later(m, by) \in Moments
<1>1. m + by \in Nat /\ WeekLen \in Nat \ {0}
  BY Bounds DEF Moments
<1>2. (m + by) % WeekLen \in 0..(WeekLen - 1)
  BY <1>1, DivMod
<1>3. QED
  BY <1>2 DEF Later, Moments, WeekLen

(* A moment so many days after today's midnight, at the time t.            *)
LEMMA LaterParts ==
  ASSUME NEW m \in Moments, NEW o \in Nat, NEW t \in 0..(DayLen - 1), NEW by \in Nat,
         TimeOf(m) + by = o * DayLen + t
  PROVE  DayOf(Later(m, by)) = DayAfter(DayOf(m), o) /\ TimeOf(Later(m, by)) = t
<1> DEFINE d == DayOf(m) - 1
           q == (d + o) % DaysAWeek
<1>1. /\ d \in Nat /\ TimeOf(m) \in Nat /\ m = d * DayLen + TimeOf(m)
      /\ DayLen \in Nat \ {0} /\ DaysAWeek \in Nat \ {0}
  BY MomentParts, Bounds DEF Week
<1> HIDE DEF d
<1>2. m + by = (d + o) * DayLen + t
  <2>1. (d + o) * DayLen = d * DayLen + o * DayLen
    BY <1>1
  <2> DEFINE days == d * DayLen
             more == o * DayLen
  <2>2. days \in Nat /\ more \in Nat
    BY <1>1
  <2>3. m = days + TimeOf(m) /\ TimeOf(m) + by = more + t
    BY <1>1
  <2> HIDE DEF days, more
  <2>4. m + by = (days + more) + t
    BY <1>1, <2>2, <2>3
  <2>5. QED
    BY <2>1, <2>4 DEF days, more
<1>3. d + o \in Nat
  BY <1>1
<1>4. ((d + o) * DayLen + t) % WeekLen = q * DayLen + t
  BY <1>1, <1>3, Carry DEF WeekLen
<1>5. q \in Nat
  BY <1>1, <1>3, DivMod
<1> HIDE DEF q
<1>6. Later(m, by) = q * DayLen + t
  BY <1>2, <1>4 DEF Later
<1>7. (q * DayLen + t) \div DayLen = q /\ (q * DayLen + t) % DayLen = t
  BY <1>1, <1>5, Parts
<1>8. QED
  BY <1>6, <1>7 DEF DayOf, TimeOf, DayAfter, q, d

(* Every later moment is one.                                              *)
LEMMA LaterIsADay ==
  ASSUME NEW m \in Moments, NEW by \in Nat
  PROVE  \E o \in Nat, t \in 0..(DayLen - 1) : TimeOf(m) + by = o * DayLen + t
<1> DEFINE a == TimeOf(m) + by
<1>1. a \in Nat /\ DayLen \in Nat \ {0}
  BY MomentParts, Bounds
<1>2. /\ a \div DayLen \in Nat /\ a % DayLen \in 0..(DayLen - 1)
      /\ a = DayLen * (a \div DayLen) + (a % DayLen)
  BY <1>1, DivMod
<1>3. DayLen * (a \div DayLen) = (a \div DayLen) * DayLen
  BY <1>1, <1>2
<1>4. QED
  BY <1>2, <1>3

-----------------------------------------------------------------------------
(* The next mow.                                                           *)

LEMMA Slots ==
  ASSUME NEW s \in Nat
  PROVE  /\ s * SlotLen \in Nat
         /\ s * SlotLen \in 0..(DayLen - 1) <=> s \in 0..(SlotsADay - 1)
<1>1. SlotLen \in Nat \ {0} /\ SlotsADay \in Nat \ {0} /\ DayLen = SlotsADay * SlotLen /\ DayLen \in Nat
  BY Bounds DEF DayLen
<1>2. s * SlotLen \in Nat
  BY <1>1
<1>3. ASSUME s < SlotsADay
      PROVE  s * SlotLen < DayLen
  <2>1. s * SlotLen + SlotLen <= SlotsADay * SlotLen
    BY <1>1, <1>3, Monotonic
  <2>2. QED
    BY <1>1, <1>2, <2>1
<1>4. ASSUME SlotsADay <= s
      PROVE  DayLen <= s * SlotLen
  BY <1>1, <1>4, Monotonic
<1>5. QED
  BY <1>1, <1>2, <1>3, <1>4

LEMMA StartsType ==
  ASSUME NEW plan \in [Week -> Entries], NEW d \in Week
  PROVE  /\ DayStarts(plan, d) \subseteq 0..SlotsADay
         /\ \A p \in ToSet(plan[d].period) : p \in Periods
<1>1. plan[d].period \in Seq(Periods)
  BY DEF Entries
<1>2. \A p \in ToSet(plan[d].period) : p \in Periods
  BY <1>1, LenProperties DEF ToSet
<1>3. QED
  BY <1>2 DEF DayStarts, Periods

(* Candidates and how far ahead they are.                                  *)
Places == (0..DaysAWeek) \X (0..(SlotsADay - 1))

LEMMA PlaceParts ==
  ASSUME NEW m \in Moments, NEW c \in Places
  PROVE  /\ c[1] \in 0..DaysAWeek /\ c[2] \in 0..(SlotsADay - 1)
         /\ c[1] * DayLen \in Nat /\ c[2] * SlotLen \in 0..(DayLen - 1)
         /\ TimeOf(m) \in 0..(DayLen - 1)
         /\ Ahead(c, m) \in Int
         /\ TimeOf(m) + Ahead(c, m) = c[1] * DayLen + c[2] * SlotLen
<1>1. c[1] \in 0..DaysAWeek /\ c[2] \in 0..(SlotsADay - 1)
  BY DEF Places
<1>2. c[1] \in Nat /\ c[2] \in Nat /\ DayLen \in Nat
  BY <1>1, Bounds
<1>3. c[1] * DayLen \in Nat
  BY <1>2
<1>4. c[2] * SlotLen \in 0..(DayLen - 1)
  BY <1>1, <1>2, Slots
<1>5. TimeOf(m) \in 0..(DayLen - 1)
  BY MomentParts
<1>6. QED
  BY <1>1, <1>2, <1>3, <1>4, <1>5 DEF Ahead

LEMMA NotLaterIsNoFurther ==
  ASSUME NEW m \in Moments, NEW c \in Places, NEW d \in Places
  PROVE  NotLater(c, d) <=> Ahead(c, m) <= Ahead(d, m)
<1>1. /\ c[1] \in Nat /\ c[2] \in Nat /\ d[1] \in Nat /\ d[2] \in Nat
      /\ DayLen \in Nat \ {0} /\ SlotLen \in Nat \ {0} /\ TimeOf(m) \in Nat
      /\ c[1] * DayLen \in Nat /\ d[1] * DayLen \in Nat
      /\ c[2] * SlotLen \in 0..(DayLen - 1) /\ d[2] * SlotLen \in 0..(DayLen - 1)
  BY PlaceParts, Bounds
<1>2. CASE c[1] < d[1]
  <2>1. c[1] * DayLen + DayLen <= d[1] * DayLen
    BY <1>1, <1>2, Monotonic
  <2>2. Ahead(c, m) <= Ahead(d, m)
    BY <1>1, <2>1 DEF Ahead
  <2>3. QED
    BY <1>2, <2>2 DEF NotLater
<1>3. CASE d[1] < c[1]
  <2>1. d[1] * DayLen + DayLen <= c[1] * DayLen
    BY <1>1, <1>3, Monotonic
  <2>2. ~(Ahead(c, m) <= Ahead(d, m))
    BY <1>1, <2>1 DEF Ahead
  <2>3. ~NotLater(c, d)
    BY <1>1, <1>3 DEF NotLater
  <2>4. QED
    BY <2>2, <2>3
<1>4. CASE c[1] = d[1]
  <2>1. c[2] <= d[2] <=> c[2] * SlotLen <= d[2] * SlotLen
    BY <1>1, Monotonic
  <2>2. Ahead(c, m) <= Ahead(d, m) <=> c[2] * SlotLen <= d[2] * SlotLen
    BY <1>1, <1>4 DEF Ahead
  <2>3. NotLater(c, d) <=> c[2] <= d[2]
    BY <1>1, <1>4 DEF NotLater
  <2>4. QED
    BY <2>1, <2>2, <2>3
<1>5. QED
  BY <1>1, <1>2, <1>3, <1>4

(* A candidate is a start to come.                                         *)
LEMMA CandidateIsStart ==
  ASSUME NEW m \in Moments, NEW plan \in [Week -> Entries], NEW c \in Candidates(plan, m)
  PROVE  /\ c \in Places /\ Ahead(c, m) \in Nat \ {0}
         /\ StartsAt(plan, Later(m, Ahead(c, m)))
<1>1. /\ c \in Places
      /\ c[2] \in DayStarts(plan, DayAfter(DayOf(m), c[1]))
      /\ c[1] = 0 => c[2] * SlotLen > TimeOf(m)
  BY DEF Candidates, Places
<1>2. /\ c[1] \in Nat /\ c[2] \in Nat /\ DayLen \in Nat \ {0}
      /\ c[1] * DayLen \in Nat /\ c[2] * SlotLen \in 0..(DayLen - 1)
      /\ TimeOf(m) \in 0..(DayLen - 1) /\ Ahead(c, m) \in Int
      /\ TimeOf(m) + Ahead(c, m) = c[1] * DayLen + c[2] * SlotLen
  BY <1>1, PlaceParts, Bounds
<1>3. Ahead(c, m) \in Nat \ {0}
  <2>1. CASE c[1] = 0
    BY <1>1, <1>2, <2>1
  <2>2. CASE 0 < c[1]
    <3>1. 0 * DayLen + DayLen <= c[1] * DayLen
      BY <1>2, <2>2, Monotonic
    <3>2. QED
      BY <1>2, <3>1
  <2>3. QED
    BY <1>2, <2>1, <2>2
<1>4. /\ DayOf(Later(m, Ahead(c, m))) = DayAfter(DayOf(m), c[1])
      /\ TimeOf(Later(m, Ahead(c, m))) = c[2] * SlotLen
  BY <1>2, <1>3, LaterParts
<1>5. QED
  BY <1>1, <1>3, <1>4, PlansAssumption DEF StartsAt

(* And every start within the week is one.                                 *)
LEMMA StartIsCandidate ==
  ASSUME NEW m \in Moments, NEW plan \in [Week -> Entries], NEW by \in 1..WeekLen,
         StartsAt(plan, Later(m, by))
  PROVE  \E c \in Candidates(plan, m) : Ahead(c, m) = by
<1>1. /\ by \in Nat /\ by > 0 /\ by <= WeekLen /\ DayLen \in Nat \ {0} /\ WeekLen \in Nat
      /\ DaysAWeek \in Nat /\ TimeOf(m) \in 0..(DayLen - 1) /\ DayOf(m) \in Week
  BY Bounds, MomentParts
<1>2. PICK o \in Nat, t \in 0..(DayLen - 1) : TimeOf(m) + by = o * DayLen + t
  BY <1>1, LaterIsADay
<1>3. DayOf(Later(m, by)) = DayAfter(DayOf(m), o) /\ TimeOf(Later(m, by)) = t
  <2>1. by \in Nat
    BY <1>1
  <2>2. TimeOf(m) + by = o * DayLen + t
    BY <1>2
  <2>3. QED
    BY <2>1, <2>2, LaterParts
<1>4. PICK s \in DayStarts(plan, DayAfter(DayOf(m), o)) : s * SlotLen = t
  BY <1>3 DEF StartsAt
<1>5. s \in Nat /\ s \in 0..(SlotsADay - 1)
  <2>1. s \in Nat
    BY <1>1, <1>4, DayAfterType, StartsType, Bounds
  <2>2. QED
    BY <1>4, <2>1, Slots
<1>6. o <= DaysAWeek
  <2>1. SUFFICES ASSUME DaysAWeek < o PROVE FALSE
    BY <1>1
  <2>2. WeekLen + DayLen <= o * DayLen
    BY <1>1, <2>1, Monotonic DEF WeekLen
  <2>3. o * DayLen \in Nat
    BY <1>1
  <2>4. QED
    BY <1>1, <1>2, <2>2, <2>3
<1>7. o = 0 => s * SlotLen > TimeOf(m)
  BY <1>1, <1>2, <1>4
<1> DEFINE c == <<o, s>>
<1>8. c \in Candidates(plan, m)
  BY <1>1, <1>4, <1>5, <1>6, <1>7 DEF Candidates
<1>9. Ahead(c, m) = by
  <2>1. o * DayLen \in Nat
    BY <1>1
  <2>2. QED
    BY <1>1, <1>2, <1>4, <2>1 DEF Ahead
<1>10. QED
  BY <1>8, <1>9

(* The loop finds the nearest, and it is within the week.                  *)
LEMMA SoonestCandidate ==
  ASSUME NEW m \in Moments, NEW plan \in [Week -> Entries], Candidates(plan, m) # {}
  PROVE  LET cands == Candidates(plan, m)
             c == CHOOSE x \in cands : \A d \in cands : NotLater(x, d)
         IN /\ c \in cands
            /\ \A d \in cands : Ahead(c, m) <= Ahead(d, m)
            /\ Ahead(c, m) \in 1..WeekLen
<1> DEFINE cands == Candidates(plan, m)
           c == CHOOSE x \in cands : \A d \in cands : NotLater(x, d)
           S == {Ahead(d, m) : d \in cands}
<1>1. \A d \in cands : d \in Places /\ Ahead(d, m) \in Nat \ {0}
  BY CandidateIsStart
<1>2. PICK least \in S : \A n \in S : least <= n
  <2>1. S \in SUBSET Nat /\ S # {}
    BY <1>1
  <2> HIDE DEF S
  <2>2. QED
    BY <2>1, LeastNumber
<1>3. PICK x \in cands : Ahead(x, m) = least
  BY <1>2
<1>4. \A d \in cands : NotLater(x, d)
  BY <1>1, <1>2, <1>3, NotLaterIsNoFurther
<1>5. c \in cands /\ \A d \in cands : NotLater(c, d)
  <2> HIDE DEF cands
  <2>1. QED
    BY <1>3, <1>4
<1>6. \A d \in cands : Ahead(c, m) <= Ahead(d, m)
  <2> HIDE DEF c
  <2>1. QED
    BY <1>1, <1>5, NotLaterIsNoFurther
<1>7. Ahead(c, m) <= WeekLen
  <2> HIDE DEF c
  <2>1. SUFFICES ASSUME WeekLen < Ahead(c, m) PROVE FALSE
    BY <1>1, <1>5, Bounds
  <2>2. /\ c[1] \in 0..DaysAWeek /\ c[2] \in 0..(SlotsADay - 1)
        /\ c[1] * DayLen \in Nat /\ c[2] * SlotLen \in 0..(DayLen - 1)
        /\ TimeOf(m) \in 0..(DayLen - 1) /\ Ahead(c, m) \in Int
        /\ TimeOf(m) + Ahead(c, m) = c[1] * DayLen + c[2] * SlotLen
    BY <1>1, <1>5, PlaceParts
  <2>3. c[1] = DaysAWeek
    <3>1. SUFFICES ASSUME c[1] < DaysAWeek PROVE FALSE
      BY <2>2, Bounds
    <3>2. c[1] * DayLen + DayLen <= WeekLen
      BY <2>2, <3>1, Bounds, Monotonic DEF WeekLen
    <3>3. QED
      BY <2>1, <2>2, <3>2, Bounds
  <2>4. c[2] * SlotLen > TimeOf(m)
    BY <2>1, <2>2, <2>3, Bounds DEF WeekLen
  <2> DEFINE d == <<0, c[2]>>
  <2>5. DayAfter(DayOf(m), c[1]) = DayAfter(DayOf(m), 0)
    <3>1. DayAfter(DayOf(m), 0 + DaysAWeek) = DayAfter(DayOf(m), 0)
      BY MomentParts, WeekWraps
    <3>2. 0 + DaysAWeek = DaysAWeek
      BY Bounds
    <3>3. QED
      BY <2>3, <3>1, <3>2
  <2>6. d \in cands
    BY <1>5, <2>2, <2>4, <2>5, Bounds DEF Candidates
  <2>7. Ahead(d, m) <= WeekLen
    <3>1. 0 * DayLen = 0
      BY Bounds
    <3>2. DayLen <= WeekLen
      <4>1. 1 * DayLen <= DaysAWeek * DayLen
        BY Bounds, Monotonic
      <4>2. QED
        BY <4>1, Bounds DEF WeekLen
    <3>3. QED
      BY <2>2, <3>1, <3>2, Bounds DEF Ahead
  <2>8. QED
    BY <1>1, <1>5, <1>6, <2>1, <2>6, <2>7, Bounds
<1>8. QED
  BY <1>1, <1>5, <1>6, <1>7, Bounds

LEMMA NextMowValue ==
  ASSUME NEW m \in Moments, NEW settings, settings.plan \in [Week -> Entries]
  PROVE  LET cands == Candidates(settings.plan, m)
         IN /\ ScheduleSource(settings) = settings.plan
            /\ settings.master = FALSE \/ cands = {} => NextMow(settings, m) = NoMow
            /\ settings.master # FALSE /\ cands # {} =>
                 \E c \in cands : /\ NextMow(settings, m) = Ahead(c, m)
                                  /\ Ahead(c, m) \in 1..WeekLen
                                  /\ \A d \in cands : Ahead(c, m) <= Ahead(d, m)
<1>1. ScheduleSource(settings) = settings.plan /\ settings.plan # NoPlan
  BY PlansAssumption DEF ScheduleSource
<1>2. CASE settings.master = FALSE \/ Candidates(settings.plan, m) = {}
  BY <1>1, <1>2 DEF NextMow
<1>3. CASE settings.master # FALSE /\ Candidates(settings.plan, m) # {}
  <2> DEFINE cands == Candidates(settings.plan, m)
             c == CHOOSE x \in cands : \A d \in cands : NotLater(x, d)
  <2>1. NextMow(settings, m) = Ahead(c, m)
    BY <1>1, <1>3 DEF NextMow
  <2>2. c \in cands /\ Ahead(c, m) \in 1..WeekLen /\ \A d \in cands : Ahead(c, m) <= Ahead(d, m)
    BY <1>3, SoonestCandidate
  <2> HIDE DEF c
  <2>3. QED
    BY <1>1, <1>3, <2>1, <2>2
<1>4. QED
  BY <1>2, <1>3

LEMMA NextMowType ==
  ASSUME NEW m \in Moments, NEW settings, settings.plan \in [Week -> Entries]
  PROVE  NextMow(settings, m) \in {NoMow} \union (1..WeekLen)
BY NextMowValue

(* _compute_next_mow returns the first start to come, across the end of    *)
(* the week.                                                               *)
LEMMA SoonestIsFound ==
  ASSUME NEW m \in Moments, NEW settings, settings.plan \in [Week -> Entries],
         settings.master # FALSE
  PROVE  IsSoonest(NextMow(settings, m), settings.plan, m)
<1> DEFINE plan == settings.plan
           cands == Candidates(plan, m)
<1>1. CASE cands = {}
  <2>1. NextMow(settings, m) = NoMow
    BY <1>1, NextMowValue
  <2>2. \A by \in 1..WeekLen : ~StartsAt(plan, Later(m, by))
    BY <1>1, StartIsCandidate
  <2>3. QED
    BY <2>1, <2>2 DEF IsSoonest
<1>2. CASE cands # {}
  <2>1. PICK c \in cands : /\ NextMow(settings, m) = Ahead(c, m)
                           /\ Ahead(c, m) \in 1..WeekLen
                           /\ \A d \in cands : Ahead(c, m) <= Ahead(d, m)
    BY <1>2, NextMowValue
  <2> DEFINE due == Ahead(c, m)
  <2>2. due # NoMow /\ due \in 1..WeekLen
    BY <2>1, WeekAssumption, Bounds
  <2>3. StartsAt(plan, Later(m, due))
    BY <2>1, CandidateIsStart
  <2>4. ASSUME NEW by \in 1..(due - 1), StartsAt(plan, Later(m, by))
        PROVE  FALSE
    <3> HIDE DEF due
    <3>1. by \in 1..WeekLen /\ by < due
      BY <2>2, Bounds
    <3>2. PICK d \in cands : Ahead(d, m) = by
      BY <2>4, <3>1, StartIsCandidate
    <3>3. due <= by
      BY <2>1, <3>2 DEF due
    <3>4. QED
      BY <2>2, <3>1, <3>3, Bounds
  <2> HIDE DEF due
  <2>5. IsSoonest(due, plan, m)
    BY <2>2, <2>3, <2>4 DEF IsSoonest
  <2>6. QED
    BY <2>1, <2>5 DEF due
<1>3. QED
  BY <1>1, <1>2

-----------------------------------------------------------------------------
(* The calendar.                                                           *)

EventsOf(plan, m, o) ==
  {p \in (IF plan[DayAfter(DayOf(m), o)].open
          THEN ToSet(plan[DayAfter(DayOf(m), o)].period) ELSE {}) :
     /\ p.end > p.start
     /\ o * DayLen + p.end * SlotLen - TimeOf(m) > 0
     /\ o * DayLen + p.start * SlotLen - TimeOf(m) < Horizon * DayLen}

LEMMA EventParts ==
  ASSUME NEW m \in Moments, NEW settings, settings.plan \in [Week -> Entries],
         NEW e
  PROVE  e \in CalendarEvents(settings, m) <=>
           \E o \in 0..Horizon : \E p \in EventsOf(settings.plan, m, o) :
             e = [from |-> o * DayLen + p.start * SlotLen - TimeOf(m),
                  till |-> o * DayLen + p.end * SlotLen - TimeOf(m)]
<1>1. ScheduleSource(settings) = settings.plan /\ settings.plan # NoPlan
  BY PlansAssumption DEF ScheduleSource
<1>2. CalendarEvents(settings, m)
      = UNION {{[from |-> o * DayLen + p.start * SlotLen - TimeOf(m),
                 till |-> o * DayLen + p.end * SlotLen - TimeOf(m)] :
                  p \in EventsOf(settings.plan, m, o)} : o \in 0..Horizon}
  BY <1>1 DEF CalendarEvents, EventsOf
<1>3. QED
  BY <1>2

(* An event to come is a start, this week or the next.                     *)
LEMMA EventIsNotSooner ==
  ASSUME NEW m \in Moments, NEW settings, settings.plan \in [Week -> Entries],
         NEW e \in CalendarEvents(settings, m), e.from > 0
  PROVE  e.from \in Int /\ \E c \in Candidates(settings.plan, m) : Ahead(c, m) <= e.from
<1> DEFINE plan == settings.plan
<1>0. PICK o \in 0..Horizon :
        \E p \in EventsOf(plan, m, o) :
          e = [from |-> o * DayLen + p.start * SlotLen - TimeOf(m),
               till |-> o * DayLen + p.end * SlotLen - TimeOf(m)]
  BY EventParts
<1>1. PICK p \in EventsOf(plan, m, o) :
             e = [from |-> o * DayLen + p.start * SlotLen - TimeOf(m),
                  till |-> o * DayLen + p.end * SlotLen - TimeOf(m)]
  BY <1>0
<1>2. /\ DaysAWeek \in Nat \ {0} /\ DayLen \in Nat \ {0} /\ SlotsADay \in Nat
      /\ DayOf(m) \in Week /\ TimeOf(m) \in 0..(DayLen - 1) /\ o \in Nat
      /\ o <= 2 * DaysAWeek
  BY Bounds, MomentParts DEF Horizon
<1>3. /\ DayAfter(DayOf(m), o) \in Week
      /\ plan[DayAfter(DayOf(m), o)].open
      /\ p \in ToSet(plan[DayAfter(DayOf(m), o)].period) /\ p.end > p.start
  BY <1>2, DayAfterType DEF EventsOf
<1>4. p.start \in 0..(SlotsADay - 1) /\ p.start \in DayStarts(plan, DayAfter(DayOf(m), o))
  <2>1. p \in Periods
    BY <1>3, StartsType
  <2>2. QED
    BY <1>2, <1>3, <2>1 DEF Periods, DayStarts
<1> DEFINE s == p.start
           days == o * DayLen
           time == s * SlotLen
<1>5. days \in Nat /\ time \in 0..(DayLen - 1)
  BY <1>2, <1>4, Slots
<1>6. e.from = days + time - TimeOf(m)
  BY <1>1
<1>7. e.from \in Int
  <2> HIDE DEF days, time
  <2>1. QED
    BY <1>2, <1>5, <1>6
<1>8. CASE o <= DaysAWeek
  <2> DEFINE c == <<o, s>>
  <2>1. Ahead(c, m) = e.from
    BY <1>6 DEF Ahead
  <2>2. o = 0 => time > TimeOf(m)
    <3>1. o = 0 => days = 0
      BY <1>2
    <3> HIDE DEF days, time
    <3>2. QED
      BY <1>2, <1>5, <1>6, <3>1
  <2>3. c \in Candidates(plan, m)
    BY <1>2, <1>4, <1>8, <2>2 DEF Candidates
  <2>4. QED
    BY <1>7, <2>1, <2>3
<1>9. CASE DaysAWeek < o
  <2> DEFINE q == o - DaysAWeek
             c == <<q, s>>
  <2>1. q \in 1..DaysAWeek /\ q + DaysAWeek = o
    BY <1>2, <1>9
  <2>2. DayAfter(DayOf(m), q) = DayAfter(DayOf(m), o)
    BY <1>2, <2>1, WeekWraps
  <2>3. c \in Candidates(plan, m)
    BY <1>2, <1>4, <2>1, <2>2 DEF Candidates
  <2> HIDE DEF q
  <2>4. q * DayLen <= days /\ q * DayLen \in Nat
    BY <1>2, <2>1, Monotonic
  <2>5. Ahead(c, m) = q * DayLen + time - TimeOf(m)
    BY DEF Ahead
  <2>6. Ahead(c, m) <= e.from
    <3> DEFINE some == q * DayLen
    <3>1. Ahead(c, m) = some + time - TimeOf(m) /\ some <= days /\ some \in Nat
      BY <2>4, <2>5
    <3> HIDE DEF some, days, time
    <3>2. QED
      BY <1>2, <1>5, <1>6, <3>1
  <2>7. QED
    BY <1>7, <2>3, <2>6
<1>10. QED
  BY <1>2, <1>8, <1>9

(* With no reversed period, a start is an event.                           *)
LEMMA CandidateIsEvent ==
  ASSUME NEW m \in Moments, NEW settings, settings.plan \in [Week -> Entries],
         \A d \in Week : \A i \in 1..Len(settings.plan[d].period) :
           Forward(settings.plan[d].period[i]),
         NEW c \in Candidates(settings.plan, m)
  PROVE  \E e \in CalendarEvents(settings, m) : e.from = Ahead(c, m)
<1> DEFINE plan == settings.plan
           o == c[1]
           day == DayAfter(DayOf(m), o)
<1>1. c \in Places /\ Ahead(c, m) \in Nat \ {0} /\ c[2] \in DayStarts(plan, day)
  BY CandidateIsStart DEF Candidates
<1>2. /\ o \in 0..DaysAWeek /\ c[2] \in 0..(SlotsADay - 1)
      /\ o * DayLen \in Nat /\ c[2] * SlotLen \in 0..(DayLen - 1)
      /\ TimeOf(m) \in 0..(DayLen - 1)
      /\ DaysAWeek \in Nat \ {0} /\ DayLen \in Nat \ {0} /\ SlotLen \in Nat \ {0}
      /\ day \in Week
  <2>1. o \in 0..DaysAWeek
    BY <1>1, PlaceParts
  <2>2. day \in Week
    BY <2>1, DayAfterType, MomentParts, Bounds
  <2>3. QED
    BY <1>1, <2>2, PlaceParts, Bounds
<1>3. plan[day].open /\ \E p \in ToSet(plan[day].period) : p.start = c[2]
  BY <1>1 DEF DayStarts
<1>4. PICK p \in ToSet(plan[day].period) : p.start = c[2]
  BY <1>3
<1>5. p.end > p.start /\ p.end \in Nat /\ p.start \in Nat
  <2>1. plan[day].period \in Seq(Periods)
    BY <1>2 DEF Entries
  <2>2. Forward(p)
    BY <1>2, <1>4, <2>1, LenProperties DEF ToSet
  <2>3. p \in Periods
    BY <1>2, <1>4, StartsType
  <2>4. QED
    BY <2>2, <2>3, Bounds DEF Forward, Periods
<1> DEFINE days == o * DayLen
           from == p.start * SlotLen
           till == p.end * SlotLen
<1>6. /\ days \in Nat /\ from \in 0..(DayLen - 1) /\ till \in Nat /\ from <= till
      /\ Ahead(c, m) = days + from - TimeOf(m)
  <2>1. days \in Nat /\ from \in 0..(DayLen - 1)
    BY <1>2, <1>4
  <2>2. till \in Nat
    BY <1>2, <1>5
  <2>3. from <= till
    <3>1. p.start <= p.end
      BY <1>5
    <3>2. p.start * SlotLen <= p.end * SlotLen
      BY <1>2, <1>5, <3>1, Monotonic, Zenon
    <3>3. QED
      BY <3>2
  <2>4. Ahead(c, m) = days + from - TimeOf(m)
    BY <1>4 DEF Ahead
  <2>5. QED
    BY <2>1, <2>2, <2>3, <2>4
<1>7. days + till - TimeOf(m) > 0
  <2>1. TimeOf(m) \in Nat /\ DayLen \in Nat
    BY <1>2
  <2> HIDE DEF days, from, till
  <2>2. QED
    BY <1>1, <1>6, <2>1
<1>8. days + from - TimeOf(m) < Horizon * DayLen
  <2>1. days + DayLen <= Horizon * DayLen /\ Horizon * DayLen \in Nat
    <3>1. o \in Nat /\ o < Horizon /\ Horizon \in Nat
      BY <1>2 DEF Horizon
    <3>2. o * DayLen + DayLen <= Horizon * DayLen
      BY <1>2, <3>1, Monotonic
    <3>3. Horizon * DayLen \in Nat
      BY <1>2, <3>1
    <3>4. QED
      BY <3>2, <3>3
  <2> DEFINE end == Horizon * DayLen
  <2>2. days + DayLen <= end /\ end \in Nat
    BY <2>1
  <2> HIDE DEF days, from, till, end
  <2>3. days + from - TimeOf(m) < end
    BY <1>2, <1>6, <2>2
  <2>4. QED
    BY <2>3 DEF end
<1>9. p \in EventsOf(plan, m, o)
  BY <1>3, <1>4, <1>5, <1>7, <1>8 DEF EventsOf
<1>10. o \in 0..Horizon
  BY <1>2 DEF Horizon
<1> DEFINE e == [from |-> days + from - TimeOf(m), till |-> days + till - TimeOf(m)]
<1>11. e \in CalendarEvents(settings, m)
  BY <1>9, <1>10, EventParts
<1>12. e.from = Ahead(c, m)
  BY <1>6
<1>13. QED
  BY <1>11, <1>12

(* So the two tell the same.                                               *)
LEMMA CalendarTellsTheNextMow ==
  ASSUME NEW m \in Moments, NEW settings, settings.plan \in [Week -> Entries],
         settings.master # FALSE,
         \A d \in Week : \A i \in 1..Len(settings.plan[d].period) :
           Forward(settings.plan[d].period[i])
  PROVE  LET ahead == {e.from : e \in {f \in CalendarEvents(settings, m) : f.from > 0}}
         IN NextMow(settings, m) = IF ahead = {} THEN NoMow ELSE Min(ahead)
<1> DEFINE ahead == {e.from : e \in {f \in CalendarEvents(settings, m) : f.from > 0}}
           cands == Candidates(settings.plan, m)
<1>1. \A x \in ahead : x \in Int /\ \E c \in cands : Ahead(c, m) <= x
  BY EventIsNotSooner
<1>2. \A c \in cands : Ahead(c, m) \in ahead
  <2>1. ASSUME NEW c \in cands
        PROVE  Ahead(c, m) \in ahead
    <3>1. Ahead(c, m) > 0
      BY CandidateIsStart
    <3>2. PICK e \in CalendarEvents(settings, m) : e.from = Ahead(c, m)
      BY CandidateIsEvent
    <3>3. QED
      BY <3>1, <3>2
  <2>2. QED
    BY <2>1
<1> HIDE DEF ahead
<1>3. CASE cands = {}
  <2>1. ahead = {}
    BY <1>1, <1>3
  <2>2. QED
    BY <1>3, <2>1, NextMowValue DEF ahead
<1>4. CASE cands # {}
  <2>1. PICK c \in cands : /\ NextMow(settings, m) = Ahead(c, m)
                           /\ Ahead(c, m) \in 1..WeekLen
                           /\ \A d \in cands : Ahead(c, m) <= Ahead(d, m)
    BY <1>4, NextMowValue
  <2> DEFINE due == Ahead(c, m)
  <2>2. due \in ahead /\ due \in Int
    BY <1>2, <2>1, Bounds
  <2>3. \A x \in ahead : x \in Int /\ due <= x
    <3>1. ASSUME NEW x \in ahead
          PROVE  x \in Int /\ due <= x
      <4>1. PICK d \in cands : Ahead(d, m) <= x
        BY <1>1
      <4>2. due <= Ahead(d, m) /\ Ahead(d, m) \in Int
        BY <2>1, CandidateIsStart
      <4>3. QED
        BY <1>1, <2>2, <4>1, <4>2
    <3>2. QED
      BY <3>1
  <2> HIDE DEF due
  <2>4. Min(ahead) = due
    <3>1. Min(ahead) \in ahead /\ \A x \in ahead : Min(ahead) <= x
      BY <2>2, <2>3, Zenon DEF Min
    <3>2. Min(ahead) \in Int /\ due <= Min(ahead) /\ Min(ahead) <= due
      BY <2>2, <2>3, <3>1
    <3>3. QED
      BY <2>2, <3>2
  <2>5. ahead # {}
    BY <2>2
  <2>6. QED
    BY <2>1, <2>4, <2>5 DEF ahead, due
<1>5. QED
  BY <1>3, <1>4

-----------------------------------------------------------------------------
(* The weekly plan in time.                                                *)

(* The plans are of the grid, wherever they are, and a call under way has  *)
(* been accepted.                                                          *)
GridInv ==
  /\ mower \in [Week -> Entries]
  /\ cloud.plan \in [Week -> Entries]
  /\ read.plan \in [Week -> Entries]
  /\ \A c \in Calls : call[c] # Idle => Accepted(call[c].req.enabled, call[c].req.times)

PlanInv == TypeOK /\ GridInv /\ PlansAreSound

LEMMA ScanBounds ==
  /\ MowScan \in Nat \ {0} /\ FastScan \in Nat \ {0} /\ DefaultScan \in Nat \ {0}
  /\ IdleScan \in Nat \ {0} /\ SlowEvery \in Nat \ {0} /\ Lag \in Nat \ {0}
  /\ MowScan <= IdleScan /\ FastScan <= IdleScan /\ DefaultScan <= IdleScan
<1>1. /\ MowScan \in Nat \ {0} /\ FastScan \in Nat \ {0} /\ DefaultScan \in Nat \ {0}
      /\ IdleScan \in Nat \ {0} /\ SlowEvery \in Nat \ {0}
      /\ MowScan <= FastScan /\ FastScan <= DefaultScan /\ DefaultScan <= IdleScan
  BY ScanAssumption
<1>2. QED
  BY <1>1 DEF Lag

LEMMA Starts == 0 \in 0..Lag /\ 0 \in 0..IdleScan /\ DefaultScan \in 0..IdleScan
BY ScanBounds

LEMMA IntervalType ==
  ASSUME NEW c, NEW next
  PROVE  PollInterval(c, next) \in 0..IdleScan
BY ScanBounds DEF PollInterval

LEMMA CycleType ==
  ASSUME NEW c \in Nat
  PROVE  c % SlowEvery \in 0..(SlowEvery - 1)
BY ScanBounds, DivMod

LEMMA AgeType ==
  ASSUME NEW a \in 0..Lag
  PROVE  Min({a + 1, Lag}) \in 0..Lag /\ Min({a + 1, Lag}) <= a + 1
<1>1. a \in Nat /\ Lag \in Nat
  BY ScanBounds
<1>2. \E x \in {a + 1, Lag} : \A y \in {a + 1, Lag} : x <= y
  BY <1>1
<1>3. Min({a + 1, Lag}) \in {a + 1, Lag} /\ \A y \in {a + 1, Lag} : Min({a + 1, Lag}) <= y
  BY <1>2 DEF Min
<1>4. QED
  BY <1>1, <1>3

LEMMA AppPlanType ==
  ASSUME NEW plan \in AppPlans
  PROVE  /\ plan \in Plans /\ plan \in [Week -> Entries]
         /\ \A d \in Week : plan[d] \in EntriesOf(AppPlans)
<1>1. plan \in [Week -> Entries]
  BY PlansAssumption
<1>2. \A d \in Week : plan[d] \in EntriesOf(AppPlans)
  BY DEF EntriesOf
<1>3. QED
  BY <1>1, <1>2 DEF Plans, KnownEntries

(* One day of a plan is replaced by what a call was accepted for.          *)
LEMMA DayReplaced ==
  ASSUME NEW plan \in Plans, plan \in [Week -> Entries],
         \A d \in Week : plan[d].open => Sound(plan[d].period) \/ plan[d] \in EntriesOf(AppPlans),
         NEW r \in Requests, Accepted(r.enabled, r.times)
  PROVE  LET u == [plan EXCEPT ![r.day] = EntryFor(r.enabled, r.times)]
         IN /\ u \in Plans /\ u \in [Week -> Entries]
            /\ \A d \in Week : u[d].open => Sound(u[d].period) \/ u[d] \in EntriesOf(AppPlans)
<1> DEFINE entry == EntryFor(r.enabled, r.times)
           u == [plan EXCEPT ![r.day] = entry]
<1>1. entry \in Entries /\ (entry.open => Sound(entry.period))
  BY AcceptedEntry
<1>2. entry \in KnownEntries
  BY DEF KnownEntries
<1> HIDE DEF entry
<1>3. u \in Plans /\ u \in [Week -> Entries]
  BY <1>1, <1>2 DEF Plans
<1>4. \A d \in Week : u[d] = entry \/ u[d] = plan[d]
  BY DEF Plans
<1>5. QED
  BY <1>1, <1>3, <1>4 DEF entry

LEMMA PlanInvInit == ASSUME Init PROVE PlanInv
<1>1. now \in Moments
  <2>1. PICK d \in 0..(DaysAWeek - 1) : now = d * DayLen
    BY DEF Init
  <2>2. d * DayLen + DayLen <= DaysAWeek * DayLen /\ d * DayLen \in Nat /\ DayLen \in Nat \ {0}
        /\ DaysAWeek * DayLen \in Nat
    BY Bounds, Monotonic
  <2>3. QED
    BY <2>1, <2>2 DEF Moments
<1>2. /\ mower \in Plans /\ mower \in [Week -> Entries]
      /\ \A d \in Week : mower[d] \in EntriesOf(AppPlans)
  BY AppPlanType DEF Init
<1>3. cloud.plan = mower /\ read.plan = mower /\ cloud \in Settings /\ read \in Settings
  BY <1>2 DEF Init, Settings
<1>4. nextMow \in {NoMow} \union (-1..WeekLen)
  BY <1>1, <1>2, <1>3, NextMowType, Bounds DEF Init
<1>5. pollIn \in 0..IdleScan
  BY IntervalType DEF Init
<1>6. cycle \in 0..(SlowEvery - 1)
  BY CycleType DEF Init
<1>7. code \in Codes /\ age \in 0..Lag /\ forceSlow \in BOOLEAN
  <2>1. code = "docked" /\ age = 0 /\ forceSlow = FALSE
    BY DEF Init
  <2>2. "docked" \in Codes
    BY ScanAssumption, Zenon
  <2>3. 0 \in 0..Lag
    BY ScanBounds
  <2>4. QED
    BY <2>1, <2>2, <2>3
<1>8. \A c \in Calls : call[c] = Idle
  BY DEF Init
<1>9. call \in [Calls -> {Idle} \union [at : {"device", "cloud"}, req : Requests]]
  BY DEF Init
<1>10. TypeOK
  BY <1>1, <1>2, <1>3, <1>4, <1>5, <1>6, <1>7, <1>9 DEF TypeOK
<1>11. GridInv /\ PlansAreSound
  BY <1>2, <1>3, <1>8 DEF GridInv, PlansAreSound
<1>12. QED
  BY <1>10, <1>11 DEF PlanInv

LEMMA PlanInvStep == ASSUME PlanInv, [Next]_vars PROVE PlanInv'
<1> USE DEF PlanInv
<1>1. CASE Tick
  <2>1. now' \in Moments
    BY <1>1, LaterType DEF Tick, TypeOK
  <2>2. pollIn' \in 0..IdleScan
    BY <1>1, ScanBounds DEF Tick, TypeOK
  <2>3. nextMow' \in {NoMow} \union (-1..WeekLen)
    BY <1>1, WeekAssumption, Bounds DEF Tick, TypeOK
  <2>4. age' \in 0..Lag
    BY <1>1, AgeType DEF Tick, TypeOK
  <2>5. UNCHANGED <<planVars, code, read, cycle, forceSlow, call>>
    BY <1>1 DEF Tick
  <2>6. TypeOK'
    BY <2>1, <2>2, <2>3, <2>4, <2>5 DEF TypeOK, planVars
  <2>7. QED
    BY <2>5, <2>6 DEF GridInv, PlansAreSound, planVars
<1>2. CASE PollReads
  <2>1. UNCHANGED <<now, planVars, code, call>> /\ now \in Moments
    BY <1>2 DEF PollReads, TypeOK
  <2>2. read' \in Settings /\ read'.plan \in [Week -> Entries]
    BY <1>2 DEF PollReads, TypeOK, GridInv
  <2>3. nextMow' \in {NoMow} \union (-1..WeekLen)
    <3>1. NextMow(read', now) \in {NoMow} \union (1..WeekLen)
      BY <2>1, <2>2, NextMowType
    <3>2. nextMow' = NextMow(read', now)
      BY <1>2 DEF PollReads
    <3>3. QED
      BY <3>1, <3>2, Bounds
  <2>4. pollIn' \in 0..IdleScan
    BY <1>2, IntervalType DEF PollReads
  <2>5. cycle' \in 0..(SlowEvery - 1)
    <3>1. cycle + 1 \in Nat
      BY ScanBounds DEF TypeOK
    <3>2. cycle' = (cycle + 1) % SlowEvery
      BY <1>2 DEF PollReads
    <3>3. QED
      BY <3>1, <3>2, CycleType
  <2>6. age' \in 0..Lag /\ forceSlow' \in BOOLEAN
    <3>1. age' \in {age, 0}
      BY <1>2 DEF PollReads
    <3>2. forceSlow' = FALSE
      BY <1>2 DEF PollReads
    <3>3. QED
      BY <3>1, <3>2, Starts DEF TypeOK
  <2>7. TypeOK'
    BY <2>1, <2>2, <2>3, <2>4, <2>5, <2>6 DEF TypeOK, planVars
  <2>8. QED
    BY <2>1, <2>2, <2>7 DEF GridInv, PlansAreSound, planVars
<1>3. CASE PollFails
  <2>1. UNCHANGED <<now, planVars, code, read, nextMow, call>>
    BY <1>3 DEF PollFails
  <2>2. cycle' \in 0..(SlowEvery - 1)
    <3>1. cycle + 1 \in Nat
      BY ScanBounds DEF TypeOK
    <3>2. cycle' = (cycle + 1) % SlowEvery
      BY <1>3 DEF PollFails
    <3>3. QED
      BY <3>1, <3>2, CycleType
  <2>3. pollIn' \in 0..IdleScan /\ age' \in 0..Lag /\ forceSlow' \in BOOLEAN
    <3>1. pollIn' = DefaultScan /\ age' = 0
      BY <1>3 DEF PollFails
    <3>2. forceSlow' = FALSE
      BY <1>3 DEF PollFails
    <3>3. QED
      BY <3>1, <3>2, Starts
  <2>4. TypeOK'
    BY <2>1, <2>2, <2>3 DEF TypeOK, planVars
  <2>5. QED
    BY <2>1, <2>4 DEF GridInv, PlansAreSound, planVars
<1>4. ASSUME NEW c \in Calls, NEW r \in Requests, SetCalled(c, r)
      PROVE  PlanInv'
  <2>1. UNCHANGED <<now, planVars, code, pollVars, age>>
    BY <1>4 DEF SetCalled
  <2>2. call' = [call EXCEPT ![c] = [at |-> "device", req |-> r]]
        /\ Accepted(r.enabled, r.times)
    BY <1>4 DEF SetCalled
  <2>3. TypeOK'
    BY <2>1, <2>2 DEF TypeOK, planVars, pollVars
  <2>4. GridInv'
    BY <2>1, <2>2 DEF TypeOK, GridInv, planVars, pollVars
  <2>5. QED
    BY <2>1, <2>3, <2>4 DEF PlansAreSound, planVars
<1>5. ASSUME NEW c \in Calls, DeviceStage(c) \/ CloudStage(c)
      PROVE  PlanInv'
  <2> DEFINE r == call[c].req
             told == [mower EXCEPT ![r.day] = EntryFor(r.enabled, r.times)]
             saved == [cloud EXCEPT !.plan[r.day] = EntryFor(r.enabled, r.times)]
  <2>1. /\ call[c] \in [at : {"device", "cloud"}, req : Requests] /\ r \in Requests
        /\ Accepted(r.enabled, r.times)
    <3>1. call[c].at \in {"device", "cloud"}
      BY <1>5 DEF DeviceStage, CloudStage
    <3>2. call[c] # Idle
      BY <3>1 DEF Idle
    <3>3. QED
      BY <3>2 DEF TypeOK, GridInv
  <2>2. /\ told \in Plans /\ told \in [Week -> Entries]
        /\ \A d \in Week : told[d].open => Sound(told[d].period) \/ told[d] \in EntriesOf(AppPlans)
    BY <2>1, DayReplaced DEF TypeOK, GridInv, PlansAreSound
  <2>3. /\ saved \in Settings /\ saved.plan \in [Week -> Entries]
        /\ \A d \in Week : saved.plan[d].open
             => Sound(saved.plan[d].period) \/ saved.plan[d] \in EntriesOf(AppPlans)
    <3> DEFINE plan == [cloud.plan EXCEPT ![r.day] = EntryFor(r.enabled, r.times)]
    <3>1. cloud \in Settings /\ cloud.plan \in Plans
      BY DEF TypeOK, Settings
    <3>2. /\ plan \in Plans /\ plan \in [Week -> Entries]
          /\ \A d \in Week : plan[d].open => Sound(plan[d].period) \/ plan[d] \in EntriesOf(AppPlans)
      BY <2>1, <3>1, DayReplaced DEF GridInv, PlansAreSound
    <3>3. saved = [cloud EXCEPT !.plan = plan]
      BY <3>1 DEF Settings
    <3> HIDE DEF plan
    <3>4. saved.plan = plan /\ saved \in Settings
      BY <3>1, <3>2, <3>3 DEF Settings
    <3>5. QED
      BY <3>2, <3>4
  <2> HIDE DEF told, saved, r
  <2>4. /\ mower' \in {mower, told} /\ cloud' \in {cloud, saved}
        /\ UNCHANGED <<now, code, read, nextMow, cycle>>
    BY <1>5 DEF DeviceStage, CloudStage, told, saved, r, pollVars
  <2>5. /\ pollIn' \in 0..IdleScan /\ age' \in 0..Lag /\ forceSlow' \in BOOLEAN
    <3>1. pollIn' \in {pollIn, 0} /\ age' \in {age, 0}
      BY <1>5 DEF DeviceStage, CloudStage, pollVars
    <3>2. forceSlow' = forceSlow \/ forceSlow' = TRUE
      BY <1>5 DEF DeviceStage, CloudStage, pollVars
    <3>3. QED
      BY <3>1, <3>2, Starts DEF TypeOK
  <2>6. \/ call' = [call EXCEPT ![c] = Idle]
        \/ call' = [call EXCEPT ![c].at = "cloud"]
    BY <1>5 DEF DeviceStage, CloudStage, SetFails
  <2>7. /\ call' \in [Calls -> {Idle} \union [at : {"device", "cloud"}, req : Requests]]
        /\ \A d \in Calls : call'[d] # Idle => call[d] # Idle /\ call'[d].req = call[d].req
    BY <2>1, <2>6 DEF TypeOK, Idle
  <2>8. TypeOK'
    BY <2>2, <2>3, <2>4, <2>5, <2>7 DEF TypeOK
  <2>9. GridInv'
    BY <2>2, <2>3, <2>4, <2>7 DEF GridInv
  <2>10. PlansAreSound'
    BY <2>2, <2>3, <2>4 DEF PlansAreSound
  <2>11. QED
    BY <2>8, <2>9, <2>10
<1>6. ASSUME NEW plan \in AppPlans, AppStores(plan)
      PROVE  PlanInv'
  <2>1. /\ plan \in Plans /\ plan \in [Week -> Entries]
        /\ \A d \in Week : plan[d] \in EntriesOf(AppPlans)
    BY AppPlanType
  <2>2. /\ mower' = plan /\ cloud' = [cloud EXCEPT !.plan = plan] /\ age' = 0
        /\ UNCHANGED <<now, code, pollVars, call>>
    BY <1>6 DEF AppStores
  <2>3. cloud' \in Settings /\ cloud'.plan = plan
    BY <2>1, <2>2 DEF TypeOK, Settings
  <2>4. 0 \in 0..Lag
    BY ScanBounds
  <2>5. TypeOK'
    BY <2>1, <2>2, <2>3, <2>4 DEF TypeOK, pollVars
  <2>6. QED
    BY <2>1, <2>2, <2>3, <2>5 DEF GridInv, PlansAreSound, pollVars
<1>7. CASE MasterSwitched \/ \E c \in Codes : MowerMoves(c)
  <2>1. cloud' \in Settings /\ cloud'.plan = cloud.plan
    BY <1>7 DEF MasterSwitched, MowerMoves, TypeOK, Settings, planVars
  <2>2. code' \in Codes /\ age' \in 0..Lag /\ UNCHANGED <<now, mower, pollVars, call>>
    BY <1>7, ScanBounds DEF MasterSwitched, MowerMoves, TypeOK, planVars
  <2>3. TypeOK'
    BY <2>1, <2>2 DEF TypeOK, pollVars
  <2>4. QED
    BY <2>1, <2>2, <2>3 DEF GridInv, PlansAreSound, pollVars
<1>8. CASE UNCHANGED vars
  BY <1>8 DEF vars, planVars, pollVars, TypeOK, GridInv, PlansAreSound
<1>9. QED
  BY <1>1, <1>2, <1>3, <1>4, <1>5, <1>6, <1>7, <1>8 DEF Next

(* The plans, the timer, the cycle and the calls keep their types: every   *)
(* next mow is within the week, and every day of a plan is of the grid.    *)
THEOREM TypeCorrect == Spec => [](TypeOK /\ GridInv)
<1>1. PlanInv => TypeOK /\ GridInv
  BY DEF PlanInv
<1>2. QED
  BY <1>1, PlanInvInit, PlanInvStep, PTL DEF Spec

(* Whatever calls overlap, and whatever stage of one fails, the service    *)
(* puts no reversed or overlapping periods on the mower or in the cloud:   *)
(* it is enough that _check_periods compares neighbours once sorted.       *)
THEOREM PlansStaySound == Spec => []PlansAreSound
<1>1. PlanInv => PlansAreSound
  BY DEF PlanInv
<1>2. QED
  BY <1>1, PlanInvInit, PlanInvStep, PTL DEF Spec

(* The next mow is the first start to come, and the calendar tells the     *)
(* same, of any plan the polls have read, at any moment of the week.       *)
THEOREM PlansAreToldRight == Spec => []PlanIsToldRight
<1>1. ASSUME PlanInv
      PROVE  PlanIsToldRight
  <2>1. now \in Moments /\ read.plan \in [Week -> Entries]
    BY <1>1 DEF PlanInv, TypeOK, GridInv
  <2>2. ScheduleSource(read) = read.plan
    BY <2>1, NextMowValue
  <2>3. NextMowIsSoonest
    BY <2>1, <2>2, SoonestIsFound DEF NextMowIsSoonest
  <2>4. CalendarAgrees
    BY <2>1, <2>2, CalendarTellsTheNextMow DEF CalendarAgrees
  <2>5. QED
    BY <2>3, <2>4 DEF PlanIsToldRight
<1>2. QED
  BY <1>1, PlanInvInit, PlanInvStep, PTL DEF Spec

-----------------------------------------------------------------------------
(* No start comes unwatched.                                               *)

LEMMA LaterAgain ==
  ASSUME NEW m \in Moments, NEW k \in Nat
  PROVE  Later(Later(m, 1), k) = Later(m, k + 1)
<1> DEFINE q == k \div WeekLen
           r == k % WeekLen
<1>1. m \in 0..(WeekLen - 1) /\ WeekLen \in Nat \ {0}
  BY Bounds DEF Moments, WeekLen
<1>2. CASE m + 1 < WeekLen
  <2>1. Later(m, 1) = m + 1
    <3>1. (0 * WeekLen + (m + 1)) % WeekLen = m + 1
      BY <1>1, <1>2, Parts
    <3>2. 0 * WeekLen + (m + 1) = m + 1
      BY <1>1
    <3>3. QED
      BY <3>1, <3>2 DEF Later
  <2>2. (m + 1) + k = m + (k + 1)
    BY <1>1
  <2>3. QED
    BY <2>1, <2>2 DEF Later
<1>3. CASE m + 1 = WeekLen
  <2>1. Later(m, 1) = 0
    <3>1. (1 * WeekLen + 0) % WeekLen = 0
      BY <1>1, Parts
    <3>2. 1 * WeekLen + 0 = m + 1
      BY <1>1, <1>3
    <3>3. QED
      BY <3>1, <3>2 DEF Later
  <2>2. q \in Nat /\ r \in 0..(WeekLen - 1) /\ k = WeekLen * q + r
    BY <1>1, DivMod
  <2> HIDE DEF q, r
  <2>3. m + (k + 1) = (q + 1) * WeekLen + r
    BY <1>1, <1>3, <2>2
  <2>4. ((q + 1) * WeekLen + r) % WeekLen = r
    BY <1>1, <2>2, Parts
  <2>5. 0 + k = k
    OBVIOUS
  <2>6. QED
    BY <2>1, <2>3, <2>4, <2>5 DEF Later, r
<1>4. QED
  BY <1>1, <1>2, <1>3

(* Every moment is one of the week to come.                                *)
LEMMA WithinTheWeek ==
  ASSUME NEW m \in Moments, NEW x \in Moments
  PROVE  \E by \in 1..WeekLen : Later(m, by) = x
<1>1. m \in 0..(WeekLen - 1) /\ x \in 0..(WeekLen - 1) /\ WeekLen \in Nat \ {0}
  BY Bounds DEF Moments, WeekLen
<1>2. CASE x > m
  <2>1. x - m \in 1..WeekLen /\ m + (x - m) = 0 * WeekLen + x
    BY <1>1, <1>2
  <2>2. (0 * WeekLen + x) % WeekLen = x
    BY <1>1, Parts
  <2>3. QED
    BY <2>1, <2>2 DEF Later
<1>3. CASE x <= m
  <2>1. x - m + WeekLen \in 1..WeekLen /\ m + (x - m + WeekLen) = 1 * WeekLen + x
    BY <1>1, <1>3
  <2>2. (1 * WeekLen + x) % WeekLen = x
    BY <1>1, Parts
  <2>3. QED
    BY <2>1, <2>2 DEF Later
<1>4. QED
  BY <1>1, <1>2, <1>3

(* A poll that puts the next off for longer than DefaultScan has seen that *)
(* no start comes before it.                                               *)
LEMMA IdleIsQuiet ==
  ASSUME NEW m \in Moments, NEW settings, settings.plan \in [Week -> Entries],
         settings.master # FALSE, NEW c,
         PollInterval(c, NextMow(settings, m)) > DefaultScan,
         NEW k \in 1..PollInterval(c, NextMow(settings, m))
  PROVE  ~StartsAt(settings.plan, Later(m, k))
<1> DEFINE next == NextMow(settings, m)
<1>1. /\ MowScan \in Nat /\ FastScan \in Nat /\ DefaultScan \in Nat /\ IdleScan \in Nat
      /\ MowSoon \in Nat /\ MowScan <= FastScan /\ FastScan <= DefaultScan
      /\ IdleScan <= MowSoon
  BY ScanAssumption
<1>2. next \in {NoMow} \union (1..WeekLen)
  BY NextMowType
<1>3. IsSoonest(next, settings.plan, m)
  BY SoonestIsFound
<1>4. (next = NoMow \/ next \notin 0..MowSoon) /\ k \in 1..IdleScan
  BY <1>1 DEF PollInterval
<1> HIDE DEF next
<1>5. CASE next = NoMow
  <2>1. Later(m, k) \in Moments
    BY <1>1, <1>4, LaterType
  <2>2. PICK by \in 1..WeekLen : Later(m, by) = Later(m, k)
    BY <2>1, WithinTheWeek
  <2>3. QED
    BY <1>3, <1>5, <2>2 DEF IsSoonest
<1>6. CASE next # NoMow
  <2>1. next \in 1..WeekLen /\ WeekLen \in Nat
    BY <1>2, <1>6, Bounds
  <2>2. k \in 1..(next - 1)
    BY <1>1, <1>4, <1>6, <2>1
  <2>3. QED
    BY <1>3, <1>6, <2>2 DEF IsSoonest
<1>7. QED
  BY <1>5, <1>6

(* The polls of a round that have been, the one under way included.        *)
Turn(c) == IF c = 0 THEN SlowEvery ELSE c

LEMMA TurnType ==
  ASSUME NEW c \in 0..(SlowEvery - 1)
  PROVE  /\ Turn(c) \in 1..SlowEvery
         /\ IdleScan <= Turn(c) * IdleScan /\ Turn(c) * IdleScan <= Lag
<1>1. SlowEvery \in Nat \ {0} /\ IdleScan \in Nat \ {0}
  BY ScanBounds
<1>2. Turn(c) \in 1..SlowEvery
  BY <1>1 DEF Turn
<1>3. 1 * IdleScan <= Turn(c) * IdleScan /\ Turn(c) * IdleScan <= SlowEvery * IdleScan
  BY <1>1, <1>2, Monotonic
<1>4. 1 * IdleScan = IdleScan
  BY <1>1
<1>5. QED
  BY <1>2, <1>3, <1>4 DEF Lag

(* A poll that does not read the settings goes on with the round.          *)
LEMMA TurnMoves ==
  ASSUME NEW c \in 0..(SlowEvery - 1), (c + 1) % SlowEvery # 1 % SlowEvery
  PROVE  Turn((c + 1) % SlowEvery) = Turn(c) + 1
<1>1. SlowEvery \in Nat \ {0}
  BY ScanBounds
<1>2. c # 0
  BY <1>1
<1>3. CASE c + 1 < SlowEvery
  <2>1. (0 * SlowEvery + (c + 1)) % SlowEvery = c + 1
    BY <1>1, <1>3, Parts
  <2>2. 0 * SlowEvery + (c + 1) = c + 1
    BY <1>1
  <2>3. QED
    BY <1>1, <1>2, <2>1, <2>2 DEF Turn
<1>4. CASE c + 1 = SlowEvery
  <2>1. (1 * SlowEvery + 0) % SlowEvery = 0
    BY <1>1, Parts
  <2>2. 1 * SlowEvery + 0 = c + 1
    BY <1>1, <1>4
  <2>3. QED
    BY <1>1, <1>2, <1>4, <2>1, <2>2 DEF Turn
<1>5. QED
  BY <1>1, <1>3, <1>4

(* A plan not read yet has stood for the polls of this round at the most,  *)
(* and no start of the plan read comes before a poll that is far off.      *)
SeenInv == read # cloud => age + pollIn <= Turn(cycle) * IdleScan

QuietInv ==
  read.master /\ pollIn > DefaultScan
    => \A k \in 1..pollIn : ~StartsAt(read.plan, Later(now, k))

WatchInv == SeenInv /\ QuietInv

LEMMA WatchInvInit == ASSUME Init, PlanInv PROVE WatchInv
<1>1. read = cloud /\ nextMow = NextMow(read, now) /\ pollIn = PollInterval(code, nextMow)
  BY DEF Init
<1>2. now \in Moments /\ read.plan \in [Week -> Entries]
  BY DEF PlanInv, TypeOK, GridInv
<1>3. QuietInv
  BY <1>1, <1>2, IdleIsQuiet DEF QuietInv
<1>4. QED
  BY <1>1, <1>3 DEF WatchInv, SeenInv

LEMMA WatchInvStep == ASSUME PlanInv, WatchInv, [Next]_vars PROVE WatchInv'
<1>1. /\ now \in Moments /\ read.plan \in [Week -> Entries]
      /\ pollIn \in 0..IdleScan /\ cycle \in 0..(SlowEvery - 1) /\ age \in 0..Lag
      /\ IdleScan \in Nat /\ DefaultScan \in Nat /\ DefaultScan <= IdleScan
      /\ SlowEvery \in Nat \ {0} /\ Lag \in Nat
  BY ScanBounds DEF PlanInv, TypeOK, GridInv
<1>2. Turn(cycle) \in Nat /\ Turn(cycle) * IdleScan \in Nat /\ IdleScan <= Turn(cycle) * IdleScan
  BY <1>1, TurnType
<1>3. CASE Tick
  <2>1. /\ pollIn > 0 /\ pollIn' = pollIn - 1 /\ now' = Later(now, 1)
        /\ UNCHANGED <<cloud, read, cycle>> /\ age' = Min({age + 1, Lag})
    BY <1>3 DEF Tick, planVars
  <2>2. age' <= age + 1 /\ age' \in Nat
    BY <1>1, <2>1, AgeType
  <2>3. SeenInv'
    BY <1>1, <1>2, <2>1, <2>2 DEF WatchInv, SeenInv
  <2>4. ASSUME read.master, pollIn' > DefaultScan, NEW k \in 1..pollIn'
        PROVE  ~StartsAt(read.plan, Later(now', k))
    <3>1. k + 1 \in 1..pollIn /\ pollIn > DefaultScan /\ k \in Nat
      BY <1>1, <2>1, <2>4
    <3>2. ~StartsAt(read.plan, Later(now, k + 1))
      BY <2>4, <3>1 DEF WatchInv, QuietInv
    <3>3. QED
      BY <1>1, <2>1, <3>1, <3>2, LaterAgain
  <2>5. QuietInv'
    BY <2>1, <2>4 DEF QuietInv
  <2>6. QED
    BY <2>3, <2>5 DEF WatchInv
<1>4. CASE PollReads
  <2>1. /\ pollIn = 0 /\ cycle' = (cycle + 1) % SlowEvery /\ UNCHANGED <<now, cloud>>
        /\ nextMow' = NextMow(read', now) /\ pollIn' = PollInterval(code, nextMow')
    BY <1>4 DEF PollReads, planVars
  <2>2. \/ read' = cloud
        \/ age' = 0
        \/ cycle' # 1 % SlowEvery /\ read' = read /\ age' = age
    BY <1>4 DEF PollReads
  <2>3. read'.plan \in [Week -> Entries]
    BY <1>4 DEF PollReads, PlanInv, GridInv
  <2>4. QuietInv'
    BY <1>1, <2>1, <2>3, IdleIsQuiet DEF QuietInv
  <2>5. pollIn' \in 0..IdleScan /\ cycle' \in 0..(SlowEvery - 1)
    BY <1>1, <2>1, IntervalType, CycleType
  <2>6. CASE age' = 0
    <3>1. IdleScan <= Turn(cycle') * IdleScan /\ Turn(cycle') * IdleScan \in Nat
      BY <1>1, <2>5, TurnType
    <3>2. QED
      BY <1>1, <2>4, <2>5, <2>6, <3>1 DEF WatchInv, SeenInv
  <2>7. CASE cycle' # 1 % SlowEvery /\ read' = read /\ age' = age
    <3>1. Turn(cycle') = Turn(cycle) + 1
      BY <1>1, <2>1, <2>7, TurnMoves
    <3>2. Turn(cycle') * IdleScan = Turn(cycle) * IdleScan + IdleScan
      BY <1>1, <1>2, <3>1
    <3>3. SeenInv'
      BY <1>1, <1>2, <2>1, <2>5, <2>7, <3>2 DEF WatchInv, SeenInv
    <3>4. QED
      BY <2>4, <3>3 DEF WatchInv
  <2>8. QED
    BY <2>1, <2>2, <2>4, <2>6, <2>7 DEF WatchInv, SeenInv
<1>5. CASE PollFails
  <2>1. pollIn' = DefaultScan /\ age' = 0 /\ cycle' = (cycle + 1) % SlowEvery
    BY <1>5 DEF PollFails
  <2>2. cycle' \in 0..(SlowEvery - 1)
    BY <1>1, <2>1, CycleType
  <2>3. IdleScan <= Turn(cycle') * IdleScan /\ Turn(cycle') * IdleScan \in Nat
    BY <1>1, <2>2, TurnType
  <2>4. QED
    BY <1>1, <2>1, <2>3 DEF WatchInv, SeenInv, QuietInv
<1>6. ASSUME UNCHANGED <<now, read, cycle>>, pollIn' \in {pollIn, 0},
             age' = 0 \/ (age' = age /\ cloud' = cloud)
      PROVE  WatchInv'
  <2>1. SeenInv'
    BY <1>1, <1>2, <1>6 DEF WatchInv, SeenInv
  <2>2. QuietInv'
    BY <1>1, <1>6 DEF WatchInv, QuietInv
  <2>3. QED
    BY <2>1, <2>2 DEF WatchInv
<1>7. ASSUME NEW c \in Calls, CloudStage(c)
      PROVE  WatchInv'
  <2>1. /\ UNCHANGED <<now, read, cycle>> /\ pollIn' \in {pollIn, 0}
        /\ age' = IF cloud' = cloud THEN age ELSE 0
    BY <1>7 DEF CloudStage
  <2>2. QED
    BY <1>6, <2>1
<1>8. ASSUME NEW c \in Calls, DeviceStage(c) \/ \E r \in Requests : SetCalled(c, r)
      PROVE  WatchInv'
  <2>1. UNCHANGED <<now, read, cycle, pollIn, age, cloud>>
    BY <1>8 DEF DeviceStage, SetCalled, pollVars, planVars
  <2>2. QED
    BY <1>6, <2>1
<1>9. CASE MasterSwitched \/ (\E plan \in AppPlans : AppStores(plan))
           \/ (\E c \in Codes : MowerMoves(c)) \/ UNCHANGED vars
  <2>1. /\ UNCHANGED <<now, read, cycle, pollIn>>
        /\ age' = 0 \/ (age' = age /\ cloud' = cloud)
    BY <1>9 DEF MasterSwitched, AppStores, MowerMoves, vars, pollVars, planVars
  <2>2. QED
    BY <1>6, <2>1
<1>10. QED
  BY <1>3, <1>4, <1>5, <1>7, <1>8, <1>9 DEF Next

(* When a start comes of a plan that has stood for a round of polls, the   *)
(* next poll is near, for any intervals in order and a window no shorter   *)
(* than an idle one, whatever the service, the app and the mower do        *)
(* meanwhile (_poll_interval, MOW_SOON_WINDOW).                            *)
THEOREM StartsAreWatched == Spec => StartIsWatched
<1>1. Init => PlanInv /\ WatchInv
  BY PlanInvInit, WatchInvInit
<1>2. PlanInv /\ WatchInv /\ [Next]_vars => (PlanInv /\ WatchInv)'
  BY PlanInvStep, WatchInvStep
<1>3. ASSUME PlanInv, WatchInv, Next, now' # now, cloud.master,
             StartsAt(ScheduleSource(cloud), now'), age' = Lag
      PROVE  pollIn' <= DefaultScan
  <2>1. /\ now \in Moments /\ cloud.plan \in [Week -> Entries]
        /\ pollIn \in 0..IdleScan /\ age \in 0..Lag /\ cycle \in 0..(SlowEvery - 1)
        /\ IdleScan \in Nat /\ DefaultScan \in Nat /\ Lag \in Nat
    BY <1>3, ScanBounds DEF PlanInv, TypeOK, GridInv
  <2>2. Tick
    BY <1>3 DEF Next, PollReads, PollFails, SetCalled, DeviceStage, CloudStage,
                AppStores, MasterSwitched, MowerMoves
  <2>3. /\ pollIn > 0 /\ pollIn' = pollIn - 1 /\ now' = Later(now, 1)
        /\ age' = Min({age + 1, Lag})
    BY <2>2 DEF Tick
  <2>4. age' <= age + 1
    BY <2>1, <2>3, AgeType
  <2>5. ScheduleSource(cloud) = cloud.plan
    BY <2>1, NextMowValue
  <2>6. CASE read # cloud
    <3>1. age + pollIn <= Turn(cycle) * IdleScan /\ Turn(cycle) * IdleScan <= Lag
          /\ Turn(cycle) * IdleScan \in Nat
      BY <1>3, <2>1, <2>6, TurnType DEF WatchInv, SeenInv
    <3>2. QED
      BY <1>3, <2>1, <2>3, <2>4, <3>1
  <2>7. CASE read = cloud
    <3>1. SUFFICES ASSUME pollIn > DefaultScan
                   PROVE  FALSE
      BY <2>1, <2>3
    <3>2. 1 \in 1..pollIn
      BY <2>1, <2>3
    <3>3. QED
      BY <1>3, <2>3, <2>5, <2>7, <3>1, <3>2 DEF WatchInv, QuietInv
  <2>8. QED
    BY <2>6, <2>7
<1>4. PlanInv /\ WatchInv /\ [Next]_vars
      => [/\ now' # now
          /\ cloud.master /\ StartsAt(ScheduleSource(cloud), now')
          /\ age' = Lag
          => pollIn' <= DefaultScan]_vars
  BY <1>3
<1>5. QED
  BY <1>1, <1>2, <1>4, PTL DEF Spec, StartIsWatched

=============================================================================
