-------------------------- MODULE Timers_proofs ------------------------------
(***************************************************************************)
(* Proofs about the software timers, for any timers and any calls.  The    *)
(* service keeps the deadlines: the list is well formed, its differences   *)
(* add up, and each expiry is one message.  The buzzer and the led, which  *)
(* share the list, are on and off as their plans have it.                  *)
(***************************************************************************)
EXTENDS Indicators, TimerService, SequenceTheorems, FiniteSetTheorems, WellFoundedInduction, TLAPS

\* A set of numbers has a least one: induction over the length of a list.
LEMMA LeastNat ==
  ASSUME NEW S \in SUBSET Nat, S # {}
  PROVE  \E n \in S : \A m \in S : n <= m
<1>1. IsWellFoundedOn(OpToRel(<, Nat), Nat)
  BY NatLessThanWellFounded
<1>2. PICK n \in S : \A m \in S : ~(<<m, n>> \in OpToRel(<, Nat))
  BY <1>1, WFMin
<1>3. \A m \in S : ~(m < n)
  BY <1>2 DEF OpToRel
<1> QED
  BY <1>3

\* A set of numbers with a bound has a greatest one.
LEMMA MaxIs ==
  ASSUME NEW n \in Nat, NEW S \in SUBSET (0 .. n), S # {}
  PROVE  Max(S) \in S /\ \A x \in S : x <= Max(S)
<1> DEFINE U == {m \in Nat : \A x \in S : x <= m}
<1>1. U # {} /\ U \in SUBSET Nat
  <2>1. n \in U
    OBVIOUS
  <2> QED
    BY <2>1
<1>2. PICK m \in U : \A k \in U : m <= k
  BY <1>1, LeastNat
<1>3. m \in S
  <2> SUFFICES ASSUME m \notin S PROVE FALSE
    OBVIOUS
  <2>0. m \in Nat /\ \A x \in S : x \in Nat /\ x <= m
    BY <1>2
  <2>1. m # 0
    <3>1. PICK x \in S : TRUE
      OBVIOUS
    <3> QED
      BY <2>0, <3>1
  <2>2. m - 1 \in U
    <3>1. m - 1 \in Nat
      BY <1>2, <2>1
    <3>2. \A x \in S : x <= m /\ x # m /\ x \in Nat
      BY <1>2
    <3>3. \A x \in S : x <= m - 1
      BY <1>2, <3>2
    <3> QED
      BY <3>1, <3>3
  <2> QED
    BY <1>2, <2>2
<1>4. \E x \in S : \A y \in S : x >= y
  BY <1>2, <1>3
<1> QED
  BY <1>4 DEF Max

-----------------------------------------------------------------------------
(* Lists of timers *)

Holds(s, t) == \E i \in 1 .. Len(s) : s[i] = t

Distinct(s) == s \in Seq(Timers) /\ \A i, j \in 1 .. Len(s) : s[i] = s[j] => i = j

\* A part of a list.
LEMMA Slice ==
  ASSUME NEW s, Distinct(s), NEW m \in Nat, NEW n \in Nat, 1 <= m, n <= Len(s)
  PROVE  /\ Distinct(SubSeq(s, m, n))
         /\ \A u : Holds(SubSeq(s, m, n), u) <=> \E i \in m .. n : s[i] = u
<1> DEFINE r == SubSeq(s, m, n)
<1>1. s \in Seq(Timers) /\ Len(s) \in Nat /\ \A i, j \in 1 .. Len(s) : s[i] = s[j] => i = j
  BY DEF Distinct
<1>2. \A i \in m .. n : i \in 1 .. Len(s) /\ s[i] \in Timers
  BY <1>1
<1>3. /\ r \in Seq(Timers) /\ Len(r) = IF m <= n THEN n - m + 1 ELSE 0
      /\ \A i \in 1 .. n - m + 1 : r[i] = s[m + i - 1]
  BY <1>2, SubSeqProperties
<1> HIDE DEF r
<1>4. \A i \in 1 .. Len(r) : m + i - 1 \in m .. n /\ r[i] = s[m + i - 1]
  BY <1>3
<1>5. \A i \in m .. n : i - m + 1 \in 1 .. Len(r) /\ r[i - m + 1] = s[i]
  <2>1. ASSUME NEW i \in m .. n
        PROVE  i - m + 1 \in 1 .. n - m + 1 /\ m + (i - m + 1) - 1 = i /\ m <= n
    OBVIOUS
  <2> QED
    BY <1>3, <2>1
<1>6. ASSUME NEW i \in 1 .. Len(r), NEW j \in 1 .. Len(r), r[i] = r[j] PROVE i = j
  <2>1. m + i - 1 = m + j - 1
    BY <1>1, <1>2, <1>4, <1>6
  <2>2. i \in Nat /\ j \in Nat
    BY <1>3
  <2> QED
    BY <2>1, <2>2
<1>7. Distinct(r)
  BY <1>3, <1>6 DEF Distinct
<1>8. \A u : Holds(r, u) <=> \E i \in m .. n : s[i] = u
  BY <1>4, <1>5 DEF Holds
<1> QED
  BY <1>7, <1>8 DEF r

\* Two lists one after the other.
LEMMA Joined ==
  ASSUME NEW a, NEW b, Distinct(a), Distinct(b), \A u : ~(Holds(a, u) /\ Holds(b, u))
  PROVE  /\ Distinct(a \o b)
         /\ \A u : Holds(a \o b, u) <=> Holds(a, u) \/ Holds(b, u)
<1> DEFINE r == a \o b
<1>1. /\ a \in Seq(Timers) /\ Len(a) \in Nat /\ \A i, j \in 1 .. Len(a) : a[i] = a[j] => i = j
      /\ b \in Seq(Timers) /\ Len(b) \in Nat /\ \A i, j \in 1 .. Len(b) : b[i] = b[j] => i = j
  BY DEF Distinct
<1>2. /\ r \in Seq(Timers) /\ Len(r) = Len(a) + Len(b)
      /\ \A i \in 1 .. Len(a) + Len(b) : r[i] = IF i <= Len(a) THEN a[i] ELSE b[i - Len(a)]
  BY <1>1, ConcatProperties
<1> HIDE DEF r
<1>3. \A i \in 1 .. Len(r) : \/ i \in 1 .. Len(a) /\ r[i] = a[i]
                             \/ i - Len(a) \in 1 .. Len(b) /\ r[i] = b[i - Len(a)]
  BY <1>1, <1>2
<1>4. \A i \in 1 .. Len(a) : i \in 1 .. Len(r) /\ r[i] = a[i]
  BY <1>1, <1>2
<1>5. \A i \in 1 .. Len(b) : i + Len(a) \in 1 .. Len(r) /\ r[i + Len(a)] = b[i]
  <2>1. ASSUME NEW i \in 1 .. Len(b)
        PROVE  i + Len(a) \in 1 .. Len(a) + Len(b) /\ ~(i + Len(a) <= Len(a)) /\ i + Len(a) - Len(a) = i
    BY <1>1
  <2> QED
    BY <1>2, <2>1
<1>6. \A u : Holds(r, u) <=> Holds(a, u) \/ Holds(b, u)
  <2>1. ASSUME NEW u, NEW i \in 1 .. Len(r), r[i] = u PROVE Holds(a, u) \/ Holds(b, u)
    <3>1. CASE i \in 1 .. Len(a) /\ r[i] = a[i]
      BY <2>1, <3>1 DEF Holds
    <3>2. CASE i - Len(a) \in 1 .. Len(b) /\ r[i] = b[i - Len(a)]
      BY <2>1, <3>2 DEF Holds
    <3> QED
      BY <1>3, <3>1, <3>2
  <2>2. ASSUME NEW u, NEW i \in 1 .. Len(a), a[i] = u PROVE Holds(r, u)
    BY <1>4, <2>2 DEF Holds
  <2>3. ASSUME NEW u, NEW i \in 1 .. Len(b), b[i] = u PROVE Holds(r, u)
    BY <1>5, <2>3 DEF Holds
  <2> QED
    BY <2>1, <2>2, <2>3 DEF Holds
<1>7. ASSUME NEW i \in 1 .. Len(r), NEW j \in 1 .. Len(r), r[i] = r[j] PROVE i = j
  <2>1. CASE i \in 1 .. Len(a) /\ r[i] = a[i] /\ j \in 1 .. Len(a) /\ r[j] = a[j]
    BY <1>1, <1>7, <2>1
  <2>2. CASE /\ i - Len(a) \in 1 .. Len(b) /\ r[i] = b[i - Len(a)]
             /\ j - Len(a) \in 1 .. Len(b) /\ r[j] = b[j - Len(a)]
    <3>1. i - Len(a) = j - Len(a)
      BY <1>1, <1>7, <2>2
    <3>2. i \in Nat /\ j \in Nat
      BY <1>2
    <3> QED
      BY <1>1, <3>1, <3>2
  <2>3. CASE \/ i \in 1 .. Len(a) /\ r[i] = a[i] /\ j - Len(a) \in 1 .. Len(b) /\ r[j] = b[j - Len(a)]
             \/ j \in 1 .. Len(a) /\ r[j] = a[j] /\ i - Len(a) \in 1 .. Len(b) /\ r[i] = b[i - Len(a)]
    BY <1>7, <2>3 DEF Holds
  <2> QED
    BY <1>3, <2>1, <2>2, <2>3
<1>8. Distinct(r)
  BY <1>2, <1>7 DEF Distinct
<1> QED
  BY <1>6, <1>8 DEF r

LEMMA Single ==
  ASSUME NEW t \in Timers
  PROVE  Distinct(<<t>>) /\ \A u : Holds(<<t>>, u) <=> u = t
<1>1. <<t>> \in Seq(Timers) /\ Len(<<t>>) = 1 /\ <<t>>[1] = t
  OBVIOUS
<1>2. \A i \in 1 .. 1 : i = 1
  OBVIOUS
<1> QED
  BY <1>1, <1>2 DEF Distinct, Holds

LEMMA InsertHolds ==
  ASSUME NEW s, Distinct(s), NEW at \in 1 .. Len(s) + 1, NEW t \in Timers, ~Holds(s, t)
  PROVE  /\ Distinct(InsertAt(s, at, t))
         /\ \A u : Holds(InsertAt(s, at, t), u) <=> Holds(s, u) \/ u = t
<1> DEFINE a == SubSeq(s, 1, at - 1)
           b == SubSeq(s, at, Len(s))
<1>1. /\ Len(s) \in Nat /\ \A i, j \in 1 .. Len(s) : s[i] = s[j] => i = j
      /\ at \in Nat /\ at - 1 \in Nat /\ 1 <= at /\ at - 1 <= Len(s)
  BY DEF Distinct
<1>2. Distinct(a) /\ \A u : Holds(a, u) <=> \E i \in 1 .. at - 1 : s[i] = u
  BY <1>1, Slice
<1>3. Distinct(b) /\ \A u : Holds(b, u) <=> \E i \in at .. Len(s) : s[i] = u
  BY <1>1, Slice
<1> HIDE DEF a, b
<1>4. /\ \A i \in 1 .. at - 1 : i \in 1 .. Len(s) /\ i \notin at .. Len(s)
      /\ \A i \in at .. Len(s) : i \in 1 .. Len(s)
      /\ \A i \in 1 .. Len(s) : i \in 1 .. at - 1 \/ i \in at .. Len(s)
  BY <1>1
<1>5. \A u : Holds(s, u) <=> Holds(a, u) \/ Holds(b, u)
  BY <1>2, <1>3, <1>4 DEF Holds
<1>6. \A u : ~(Holds(a, u) /\ Holds(b, u))
  BY <1>1, <1>2, <1>3, <1>4
<1>7. /\ Distinct(a \o <<t>>)
      /\ \A u : Holds(a \o <<t>>, u) <=> Holds(a, u) \/ u = t
  BY <1>2, <1>5, Single, Joined
<1>8. /\ Distinct((a \o <<t>>) \o b)
      /\ \A u : Holds((a \o <<t>>) \o b, u) <=> Holds(a, u) \/ u = t \/ Holds(b, u)
  <2>1. \A u : ~(Holds(a \o <<t>>, u) /\ Holds(b, u))
    BY <1>5, <1>6, <1>7
  <2> QED
    BY <1>3, <1>7, <2>1, Joined
<1>9. InsertAt(s, at, t) = (a \o <<t>>) \o b
  BY DEF InsertAt, a, b
<1> QED
  BY <1>5, <1>8, <1>9

LEMMA RemoveHolds ==
  ASSUME NEW s, Distinct(s), NEW at \in 1 .. Len(s)
  PROVE  /\ Distinct(RemoveAt(s, at))
         /\ \A u : Holds(RemoveAt(s, at), u) <=> Holds(s, u) /\ u # s[at]
<1> DEFINE a == SubSeq(s, 1, at - 1)
           b == SubSeq(s, at + 1, Len(s))
<1>1. /\ Len(s) \in Nat /\ \A i, j \in 1 .. Len(s) : s[i] = s[j] => i = j
      /\ at \in Nat /\ at - 1 \in Nat /\ at + 1 \in Nat /\ 1 <= at + 1 /\ at - 1 <= Len(s)
  BY DEF Distinct
<1>2. Distinct(a) /\ \A u : Holds(a, u) <=> \E i \in 1 .. at - 1 : s[i] = u
  BY <1>1, Slice
<1>3. Distinct(b) /\ \A u : Holds(b, u) <=> \E i \in at + 1 .. Len(s) : s[i] = u
  BY <1>1, Slice
<1> HIDE DEF a, b
<1>4. /\ \A i \in 1 .. at - 1 : i \in 1 .. Len(s) /\ i \notin at + 1 .. Len(s) /\ i # at
      /\ \A i \in at + 1 .. Len(s) : i \in 1 .. Len(s) /\ i # at
      /\ \A i \in 1 .. Len(s) : i \in 1 .. at - 1 \/ i \in at + 1 .. Len(s) \/ i = at
  BY <1>1
<1>5. \A u : Holds(s, u) /\ u # s[at] <=> Holds(a, u) \/ Holds(b, u)
  <2>1. ASSUME NEW i \in 1 .. Len(s), s[i] # s[at] PROVE Holds(a, s[i]) \/ Holds(b, s[i])
    BY <1>2, <1>3, <1>4, <2>1
  <2>2. ASSUME NEW u, NEW i \in 1 .. at - 1, s[i] = u PROVE Holds(s, u) /\ u # s[at]
    BY <1>1, <1>4, <2>2 DEF Holds
  <2>3. ASSUME NEW u, NEW i \in at + 1 .. Len(s), s[i] = u PROVE Holds(s, u) /\ u # s[at]
    BY <1>1, <1>4, <2>3 DEF Holds
  <2>4. ASSUME NEW u PROVE Holds(s, u) /\ u # s[at] => Holds(a, u) \/ Holds(b, u)
    BY <2>1 DEF Holds
  <2>5. ASSUME NEW u PROVE Holds(a, u) => Holds(s, u) /\ u # s[at]
    BY <1>2, <2>2
  <2>6. ASSUME NEW u PROVE Holds(b, u) => Holds(s, u) /\ u # s[at]
    BY <1>3, <2>3
  <2> QED
    BY <2>4, <2>5, <2>6
<1>6. \A u : ~(Holds(a, u) /\ Holds(b, u))
  BY <1>1, <1>2, <1>3, <1>4
<1>7. /\ Distinct(a \o b)
      /\ \A u : Holds(a \o b, u) <=> Holds(a, u) \/ Holds(b, u)
  BY <1>2, <1>3, <1>6, Joined
<1>8. RemoveAt(s, at) = a \o b
  BY DEF RemoveAt, a, b
<1> QED
  BY <1>5, <1>7, <1>8

-----------------------------------------------------------------------------
(* What the operations of the kernel do to the timers *)

Record(m) ==
  m = [list |-> m.list, state |-> m.state, tcnt |-> m.tcnt, icnt |-> m.icnt,
       queue |-> m.queue, busy |-> m.busy, error |-> m.error]

\* A timer is in the list once, and only while it runs.
Well(m) ==
  /\ Record(m) /\ Distinct(m.list) /\ m.queue \in Seq(Timers)
  /\ m.state \in [Timers -> {"Invalid", "Stopped", "Running"}] /\ DOMAIN m.icnt = Timers
  /\ \A u \in Timers : m.state[u] = "Running" <=> Holds(m.list, u)

\* r has the same timers as m, created and not.
Alike(r, m) == \A u \in Timers : r.state[u] = "Invalid" <=> m.state[u] = "Invalid"

\* The timer thread takes what comes while it waits.
Served(m) == m.busy = NoTimer => m.queue = <<>>

\* Timer t does not run, and no callback of it is under way or to come.
Quiet(m, t) == ~Holds(m.list, t) /\ ~Holds(m.queue, t) /\ m.busy # t

\* r differs from m in the list and its delays only.
Relinked(r, m) ==
  /\ Record(r) /\ Distinct(r.list)
  /\ r.state = m.state /\ r.icnt = m.icnt /\ r.queue = m.queue /\ r.busy = m.busy
  /\ r.error = m.error

\* Where Insert puts a timer of n ticks, and the delays then.
Spot(m, n) == 1 + Max({0} \union {i \in DOMAIN m.list : Left(m, i) <= n})
Parted(m, t, n) ==
  [u \in Timers |-> IF u = t THEN n - Left(m, Spot(m, n) - 1)
                    ELSE IF Spot(m, n) <= Len(m.list) /\ u = m.list[Spot(m, n)]
                      THEN (m.tcnt[u] - (n - Left(m, Spot(m, n) - 1))) % Width ELSE m.tcnt[u]]

LEMMA SpotIs ==
  ASSUME NEW m, Distinct(m.list), NEW n
  PROVE  /\ Spot(m, n) \in 1 .. Len(m.list) + 1
         /\ \A i \in 1 .. Len(m.list) : Left(m, i) <= n => i < Spot(m, n)
         /\ Spot(m, n) # 1 => Left(m, Spot(m, n) - 1) <= n
<1> DEFINE before == {i \in DOMAIN m.list : Left(m, i) <= n}
           last   == Max({0} \union before)
<1>1. Len(m.list) \in Nat /\ before = {i \in 1 .. Len(m.list) : Left(m, i) <= n}
  BY DEF Distinct
<1>2. Spot(m, n) = 1 + last
  BY DEF Spot
<1> HIDE DEF before
<1>3. {0} \union before \subseteq 0 .. Len(m.list)
  BY <1>1
<1>4. last \in {0} \union before /\ \A x \in {0} \union before : x <= last
  BY <1>1, <1>3, MaxIs
<1> HIDE DEF last
<1>5. last \in 0 .. Len(m.list) /\ (last # 0 => Left(m, last) <= n)
  BY <1>1, <1>3, <1>4
<1>6. \A i \in 1 .. Len(m.list) : Left(m, i) <= n => i <= last
  BY <1>1, <1>4
<1>7. last \in Int /\ 1 + last - 1 = last /\ 1 + last \in 1 .. Len(m.list) + 1
      /\ (1 + last # 1 => last # 0) /\ \A i \in 1 .. Len(m.list) : i <= last => i < 1 + last
  BY <1>1, <1>5
<1> QED
  BY <1>2, <1>5, <1>6, <1>7

LEMMA InsertIs ==
  ASSUME NEW m, Record(m), NEW t, NEW n
  PROVE  /\ Record(Insert(m, t, n))
         /\ Insert(m, t, n).list = InsertAt(m.list, Spot(m, n), t)
         /\ Insert(m, t, n).tcnt = Parted(m, t, n)
         /\ Insert(m, t, n).state = m.state /\ Insert(m, t, n).icnt = m.icnt
         /\ Insert(m, t, n).queue = m.queue /\ Insert(m, t, n).busy = m.busy
         /\ Insert(m, t, n).error = m.error
<1> DEFINE l == InsertAt(m.list, Spot(m, n), t)
           c == Parted(m, t, n)
           r == Insert(m, t, n)
<1>1. r = [m EXCEPT !.list = l, !.tcnt = c]
  BY DEF Insert, Record, Spot, Parted
<1> HIDE DEF l, c, r
<1>2. r = [list |-> l, state |-> m.state, tcnt |-> c, icnt |-> m.icnt, queue |-> m.queue,
           busy |-> m.busy, error |-> m.error]
  BY <1>1 DEF Record
<1>3. /\ Record(r) /\ r.list = l /\ r.tcnt = c
      /\ r.state = m.state /\ r.icnt = m.icnt /\ r.queue = m.queue /\ r.busy = m.busy
      /\ r.error = m.error
  BY <1>2 DEF Record
<1> QED
  BY <1>3 DEF l, c, r

LEMMA InsertGives ==
  ASSUME NEW m, Record(m), Distinct(m.list), NEW t \in Timers, ~Holds(m.list, t), NEW n
  PROVE  /\ Relinked(Insert(m, t, n), m)
         /\ \A u : Holds(Insert(m, t, n).list, u) <=> Holds(m.list, u) \/ u = t
<1> DEFINE l == InsertAt(m.list, Spot(m, n), t)
           r == Insert(m, t, n)
<1>1. /\ Spot(m, n) \in 1 .. Len(m.list) + 1 /\ Record(r) /\ r.list = l
      /\ r.state = m.state /\ r.icnt = m.icnt /\ r.queue = m.queue /\ r.busy = m.busy
      /\ r.error = m.error
  BY SpotIs, InsertIs
<1>2. Distinct(l) /\ \A u : Holds(l, u) <=> Holds(m.list, u) \/ u = t
  BY <1>1, InsertHolds
<1> HIDE DEF l, r
<1> QED
  BY <1>1, <1>2 DEF Relinked, r

LEMMA PlaceIs ==
  ASSUME NEW m, Distinct(m.list), NEW t, Holds(m.list, t)
  PROVE  Place(m, t) \in 1 .. Len(m.list) /\ m.list[Place(m, t)] = t
<1> DEFINE I == {i \in 1 .. Len(m.list) : m.list[i] = t}
<1>1. I # {} /\ I \in SUBSET Nat
  BY DEF Holds
<1>2. Place(m, t) = Min(I)
  BY <1>1 DEF Place, SelectInSeq
<1>3. Min(I) \in I
  BY <1>1, LeastNat DEF Min
<1> QED
  BY <1>2, <1>3

\* The delays without t.
Joint(m, t) ==
  [u \in Timers |-> IF Place(m, t) < Len(m.list) /\ u = m.list[Place(m, t) + 1]
                      THEN (m.tcnt[u] + m.tcnt[t]) % Width ELSE m.tcnt[u]]

LEMMA RemoveIs ==
  ASSUME NEW m, Record(m), NEW t
  PROVE  /\ Record(RemoveTimer(m, t))
         /\ RemoveTimer(m, t).list = RemoveAt(m.list, Place(m, t))
         /\ RemoveTimer(m, t).tcnt = Joint(m, t)
         /\ RemoveTimer(m, t).state = m.state /\ RemoveTimer(m, t).icnt = m.icnt
         /\ RemoveTimer(m, t).queue = m.queue /\ RemoveTimer(m, t).busy = m.busy
         /\ RemoveTimer(m, t).error = m.error
<1> DEFINE l  == RemoveAt(m.list, Place(m, t))
           c  == Joint(m, t)
           r  == RemoveTimer(m, t)
<1>1. r = [m EXCEPT !.list = l, !.tcnt = c]
  BY DEF RemoveTimer, Record, Joint
<1> HIDE DEF l, c, r
<1>2. r = [list |-> l, state |-> m.state, tcnt |-> c, icnt |-> m.icnt, queue |-> m.queue,
           busy |-> m.busy, error |-> m.error]
  BY <1>1 DEF Record
<1>3. /\ Record(r) /\ r.list = l /\ r.tcnt = c
      /\ r.state = m.state /\ r.icnt = m.icnt /\ r.queue = m.queue /\ r.busy = m.busy
      /\ r.error = m.error
  BY <1>2 DEF Record
<1> QED
  BY <1>3 DEF l, c, r

LEMMA RemoveGives ==
  ASSUME NEW m, Record(m), Distinct(m.list), NEW t \in Timers, Holds(m.list, t)
  PROVE  /\ Relinked(RemoveTimer(m, t), m)
         /\ \A u : Holds(RemoveTimer(m, t).list, u) <=> Holds(m.list, u) /\ u # t
<1> DEFINE l == RemoveAt(m.list, Place(m, t))
           r == RemoveTimer(m, t)
<1>1. Place(m, t) \in 1 .. Len(m.list) /\ m.list[Place(m, t)] = t
  BY PlaceIs
<1>2. /\ Record(r) /\ r.list = l
      /\ r.state = m.state /\ r.icnt = m.icnt /\ r.queue = m.queue /\ r.busy = m.busy
      /\ r.error = m.error
  BY RemoveIs
<1>3. Distinct(l) /\ \A u : Holds(l, u) <=> Holds(m.list, u) /\ u # t
  BY <1>1, RemoveHolds
<1> HIDE DEF l, r
<1> QED
  BY <1>2, <1>3 DEF Relinked, r

LEMMA StopGives ==
  ASSUME NEW m, Well(m), NEW t \in Timers
  PROVE  /\ Well(TimerStop(m, t)) /\ ~Holds(TimerStop(m, t).list, t)
         /\ \A u : Holds(TimerStop(m, t).list, u) => Holds(m.list, u)
         /\ TimerStop(m, t).icnt = m.icnt /\ TimerStop(m, t).queue = m.queue
         /\ TimerStop(m, t).busy = m.busy /\ Alike(TimerStop(m, t), m)
         /\ TimerStop(m, t).error = m.error
<1>1. CASE m.state[t] # "Running"
  BY <1>1 DEF TimerStop, Well, Alike
<1>2. CASE m.state[t] = "Running"
  <2> DEFINE k == [m EXCEPT !.state[t] = "Stopped"]
             r == RemoveTimer(k, t)
  <2>1. k = [list |-> m.list, state |-> [m.state EXCEPT ![t] = "Stopped"], tcnt |-> m.tcnt,
             icnt |-> m.icnt, queue |-> m.queue, busy |-> m.busy, error |-> m.error]
    <3>1. Record(m) /\ k = [m EXCEPT !.state = [m.state EXCEPT ![t] = "Stopped"]]
      BY DEF Well
    <3> QED
      BY <3>1 DEF Record
  <2>2. TimerStop(m, t) = r
    BY <1>2 DEF TimerStop
  <2> HIDE DEF k
  <2>3. /\ Record(k) /\ k.list = m.list /\ k.icnt = m.icnt /\ k.queue = m.queue /\ k.busy = m.busy
        /\ k.state = [m.state EXCEPT ![t] = "Stopped"] /\ k.error = m.error
    BY <2>1 DEF Record
  <2>4. Distinct(k.list) /\ Holds(k.list, t)
    BY <1>2, <2>3 DEF Well
  <2>5. /\ Relinked(r, k)
        /\ \A u : Holds(r.list, u) <=> Holds(m.list, u) /\ u # t
    BY <2>3, <2>4, RemoveGives
  <2> HIDE DEF r
  <2>6. /\ r.state \in [Timers -> {"Invalid", "Stopped", "Running"}]
        /\ \A u \in Timers : r.state[u] = IF u = t THEN "Stopped" ELSE m.state[u]
    BY <2>3, <2>5 DEF Relinked, Well
  <2>7. \A u \in Timers : r.state[u] = "Running" <=> Holds(r.list, u)
    BY <2>5, <2>6 DEF Well
  <2>8. Well(r)
    BY <2>3, <2>5, <2>6, <2>7 DEF Relinked, Well
  <2>9. Alike(r, m)
    BY <1>2, <2>6 DEF Alike
  <2> QED
    BY <2>2, <2>3, <2>5, <2>8, <2>9 DEF Relinked
<1> QED
  BY <1>1, <1>2

LEMMA StartGives ==
  ASSUME NEW m, Well(m), NEW t \in Timers, NEW ms
  PROVE  /\ Well(TimerStart(m, t, ms))
         /\ \A u : Holds(TimerStart(m, t, ms).list, u) => Holds(m.list, u) \/ u = t
         /\ TimerStart(m, t, ms).queue = m.queue /\ TimerStart(m, t, ms).busy = m.busy
         /\ \A u \in Timers \ {t} : TimerStart(m, t, ms).icnt[u] = m.icnt[u]
         /\ Ticks(ms) # 0 /\ m.state[t] = "Stopped" => TimerStart(m, t, ms).icnt[t] = Ticks(ms)
         /\ Alike(TimerStart(m, t, ms), m)
<1> DEFINE n == Ticks(ms)
           r == TimerStart(m, t, ms)
<1>0. m.state[t] \in {"Invalid", "Stopped", "Running"}
  BY DEF Well
<1> HIDE DEF n
<1>1. CASE n = 0 \/ m.state[t] = "Invalid"
  <2>1. r = m
    BY <1>1 DEF TimerStart, n
  <2> QED
    BY <1>1, <2>1 DEF n, Alike
<1>2. CASE n # 0 /\ m.state[t] = "Running"
  <2> DEFINE k == RemoveTimer(m, t)
  <2>1. r = Insert(k, t, n)
    BY <1>0, <1>2 DEF TimerStart, n
  <2>2. Holds(m.list, t) /\ Record(m) /\ Distinct(m.list)
    BY <1>2 DEF Well
  <2>3. /\ Relinked(k, m)
        /\ \A u : Holds(k.list, u) <=> Holds(m.list, u) /\ u # t
    BY <2>2, RemoveGives
  <2> HIDE DEF k, r
  <2>4. /\ Relinked(r, k)
        /\ \A u : Holds(r.list, u) <=> Holds(k.list, u) \/ u = t
    BY <2>1, <2>3, InsertGives DEF Relinked
  <2>5. Relinked(r, m) /\ \A u : Holds(r.list, u) <=> Holds(m.list, u)
    BY <2>2, <2>3, <2>4 DEF Relinked
  <2>6. Well(r)
    BY <2>5 DEF Relinked, Well
  <2> QED
    BY <1>2, <2>5, <2>6 DEF Relinked, Alike, r
<1>3. CASE n # 0 /\ m.state[t] = "Stopped"
  <2> DEFINE k == [m EXCEPT !.state[t] = "Running", !.icnt[t] = n]
  <2>1. r = Insert(k, t, n)
    BY <1>0, <1>3 DEF TimerStart, n
  <2>2. k = [list |-> m.list, state |-> [m.state EXCEPT ![t] = "Running"], tcnt |-> m.tcnt,
             icnt |-> [m.icnt EXCEPT ![t] = n], queue |-> m.queue, busy |-> m.busy, error |-> m.error]
    <3>1. /\ Record(m)
          /\ k = [m EXCEPT !.state = [m.state EXCEPT ![t] = "Running"], !.icnt = [m.icnt EXCEPT ![t] = n]]
      BY DEF Well
    <3> HIDE DEF k
    <3> DEFINE j == [m EXCEPT !.state = [m.state EXCEPT ![t] = "Running"]]
    <3>2. j = [list |-> m.list, state |-> [m.state EXCEPT ![t] = "Running"], tcnt |-> m.tcnt,
               icnt |-> m.icnt, queue |-> m.queue, busy |-> m.busy, error |-> m.error]
      BY <3>1 DEF Record
    <3>3. k = [j EXCEPT !.icnt = [m.icnt EXCEPT ![t] = n]]
      BY <3>1
    <3> HIDE DEF j
    <3> QED
      BY <3>2, <3>3
  <2> HIDE DEF k
  <2>3. /\ Record(k) /\ k.list = m.list /\ k.queue = m.queue /\ k.busy = m.busy
        /\ k.state = [m.state EXCEPT ![t] = "Running"] /\ k.icnt = [m.icnt EXCEPT ![t] = n]
    BY <2>2 DEF Record
  <2>4. Distinct(k.list) /\ ~Holds(k.list, t)
    BY <1>3, <2>3 DEF Well
  <2> HIDE DEF r
  <2>5. /\ Relinked(r, k)
        /\ \A u : Holds(r.list, u) <=> Holds(m.list, u) \/ u = t
    BY <2>1, <2>3, <2>4, InsertGives
  <2>6. /\ r.state \in [Timers -> {"Invalid", "Stopped", "Running"}] /\ DOMAIN r.icnt = Timers
        /\ \A u \in Timers : r.state[u] = IF u = t THEN "Running" ELSE m.state[u]
        /\ \A u \in Timers : r.icnt[u] = IF u = t THEN n ELSE m.icnt[u]
    BY <2>3, <2>5 DEF Relinked, Well
  <2>7. \A u \in Timers : r.state[u] = "Running" <=> Holds(r.list, u)
    BY <2>5, <2>6 DEF Well
  <2>8. Well(r)
    BY <2>3, <2>5, <2>6, <2>7 DEF Relinked, Well
  <2>9. Alike(r, m)
    BY <1>3, <2>6 DEF Alike
  <2> QED
    BY <2>3, <2>5, <2>6, <2>8, <2>9 DEF Relinked, n, r
<1> QED
  BY <1>0, <1>1, <1>2, <1>3

LEMMA NextGives ==
  ASSUME NEW m, Well(m)
  PROVE  /\ Well(NextMessage(m)) /\ Served(NextMessage(m)) /\ NextMessage(m).state = m.state
         /\ NextMessage(m).list = m.list /\ NextMessage(m).icnt = m.icnt
         /\ NextMessage(m).tcnt = m.tcnt /\ NextMessage(m).error = m.error
         /\ \A u \in Timers : NoTimer # u /\ ~Holds(m.list, u) /\ ~Holds(m.queue, u)
                                => Quiet(NextMessage(m), u)
<1> DEFINE r == NextMessage(m)
<1>1. CASE m.queue = <<>>
  <2>1. r = [list |-> m.list, state |-> m.state, tcnt |-> m.tcnt, icnt |-> m.icnt,
             queue |-> m.queue, busy |-> NoTimer, error |-> m.error]
    BY <1>1 DEF NextMessage, Well, Record
  <2> HIDE DEF r
  <2>2. /\ Record(r) /\ r.list = m.list /\ r.state = m.state /\ r.icnt = m.icnt
        /\ r.queue = m.queue /\ r.busy = NoTimer /\ r.tcnt = m.tcnt /\ r.error = m.error
    BY <2>1 DEF Record
  <2> QED
    BY <1>1, <2>2 DEF Well, Served, Quiet, r
<1>2. CASE m.queue # <<>>
  <2>1. r = [list |-> m.list, state |-> m.state, tcnt |-> m.tcnt, icnt |-> m.icnt,
             queue |-> Tail(m.queue), busy |-> Head(m.queue), error |-> m.error]
    BY <1>2 DEF NextMessage, Well, Record
  <2> HIDE DEF r
  <2>2. /\ Record(r) /\ r.list = m.list /\ r.state = m.state /\ r.icnt = m.icnt
        /\ r.queue = Tail(m.queue) /\ r.busy = Head(m.queue) /\ r.tcnt = m.tcnt /\ r.error = m.error
    BY <2>1 DEF Record
  <2>3. /\ Tail(m.queue) \in Seq(Timers) /\ Head(m.queue) = m.queue[1] /\ 1 \in 1 .. Len(m.queue)
        /\ \A i \in 1 .. Len(Tail(m.queue)) : i + 1 \in 1 .. Len(m.queue) /\ Tail(m.queue)[i] = m.queue[i + 1]
    BY <1>2 DEF Well
  <2>4. \A u : Holds(Tail(m.queue), u) \/ Head(m.queue) = u => Holds(m.queue, u)
    BY <2>3 DEF Holds
  <2> QED
    BY <1>2, <2>2, <2>3, <2>4, TimersAssumption DEF Well, Served, Quiet, r
<1> QED
  BY <1>1, <1>2

-----------------------------------------------------------------------------
(* One tick *)

\* In a tick of m with n timers due, r is the state after the i-th of them.
Between(m, n, i, r) ==
  /\ Record(r) /\ Distinct(r.list) /\ r.icnt = m.icnt
  /\ r.state \in [Timers -> {"Invalid", "Stopped", "Running"}] /\ Alike(r, m)
  /\ \A u \in Timers : r.state[u] = "Running" <=> Holds(r.list, u) \/ \E j \in i + 1 .. n : m.list[j] = u
  /\ \A u : Holds(r.list, u) => Holds(m.list, u)
  /\ \A j \in i + 1 .. n : ~Holds(r.list, m.list[j])
  /\ r.queue \in Seq(Timers) /\ \A u : Holds(r.queue, u) => Holds(m.queue, u) \/ Holds(m.list, u)
  /\ r.busy = m.busy \/ Holds(m.list, r.busy)
  /\ Served(r)

LEMMA PutGives ==
  ASSUME NEW r, Record(r), r.queue \in Seq(Timers), Served(r), NEW t \in Timers, NEW room
  PROVE  /\ Record(Put(r, t, room)) /\ Served(Put(r, t, room))
         /\ Put(r, t, room).list = r.list /\ Put(r, t, room).state = r.state
         /\ Put(r, t, room).icnt = r.icnt /\ Put(r, t, room).queue \in Seq(Timers)
         /\ \A u : Holds(Put(r, t, room).queue, u) => Holds(r.queue, u) \/ u = t
         /\ Put(r, t, room).busy \in {r.busy, t}
<1> DEFINE k == Put(r, t, room)
<1>1. CASE k = r
  BY <1>1
<1>2. CASE r.busy = NoTimer /\ k = [r EXCEPT !.busy = t]
  <2>1. k = [list |-> r.list, state |-> r.state, tcnt |-> r.tcnt, icnt |-> r.icnt,
             queue |-> r.queue, busy |-> t, error |-> r.error]
    BY <1>2 DEF Record
  <2> HIDE DEF k
  <2>2. /\ Record(k) /\ k.list = r.list /\ k.state = r.state /\ k.icnt = r.icnt
        /\ k.queue = r.queue /\ k.busy = t
    BY <2>1 DEF Record
  <2>3. Served(k)
    BY <2>2, TimersAssumption DEF Served
  <2> QED
    BY <2>2, <2>3 DEF k
<1>3. CASE r.busy # NoTimer /\ k = [r EXCEPT !.queue = Append(r.queue, t)]
  <2>1. k = [list |-> r.list, state |-> r.state, tcnt |-> r.tcnt, icnt |-> r.icnt,
             queue |-> Append(r.queue, t), busy |-> r.busy, error |-> r.error]
    BY <1>3 DEF Record
  <2> HIDE DEF k
  <2>2. /\ Record(k) /\ k.list = r.list /\ k.state = r.state /\ k.icnt = r.icnt
        /\ k.queue = Append(r.queue, t) /\ k.busy = r.busy
    BY <2>1 DEF Record
  <2>3. /\ k.queue \in Seq(Timers) /\ Len(r.queue) \in Nat
        /\ \A i \in 1 .. Len(k.queue) : \/ i \in 1 .. Len(r.queue) /\ k.queue[i] = r.queue[i]
                                        \/ k.queue[i] = t
    BY <2>2, AppendProperties
  <2>4. \A u : Holds(k.queue, u) => Holds(r.queue, u) \/ u = t
    BY <2>3 DEF Holds
  <2> QED
    BY <1>3, <2>2, <2>3, <2>4 DEF Served, k
<1>4. CASE r.busy # NoTimer /\ k = [r EXCEPT !.error = TRUE]
  <2>1. k = [list |-> r.list, state |-> r.state, tcnt |-> r.tcnt, icnt |-> r.icnt,
             queue |-> r.queue, busy |-> r.busy, error |-> TRUE]
    BY <1>4 DEF Record
  <2> HIDE DEF k
  <2>2. /\ Record(k) /\ k.list = r.list /\ k.state = r.state /\ k.icnt = r.icnt
        /\ k.queue = r.queue /\ k.busy = r.busy
    BY <2>1 DEF Record
  <2> QED
    BY <1>4, <2>2 DEF Served, k
<1> QED
  BY <1>1, <1>2, <1>3, <1>4 DEF Put, Post

LEMMA TickStep ==
  ASSUME NEW m, Well(m), NEW n \in 0 .. Len(m.list), NEW i \in 1 .. n, NEW r,
         Between(m, n, i - 1, r), NEW room
  PROVE  Between(m, n, i, Expired(Put(r, m.list[i], room), m.list[i]))
<1> DEFINE t == m.list[i]
           k == Put(r, t, room)
           x == Expired(k, t)
<1>1. /\ m.list \in Seq(Timers) /\ Len(m.list) \in Nat /\ n \in Nat /\ i \in Nat
      /\ i \in 1 .. Len(m.list) /\ t \in Timers /\ Holds(m.list, t)
      /\ \A h, j \in 1 .. Len(m.list) : m.list[h] = m.list[j] => h = j
  <2>1. m.list \in Seq(Timers) /\ Len(m.list) \in Nat
    BY DEF Well, Distinct
  <2>2. i \in 1 .. Len(m.list) /\ n \in Nat /\ i \in Nat
    BY <2>1
  <2> QED
    BY <2>1, <2>2 DEF Well, Distinct, Holds
<1>2. /\ (i - 1) + 1 = i /\ i \in i .. n /\ i + 1 .. n \subseteq i .. n
      /\ \A j \in i .. n : j = i \/ j \in i + 1 .. n
      /\ \A j \in i + 1 .. n : j # i /\ j \in 1 .. Len(m.list)
  BY <1>1
<1> HIDE DEF t
<1>3. \A j \in i + 1 .. n : m.list[j] # t
  BY <1>1, <1>2 DEF t
<1>4. /\ Record(r) /\ Distinct(r.list) /\ r.icnt = m.icnt
      /\ r.state \in [Timers -> {"Invalid", "Stopped", "Running"}] /\ Alike(r, m)
      /\ \A u \in Timers : r.state[u] = "Running" <=>
                             Holds(r.list, u) \/ u = t \/ \E j \in i + 1 .. n : m.list[j] = u
      /\ \A u : Holds(r.list, u) => Holds(m.list, u)
      /\ ~Holds(r.list, t) /\ \A j \in i + 1 .. n : ~Holds(r.list, m.list[j])
      /\ r.queue \in Seq(Timers) /\ \A u : Holds(r.queue, u) => Holds(m.queue, u) \/ Holds(m.list, u)
      /\ r.busy = m.busy \/ Holds(m.list, r.busy)
      /\ Served(r)
  BY <1>2 DEF Between, t
<1>5. /\ Record(k) /\ Served(k) /\ k.list = r.list /\ k.state = r.state /\ k.icnt = m.icnt
      /\ k.queue \in Seq(Timers) /\ \A u : Holds(k.queue, u) => Holds(m.queue, u) \/ Holds(m.list, u)
      /\ k.busy = m.busy \/ Holds(m.list, k.busy)
  <2>1. /\ Record(k) /\ Served(k) /\ k.list = r.list /\ k.state = r.state /\ k.icnt = r.icnt
        /\ k.queue \in Seq(Timers) /\ \A u : Holds(k.queue, u) => Holds(r.queue, u) \/ u = t
        /\ k.busy \in {r.busy, t}
    <3> Record(r) /\ r.queue \in Seq(Timers) /\ Served(r) /\ t \in Timers
      BY <1>1, <1>4
    <3> QED
      BY PutGives
  <2> HIDE DEF k
  <2> QED
    BY <1>1, <1>4, <2>1
<1> HIDE DEF k
<1>6. CASE t \in Periodic
  <2>1. x = Insert(k, t, k.icnt[t])
    BY <1>6 DEF Expired
  <2> HIDE DEF x
  <2>2. /\ Relinked(x, k)
        /\ \A u : Holds(x.list, u) <=> Holds(r.list, u) \/ u = t
    <3>1. Record(k) /\ Distinct(k.list) /\ t \in Timers /\ ~Holds(k.list, t) /\ k.list = r.list
      BY <1>1, <1>4, <1>5
    <3> QED
      BY <2>1, <3>1, InsertGives
  <2>3. \A u \in Timers : x.state[u] = "Running" <=>
                             Holds(x.list, u) \/ \E j \in i + 1 .. n : m.list[j] = u
    BY <1>4, <1>5, <2>2 DEF Relinked
  <2>4. /\ \A u : Holds(x.list, u) => Holds(m.list, u)
        /\ \A j \in i + 1 .. n : ~Holds(x.list, m.list[j])
    BY <1>1, <1>3, <1>4, <2>2
  <2>5. Served(x)
    BY <1>5, <2>2 DEF Served, Relinked
  <2>6. Between(m, n, i, x)
    BY <1>4, <1>5, <2>2, <2>3, <2>4, <2>5 DEF Between, Relinked, Alike
  <2> QED
    BY <2>6 DEF x, k, t
<1>7. CASE t \notin Periodic
  <2>1. x = [list |-> k.list, state |-> [k.state EXCEPT ![t] = "Stopped"], tcnt |-> k.tcnt,
             icnt |-> k.icnt, queue |-> k.queue, busy |-> k.busy, error |-> k.error]
    <3>1. x = [k EXCEPT !.state = [k.state EXCEPT ![t] = "Stopped"]]
      BY <1>7 DEF Expired
    <3> HIDE DEF x
    <3> QED
      BY <1>5, <3>1 DEF Record
  <2> HIDE DEF x
  <2>2. /\ Record(x) /\ x.list = k.list /\ x.icnt = k.icnt /\ x.queue = k.queue /\ x.busy = k.busy
        /\ x.state = [k.state EXCEPT ![t] = "Stopped"]
    BY <2>1 DEF Record
  <2>3. /\ x.state \in [Timers -> {"Invalid", "Stopped", "Running"}]
        /\ \A u \in Timers : x.state[u] = IF u = t THEN "Stopped" ELSE r.state[u]
    <3>1. x.state = [r.state EXCEPT ![t] = "Stopped"] /\ r.state \in [Timers -> {"Invalid", "Stopped", "Running"}]
      BY <1>4, <1>5, <2>2
    <3> QED
      BY <3>1
  <2>4. \A u \in Timers : x.state[u] = "Running" <=>
                             Holds(x.list, u) \/ \E j \in i + 1 .. n : m.list[j] = u
    BY <1>3, <1>4, <1>5, <2>2, <2>3
  <2>5. Served(x)
    BY <1>5, <2>2 DEF Served
  <2>6. Alike(x, m)
    <3>1. r.state[t] # "Invalid"
      BY <1>1, <1>4
    <3> QED
      BY <1>4, <2>3, <3>1 DEF Alike
  <2>7. Between(m, n, i, x)
    BY <1>4, <1>5, <2>2, <2>3, <2>4, <2>5, <2>6 DEF Between
  <2> QED
    BY <2>7 DEF x, k, t
<1> QED
  BY <1>6, <1>7

\* The steps of TimerTick: the head counts down, Ready timers come to zero, the others
\* remain, and then each of those takes its turn.
Down(m)       == [m EXCEPT !.tcnt[Head(m.list)] = (@ - 1) % Width]
Ready(m)      == Max({0} \union {i \in DOMAIN Down(m).list : Left(Down(m), i) = 0})
Rest(m)       == [Down(m) EXCEPT !.list = SubSeq(@, Ready(m) + 1, Len(@))]
Turn(m, i, r) == Expired(Put(r, m.list[i], QueueSize - Len(m.queue)), m.list[i])

LEMMA DownIs ==
  ASSUME NEW m, Well(m)
  PROVE  /\ Record(Down(m)) /\ Down(m).list = m.list /\ Down(m).state = m.state
         /\ Down(m).tcnt = [m.tcnt EXCEPT ![Head(m.list)] = (@ - 1) % Width]
         /\ Down(m).icnt = m.icnt /\ Down(m).queue = m.queue /\ Down(m).busy = m.busy
         /\ Down(m).error = m.error
<1>1. \A a : [m EXCEPT !.tcnt = a] = [list |-> m.list, state |-> m.state, tcnt |-> a,
                icnt |-> m.icnt, queue |-> m.queue, busy |-> m.busy, error |-> m.error]
  BY DEF Well, Record
<1> DEFINE c == [m.tcnt EXCEPT ![Head(m.list)] = (@ - 1) % Width]
<1>2. Down(m) = [m EXCEPT !.tcnt = c]
  BY DEF Down, Well
<1> HIDE DEF c
<1>3. Down(m) = [list |-> m.list, state |-> m.state, tcnt |-> c, icnt |-> m.icnt,
                 queue |-> m.queue, busy |-> m.busy, error |-> m.error]
  BY <1>1, <1>2
<1>4. /\ Record(Down(m)) /\ Down(m).list = m.list /\ Down(m).state = m.state
      /\ Down(m).tcnt = c /\ Down(m).icnt = m.icnt /\ Down(m).queue = m.queue
      /\ Down(m).busy = m.busy /\ Down(m).error = m.error
  BY <1>3 DEF Record
<1> QED
  BY <1>4 DEF c

LEMMA RestIs ==
  ASSUME NEW m, Well(m)
  PROVE  /\ Record(Rest(m)) /\ Rest(m).list = SubSeq(m.list, Ready(m) + 1, Len(m.list))
         /\ Rest(m).state = m.state /\ Rest(m).tcnt = Down(m).tcnt /\ Rest(m).icnt = m.icnt
         /\ Rest(m).queue = m.queue /\ Rest(m).busy = m.busy /\ Rest(m).error = m.error
<1> DEFINE d == Down(m)
           l == SubSeq(m.list, Ready(m) + 1, Len(m.list))
           r == Rest(m)
<1>1. /\ Record(d) /\ d.list = m.list /\ d.state = m.state /\ d.icnt = m.icnt
      /\ d.queue = m.queue /\ d.busy = m.busy /\ d.error = m.error
  BY DownIs
<1>2. r = [d EXCEPT !.list = l]
  BY <1>1 DEF Rest
<1> HIDE DEF d, l, r
<1>3. r = [list |-> l, state |-> d.state, tcnt |-> d.tcnt, icnt |-> d.icnt, queue |-> d.queue,
           busy |-> d.busy, error |-> d.error]
  BY <1>1, <1>2 DEF Record
<1>4. /\ Record(r) /\ r.list = l /\ r.state = d.state /\ r.tcnt = d.tcnt /\ r.icnt = d.icnt
      /\ r.queue = d.queue /\ r.busy = d.busy /\ r.error = d.error
  BY <1>3 DEF Record
<1> QED
  BY <1>1, <1>4 DEF d, l, r

LEMMA ReadyIs ==
  ASSUME NEW m, Well(m)
  PROVE  /\ Ready(m) \in 0 .. Len(m.list) /\ Len(m.list) \in Nat
         /\ Ready(m) # 0 => Left(Down(m), Ready(m)) = 0
         /\ \A i \in Ready(m) + 1 .. Len(m.list) : Left(Down(m), i) # 0
<1> DEFINE due == {i \in DOMAIN Down(m).list : Left(Down(m), i) = 0}
<1>1. Len(m.list) \in Nat /\ DOMAIN m.list = 1 .. Len(m.list)
  BY DEF Well, Distinct
<1>2. due = {i \in 1 .. Len(m.list) : Left(Down(m), i) = 0}
  BY <1>1, DownIs
<1> HIDE DEF due
<1>3. {0} \union due \subseteq 0 .. Len(m.list)
  BY <1>1, <1>2
<1>4. Max({0} \union due) \in {0} \union due /\ \A x \in {0} \union due : x <= Max({0} \union due)
  BY <1>1, <1>3, MaxIs
<1>5. Ready(m) \in {0} \union due /\ \A x \in due : x <= Ready(m)
  BY <1>4 DEF Ready, due
<1>6. Ready(m) \in 0 .. Len(m.list) /\ (Ready(m) # 0 => Left(Down(m), Ready(m)) = 0)
  BY <1>2, <1>3, <1>5
<1>7. ASSUME NEW i \in Ready(m) + 1 .. Len(m.list), Left(Down(m), i) = 0 PROVE FALSE
  <2>1. i \in 1 .. Len(m.list) /\ ~(i <= Ready(m))
    BY <1>1, <1>6
  <2> QED
    BY <1>2, <1>5, <1>7, <2>1
<1> QED
  BY <1>1, <1>6, <1>7

\* What TimerTick says of these turns is a function: its least missing turn would follow
\* from the one before.
LEMMA TickTurns ==
  ASSUME NEW m, Well(m), m.list # <<>>
  PROVE  \E after : /\ TimerTick(m) = after[Ready(m)] /\ after[0] = Rest(m)
                    /\ \A i \in 1 .. Ready(m) : after[i] = Turn(m, i, after[i - 1])
<1> DEFINE n          == Ready(m)
           After(r, i) == Turn(m, i, r)
           Body(f, k) == [i \in 0 .. k |-> IF i = 0 THEN Rest(m) ELSE After(f[i - 1], i)]
           Exists(k)  == \E f : f = Body(f, k)
           after      == CHOOSE f : f = Body(f, n)
<1>1. n \in Nat
  BY ReadyIs
<1>2. TimerTick(m) = after[n]
  BY DownIs DEF TimerTick, Down, Ready, Rest, Turn
<1> HIDE DEF n, After
<1>3. Exists(n)
  <2> DEFINE Bad == {k \in Nat : k <= n /\ ~Exists(k)}
  <2> SUFFICES ASSUME Bad # {} PROVE FALSE
    BY <1>1
  <2>1. PICK k \in Bad : \A j \in Bad : k <= j
    BY LeastNat
  <2>2. CASE k = 0
    <3> DEFINE f == [i \in 0 .. 0 |-> Rest(m)]
    <3>1. f = Body(f, 0)
      OBVIOUS
    <3> QED
      BY <2>1, <2>2, <3>1
  <2>3. CASE k # 0
    <3>1. k - 1 \in Nat /\ k - 1 <= n /\ ~(k <= k - 1)
      BY <1>1, <2>1, <2>3
    <3>2. PICK f : f = Body(f, k - 1)
      BY <2>1, <3>1
    <3> DEFINE g == [i \in 0 .. k |-> IF i = k THEN After(f[k - 1], k) ELSE f[i]]
    <3>3. \A i \in 0 .. k - 1 : f[i] = IF i = 0 THEN Rest(m) ELSE After(f[i - 1], i)
      BY <3>2
    <3>4. ASSUME NEW i \in 0 .. k
          PROVE  g[i] = IF i = 0 THEN Rest(m) ELSE After(g[i - 1], i)
      <4>1. CASE i = k
        <5>1. k - 1 \in 0 .. k /\ k - 1 # k /\ k \in 0 .. k
          BY <3>1
        <5>2. g[k - 1] = f[k - 1] /\ g[k] = After(f[k - 1], k)
          BY <5>1
        <5> QED
          BY <2>3, <4>1, <5>2
      <4>2. CASE i # k
        <5>1. i \in 0 .. k - 1 /\ g[i] = f[i]
          BY <3>1, <4>2
        <5>2. i # 0 => i - 1 \in 0 .. k /\ i - 1 # k
          BY <5>1
        <5>3. i # 0 => g[i - 1] = f[i - 1]
          BY <5>2
        <5> QED
          BY <3>3, <5>1, <5>3
      <4> QED
        BY <4>1, <4>2
    <3>5. g = Body(g, k)
      BY <3>4
    <3> QED
      BY <2>1, <3>5
  <2> QED
    BY <2>2, <2>3
<1>4. after = Body(after, n)
  BY <1>3
<1> HIDE DEF after
<1>5. \A i \in 0 .. n : after[i] = IF i = 0 THEN Rest(m) ELSE After(after[i - 1], i)
  BY <1>4
<1>6. after[0] = Rest(m) /\ \A i \in 1 .. n : after[i] = After(after[i - 1], i)
  BY <1>1, <1>5
<1> QED
  BY <1>2, <1>6 DEF n, After

LEMMA RestBetween ==
  ASSUME NEW m, Well(m), Served(m)
  PROVE  Between(m, Ready(m), 0, Rest(m))
<1> DEFINE n == Ready(m)
           l == SubSeq(m.list, n + 1, Len(m.list))
<1>0. n \in 0 .. Len(m.list) /\ Len(m.list) \in Nat
  BY ReadyIs
<1>1. /\ Record(Rest(m)) /\ Rest(m).state = m.state /\ Rest(m).icnt = m.icnt
      /\ Rest(m).queue = m.queue /\ Rest(m).busy = m.busy /\ Rest(m).list = l
  BY RestIs
<1>2. Distinct(l) /\ \A u : Holds(l, u) <=> \E i \in n + 1 .. Len(m.list) : m.list[i] = u
  <2>1. \A a, b \in Nat : 1 <= a /\ b <= Len(m.list) =>
          /\ Distinct(SubSeq(m.list, a, b))
          /\ \A u : Holds(SubSeq(m.list, a, b), u) <=> \E i \in a .. b : m.list[i] = u
    <3>1. Distinct(m.list)
      BY DEF Well
    <3>2. ASSUME NEW a \in Nat, NEW b \in Nat, 1 <= a /\ b <= Len(m.list)
          PROVE  /\ Distinct(SubSeq(m.list, a, b))
                 /\ \A u : Holds(SubSeq(m.list, a, b), u) <=> \E i \in a .. b : m.list[i] = u
      BY <3>1, <3>2, Slice
    <3> QED
      BY <3>2
  <2> HIDE DEF n
  <2>2. n + 1 \in Nat /\ 1 <= n + 1 /\ Len(m.list) <= Len(m.list)
    BY <1>0
  <2> QED
    BY <1>0, <2>1, <2>2
<1> HIDE DEF l, n
<1>3. /\ \A i \in n + 1 .. Len(m.list) : i \in 1 .. Len(m.list) /\ i \notin 1 .. n
      /\ \A i \in 1 .. n : i \in 1 .. Len(m.list)
      /\ \A i \in 1 .. Len(m.list) : i \in 1 .. n \/ i \in n + 1 .. Len(m.list)
      /\ 0 + 1 = 1
  BY <1>0
<1>4. \A u : Holds(m.list, u) <=> Holds(l, u) \/ \E j \in 1 .. n : m.list[j] = u
  BY <1>2, <1>3 DEF Holds
<1>5. \A j \in 1 .. n : ~Holds(l, m.list[j])
  BY <1>2, <1>3 DEF Well, Distinct
<1> QED
  BY <1>1, <1>2, <1>3, <1>4, <1>5 DEF Between, Well, Served, Alike, n

LEMMA TickGives ==
  ASSUME NEW m, Well(m), Served(m)
  PROVE  /\ Well(TimerTick(m)) /\ Served(TimerTick(m)) /\ TimerTick(m).icnt = m.icnt
         /\ Alike(TimerTick(m), m)
         /\ \A u : Quiet(m, u) => Quiet(TimerTick(m), u)
<1>1. CASE m.list = <<>>
  BY <1>1 DEF TimerTick, Alike
<1>2. CASE m.list # <<>>
  <2> DEFINE n == Ready(m)
  <2>1. n \in 0 .. Len(m.list) /\ Len(m.list) \in Nat
    BY ReadyIs
  <2>2. PICK after : /\ TimerTick(m) = after[n] /\ after[0] = Rest(m)
                     /\ \A i \in 1 .. n : after[i] = Turn(m, i, after[i - 1])
    BY <1>2, TickTurns
  <2>3. Between(m, n, 0, Rest(m))
    BY RestBetween
  <2> HIDE DEF n
  <2>4. Between(m, n, n, after[n])
    <3> DEFINE Bad == {k \in Nat : k <= n /\ ~Between(m, n, k, after[k])}
    <3> SUFFICES ASSUME Bad # {} PROVE FALSE
      BY <2>1
    <3>1. PICK k \in Bad : \A j \in Bad : k <= j
      BY LeastNat
    <3>2. k # 0
      BY <2>2, <2>3, <3>1
    <3>3. k - 1 \in Nat /\ k - 1 <= n /\ ~(k <= k - 1) /\ k \in 1 .. n
      BY <2>1, <3>1, <3>2
    <3>4. Between(m, n, k - 1, after[k - 1]) /\ after[k] = Turn(m, k, after[k - 1])
      BY <2>2, <3>1, <3>3
    <3>5. Between(m, n, k, after[k])
      BY <2>1, <3>3, <3>4, TickStep DEF Turn
    <3> QED
      BY <3>1, <3>5
  <2>5. \A j : j \notin n + 1 .. n
    BY <2>1
  <2> QED
    BY <2>2, <2>4, <2>5 DEF Between, Well, Quiet
<1> QED
  BY <1>1, <1>2

-----------------------------------------------------------------------------
(* How long the timers have to run *)

\* With d[t] the ticks of timer t, those that are over when the i-th of list s expires.
At(d, s, i) == IF i = 0 THEN 0 ELSE d[s[i]]

\* The timers of the list have to run for d: the delay of each is counted from the one before.
Runs(m, d) ==
  /\ d \in [Timers -> 0 .. Width - 1] /\ DOMAIN m.tcnt = Timers
  /\ \A i \in 1 .. Len(m.list) :
       /\ At(d, m.list, i - 1) <= d[m.list[i]]
       /\ m.tcnt[m.list[i]] = d[m.list[i]] - At(d, m.list, i - 1)

\* A sum of delays is where its last timer stands: the least place where it is not would
\* follow from the one before.
LEMMA LeftIs ==
  ASSUME NEW m, Distinct(m.list), NEW d, Runs(m, d), NEW i \in 0 .. Len(m.list)
  PROVE  Left(m, i) = At(d, m.list, i)
<1> DEFINE Body(f) == [j \in 0 .. i |-> IF j = 0 THEN 0 ELSE f[j - 1] + m.tcnt[m.list[j]]]
           sum     == CHOOSE f : f = Body(f)
           g       == [j \in 0 .. i |-> At(d, m.list, j)]
<1>1. /\ Len(m.list) \in Nat /\ i \in Nat /\ \A j \in 1 .. Len(m.list) : m.list[j] \in Timers
      /\ \A j \in 1 .. i : j \in 1 .. Len(m.list) /\ j - 1 \in 0 .. i
  BY DEF Distinct
<1>2. /\ \A j \in 0 .. i : At(d, m.list, j) \in Nat
      /\ \A j \in 1 .. i : At(d, m.list, j - 1) + m.tcnt[m.list[j]] = At(d, m.list, j)
  <2>1. \A j \in 1 .. i : d[m.list[j]] \in Nat
    BY <1>1, TimersAssumption DEF Runs
  <2>2. \A j \in 0 .. i : At(d, m.list, j) \in Nat
    BY <2>1 DEF At
  <2>3. ASSUME NEW j \in 1 .. i
        PROVE  At(d, m.list, j - 1) + m.tcnt[m.list[j]] = At(d, m.list, j)
    <3>1. j # 0 /\ j - 1 \in 0 .. i /\ m.tcnt[m.list[j]] = d[m.list[j]] - At(d, m.list, j - 1)
      BY <1>1 DEF Runs
    <3>2. At(d, m.list, j) = d[m.list[j]]
      BY <3>1 DEF At
    <3> QED
      BY <2>1, <2>2, <3>1, <3>2
  <2> QED
    BY <2>2, <2>3
<1>3. Left(m, i) = sum[i]
  BY DEF Left
<1>4. g = Body(g)
  <2>1. ASSUME NEW j \in 0 .. i
        PROVE  g[j] = IF j = 0 THEN 0 ELSE g[j - 1] + m.tcnt[m.list[j]]
    <3>1. CASE j = 0
      BY <3>1 DEF At
    <3>2. CASE j # 0
      <4>1. j \in 1 .. i
        BY <3>2
      <4>2. j - 1 \in 0 .. i
        BY <1>1, <4>1
      <4>3. At(d, m.list, j - 1) + m.tcnt[m.list[j]] = At(d, m.list, j)
        BY <1>2, <4>1
      <4> QED
        BY <3>2, <4>2, <4>3
    <3> QED
      BY <3>1, <3>2
  <2> QED
    BY <2>1
<1>5. sum = Body(sum)
  BY <1>4
<1> HIDE DEF sum
<1>6. \A j \in 0 .. i : sum[j] = IF j = 0 THEN 0 ELSE sum[j - 1] + m.tcnt[m.list[j]]
  BY <1>5
<1> DEFINE Bad == {k \in Nat : k <= i /\ sum[k] # At(d, m.list, k)}
<1>7. CASE Bad = {}
  BY <1>1, <1>3, <1>7
<1>8. CASE Bad # {}
  <2>1. PICK k \in Bad : \A j \in Bad : k <= j
    BY <1>8, LeastNat
  <2>2. CASE k = 0
    BY <1>6, <2>1, <2>2 DEF At
  <2>3. CASE k # 0
    <3>1. k - 1 \in Nat /\ k - 1 <= i /\ ~(k <= k - 1) /\ k \in 1 .. i /\ k \in 0 .. i
      BY <1>1, <2>1, <2>3
    <3>2. sum[k - 1] = At(d, m.list, k - 1)
      BY <2>1, <3>1
    <3>3. sum[k] = sum[k - 1] + m.tcnt[m.list[k]]
      BY <1>6, <2>3, <3>1
    <3> QED
      BY <1>2, <2>1, <3>1, <3>2, <3>3
  <2> QED
    BY <2>2, <2>3
<1> QED
  BY <1>7, <1>8

\* The first to expire comes first.
LEMMA Sorted ==
  ASSUME NEW m, Distinct(m.list), NEW d, Runs(m, d),
         NEW i \in 0 .. Len(m.list), NEW j \in i .. Len(m.list)
  PROVE  /\ At(d, m.list, i) <= At(d, m.list, j)
         /\ At(d, m.list, i) \in 0 .. Width - 1 /\ At(d, m.list, j) \in 0 .. Width - 1
<1>1. /\ Len(m.list) \in Nat /\ i \in Nat /\ j \in 0 .. Len(m.list)
      /\ \A k \in 1 .. Len(m.list) : m.list[k] \in Timers
  BY DEF Distinct
<1>2. \A k \in 0 .. Len(m.list) : At(d, m.list, k) \in 0 .. Width - 1
  <2>1. \A k \in 1 .. Len(m.list) : d[m.list[k]] \in 0 .. Width - 1
    BY <1>1 DEF Runs
  <2>2. 0 \in 0 .. Width - 1
    BY TimersAssumption
  <2> QED
    BY <2>1, <2>2 DEF At
<1>3. \A k \in 1 .. Len(m.list) : At(d, m.list, k - 1) <= At(d, m.list, k)
  BY DEF Runs, At
<1> DEFINE Bad == {k \in Nat : i <= k /\ k <= Len(m.list) /\ ~(At(d, m.list, i) <= At(d, m.list, k))}
<1>4. CASE Bad = {}
  BY <1>1, <1>2, <1>4
<1>5. CASE Bad # {}
  <2>1. PICK k \in Bad : \A h \in Bad : k <= h
    BY <1>5, LeastNat
  <2>2. k # i
    BY <1>1, <1>2, <2>1
  <2>3. k - 1 \in Nat /\ i <= k - 1 /\ k - 1 <= Len(m.list) /\ ~(k <= k - 1) /\ k \in 1 .. Len(m.list)
    BY <1>1, <2>1, <2>2
  <2>4. At(d, m.list, i) <= At(d, m.list, k - 1) /\ At(d, m.list, k - 1) <= At(d, m.list, k)
    BY <1>3, <2>1, <2>3
  <2>5. i \in 0 .. Len(m.list) /\ k - 1 \in 0 .. Len(m.list) /\ k \in 0 .. Len(m.list)
    BY <2>3
  <2> QED
    BY <1>2, <2>1, <2>4, <2>5, TimersAssumption, SMTT(30)
<1> QED
  BY <1>4, <1>5

\* InsertAt and RemoveAt, place by place.
LEMMA InsertAtIs ==
  ASSUME NEW s \in Seq(Timers), NEW at \in 1 .. Len(s) + 1, NEW t \in Timers
  PROVE  /\ Len(InsertAt(s, at, t)) = Len(s) + 1
         /\ \A j \in 1 .. Len(s) + 1 :
              InsertAt(s, at, t)[j] = IF j < at THEN s[j] ELSE IF j = at THEN t ELSE s[j - 1]
<1> DEFINE a == SubSeq(s, 1, at - 1)
           b == SubSeq(s, at, Len(s))
           c == a \o <<t>>
<1>1. /\ Len(s) \in Nat /\ at \in Nat /\ \A j \in 1 .. Len(s) : s[j] \in Timers
      /\ at - 1 \in 0 .. Len(s)
  OBVIOUS
<1>2. a \in Seq(Timers) /\ Len(a) = at - 1 /\ \A j \in 1 .. at - 1 : a[j] = s[j]
  <2>1. \A j \in 1 .. at - 1 : s[j] \in Timers
    BY <1>1
  <2>2. /\ a \in Seq(Timers) /\ Len(a) = IF 1 <= at - 1 THEN at - 1 - 1 + 1 ELSE 0
        /\ \A j \in 1 .. at - 1 - 1 + 1 : a[j] = s[1 + j - 1]
    BY <1>1, <2>1, SubSeqProperties
  <2> HIDE DEF a
  <2> QED
    BY <1>1, <2>2
<1>3. /\ b \in Seq(Timers) /\ Len(b) = Len(s) + 1 - at
      /\ \A j \in 1 .. Len(s) + 1 - at : b[j] = s[at + j - 1]
  <2>1. \A j \in at .. Len(s) : s[j] \in Timers
    BY <1>1
  <2>2. /\ b \in Seq(Timers) /\ Len(b) = IF at <= Len(s) THEN Len(s) - at + 1 ELSE 0
        /\ \A j \in 1 .. Len(s) - at + 1 : b[j] = s[at + j - 1]
    BY <1>1, <2>1, SubSeqProperties
  <2> HIDE DEF b
  <2> QED
    BY <1>1, <2>2
<1> HIDE DEF a, b
<1>4. <<t>> \in Seq(Timers) /\ Len(<<t>>) = 1 /\ <<t>>[1] = t
  OBVIOUS
<1>5. /\ c \in Seq(Timers) /\ Len(c) = at
      /\ \A j \in 1 .. at : c[j] = IF j < at THEN s[j] ELSE t
  <2>1. /\ c \in Seq(Timers) /\ Len(c) = Len(a) + Len(<<t>>)
        /\ \A j \in 1 .. Len(a) + Len(<<t>>) : c[j] = IF j <= Len(a) THEN a[j] ELSE <<t>>[j - Len(a)]
    BY <1>2, <1>4, ConcatProperties
  <2>2. Len(a) + Len(<<t>>) = at
    BY <1>1, <1>2, <1>4
  <2> HIDE DEF c
  <2>3. ASSUME NEW j \in 1 .. at PROVE c[j] = IF j < at THEN s[j] ELSE t
    <3>1. CASE j < at
      <4>1. j <= Len(a) /\ j \in 1 .. at - 1
        BY <1>1, <1>2, <3>1
      <4> QED
        BY <1>2, <2>1, <2>2, <3>1, <4>1
    <3>2. CASE ~(j < at)
      <4>1. ~(j <= Len(a)) /\ j - Len(a) = 1
        BY <1>1, <1>2, <3>2
      <4> QED
        BY <1>4, <2>1, <2>2, <3>2, <4>1
    <3> QED
      BY <3>1, <3>2
  <2> QED
    BY <2>1, <2>2, <2>3
<1>6. InsertAt(s, at, t) = c \o b
  BY DEF InsertAt, a, b
<1> HIDE DEF c
<1> DEFINE e == c \o b
<1>7. /\ Len(e) = Len(c) + Len(b)
      /\ \A j \in 1 .. Len(c) + Len(b) : e[j] = IF j <= Len(c) THEN c[j] ELSE b[j - Len(c)]
  BY <1>3, <1>5, ConcatProperties
<1>8. Len(c) + Len(b) = Len(s) + 1 /\ Len(c) = at
  BY <1>1, <1>3, <1>5
<1> HIDE DEF e
<1>9. ASSUME NEW j \in 1 .. Len(s) + 1
      PROVE  e[j] = IF j < at THEN s[j] ELSE IF j = at THEN t ELSE s[j - 1]
  <2>1. CASE j <= at
    <3>1. j \in 1 .. at
      BY <1>1, <2>1
    <3>2. e[j] = c[j]
      BY <1>7, <1>8, <2>1
    <3> QED
      BY <1>1, <1>5, <2>1, <3>1, <3>2
  <2>2. CASE ~(j <= at)
    <3>1. j - at \in 1 .. Len(s) + 1 - at /\ at + (j - at) - 1 = j - 1 /\ ~(j < at) /\ j # at
      BY <1>1, <2>2
    <3>2. e[j] = b[j - at]
      BY <1>7, <1>8, <2>2
    <3> QED
      BY <1>3, <3>1, <3>2
  <2> QED
    BY <2>1, <2>2
<1> QED
  BY <1>6, <1>7, <1>8, <1>9 DEF e

LEMMA RemoveAtIs ==
  ASSUME NEW s \in Seq(Timers), NEW at \in 1 .. Len(s)
  PROVE  /\ Len(RemoveAt(s, at)) = Len(s) - 1
         /\ \A j \in 1 .. Len(s) - 1 : RemoveAt(s, at)[j] = IF j < at THEN s[j] ELSE s[j + 1]
<1> DEFINE a == SubSeq(s, 1, at - 1)
           b == SubSeq(s, at + 1, Len(s))
<1>1. /\ Len(s) \in Nat /\ at \in Nat /\ \A j \in 1 .. Len(s) : s[j] \in Timers
      /\ at - 1 \in 0 .. Len(s) /\ at + 1 \in Nat
  OBVIOUS
<1>2. a \in Seq(Timers) /\ Len(a) = at - 1 /\ \A j \in 1 .. at - 1 : a[j] = s[j]
  <2>1. \A j \in 1 .. at - 1 : s[j] \in Timers
    BY <1>1
  <2>2. /\ a \in Seq(Timers) /\ Len(a) = IF 1 <= at - 1 THEN at - 1 - 1 + 1 ELSE 0
        /\ \A j \in 1 .. at - 1 - 1 + 1 : a[j] = s[1 + j - 1]
    BY <1>1, <2>1, SubSeqProperties
  <2> HIDE DEF a
  <2> QED
    BY <1>1, <2>2
<1>3. /\ b \in Seq(Timers) /\ Len(b) = Len(s) - at
      /\ \A j \in 1 .. Len(s) - at : b[j] = s[at + j]
  <2>1. \A j \in at + 1 .. Len(s) : s[j] \in Timers
    BY <1>1
  <2>2. /\ b \in Seq(Timers) /\ Len(b) = IF at + 1 <= Len(s) THEN Len(s) - (at + 1) + 1 ELSE 0
        /\ \A j \in 1 .. Len(s) - (at + 1) + 1 : b[j] = s[at + 1 + j - 1]
    BY <1>1, <2>1, SubSeqProperties
  <2> HIDE DEF b
  <2>3. /\ Len(s) - (at + 1) + 1 = Len(s) - at
        /\ (IF at + 1 <= Len(s) THEN Len(s) - (at + 1) + 1 ELSE 0) = Len(s) - at
    BY <1>1
  <2>4. ASSUME NEW j \in 1 .. Len(s) - at PROVE b[j] = s[at + j]
    <3>1. at + 1 + j - 1 = at + j
      BY <1>1
    <3> QED
      BY <2>2, <2>3, <3>1
  <2> QED
    BY <2>2, <2>3, <2>4
<1> DEFINE e == a \o b
<1>4. RemoveAt(s, at) = e
  BY DEF RemoveAt
<1> HIDE DEF a, b
<1>5. /\ Len(e) = Len(a) + Len(b)
      /\ \A j \in 1 .. Len(a) + Len(b) : e[j] = IF j <= Len(a) THEN a[j] ELSE b[j - Len(a)]
  BY <1>2, <1>3, ConcatProperties
<1>6. Len(a) + Len(b) = Len(s) - 1 /\ Len(a) = at - 1
  BY <1>1, <1>2, <1>3
<1> HIDE DEF e
<1>7. ASSUME NEW j \in 1 .. Len(s) - 1
      PROVE  e[j] = IF j < at THEN s[j] ELSE s[j + 1]
  <2>1. CASE j < at
    <3>1. j \in 1 .. at - 1 /\ j <= at - 1
      BY <1>1, <2>1
    <3> QED
      BY <1>2, <1>5, <1>6, <2>1, <3>1
  <2>2. CASE ~(j < at)
    <3>1. j - (at - 1) \in 1 .. Len(s) - at /\ at + (j - (at - 1)) = j + 1 /\ ~(j <= at - 1)
      BY <1>1, <2>2
    <3>2. e[j] = b[j - (at - 1)]
      BY <1>5, <1>6, <3>1
    <3> QED
      BY <1>3, <2>2, <3>1, <3>2
  <2> QED
    BY <2>1, <2>2
<1> QED
  BY <1>4, <1>5, <1>6, <1>7

LEMMA Fits ==
  ASSUME NEW a \in 0 .. Width - 1
  PROVE  a % Width = a
BY TimersAssumption

LEMMA InsertRuns ==
  ASSUME NEW m, Record(m), Distinct(m.list), NEW t \in Timers, ~Holds(m.list, t),
         NEW d, Runs(m, d), NEW n \in 0 .. Width - 1
  PROVE  Runs(Insert(m, t, n), [d EXCEPT ![t] = n])
<1> DEFINE at == Spot(m, n)
           s  == m.list
           l  == InsertAt(s, at, t)
           r  == Insert(m, t, n)
           e  == [d EXCEPT ![t] = n]
           x  == At(d, s, at - 1)
<1>1. /\ s \in Seq(Timers) /\ Len(s) \in Nat /\ \A i, j \in 1 .. Len(s) : s[i] = s[j] => i = j
      /\ \A i \in 1 .. Len(s) : s[i] \in Timers /\ s[i] # t
      /\ Width \in Nat /\ Width > 2 /\ n \in Int /\ 0 <= n /\ n <= Width - 1
  BY TimersAssumption DEF Distinct, Holds
<1>2. /\ at \in 1 .. Len(s) + 1
      /\ at - 1 \in 0 .. Len(s)
      /\ \A i \in 1 .. Len(s) : Left(m, i) <= n => i < at
      /\ at # 1 => Left(m, at - 1) <= n
  <2>1. /\ at \in 1 .. Len(s) + 1
        /\ \A i \in 1 .. Len(s) : Left(m, i) <= n => i < at
        /\ at # 1 => Left(m, at - 1) <= n
    BY SpotIs
  <2> HIDE DEF at, s
  <2> QED
    BY <1>1, <2>1
<1>3. /\ \A i \in 0 .. Len(s) : Left(m, i) = At(d, s, i)
      /\ \A i \in 0 .. Len(s) : At(d, s, i) \in 0 .. Width - 1
  <2>1. \A i \in 0 .. Len(s) : i \in i .. Len(s)
    BY <1>1
  <2> QED
    BY <2>1, LeftIs, Sorted
<1>4. x \in 0 .. Width - 1 /\ x <= n /\ Left(m, at - 1) = x
  <2>1. x \in 0 .. Width - 1 /\ Left(m, at - 1) = x
    BY <1>2, <1>3
  <2>2. at = 1 => x = 0
    BY DEF At
  <2> QED
    BY <1>1, <1>2, <2>1, <2>2
<1>5. /\ r.list = l /\ r.tcnt = Parted(m, t, n)
      /\ Len(l) = Len(s) + 1
      /\ \A j \in 1 .. Len(s) + 1 : l[j] = IF j < at THEN s[j] ELSE IF j = at THEN t ELSE s[j - 1]
  <2>1. r.list = l /\ r.tcnt = Parted(m, t, n)
    BY InsertIs
  <2> HIDE DEF at, s
  <2>2. /\ Len(l) = Len(s) + 1
        /\ \A j \in 1 .. Len(s) + 1 : l[j] = IF j < at THEN s[j] ELSE IF j = at THEN t ELSE s[j - 1]
    BY <1>1, <1>2, InsertAtIs
  <2> QED
    BY <2>1, <2>2
<1>6. DOMAIN r.tcnt = Timers /\ r.tcnt[t] = n - x
  BY <1>4, <1>5 DEF Parted
<1>7. /\ d \in [Timers -> 0 .. Width - 1]
      /\ \A i \in 1 .. Len(s) : At(d, s, i - 1) <= d[s[i]] /\ m.tcnt[s[i]] = d[s[i]] - At(d, s, i - 1)
  BY DEF Runs
<1>8. /\ e \in [Timers -> 0 .. Width - 1] /\ e[t] = n
      /\ \A i \in 1 .. Len(s) : e[s[i]] = d[s[i]]
  BY <1>1, <1>7
<1>9. \A i \in 1 .. Len(s) : i # at => r.tcnt[s[i]] = m.tcnt[s[i]]
  BY <1>1, <1>2, <1>5 DEF Parted
<1>10. ASSUME at \in 1 .. Len(s)
       PROVE  n <= d[s[at]] /\ r.tcnt[s[at]] = d[s[at]] - n
  <2>1. s[at] \in Timers /\ s[at] # t /\ at <= Len(s)
    BY <1>1, <1>10
  <2>2. r.tcnt[s[at]] = (m.tcnt[s[at]] - (n - x)) % Width
    BY <1>4, <1>5, <2>1 DEF Parted
  <2>3. At(d, s, at) = d[s[at]] /\ at \in 0 .. Len(s)
    BY <1>1, <1>10 DEF At
  <2>4. ~(at < at)
    BY <1>2
  <2>5. ~(Left(m, at) <= n)
    BY <1>2, <1>10, <2>4
  <2>6. d[s[at]] \in 0 .. Width - 1 /\ ~(d[s[at]] <= n)
    BY <1>3, <2>3, <2>5
  <2>7. m.tcnt[s[at]] = d[s[at]] - x
    BY <1>7, <1>10
  <2> HIDE DEF at, x, r, s
  <2>8. m.tcnt[s[at]] - (n - x) = d[s[at]] - n /\ d[s[at]] - n \in 0 .. Width - 1
    BY <1>1, <1>4, <2>6, <2>7
  <2>9. (d[s[at]] - n) % Width = d[s[at]] - n
    BY <2>8, Fits
  <2> QED
    BY <1>1, <2>2, <2>6, <2>8, <2>9
<1> HIDE DEF at, r, l, e, s
<1>11. ASSUME NEW j \in 1 .. Len(l)
       PROVE  At(e, l, j - 1) <= e[l[j]] /\ r.tcnt[l[j]] = e[l[j]] - At(e, l, j - 1)
  <2>1. CASE j < at
    <3>1. j \in 1 .. Len(s) /\ j # at /\ j - 1 \in 0 .. Len(s) /\ (j - 1 # 0 => j - 1 \in 1 .. Len(s) /\ j - 1 < at)
      BY <1>1, <1>2, <2>1
    <3>2. l[j] = s[j] /\ (j - 1 # 0 => l[j - 1] = s[j - 1])
      BY <1>1, <1>5, <2>1, <3>1
    <3>3. At(e, l, j - 1) = At(d, s, j - 1)
      BY <1>8, <3>1, <3>2 DEF At
    <3> QED
      BY <1>7, <1>8, <1>9, <3>1, <3>2, <3>3
  <2>2. CASE j = at
    <3>1. l[j] = t /\ (j - 1 # 0 => j - 1 \in 1 .. Len(s) /\ l[j - 1] = s[j - 1])
      BY <1>1, <1>2, <1>5, <2>2
    <3>2. At(e, l, j - 1) = x
      BY <1>8, <2>2, <3>1 DEF At
    <3> QED
      BY <1>4, <1>6, <1>8, <3>1, <3>2
  <2>3. CASE j = at + 1
    <3>1. at \in 1 .. Len(s) /\ l[j] = s[at] /\ j - 1 = at /\ at # 0 /\ l[at] = t
      BY <1>1, <1>2, <1>5, <2>3
    <3>2. At(e, l, j - 1) = n
      BY <1>8, <3>1 DEF At
    <3> QED
      BY <1>8, <1>10, <3>1, <3>2
  <2>4. CASE j > at + 1
    <3>1. /\ j - 1 \in 1 .. Len(s) /\ j - 1 # at /\ j - 1 \in 1 .. Len(l) /\ j - 1 # 0 /\ j - 1 - 1 # 0
          /\ j - 1 - 1 \in 1 .. Len(s) /\ l[j] = s[j - 1] /\ l[j - 1] = s[j - 1 - 1]
      <4>1. /\ j \in 1 .. Len(s) + 1 /\ j - 1 \in 1 .. Len(s) + 1 /\ j \in Int /\ at \in Int /\ at >= 1
            /\ j <= Len(s) + 1
        BY <1>1, <1>2, <1>5, <2>4
      <4>2. l[j] = s[j - 1] /\ l[j - 1] = s[j - 1 - 1]
        BY <1>5, <2>4, <4>1
      <4> QED
        BY <1>1, <1>5, <2>4, <4>1, <4>2
    <3>2. At(e, l, j - 1) = At(d, s, j - 1 - 1)
      BY <1>8, <3>1 DEF At
    <3> QED
      BY <1>7, <1>8, <1>9, <3>1, <3>2, SMTT(30)
  <2> QED
    BY <1>1, <1>2, <1>5, <2>1, <2>2, <2>3, <2>4
<1>12. Runs(r, e)
  BY <1>5, <1>6, <1>8, <1>11 DEF Runs
<1> QED
  BY <1>12 DEF r, e

LEMMA RemoveRuns ==
  ASSUME NEW m, Record(m), Distinct(m.list), NEW t, Holds(m.list, t), NEW d, Runs(m, d)
  PROVE  Runs(RemoveTimer(m, t), d)
<1> DEFINE p == Place(m, t)
           s == m.list
           l == RemoveAt(s, p)
           r == RemoveTimer(m, t)
<1>1. /\ s \in Seq(Timers) /\ Len(s) \in Nat /\ \A i, j \in 1 .. Len(s) : s[i] = s[j] => i = j
      /\ \A i \in 1 .. Len(s) : s[i] \in Timers
      /\ p \in 1 .. Len(s) /\ s[p] = t /\ Width \in Nat /\ Width > 2
  BY PlaceIs, TimersAssumption DEF Distinct
<1>2. /\ r.list = l /\ r.tcnt = Joint(m, t) /\ Len(l) = Len(s) - 1
      /\ \A j \in 1 .. Len(s) - 1 : l[j] = IF j < p THEN s[j] ELSE s[j + 1]
  <2>1. r.list = l /\ r.tcnt = Joint(m, t)
    BY RemoveIs
  <2> HIDE DEF p, s
  <2>2. /\ Len(l) = Len(s) - 1
        /\ \A j \in 1 .. Len(s) - 1 : l[j] = IF j < p THEN s[j] ELSE s[j + 1]
    BY <1>1, RemoveAtIs
  <2> QED
    BY <2>1, <2>2
<1>3. /\ d \in [Timers -> 0 .. Width - 1] /\ DOMAIN r.tcnt = Timers
      /\ \A i \in 1 .. Len(s) : At(d, s, i - 1) <= d[s[i]] /\ m.tcnt[s[i]] = d[s[i]] - At(d, s, i - 1)
  BY <1>2 DEF Runs, Joint
<1>4. \A i \in 1 .. Len(s) : i # p + 1 => r.tcnt[s[i]] = m.tcnt[s[i]]
  <2>1. p < Len(s) => p + 1 \in 1 .. Len(s)
    BY <1>1
  <2> QED
    BY <1>1, <1>2, <2>1 DEF Joint
<1>5. \A i \in 0 .. Len(s) : At(d, s, i) \in 0 .. Width - 1
  <2>1. \A i \in 0 .. Len(s) : i \in i .. Len(s)
    BY <1>1
  <2> QED
    BY <2>1, Sorted
<1>6. ASSUME p + 1 \in 1 .. Len(s)
      PROVE  At(d, s, p - 1) <= d[s[p + 1]] /\ r.tcnt[s[p + 1]] = d[s[p + 1]] - At(d, s, p - 1)
  <2> DEFINE x == At(d, s, p - 1)
             y == d[s[p]]
             z == d[s[p + 1]]
  <2>1. /\ s[p + 1] \in Timers /\ p < Len(s) /\ p - 1 \in 0 .. Len(s) /\ p # 0 /\ p + 1 - 1 = p
        /\ p \in 0 .. Len(s) /\ p + 1 \in 0 .. Len(s) /\ p + 1 # 0
    BY <1>1, <1>6
  <2>2. r.tcnt[s[p + 1]] = (m.tcnt[s[p + 1]] + m.tcnt[s[p]]) % Width
    BY <1>1, <1>2, <2>1 DEF Joint
  <2>3. At(d, s, p) = y /\ At(d, s, p + 1) = z
    BY <2>1 DEF At
  <2>4. x \in 0 .. Width - 1 /\ y \in 0 .. Width - 1 /\ z \in 0 .. Width - 1
    BY <1>5, <2>1, <2>3
  <2>5. m.tcnt[s[p]] = y - x /\ x <= y
    BY <1>1, <1>3
  <2>6. m.tcnt[s[p + 1]] = z - y /\ y <= z
    BY <1>3, <1>6, <2>1, <2>3
  <2> HIDE DEF x, y, z, r, p, s
  <2>7. z - y + (y - x) = z - x /\ z - x \in 0 .. Width - 1 /\ x <= z
    BY <1>1, <2>4, <2>5, <2>6
  <2>8. (z - x) % Width = z - x
    BY <2>7, Fits
  <2>9. r.tcnt[s[p + 1]] = z - x
    BY <2>2, <2>5, <2>6, <2>7, <2>8
  <2> QED
    BY <2>7, <2>9 DEF x, z
<1> HIDE DEF p, r, l, s
<1>7. ASSUME NEW j \in 1 .. Len(l)
      PROVE  At(d, l, j - 1) <= d[l[j]] /\ r.tcnt[l[j]] = d[l[j]] - At(d, l, j - 1)
  <2>1. CASE j < p
    <3>1. /\ j \in 1 .. Len(s) /\ j # p + 1 /\ (j - 1 # 0 => j - 1 \in 1 .. Len(s) - 1 /\ j - 1 < p)
          /\ l[j] = s[j]
      BY <1>1, <1>2, <2>1
    <3>2. At(d, l, j - 1) = At(d, s, j - 1)
      BY <1>2, <3>1 DEF At
    <3> QED
      BY <1>3, <1>4, <3>1, <3>2
  <2>2. CASE j = p
    <3>1. /\ p + 1 \in 1 .. Len(s) /\ l[j] = s[p + 1]
          /\ (j - 1 # 0 => j - 1 \in 1 .. Len(s) - 1 /\ j - 1 < p)
      BY <1>1, <1>2, <2>2
    <3>2. At(d, l, j - 1) = At(d, s, p - 1)
      BY <1>2, <2>2, <3>1 DEF At
    <3> QED
      BY <1>6, <3>1, <3>2
  <2>3. CASE j > p
    <3>1. /\ j + 1 \in 1 .. Len(s) /\ j + 1 # p + 1 /\ l[j] = s[j + 1]
          /\ j - 1 # 0 /\ j - 1 \in 1 .. Len(s) - 1 /\ ~(j - 1 < p) /\ j - 1 + 1 = j /\ j + 1 - 1 = j /\ j # 0
      BY <1>1, <1>2, <2>3
    <3>2. l[j - 1] = s[j]
      BY <1>2, <3>1
    <3>3. At(d, l, j - 1) = At(d, s, j + 1 - 1)
      BY <3>1, <3>2 DEF At
    <3> QED
      BY <1>3, <1>4, <3>1, <3>3
  <2> QED
    BY <1>1, <1>2, <2>1, <2>2, <2>3
<1>8. Runs(r, d)
  BY <1>2, <1>3, <1>7 DEF Runs
<1> QED
  BY <1>8 DEF r

\* The timers of the list have d ticks left, and the others none.
Lasts(m, d) ==
  /\ Runs(m, d)
  /\ \A u \in Timers : d[u] \in IF Holds(m.list, u) THEN 1 .. Width - 2 ELSE {0}

\* What TimerService says of the ticks left.
Dues(m) == [t \in Timers |-> IF \E i \in DOMAIN m.list : m.list[i] = t
                               THEN Left(m, Place(m, t)) ELSE 0]

LEMMA LastsIs ==
  ASSUME NEW m, NEW d, Lasts(m, d), NEW u \in Timers
  PROVE  /\ Holds(m.list, u) => d[u] \in 1 .. Width - 2 /\ d[u] # 0
         /\ ~Holds(m.list, u) => d[u] = 0
<1>1. d[u] \in IF Holds(m.list, u) THEN 1 .. Width - 2 ELSE {0}
  BY DEF Lasts
<1>2. CASE Holds(m.list, u)
  BY <1>1, <1>2, TimersAssumption
<1>3. CASE ~Holds(m.list, u)
  BY <1>1, <1>3
<1> QED
  BY <1>2, <1>3

LEMMA DuesAre ==
  ASSUME NEW m, Distinct(m.list), NEW d, Lasts(m, d)
  PROVE  Dues(m) = d
<1>1. Len(m.list) \in Nat /\ DOMAIN m.list = 1 .. Len(m.list)
  BY DEF Distinct
<1>2. Runs(m, d) /\ d \in [Timers -> 0 .. Width - 1]
  BY DEF Lasts, Runs
<1>3. ASSUME NEW t \in Timers PROVE Dues(m)[t] = d[t]
  <2>1. CASE Holds(m.list, t)
    <3>1. Place(m, t) \in 1 .. Len(m.list) /\ m.list[Place(m, t)] = t
      BY <2>1, PlaceIs
    <3>2. Dues(m)[t] = Left(m, Place(m, t))
      BY <1>1, <2>1 DEF Dues, Holds
    <3> DEFINE p == Place(m, t)
    <3> HIDE DEF p
    <3>3. p \in 0 .. Len(m.list) /\ p # 0
      BY <1>1, <3>1 DEF p
    <3>4. Left(m, p) = At(d, m.list, p)
      BY <1>2, <3>3, LeftIs
    <3> QED
      BY <3>1, <3>2, <3>3, <3>4 DEF At, p
  <2>2. CASE ~Holds(m.list, t)
    BY <1>1, <2>2 DEF Dues, Holds, Lasts
  <2> QED
    BY <2>1, <2>2
<1>4. DOMAIN Dues(m) = Timers /\ Dues(m) = [t \in Timers |-> Dues(m)[t]]
  BY DEF Dues
<1>5. d = [t \in Timers |-> d[t]]
  BY <1>2
<1> QED
  BY <1>3, <1>4, <1>5

\* The ticks of a timer that is not in the list do not matter, and nothing but the list
\* and its delays does.
LEMMA RunsOn ==
  ASSUME NEW m, NEW r, r.list = m.list, r.tcnt = m.tcnt, Distinct(m.list), NEW d, Runs(m, d),
         NEW e \in [Timers -> 0 .. Width - 1], \A u \in Timers : Holds(m.list, u) => e[u] = d[u]
  PROVE  Runs(r, e)
<1>1. /\ Len(m.list) \in Nat
      /\ \A i \in 1 .. Len(m.list) : m.list[i] \in Timers /\ Holds(m.list, m.list[i])
  BY DEF Distinct, Holds
<1>2. \A i \in 1 .. Len(m.list) : e[m.list[i]] = d[m.list[i]]
  BY <1>1
<1>3. \A i \in 1 .. Len(m.list) : At(e, m.list, i - 1) = At(d, m.list, i - 1)
  <2>1. \A i \in 1 .. Len(m.list) : i - 1 # 0 => i - 1 \in 1 .. Len(m.list)
    BY <1>1
  <2> QED
    BY <1>2, <2>1 DEF At
<1> QED
  BY <1>2, <1>3 DEF Runs

LEMMA StopLasts ==
  ASSUME NEW m, Well(m), NEW d, Lasts(m, d), NEW t \in Timers
  PROVE  Lasts(TimerStop(m, t), [d EXCEPT ![t] = 0])
<1>1. Distinct(m.list) /\ Record(m) /\ Runs(m, d) /\ d \in [Timers -> 0 .. Width - 1]
  BY DEF Well, Lasts, Runs
<1> DEFINE e == [d EXCEPT ![t] = 0]
<1>2. /\ e \in [Timers -> 0 .. Width - 1] /\ e[t] = 0
      /\ \A u \in Timers : u # t => e[u] = d[u]
  BY <1>1, TimersAssumption
<1> HIDE DEF e
<1>3. CASE m.state[t] # "Running"
  <2>1. TimerStop(m, t) = m /\ ~Holds(m.list, t)
    BY <1>3 DEF TimerStop, Well
  <2>2. Runs(m, e)
    BY <1>1, <1>2, <2>1, RunsOn
  <2>3. Lasts(m, e)
    BY <1>2, <2>1, <2>2 DEF Lasts
  <2> QED
    BY <2>1, <2>3 DEF e
<1>4. CASE m.state[t] = "Running"
  <2> DEFINE k == [m EXCEPT !.state[t] = "Stopped"]
             r == RemoveTimer(k, t)
  <2>1. k = [list |-> m.list, state |-> [m.state EXCEPT ![t] = "Stopped"], tcnt |-> m.tcnt,
             icnt |-> m.icnt, queue |-> m.queue, busy |-> m.busy, error |-> m.error]
    <3>1. Record(m) /\ k = [m EXCEPT !.state = [m.state EXCEPT ![t] = "Stopped"]]
      BY DEF Well
    <3> QED
      BY <3>1 DEF Record
  <2>2. TimerStop(m, t) = r
    BY <1>4 DEF TimerStop
  <2> HIDE DEF k
  <2>3. Record(k) /\ k.list = m.list /\ k.tcnt = m.tcnt
    BY <2>1 DEF Record
  <2>4. Distinct(k.list) /\ Holds(k.list, t)
    BY <1>4, <2>3 DEF Well
  <2>5. Runs(k, d)
    BY <1>1, <2>3, RunsOn
  <2>6. Runs(r, d)
    BY <2>3, <2>4, <2>5, RemoveRuns
  <2>7. Distinct(r.list) /\ \A u : Holds(r.list, u) <=> Holds(m.list, u) /\ u # t
    BY <2>3, <2>4, RemoveGives DEF Relinked
  <2> HIDE DEF r
  <2>8. Runs(r, e)
    BY <1>2, <2>6, <2>7, RunsOn
  <2>9. Lasts(r, e)
    BY <1>2, <2>7, <2>8 DEF Lasts
  <2> QED
    BY <2>2, <2>9 DEF e
<1> QED
  BY <1>3, <1>4

LEMMA StartLasts ==
  ASSUME NEW m, Well(m), NEW d, Lasts(m, d), NEW t \in Timers, NEW ms,
         Ticks(ms) \in 1 .. Width - 2, m.state[t] # "Invalid"
  PROVE  /\ Lasts(TimerStart(m, t, ms), [d EXCEPT ![t] = Ticks(ms)])
         /\ TimerStart(m, t, ms).icnt =
              IF m.state[t] = "Stopped" THEN [m.icnt EXCEPT ![t] = Ticks(ms)] ELSE m.icnt
         /\ TimerStart(m, t, ms).error = m.error
         /\ Holds(TimerStart(m, t, ms).list, t)
<1> DEFINE n == Ticks(ms)
           s == TimerStart(m, t, ms)
           e == [d EXCEPT ![t] = n]
<1>1. /\ Distinct(m.list) /\ Record(m) /\ Runs(m, d) /\ d \in [Timers -> 0 .. Width - 1]
      /\ m.state[t] \in {"Stopped", "Running"} /\ n \in 0 .. Width - 1 /\ n # 0 /\ n \in 1 .. Width - 2
  BY TimersAssumption DEF Well, Lasts, Runs
<1>2. ASSUME NEW k, Record(k), Distinct(k.list), ~Holds(k.list, t), Runs(k, d), s = Insert(k, t, n),
             k.error = m.error, \A u : Holds(k.list, u) <=> Holds(m.list, u) /\ u # t
      PROVE  Lasts(s, e) /\ s.icnt = k.icnt /\ s.error = m.error /\ Holds(s.list, t)
  <2>1. s.icnt = k.icnt /\ s.error = m.error
    BY <1>2, InsertIs
  <2>2. \A u : Holds(s.list, u) <=> Holds(m.list, u) \/ u = t
    BY <1>2, InsertGives
  <2> HIDE DEF n, s
  <2>3. Runs(s, e)
    <3>1. Runs(Insert(k, t, n), [d EXCEPT ![t] = n])
      BY <1>1, <1>2, InsertRuns
    <3> QED
      BY <1>2, <3>1
  <2>4. Lasts(s, e)
    BY <1>1, <2>2, <2>3 DEF Lasts
  <2> QED
    BY <2>1, <2>2, <2>4
<1> HIDE DEF n
<1>3. CASE m.state[t] = "Running"
  <2> DEFINE k == RemoveTimer(m, t)
  <2>1. s = Insert(k, t, n)
    BY <1>1, <1>3 DEF TimerStart, n
  <2>2. Holds(m.list, t)
    BY <1>3 DEF Well
  <2>3. Record(k) /\ k.error = m.error /\ k.icnt = m.icnt
    BY <1>1, RemoveIs
  <2>4. Distinct(k.list) /\ \A u : Holds(k.list, u) <=> Holds(m.list, u) /\ u # t
    BY <1>1, <2>2, RemoveGives DEF Relinked
  <2>5. Runs(k, d)
    BY <1>1, <2>2, RemoveRuns
  <2> HIDE DEF k, s, e
  <2>6. Lasts(s, e) /\ s.icnt = k.icnt /\ s.error = m.error /\ Holds(s.list, t)
    BY <1>2, <2>1, <2>3, <2>4, <2>5
  <2> QED
    BY <1>3, <2>3, <2>6 DEF n, s, e
<1>4. CASE m.state[t] = "Stopped"
  <2> DEFINE k == [m EXCEPT !.state[t] = "Running", !.icnt[t] = n]
  <2>1. s = Insert(k, t, n)
    BY <1>1, <1>4 DEF TimerStart, n
  <2>2. k = [list |-> m.list, state |-> [m.state EXCEPT ![t] = "Running"], tcnt |-> m.tcnt,
             icnt |-> [m.icnt EXCEPT ![t] = n], queue |-> m.queue, busy |-> m.busy, error |-> m.error]
    <3>1. /\ Record(m)
          /\ k = [m EXCEPT !.state = [m.state EXCEPT ![t] = "Running"], !.icnt = [m.icnt EXCEPT ![t] = n]]
      BY DEF Well
    <3> HIDE DEF k
    <3> DEFINE j == [m EXCEPT !.state = [m.state EXCEPT ![t] = "Running"]]
    <3>2. j = [list |-> m.list, state |-> [m.state EXCEPT ![t] = "Running"], tcnt |-> m.tcnt,
               icnt |-> m.icnt, queue |-> m.queue, busy |-> m.busy, error |-> m.error]
      BY <3>1 DEF Record
    <3>3. k = [j EXCEPT !.icnt = [m.icnt EXCEPT ![t] = n]]
      BY <3>1
    <3> HIDE DEF j
    <3> QED
      BY <3>2, <3>3
  <2> HIDE DEF k
  <2>3. /\ Record(k) /\ k.list = m.list /\ k.tcnt = m.tcnt /\ k.error = m.error
        /\ k.icnt = [m.icnt EXCEPT ![t] = n]
    BY <2>2 DEF Record
  <2>4. Distinct(k.list) /\ ~Holds(m.list, t)
    BY <1>1, <1>4, <2>3 DEF Well
  <2>5. Runs(k, d)
    BY <1>1, <2>3, RunsOn
  <2> HIDE DEF s, e
  <2>6. Lasts(s, e) /\ s.icnt = k.icnt /\ s.error = m.error /\ Holds(s.list, t)
    BY <1>2, <2>1, <2>3, <2>4, <2>5
  <2> QED
    BY <1>4, <2>3, <2>6 DEF n, s, e
<1> QED
  BY <1>1, <1>3, <1>4

-----------------------------------------------------------------------------
(* The messages to the timer thread *)

\* The timers whose expiry the thread is not done with.
Backlog(m) == IF m.busy = NoTimer THEN <<>> ELSE <<m.busy>> \o m.queue

Thread(m) == m.busy \in Timers \union {NoTimer} /\ m.queue \in Seq(Timers) /\ Served(m)

LEMMA BacklogIs ==
  ASSUME NEW m, Thread(m)
  PROVE  /\ Backlog(m) \in Seq(Timers) /\ Len(m.queue) \in Nat
         /\ Len(Backlog(m)) = IF m.busy = NoTimer THEN 0 ELSE Len(m.queue) + 1
         /\ m.busy # NoTimer =>
              \A i \in 1 .. Len(m.queue) + 1 : Backlog(m)[i] = IF i = 1 THEN m.busy ELSE m.queue[i - 1]
<1>1. Len(m.queue) \in Nat /\ m.queue \in Seq(Timers)
  BY DEF Thread
<1>2. CASE m.busy = NoTimer
  <2>1. Backlog(m) = <<>>
    BY <1>2 DEF Backlog
  <2> QED
    BY <1>1, <1>2, <2>1
<1>3. CASE m.busy # NoTimer
  <2> DEFINE a == <<m.busy>>
  <2>1. a \in Seq(Timers) /\ Len(a) = 1 /\ a[1] = m.busy
    BY <1>3 DEF Thread
  <2>2. Backlog(m) = a \o m.queue
    BY <1>3 DEF Backlog
  <2> HIDE DEF a
  <2>3. /\ Backlog(m) \in Seq(Timers) /\ Len(Backlog(m)) = 1 + Len(m.queue)
        /\ \A i \in 1 .. 1 + Len(m.queue) :
             Backlog(m)[i] = IF i <= 1 THEN a[i] ELSE m.queue[i - 1]
    <3>1. /\ a \o m.queue \in Seq(Timers) /\ Len(a \o m.queue) = Len(a) + Len(m.queue)
          /\ \A i \in 1 .. Len(a) + Len(m.queue) :
               (a \o m.queue)[i] = IF i <= Len(a) THEN a[i] ELSE m.queue[i - Len(a)]
      BY <1>1, <2>1, ConcatProperties
    <3> QED
      BY <2>1, <2>2, <3>1
  <2>4. ASSUME NEW i \in 1 .. Len(m.queue) + 1
        PROVE  Backlog(m)[i] = IF i = 1 THEN m.busy ELSE m.queue[i - 1]
    <3>1. i \in 1 .. 1 + Len(m.queue) /\ (i <= 1 <=> i = 1)
      BY <1>1
    <3> QED
      BY <2>1, <2>3, <3>1
  <2>5. 1 + Len(m.queue) = Len(m.queue) + 1
    BY <1>1
  <2> QED
    BY <1>1, <1>3, <2>3, <2>4, <2>5
<1> QED
  BY <1>2, <1>3

\* Who waits once waits with as many others as there are timers.
LEMMA Crowd ==
  ASSUME NEW s, Distinct(s)
  PROVE  Len(s) <= QueueSize + 1 /\ Len(s) \in Nat
<1>1. /\ s \in Seq(Timers) /\ Len(s) \in Nat /\ \A i, j \in 1 .. Len(s) : s[i] = s[j] => i = j
      /\ s \in [1 .. Len(s) -> Timers]
  BY DEF Distinct
<1>2. /\ IsFiniteSet(Timers) /\ Cardinality(Timers) \in Nat /\ QueueSize \in Nat
      /\ Cardinality(Timers) <= QueueSize + 1
  BY RoomAssumption, FS_CardinalityType
<1>3. IsFiniteSet(1 .. Len(s)) /\ Cardinality(1 .. Len(s)) = Len(s)
  <2>1. 1 \in Int /\ Len(s) \in Int
    BY <1>1
  <2>2. /\ IsFiniteSet(1 .. Len(s))
        /\ Cardinality(1 .. Len(s)) = IF 1 > Len(s) THEN 0 ELSE Len(s) - 1 + 1
    BY <2>1, FS_Interval, Zenon
  <2> QED
    BY <1>1, <2>2
<1>4. ~(Cardinality(Timers) < Len(s))
  BY <1>1, <1>2, <1>3, FS_PigeonHole
<1> QED
  BY <1>1, <1>2, <1>4

\* So there is room for one that does not wait yet.
LEMMA Room ==
  ASSUME NEW m, Thread(m), Distinct(Backlog(m)), NEW t \in Timers, ~Holds(Backlog(m), t)
  PROVE  /\ Distinct(Append(Backlog(m), t)) /\ Len(Backlog(m)) <= QueueSize
         /\ \A u : Holds(Append(Backlog(m), t), u) <=> Holds(Backlog(m), u) \/ u = t
         /\ QueueSize - Len(m.queue) # 0
         /\ m.busy # NoTimer => Len(m.queue) < QueueSize
<1> DEFINE s == Backlog(m)
<1>1. s \in Seq(Timers) /\ Len(s) \in Nat
  BY BacklogIs
<1>2. Append(s, t) = s \o <<t>>
  BY <1>1, AppendIsConcat
<1> HIDE DEF s
<1>3. Distinct(s \o <<t>>) /\ \A u : Holds(s \o <<t>>, u) <=> Holds(s, u) \/ u = t
  BY <1>1, Single, Joined DEF s
<1>4. Len(Append(s, t)) = Len(s) + 1 /\ Len(Append(s, t)) <= QueueSize + 1 /\ QueueSize \in Nat \ {0}
  BY <1>1, <1>2, <1>3, Crowd, AppendProperties, RoomAssumption
<1>5. Len(s) <= QueueSize
  BY <1>1, <1>4
<1>6. /\ Len(m.queue) \in Nat /\ (m.busy = NoTimer => Len(m.queue) = 0)
      /\ (m.busy # NoTimer => Len(s) = Len(m.queue) + 1)
  BY BacklogIs DEF s, Thread, Served
<1>7. QueueSize - Len(m.queue) # 0 /\ (m.busy # NoTimer => Len(m.queue) < QueueSize)
  BY <1>4, <1>5, <1>6
<1> QED
  BY <1>2, <1>3, <1>5, <1>7 DEF s

LEMMA PutIs ==
  ASSUME NEW r, Record(r), Thread(r), Distinct(Backlog(r)), NEW t \in Timers,
         ~Holds(Backlog(r), t), NEW room, room # 0
  PROVE  /\ Record(Put(r, t, room)) /\ Thread(Put(r, t, room)) /\ Distinct(Backlog(Put(r, t, room)))
         /\ \A u : Holds(Backlog(Put(r, t, room)), u) <=> Holds(Backlog(r), u) \/ u = t
         /\ Put(r, t, room).list = r.list /\ Put(r, t, room).tcnt = r.tcnt
         /\ Put(r, t, room).icnt = r.icnt /\ Put(r, t, room).error = r.error
<1> DEFINE k == Put(r, t, room)
<1>1. /\ Distinct(Append(Backlog(r), t))
      /\ \A u : Holds(Append(Backlog(r), t), u) <=> Holds(Backlog(r), u) \/ u = t
      /\ r.busy # NoTimer => Len(r.queue) < QueueSize
  BY Room
<1>2. CASE r.busy = NoTimer
  <2>1. k = [r EXCEPT !.busy = t]
    BY <1>2 DEF Put, Post
  <2>2. k = [list |-> r.list, state |-> r.state, tcnt |-> r.tcnt, icnt |-> r.icnt,
             queue |-> r.queue, busy |-> t, error |-> r.error]
    BY <2>1 DEF Record
  <2> HIDE DEF k
  <2>3. /\ Record(k) /\ k.list = r.list /\ k.tcnt = r.tcnt /\ k.icnt = r.icnt
        /\ k.queue = r.queue /\ k.busy = t /\ k.error = r.error
    BY <2>2 DEF Record
  <2>4. r.queue = <<>> /\ t # NoTimer
    BY <1>2, TimersAssumption DEF Thread, Served
  <2>5. Thread(k)
    BY <2>3, <2>4 DEF Thread, Served
  <2>6. Backlog(r) = <<>> /\ Backlog(k) = <<t>> \o <<>>
    BY <1>2, <2>3, <2>4 DEF Backlog
  <2>7. Append(Backlog(r), t) = Backlog(k)
    <3>1. Append(Backlog(r), t) = <<t>> /\ <<t>> \in Seq(Timers)
      BY <2>6
    <3>2. <<t>> \o <<>> = <<t>>
      BY <3>1, ConcatEmptySeq
    <3> QED
      BY <2>6, <3>1, <3>2
  <2> QED
    BY <1>1, <2>3, <2>5, <2>7 DEF k
<1>3. CASE r.busy # NoTimer
  <2>1. k = [r EXCEPT !.queue = Append(r.queue, t)]
    BY <1>1, <1>3 DEF Put, Post
  <2>2. k = [list |-> r.list, state |-> r.state, tcnt |-> r.tcnt, icnt |-> r.icnt,
             queue |-> Append(r.queue, t), busy |-> r.busy, error |-> r.error]
    BY <2>1 DEF Record
  <2> HIDE DEF k
  <2>3. /\ Record(k) /\ k.list = r.list /\ k.tcnt = r.tcnt /\ k.icnt = r.icnt
        /\ k.queue = Append(r.queue, t) /\ k.busy = r.busy /\ k.error = r.error
    BY <2>2 DEF Record
  <2>4. r.queue \in Seq(Timers) /\ r.busy \in Timers /\ <<t>> \in Seq(Timers) /\ <<r.busy>> \in Seq(Timers)
    BY <1>3 DEF Thread
  <2>5. k.queue \in Seq(Timers) /\ k.queue = r.queue \o <<t>>
    BY <2>3, <2>4, AppendProperties, AppendIsConcat
  <2>6. Thread(k)
    BY <1>3, <2>3, <2>5 DEF Thread, Served
  <2>7. Backlog(r) = <<r.busy>> \o r.queue /\ Backlog(k) = <<r.busy>> \o (r.queue \o <<t>>)
    BY <1>3, <2>3, <2>5 DEF Backlog
  <2>8. Append(Backlog(r), t) = Backlog(k)
    <3>1. Append(Backlog(r), t) = Backlog(r) \o <<t>>
      <4>1. Backlog(r) \in Seq(Timers)
        BY BacklogIs
      <4> QED
        BY <4>1, AppendIsConcat
    <3>2. (<<r.busy>> \o r.queue) \o <<t>> = <<r.busy>> \o (r.queue \o <<t>>)
      <4> DEFINE a == <<r.busy>>
                 b == r.queue
                 c == <<t>>
      <4>1. a \in Seq(Timers) /\ b \in Seq(Timers) /\ c \in Seq(Timers)
        BY <2>4
      <4> HIDE DEF a, b, c
      <4>2. (a \o b) \o c = a \o (b \o c)
        BY <4>1, ConcatAssociative, SMTT(30)
      <4> QED
        BY <4>2 DEF a, b, c
    <3> QED
      BY <2>7, <3>1, <3>2
  <2> QED
    BY <1>1, <2>3, <2>6, <2>8 DEF k
<1> QED
  BY <1>2, <1>3

-----------------------------------------------------------------------------
(* One tick, with the ticks left and the messages *)

\* What is left for the timers of m in a tick, after the i-th of those due has had its turn.
Progress(m, d, i) ==
  [u \in Timers |-> IF \E j \in 1 .. i : m.list[j] = u
                      THEN IF u \in Periodic THEN m.icnt[u] ELSE 0
                    ELSE IF Holds(m.list, u) THEN d[u] - 1 ELSE 0]

\* In a tick of m with n timers due, r is the state after the i-th of them.
Carries(m, d, n, i, r) ==
  /\ Runs(r, Progress(m, d, i)) /\ Thread(r) /\ r.error = m.error
  /\ \A u : Holds(r.list, u) <=> \/ \E j \in n + 1 .. Len(m.list) : m.list[j] = u
                                 \/ u \in Periodic /\ \E j \in 1 .. i : m.list[j] = u
  /\ Distinct(Backlog(r))
  /\ \A u : Holds(Backlog(r), u) <=> Holds(Backlog(m), u) \/ \E j \in 1 .. i : m.list[j] = u

Periods(m) == \A u \in Timers : Holds(m.list, u) => m.icnt[u] \in 1 .. Width - 2

LEMMA TurnCarries ==
  ASSUME NEW m, Well(m), Periods(m), NEW d, NEW n \in 0 .. Len(m.list), NEW i \in 1 .. n, NEW r,
         Between(m, n, i - 1, r), Carries(m, d, n, i - 1, r),
         ~Holds(Backlog(m), m.list[i]), NEW room, room # 0
  PROVE  Carries(m, d, n, i, Expired(Put(r, m.list[i], room), m.list[i]))
<1> DEFINE t == m.list[i]
           k == Put(r, t, room)
           x == Expired(k, t)
           p == Progress(m, d, i - 1)
           q == Progress(m, d, i)
           c == IF t \in Periodic THEN m.icnt[t] ELSE 0
<1>1. /\ m.list \in Seq(Timers) /\ Len(m.list) \in Nat /\ n \in Nat /\ i \in Nat
      /\ \A a, b \in 1 .. Len(m.list) : m.list[a] = m.list[b] => a = b
      /\ i \in 1 .. Len(m.list) /\ t \in Timers /\ i \in i - 1 + 1 .. n
      /\ \A j \in 1 .. i - 1 : j \in 1 .. Len(m.list) /\ j # i /\ j \in 1 .. i
      /\ \A j \in 1 .. i : j \in 1 .. i - 1 \/ j = i
      /\ i \in 1 .. i
  BY DEF Well, Distinct
<1>2. Holds(m.list, t) /\ m.icnt[t] \in 1 .. Width - 2 /\ c \in 0 .. Width - 1
  BY <1>1, TimersAssumption DEF Holds, Periods
<1>3. Record(r) /\ Distinct(r.list) /\ r.icnt = m.icnt /\ ~Holds(r.list, t)
  BY <1>1 DEF Between
<1>4. /\ Runs(r, p) /\ Thread(r) /\ r.error = m.error
      /\ \A u : Holds(r.list, u) <=> \/ \E j \in n + 1 .. Len(m.list) : m.list[j] = u
                                     \/ u \in Periodic /\ \E j \in 1 .. i - 1 : m.list[j] = u
      /\ Distinct(Backlog(r))
      /\ \A u : Holds(Backlog(r), u) <=> Holds(Backlog(m), u) \/ \E j \in 1 .. i - 1 : m.list[j] = u
  BY DEF Carries
<1>5. ~Holds(Backlog(r), t)
  BY <1>1, <1>4
<1>6. /\ Record(k) /\ Thread(k) /\ Distinct(Backlog(k))
      /\ \A u : Holds(Backlog(k), u) <=> Holds(Backlog(r), u) \/ u = t
      /\ k.list = r.list /\ k.tcnt = r.tcnt /\ k.icnt = m.icnt /\ k.error = m.error
  BY <1>1, <1>3, <1>4, <1>5, PutIs
<1>7. p \in [Timers -> 0 .. Width - 1] /\ Runs(k, p)
  <2>1. p \in [Timers -> 0 .. Width - 1]
    BY <1>4 DEF Runs
  <2> HIDE DEF k, p
  <2> QED
    BY <1>3, <1>4, <1>6, <2>1, RunsOn
<1>8. q = [p EXCEPT ![t] = c]
  <2>1. ASSUME NEW u \in Timers PROVE q[u] = IF u = t THEN c ELSE p[u]
    <3>1. CASE u = t
      BY <1>1, <3>1 DEF Progress
    <3>2. CASE u # t
      <4>1. (\E j \in 1 .. i : m.list[j] = u) <=> (\E j \in 1 .. i - 1 : m.list[j] = u)
        BY <1>1, <3>2
      <4> QED
        BY <3>2, <4>1 DEF Progress
    <3> QED
      BY <3>1, <3>2
  <2>2. DOMAIN p = Timers /\ q = [u \in Timers |-> q[u]] /\ p = [u \in Timers |-> p[u]]
    BY DEF Progress
  <2> HIDE DEF p, q, c, t
  <2> QED
    BY <2>1, <2>2
<1>9. q \in [Timers -> 0 .. Width - 1]
  <2> HIDE DEF q, p, c
  <2> QED
    BY <1>2, <1>7, <1>8
<1>10. /\ Runs(x, q) /\ x.queue = k.queue /\ x.busy = k.busy /\ x.error = k.error
       /\ \A u : Holds(x.list, u) <=> Holds(k.list, u) \/ (u = t /\ t \in Periodic)
  <2> HIDE DEF k, p, q
  <2>1. CASE t \in Periodic
    <3>1. x = Insert(k, t, c)
      BY <1>6, <2>1 DEF Expired
    <3> HIDE DEF c, x, t
    <3>2. Distinct(k.list) /\ ~Holds(k.list, t) /\ t \in Timers /\ c \in 0 .. Width - 1 /\ Record(k)
      BY <1>1, <1>2, <1>3, <1>6
    <3>3. Runs(Insert(k, t, c), [p EXCEPT ![t] = c])
      BY <1>7, <3>2, InsertRuns
    <3>4. \A u : Holds(x.list, u) <=> Holds(k.list, u) \/ u = t
      BY <3>1, <3>2, InsertGives
    <3>5. x.queue = k.queue /\ x.busy = k.busy /\ x.error = k.error
      BY <3>1, <3>2, InsertIs
    <3> QED
      BY <1>8, <2>1, <3>1, <3>3, <3>4, <3>5
  <2>2. CASE t \notin Periodic
    <3>1. x = [k EXCEPT !.state = [k.state EXCEPT ![t] = "Stopped"]]
      BY <2>2 DEF Expired
    <3>2. x = [list |-> k.list, state |-> [k.state EXCEPT ![t] = "Stopped"], tcnt |-> k.tcnt,
               icnt |-> k.icnt, queue |-> k.queue, busy |-> k.busy, error |-> k.error]
      BY <1>6, <3>1 DEF Record
    <3> HIDE DEF x
    <3>3. x.list = k.list /\ x.tcnt = k.tcnt /\ x.queue = k.queue /\ x.busy = k.busy /\ x.error = k.error
      BY <3>2
    <3>4. \A u \in Timers : Holds(k.list, u) => q[u] = p[u]
      BY <1>3, <1>6, <1>7, <1>8
    <3>5. Distinct(k.list)
      BY <1>3, <1>6
    <3>6. Runs(x, q)
      BY <1>7, <1>9, <3>3, <3>4, <3>5, RunsOn
    <3> QED
      BY <2>2, <3>3, <3>6
  <2> QED
    BY <2>1, <2>2
<1> HIDE DEF x, k, p, q, c
<1>11. Thread(x) /\ Backlog(x) = Backlog(k)
  BY <1>6, <1>10 DEF Thread, Served, Backlog
<1>12. \A u : (\E j \in 1 .. i : m.list[j] = u) <=> (\E j \in 1 .. i - 1 : m.list[j] = u) \/ u = t
  BY <1>1
<1>13. \A u : Holds(x.list, u) <=> \/ \E j \in n + 1 .. Len(m.list) : m.list[j] = u
                                   \/ u \in Periodic /\ \E j \in 1 .. i : m.list[j] = u
  BY <1>4, <1>6, <1>10, <1>12
<1>14. \A u : Holds(Backlog(x), u) <=> Holds(Backlog(m), u) \/ \E j \in 1 .. i : m.list[j] = u
  BY <1>4, <1>6, <1>11, <1>12
<1>15. Carries(m, d, n, i, x)
  BY <1>6, <1>10, <1>11, <1>13, <1>14 DEF Carries, q
<1> QED
  BY <1>15 DEF x, k, t

\* The head counts for all.
LEMMA DownRuns ==
  ASSUME NEW m, Well(m), NEW d, Lasts(m, d), m.list # <<>>
  PROVE  Runs(Down(m), Progress(m, d, 0))
<1> DEFINE s == m.list
           e == Progress(m, d, 0)
           r == Down(m)
<1>1. /\ s \in Seq(Timers) /\ Len(s) \in Nat /\ \A i, j \in 1 .. Len(s) : s[i] = s[j] => i = j
      /\ \A i \in 1 .. Len(s) : s[i] \in Timers /\ Holds(s, s[i])
      /\ Len(s) >= 1 /\ Head(s) = s[1] /\ 1 \in 1 .. Len(s)
  BY DEF Well, Distinct, Holds
<1>2. /\ r.list = s /\ r.tcnt = [m.tcnt EXCEPT ![s[1]] = (@ - 1) % Width]
  BY <1>1, DownIs
<1>3. /\ d \in [Timers -> 0 .. Width - 1] /\ DOMAIN m.tcnt = Timers
      /\ \A i \in 1 .. Len(s) : At(d, s, i - 1) <= d[s[i]] /\ m.tcnt[s[i]] = d[s[i]] - At(d, s, i - 1)
  BY DEF Lasts, Runs
<1>4. \A u \in Timers : d[u] \in IF Holds(s, u) THEN 1 .. Width - 2 ELSE {0}
  BY DEF Lasts
<1>5. \A u \in Timers : e[u] = IF Holds(s, u) THEN d[u] - 1 ELSE 0
  BY DEF Progress
<1>6. e \in [Timers -> 0 .. Width - 1]
  <2>1. ASSUME NEW u \in Timers PROVE e[u] \in 0 .. Width - 1
    BY <1>4, <1>5, TimersAssumption
  <2> QED
    BY <2>1 DEF Progress
<1>7. r.tcnt[s[1]] = d[s[1]] - 1
  <2>1. m.tcnt[s[1]] = d[s[1]]
    <3>1. m.tcnt[s[1]] = d[s[1]] - At(d, s, 1 - 1) /\ d[s[1]] \in Int
      BY <1>1, <1>3, <1>4
    <3> QED
      BY <3>1 DEF At
  <2>2. d[s[1]] \in 1 .. Width - 2
    BY <1>1, <1>4
  <2>3. d[s[1]] - 1 \in 0 .. Width - 1
    BY <2>2, TimersAssumption
  <2>4. r.tcnt[s[1]] = (d[s[1]] - 1) % Width
    BY <1>1, <1>2, <1>3, <2>1
  <2> QED
    BY <2>3, <2>4, Fits
<1> HIDE DEF e, r, s
<1>8. ASSUME NEW i \in 1 .. Len(s)
      PROVE  At(e, s, i - 1) <= e[s[i]] /\ r.tcnt[s[i]] = e[s[i]] - At(e, s, i - 1)
  <2>1. s[i] \in Timers /\ e[s[i]] = d[s[i]] - 1 /\ d[s[i]] \in 1 .. Width - 2
    BY <1>1, <1>4, <1>5
  <2>2. CASE i = 1
    <3>1. At(e, s, i - 1) = 0
      BY <2>2 DEF At
    <3> QED
      BY <1>7, <2>1, <2>2, <3>1
  <2>3. CASE i # 1
    <3>1. i - 1 \in 1 .. Len(s) /\ i - 1 # 0 /\ s[i] # s[1]
      BY <1>1, <2>3
    <3>2. At(e, s, i - 1) = d[s[i - 1]] - 1 /\ At(d, s, i - 1) = d[s[i - 1]] /\ d[s[i - 1]] \in 1 .. Width - 2
      BY <1>1, <1>4, <1>5, <3>1 DEF At
    <3>3. r.tcnt[s[i]] = m.tcnt[s[i]]
      BY <1>1, <1>2, <1>3, <2>1, <3>1
    <3>4. d[s[i - 1]] <= d[s[i]] /\ m.tcnt[s[i]] = d[s[i]] - d[s[i - 1]]
      BY <1>3, <3>2
    <3> QED
      BY <2>1, <3>2, <3>3, <3>4
  <2> QED
    BY <2>2, <2>3
<1>9. Runs(r, e)
  BY <1>2, <1>3, <1>6, <1>8 DEF Runs, s
<1> QED
  BY <1>9 DEF r, e

\* The timers due are those with one tick left.
LEMMA ReadyDue ==
  ASSUME NEW m, Well(m), NEW d, Lasts(m, d), m.list # <<>>
  PROVE  /\ \A i \in 1 .. Ready(m) : d[m.list[i]] = 1
         /\ \A i \in Ready(m) + 1 .. Len(m.list) : d[m.list[i]] # 1
<1> DEFINE s == m.list
           n == Ready(m)
           e == Progress(m, d, 0)
           r == Down(m)
<1>1. /\ Len(s) \in Nat /\ \A i \in 1 .. Len(s) : s[i] \in Timers /\ Holds(s, s[i])
      /\ Distinct(s)
  BY DEF Well, Distinct, Holds
<1>2. /\ n \in 0 .. Len(s) /\ (n # 0 => Left(r, n) = 0)
      /\ \A i \in n + 1 .. Len(s) : Left(r, i) # 0
  BY ReadyIs
<1>3. r.list = s
  BY DownIs
<1>4. Runs(r, e)
  BY DownRuns
<1>5. \A i \in 1 .. Len(s) : d[s[i]] \in 1 .. Width - 2 /\ e[s[i]] = d[s[i]] - 1
  <2>1. \A u \in Timers : Holds(s, u) => d[u] \in 1 .. Width - 2
    BY DEF Lasts
  <2>2. \A u \in Timers : Holds(s, u) => e[u] = d[u] - 1
    BY DEF Progress
  <2> HIDE DEF e, s
  <2> QED
    BY <1>1, <2>1, <2>2
<1> HIDE DEF n, e, r, s
<1>6. /\ \A i \in 0 .. Len(s) : Left(r, i) = At(e, s, i)
      /\ \A i \in 0 .. Len(s) : \A j \in i .. Len(s) : At(e, s, i) <= At(e, s, j)
  <2>1. \A i \in 0 .. Len(r.list) : Left(r, i) = At(e, r.list, i)
    BY <1>1, <1>3, <1>4, LeftIs
  <2>2. \A i \in 0 .. Len(r.list) : \A j \in i .. Len(r.list) : At(e, r.list, i) <= At(e, r.list, j)
    BY <1>1, <1>3, <1>4, Sorted
  <2> QED
    BY <1>3, <2>1, <2>2
<1>7. \A i \in 1 .. Len(s) : i \in 0 .. Len(s) /\ At(e, s, i) = d[s[i]] - 1
  BY <1>1, <1>5 DEF At
<1>8. ASSUME NEW i \in 1 .. n PROVE d[s[i]] = 1
  <2>1. i \in 1 .. Len(s) /\ n \in 1 .. Len(s) /\ n \in i .. Len(s) /\ n # 0
    BY <1>1, <1>2
  <2>2. At(e, s, i) <= At(e, s, n) /\ At(e, s, n) = 0 /\ At(e, s, i) = d[s[i]] - 1
    BY <1>2, <1>6, <1>7, <2>1
  <2>3. d[s[i]] \in 1 .. Width - 2
    BY <1>5, <2>1
  <2> QED
    BY <2>2, <2>3, TimersAssumption
<1>9. ASSUME NEW i \in n + 1 .. Len(s) PROVE d[s[i]] # 1
  <2>1. i \in 1 .. Len(s)
    BY <1>1, <1>2
  <2> QED
    BY <1>2, <1>6, <1>7, <2>1
<1> QED
  BY <1>8, <1>9 DEF s, n

\* What is left of the list starts anew where the timers due have ended.
LEMMA RestRuns ==
  ASSUME NEW m, Well(m), NEW d, Lasts(m, d), m.list # <<>>
  PROVE  Runs(Rest(m), Progress(m, d, 0))
<1> DEFINE s == m.list
           n == Ready(m)
           e == Progress(m, d, 0)
           c == Down(m).tcnt
           l == SubSeq(s, n + 1, Len(s))
<1>1. s \in Seq(Timers) /\ Len(s) \in Nat /\ n \in 0 .. Len(s) /\ n \in Nat
      /\ \A i \in 1 .. Len(s) : s[i] \in Timers /\ Holds(s, s[i])
  BY ReadyIs DEF Well, Distinct, Holds
<1>2. /\ e \in [Timers -> 0 .. Width - 1] /\ DOMAIN c = Timers
      /\ \A i \in 1 .. Len(s) : At(e, s, i - 1) <= e[s[i]] /\ c[s[i]] = e[s[i]] - At(e, s, i - 1)
  <2>1. Runs(Down(m), e) /\ Down(m).list = s
    BY DownRuns, DownIs
  <2> QED
    BY <2>1 DEF Runs
<1>3. n # 0 => At(e, s, n) = 0
  <2>1. ASSUME n # 0 PROVE At(e, s, n) = 0
    <3>1. n \in 1 .. n /\ n \in 1 .. Len(s)
      BY <1>1, <2>1
    <3>2. d[s[n]] = 1
      BY <3>1, ReadyDue
    <3>3. e[s[n]] = d[s[n]] - 1
      BY <1>1, <3>1 DEF Progress
    <3> HIDE DEF e, n
    <3> QED
      BY <2>1, <3>2, <3>3 DEF At
  <2> QED
    BY <2>1
<1>4. Rest(m).list = l /\ Rest(m).tcnt = c
  BY RestIs
<1> HIDE DEF c, e, n
<1>5. Len(l) = Len(s) - n /\ \A j \in 1 .. Len(s) - n : l[j] = s[n + j]
  <2>1. \A j \in n + 1 .. Len(s) : s[j] \in Timers
    BY <1>1
  <2>2. /\ Len(l) = IF n + 1 <= Len(s) THEN Len(s) - (n + 1) + 1 ELSE 0
        /\ \A j \in 1 .. Len(s) - (n + 1) + 1 : l[j] = s[n + 1 + j - 1]
    BY <1>1, <2>1, SubSeqProperties
  <2> HIDE DEF l, s
  <2>3. /\ Len(s) - (n + 1) + 1 = Len(s) - n
        /\ (IF n + 1 <= Len(s) THEN Len(s) - (n + 1) + 1 ELSE 0) = Len(s) - n
    BY <1>1
  <2>4. ASSUME NEW j \in 1 .. Len(s) - n PROVE l[j] = s[n + j]
    <3>1. n + 1 + j - 1 = n + j
      BY <1>1
    <3> QED
      BY <2>2, <2>3, <3>1
  <2> QED
    BY <2>2, <2>3, <2>4
<1> HIDE DEF l, s
<1>6. ASSUME NEW j \in 1 .. Len(l)
      PROVE  At(e, l, j - 1) <= e[l[j]] /\ c[l[j]] = e[l[j]] - At(e, l, j - 1)
  <2>1. PICK i \in 1 .. Len(s) : i = n + j
    BY <1>1, <1>5
  <2>2. l[j] = s[i] /\ i - 1 = n + (j - 1)
    BY <1>1, <1>5, <2>1
  <2>3. At(e, l, j - 1) = At(e, s, i - 1)
    <3>1. CASE j = 1
      <4>1. i - 1 = n /\ j - 1 = 0
        BY <1>1, <2>1, <3>1
      <4>2. At(e, s, n) = 0
        BY <1>3 DEF At
      <4> QED
        BY <4>1, <4>2 DEF At
    <3>2. CASE j # 1
      <4>1. j - 1 \in 1 .. Len(s) - n /\ j - 1 # 0 /\ i - 1 # 0
        BY <1>1, <1>5, <2>1, <3>2
      <4> QED
        BY <1>5, <2>2, <4>1 DEF At
    <3> QED
      BY <3>1, <3>2
  <2>4. At(e, s, i - 1) <= e[s[i]] /\ c[s[i]] = e[s[i]] - At(e, s, i - 1)
    BY <1>2
  <2> QED
    BY <2>2, <2>3, <2>4
<1> QED
  BY <1>2, <1>4, <1>6 DEF Runs, e

\* What a tick makes of the ticks left.
Ticked(m, d) ==
  [t \in Timers |-> IF d[t] # 1 THEN d[t] - (IF d[t] = 0 THEN 0 ELSE 1)
                    ELSE IF t \in Periodic THEN m.icnt[t] ELSE 0]

LEMMA TickLasts ==
  ASSUME NEW m, Well(m), Thread(m), Periods(m), NEW d, Lasts(m, d), Distinct(Backlog(m)),
         \A u \in Timers : d[u] = 1 => ~Holds(Backlog(m), u)
  PROVE  /\ Lasts(TimerTick(m), Ticked(m, d)) /\ Thread(TimerTick(m))
         /\ TimerTick(m).error = m.error
         /\ Distinct(Backlog(TimerTick(m)))
         /\ \A u \in Timers : Holds(Backlog(TimerTick(m)), u) <=> Holds(Backlog(m), u) \/ d[u] = 1
<1> DEFINE x == TimerTick(m)
           f == Ticked(m, d)
<1>0. /\ d \in [Timers -> 0 .. Width - 1]
      /\ \A u \in Timers : d[u] \in IF Holds(m.list, u) THEN 1 .. Width - 2 ELSE {0}
  BY DEF Lasts, Runs
<1>1. CASE m.list = <<>>
  <2>1. x = m
    BY <1>1 DEF TimerTick
  <2>2. \A u \in Timers : d[u] = 0
    BY <1>0, <1>1 DEF Holds
  <2>3. f = d
    BY <1>0, <2>2 DEF Ticked
  <2> HIDE DEF x, f
  <2> QED
    BY <2>1, <2>2, <2>3 DEF x, f
<1>2. CASE m.list # <<>>
  <2> DEFINE n    == Ready(m)
             s    == m.list
             room == QueueSize - Len(m.queue)
  <2>1. /\ n \in 0 .. Len(s) /\ Len(s) \in Nat
        /\ \A i \in 1 .. Len(s) : s[i] \in Timers /\ Holds(s, s[i])
        /\ \A i, j \in 1 .. Len(s) : s[i] = s[j] => i = j
    BY ReadyIs DEF Well, Distinct, Holds
  <2>2. PICK after : /\ x = after[n] /\ after[0] = Rest(m)
                     /\ \A i \in 1 .. n : after[i] = Turn(m, i, after[i - 1])
    BY <1>2, TickTurns
  <2>3. /\ \A i \in 1 .. n : d[s[i]] = 1
        /\ \A i \in n + 1 .. Len(s) : d[s[i]] # 1
    BY <1>2, ReadyDue
  <2>4. Between(m, n, 0, after[0])
    BY <2>2, RestBetween DEF Thread
  <2>5. Carries(m, d, n, 0, after[0])
    <3> DEFINE r == Rest(m)
               l == SubSeq(s, n + 1, Len(s))
    <3>1. Runs(r, Progress(m, d, 0))
      BY <1>2, RestRuns
    <3>2. r.list = l /\ r.queue = m.queue /\ r.busy = m.busy /\ r.error = m.error
      BY RestIs
    <3>3. \A u : Holds(l, u) <=> \E i \in n + 1 .. Len(s) : s[i] = u
      <4>1. \A a, b \in Nat : 1 <= a /\ b <= Len(s) =>
              \A u : Holds(SubSeq(s, a, b), u) <=> \E i \in a .. b : s[i] = u
        BY Slice DEF Well
      <4> HIDE DEF n, s
      <4>2. n + 1 \in Nat /\ 1 <= n + 1 /\ Len(s) <= Len(s)
        BY <2>1
      <4> QED
        BY <2>1, <4>1, <4>2
    <3> HIDE DEF r, l, n
    <3>4. \A j : j \notin 1 .. 0
      OBVIOUS
    <3>5. Thread(r) /\ Backlog(r) = Backlog(m)
      BY <3>2 DEF Thread, Served, Backlog
    <3>6. Carries(m, d, n, 0, r)
      BY <3>1, <3>2, <3>3, <3>4, <3>5 DEF Carries
    <3> QED
      BY <2>2, <3>6 DEF r
  <2>6. n # 0 => room # 0
    <3>1. ASSUME n # 0 PROVE room # 0
      <4>1. 1 \in 1 .. n /\ 1 \in 1 .. Len(s)
        BY <2>1, <3>1
      <4>2. ~Holds(Backlog(m), s[1]) /\ s[1] \in Timers
        BY <2>1, <2>3, <4>1
      <4> QED
        BY <4>2, Room
    <3> QED
      BY <3>1
  <2> HIDE DEF n, x, f
  <2>7. Between(m, n, n, after[n]) /\ Carries(m, d, n, n, after[n])
    <3> DEFINE Good(k) == Between(m, n, k, after[k]) /\ Carries(m, d, n, k, after[k])
               Bad     == {k \in Nat : k <= n /\ ~Good(k)}
    <3> SUFFICES ASSUME Bad # {} PROVE FALSE
      BY <2>1
    <3>1. PICK k \in Bad : \A j \in Bad : k <= j
      BY LeastNat
    <3>2. k # 0
      BY <2>4, <2>5, <3>1
    <3>3. k - 1 \in Nat /\ k - 1 <= n /\ ~(k <= k - 1) /\ k \in 1 .. n /\ k \in 1 .. Len(s) /\ n # 0
      BY <2>1, <3>1, <3>2
    <3>4. Good(k - 1)
      BY <3>1, <3>3
    <3>5. after[k] = Expired(Put(after[k - 1], s[k], room), s[k])
      BY <2>2, <3>3 DEF Turn
    <3>6. ~Holds(Backlog(m), s[k]) /\ room # 0
      BY <2>1, <2>3, <2>6, <3>3
    <3> HIDE DEF room
    <3>7. Between(m, n, k, after[k])
      <4>1. /\ n \in 0 .. Len(m.list) /\ k \in 1 .. n /\ Between(m, n, k - 1, after[k - 1])
        BY <2>1, <3>3, <3>4
      <4>2. Between(m, n, k, Expired(Put(after[k - 1], m.list[k], room), m.list[k]))
        BY <4>1, TickStep, ZenonT(30)
      <4> QED
        BY <3>5, <4>2
    <3>8. Carries(m, d, n, k, after[k])
      BY <2>1, <3>3, <3>4, <3>5, <3>6, TurnCarries
    <3> QED
      BY <3>1, <3>7, <3>8
  <2>8. /\ Runs(x, Progress(m, d, n)) /\ Thread(x) /\ x.error = m.error /\ Distinct(Backlog(x))
        /\ \A u : Holds(x.list, u) <=> \/ \E j \in n + 1 .. Len(s) : s[j] = u
                                       \/ u \in Periodic /\ \E j \in 1 .. n : s[j] = u
        /\ \A u : Holds(Backlog(x), u) <=> Holds(Backlog(m), u) \/ \E j \in 1 .. n : s[j] = u
    BY <2>2, <2>7 DEF Carries
  <2> HIDE DEF s
  <2>9. \A u \in Timers : d[u] = 1 <=> \E j \in 1 .. n : s[j] = u
    <3>1. \A u \in Timers : d[u] = 1 => \E j \in 1 .. Len(s) : s[j] = u
      BY <1>0 DEF Holds, s
    <3>2. \A j \in 1 .. Len(s) : j \in 1 .. n \/ j \in n + 1 .. Len(s)
      BY <2>1
    <3> QED
      BY <2>3, <3>1, <3>2
  <2>10. \A u \in Timers : Holds(s, u) <=> \/ \E j \in 1 .. n : s[j] = u
                                           \/ \E j \in n + 1 .. Len(s) : s[j] = u
    <3>1. /\ \A j \in 1 .. Len(s) : j \in 1 .. n \/ j \in n + 1 .. Len(s)
          /\ \A j \in 1 .. n : j \in 1 .. Len(s)
          /\ \A j \in n + 1 .. Len(s) : j \in 1 .. Len(s)
      BY <2>1
    <3> QED
      BY <3>1 DEF Holds
  <2>11. ASSUME NEW u \in Timers
         PROVE  /\ f[u] = Progress(m, d, n)[u]
                /\ f[u] \in IF Holds(x.list, u) THEN 1 .. Width - 2 ELSE {0}
    <3>1. /\ f[u] = IF d[u] # 1 THEN d[u] - (IF d[u] = 0 THEN 0 ELSE 1)
                    ELSE IF u \in Periodic THEN m.icnt[u] ELSE 0
          /\ Progress(m, d, n)[u] = IF d[u] = 1 THEN IF u \in Periodic THEN m.icnt[u] ELSE 0
                                    ELSE IF Holds(s, u) THEN d[u] - 1 ELSE 0
      BY <2>9 DEF f, Ticked, Progress, s
    <3>2. CASE d[u] = 1
      <4>1. Holds(s, u) /\ m.icnt[u] \in 1 .. Width - 2 /\ ~\E j \in n + 1 .. Len(s) : s[j] = u
        BY <2>3, <2>9, <2>10, <3>2 DEF Periods, s
      <4>2. Holds(x.list, u) <=> u \in Periodic
        BY <2>8, <2>9, <3>2, <4>1
      <4> QED
        BY <3>1, <3>2, <4>1, <4>2
    <3>3. CASE d[u] # 1 /\ Holds(s, u)
      <4>1. Holds(x.list, u) /\ d[u] \in 1 .. Width - 2
        BY <1>0, <2>8, <2>9, <2>10, <3>3 DEF s
      <4>2. d[u] # 0 /\ d[u] - 1 \in 1 .. Width - 2
        BY <3>3, <4>1, TimersAssumption
      <4> QED
        BY <3>1, <3>3, <4>1, <4>2
    <3>4. CASE d[u] # 1 /\ ~Holds(s, u)
      <4>1. ~Holds(x.list, u) /\ d[u] = 0
        BY <1>0, <2>8, <2>10, <3>4 DEF s
      <4> QED
        BY <3>1, <3>4, <4>1
    <3> QED
      BY <3>2, <3>3, <3>4
  <2>12. f = Progress(m, d, n)
    <3>1. f = [u \in Timers |-> f[u]] /\ Progress(m, d, n) = [u \in Timers |-> Progress(m, d, n)[u]]
      BY DEF f, Ticked, Progress
    <3> QED
      BY <2>11, <3>1
  <2>13. Lasts(x, f)
    BY <2>8, <2>11, <2>12 DEF Lasts
  <2> QED
    BY <2>8, <2>9, <2>13 DEF x, f
<1> QED
  BY <1>1, <1>2

-----------------------------------------------------------------------------
(* The timers as a service *)

\* With the thread late by l: the delays are consistent and no longer than a counter
\* holds, no timer waits twice for the thread, and one that waits does not expire again
\* before the thread must be through.
Timely(m, l) ==
  /\ Well(m) /\ Thread(m) /\ m.error = FALSE /\ l \in 0 .. MaxLate
  /\ Lasts(m, Dues(m)) /\ Distinct(Backlog(m))
  /\ \A u \in Timers : Holds(m.list, u) =>
       /\ m.icnt[u] \in MaxLate + 1 .. Width - 2
       /\ Holds(Backlog(m), u) => Dues(m)[u] > MaxLate - l

\* One message for each timer that waits.
Fired(m) == [t \in Timers |-> (IF m.busy = t THEN 1 ELSE 0)
                              + Cardinality({i \in DOMAIN m.queue : m.queue[i] = t})]

LEMMA BacklogHolds ==
  ASSUME NEW m, Thread(m)
  PROVE  \A u : Holds(Backlog(m), u) <=> m.busy # NoTimer /\ (u = m.busy \/ Holds(m.queue, u))
<1> DEFINE s == Backlog(m)
<1>1. /\ Len(m.queue) \in Nat /\ Len(s) = IF m.busy = NoTimer THEN 0 ELSE Len(m.queue) + 1
      /\ m.busy # NoTimer =>
           \A i \in 1 .. Len(m.queue) + 1 : s[i] = IF i = 1 THEN m.busy ELSE m.queue[i - 1]
  BY BacklogIs
<1> HIDE DEF s
<1>2. CASE m.busy = NoTimer
  BY <1>1, <1>2 DEF Holds, s
<1>3. CASE m.busy # NoTimer
  <2>1. 1 \in 1 .. Len(s) /\ s[1] = m.busy
    BY <1>1, <1>3
  <2>2. \A i \in 1 .. Len(m.queue) : i + 1 \in 1 .. Len(s) /\ s[i + 1] = m.queue[i]
    BY <1>1, <1>3
  <2>3. \A i \in 1 .. Len(s) : s[i] = m.busy \/ (i - 1 \in 1 .. Len(m.queue) /\ s[i] = m.queue[i - 1])
    BY <1>1, <1>3
  <2> QED
    BY <1>3, <2>1, <2>2, <2>3, SMTT(30) DEF Holds, s
<1> QED
  BY <1>2, <1>3

LEMMA FiredIs ==
  ASSUME NEW m, Thread(m), Distinct(Backlog(m))
  PROVE  Fired(m) = [t \in Timers |-> IF Holds(Backlog(m), t) THEN 1 ELSE 0]
<1>1. ASSUME NEW t \in Timers
      PROVE  (IF m.busy = t THEN 1 ELSE 0) + Cardinality({i \in DOMAIN m.queue : m.queue[i] = t})
               = IF Holds(Backlog(m), t) THEN 1 ELSE 0
  <2> DEFINE I == {i \in DOMAIN m.queue : m.queue[i] = t}
  <2>1. /\ Len(m.queue) \in Nat /\ DOMAIN m.queue = 1 .. Len(m.queue) /\ t # NoTimer
        /\ m.busy = NoTimer => m.queue = <<>>
    BY TimersAssumption DEF Thread, Served
  <2>2. I # {} <=> Holds(m.queue, t)
    BY <2>1 DEF Holds
  <2>3. \A i, j \in I : i = j
    <3>1. ASSUME NEW i \in I, NEW j \in I PROVE i = j
      <4> DEFINE s == Backlog(m)
      <4>1. m.busy # NoTimer /\ i \in 1 .. Len(m.queue) /\ j \in 1 .. Len(m.queue)
        BY <2>1, <3>1
      <4>2. /\ Len(s) = Len(m.queue) + 1
            /\ \A k \in 1 .. Len(m.queue) + 1 : s[k] = IF k = 1 THEN m.busy ELSE m.queue[k - 1]
        BY <4>1, BacklogIs
      <4>3. /\ i + 1 \in 1 .. Len(s) /\ j + 1 \in 1 .. Len(s) /\ i + 1 # 1 /\ j + 1 # 1
            /\ i + 1 - 1 = i /\ j + 1 - 1 = j
        BY <2>1, <4>1, <4>2
      <4> HIDE DEF s
      <4>4. s[i + 1] = t /\ s[j + 1] = t
        <5>1. m.queue[i] = t /\ m.queue[j] = t
          BY <3>1
        <5>2. s[i + 1] = m.queue[i + 1 - 1] /\ s[j + 1] = m.queue[j + 1 - 1]
          BY <4>2, <4>3, SMTT(30)
        <5> QED
          BY <4>3, <5>1, <5>2
      <4>5. i + 1 = j + 1
        BY <4>3, <4>4 DEF Distinct, s
      <4> QED
        BY <4>1, <4>5
    <3> QED
      BY <3>1
  <2>4. m.busy = t => ~Holds(m.queue, t)
    <3>1. ASSUME m.busy = t, Holds(m.queue, t) PROVE FALSE
      <4> DEFINE s == Backlog(m)
      <4>1. PICK i \in 1 .. Len(m.queue) : m.queue[i] = t
        BY <3>1 DEF Holds
      <4>2. /\ Len(s) = Len(m.queue) + 1
            /\ \A k \in 1 .. Len(m.queue) + 1 : s[k] = IF k = 1 THEN m.busy ELSE m.queue[k - 1]
        BY <2>1, <3>1, BacklogIs
      <4>3. i + 1 \in 1 .. Len(s) /\ 1 \in 1 .. Len(s) /\ i + 1 # 1 /\ i + 1 - 1 = i
        BY <2>1, <4>1, <4>2
      <4> HIDE DEF s
      <4>4. s[i + 1] = t /\ s[1] = t
        BY <3>1, <4>1, <4>2, <4>3
      <4> QED
        BY <4>3, <4>4 DEF Distinct, s
    <3> QED
      BY <3>1
  <2>5. Cardinality(I) = IF Holds(m.queue, t) THEN 1 ELSE 0
    <3>1. CASE Holds(m.queue, t)
      <4>1. PICK i \in I : TRUE
        BY <2>2, <3>1
      <4>2. I = {i}
        BY <2>3, <4>1
      <4> HIDE DEF I
      <4> QED
        BY <3>1, <4>2, FS_Singleton
    <3>2. CASE ~Holds(m.queue, t)
      <4>1. I = {}
        BY <2>2, <3>2
      <4> HIDE DEF I
      <4> QED
        BY <3>2, <4>1, FS_EmptySet
    <3> QED
      BY <3>1, <3>2
  <2> HIDE DEF I
  <2>6. Holds(Backlog(m), t) <=> m.busy # NoTimer /\ (t = m.busy \/ Holds(m.queue, t))
    BY BacklogHolds
  <2>7. Holds(m.queue, t) => m.busy # NoTimer
    <3>1. \A i \in 1 .. Len(m.queue) : Len(m.queue) # 0
      BY <2>1
    <3> QED
      BY <2>1, <3>1 DEF Holds
  <2>8. (IF m.busy = t THEN 1 ELSE 0) + Cardinality(I) = IF Holds(Backlog(m), t) THEN 1 ELSE 0
    BY <2>1, <2>4, <2>5, <2>6, <2>7
  <2> QED
    BY <2>8 DEF I
<1> QED
  BY <1>1 DEF Fired

LEMMA InitTimely == Timely(TimersInit, 0) /\ Dues(TimersInit) = [t \in Timers |-> 0]
                    /\ Fired(TimersInit) = [t \in Timers |-> 0]
<1> DEFINE m == TimersInit
           z == [t \in Timers |-> 0]
<1>1. /\ m.list = <<>> /\ m.queue = <<>> /\ m.busy = NoTimer /\ m.error = FALSE
      /\ m.tcnt = z /\ m.icnt = z /\ m.state = [t \in Timers |-> "Stopped"] /\ Record(m)
  BY DEF TimersInit, Record
<1> HIDE DEF m
<1>2. Distinct(m.list) /\ \A u : ~Holds(m.list, u)
  BY <1>1 DEF Distinct, Holds
<1>3. Well(m) /\ Thread(m)
  BY <1>1, <1>2 DEF Well, Thread, Served
<1>4. Runs(m, z)
  <2>1. z \in [Timers -> 0 .. Width - 1] /\ DOMAIN m.tcnt = Timers
    BY <1>1, TimersAssumption
  <2>2. \A i \in 1 .. Len(m.list) : FALSE
    BY <1>1
  <2> QED
    BY <2>1, <2>2 DEF Runs
<1>5. Lasts(m, z)
  BY <1>2, <1>4 DEF Lasts
<1>6. Dues(m) = z
  BY <1>2, <1>5, DuesAre
<1>7. Backlog(m) = <<>> /\ Distinct(Backlog(m)) /\ \A u : ~Holds(Backlog(m), u)
  BY <1>1 DEF Backlog, Distinct, Holds
<1>8. Fired(m) = z
  BY <1>3, <1>7, FiredIs
<1>9. 0 \in 0 .. MaxLate
  BY ServiceAssumption
<1>10. Timely(m, 0)
  BY <1>1, <1>2, <1>3, <1>5, <1>6, <1>7, <1>9 DEF Timely
<1> QED
  BY <1>6, <1>8, <1>10 DEF m

\* What one operation asks of the state after it, r, with e the ticks left then.
LEMMA TimelyOn ==
  ASSUME NEW r, Well(r), Thread(r), r.error = FALSE, NEW l \in 0 .. MaxLate,
         NEW e, Lasts(r, e), Distinct(Backlog(r)),
         \A u \in Timers : Holds(r.list, u) =>
           r.icnt[u] \in MaxLate + 1 .. Width - 2 /\ (Holds(Backlog(r), u) => e[u] > MaxLate - l)
  PROVE  Timely(r, l) /\ Dues(r) = e
<1>1. Distinct(r.list)
  BY DEF Well
<1>2. Dues(r) = e
  BY <1>1, DuesAre
<1> QED
  BY <1>2 DEF Timely

LEMMA StopTimely ==
  ASSUME NEW m, NEW l, Timely(m, l), NEW t \in Timers
  PROVE  /\ Timely(TimerStop(m, t), l)
         /\ Dues(TimerStop(m, t)) = [Dues(m) EXCEPT ![t] = 0]
         /\ Fired(TimerStop(m, t)) = Fired(m) /\ TimerStop(m, t).icnt = m.icnt
<1> DEFINE r == TimerStop(m, t)
           d == Dues(m)
           e == [d EXCEPT ![t] = 0]
<1>1. /\ Well(m) /\ Thread(m) /\ m.error = FALSE /\ l \in 0 .. MaxLate /\ Lasts(m, d)
      /\ Distinct(Backlog(m))
      /\ \A u \in Timers : Holds(m.list, u) =>
           m.icnt[u] \in MaxLate + 1 .. Width - 2 /\ (Holds(Backlog(m), u) => d[u] > MaxLate - l)
  BY DEF Timely
<1>2. /\ Well(r) /\ ~Holds(r.list, t) /\ \A u : Holds(r.list, u) => Holds(m.list, u)
      /\ r.icnt = m.icnt /\ r.queue = m.queue /\ r.busy = m.busy /\ r.error = m.error
  BY <1>1, StopGives
<1>3. Lasts(r, e)
  BY <1>1, StopLasts
<1> HIDE DEF r, d
<1>4. Thread(r) /\ Backlog(r) = Backlog(m) /\ Fired(r) = Fired(m)
  BY <1>1, <1>2 DEF Thread, Served, Backlog, Fired
<1>5. \A u \in Timers : u # t => e[u] = d[u]
  BY <1>1 DEF Lasts, Runs
<1> HIDE DEF e
<1>6. \A u \in Timers : Holds(r.list, u) =>
        r.icnt[u] \in MaxLate + 1 .. Width - 2 /\ (Holds(Backlog(r), u) => e[u] > MaxLate - l)
  BY <1>1, <1>2, <1>4, <1>5
<1>7. Timely(r, l) /\ Dues(r) = e
  BY <1>1, <1>2, <1>3, <1>4, <1>6, TimelyOn
<1> QED
  BY <1>2, <1>4, <1>7 DEF r, e, d

\* svcTimerCreate and svcTimerDelete of a timer that is stopped change its state only.
LEMMA StateTimely ==
  ASSUME NEW m, NEW l, Timely(m, l), NEW t \in Timers, m.state[t] # "Running",
         NEW v \in {"Invalid", "Stopped"}, NEW r, r = [m EXCEPT !.state[t] = v]
  PROVE  /\ Timely(r, l) /\ Dues(r) = Dues(m) /\ Fired(r) = Fired(m) /\ r.icnt = m.icnt
<1> DEFINE d == Dues(m)
<1>1. /\ Well(m) /\ Thread(m) /\ m.error = FALSE /\ l \in 0 .. MaxLate /\ Lasts(m, d)
      /\ Distinct(Backlog(m))
      /\ \A u \in Timers : Holds(m.list, u) =>
           m.icnt[u] \in MaxLate + 1 .. Width - 2 /\ (Holds(Backlog(m), u) => d[u] > MaxLate - l)
  BY DEF Timely
<1>2. r = [list |-> m.list, state |-> [m.state EXCEPT ![t] = v], tcnt |-> m.tcnt,
           icnt |-> m.icnt, queue |-> m.queue, busy |-> m.busy, error |-> m.error]
  <2>1. Record(m) /\ r = [m EXCEPT !.state = [m.state EXCEPT ![t] = v]]
    BY <1>1 DEF Well
  <2> QED
    BY <2>1 DEF Record
<1>3. /\ Record(r) /\ r.list = m.list /\ r.tcnt = m.tcnt /\ r.icnt = m.icnt
      /\ r.queue = m.queue /\ r.busy = m.busy /\ r.error = m.error
      /\ r.state = [m.state EXCEPT ![t] = v]
  BY <1>2 DEF Record
<1>4. Well(r)
  <2>1. /\ r.state \in [Timers -> {"Invalid", "Stopped", "Running"}]
        /\ \A u \in Timers : r.state[u] = IF u = t THEN v ELSE m.state[u]
    BY <1>1, <1>3 DEF Well
  <2>2. \A u \in Timers : r.state[u] = "Running" <=> Holds(r.list, u)
    BY <1>1, <1>3, <2>1 DEF Well
  <2> QED
    BY <1>1, <1>3, <2>1, <2>2 DEF Well
<1>5. Thread(r) /\ Backlog(r) = Backlog(m) /\ Fired(r) = Fired(m)
  BY <1>1, <1>3 DEF Thread, Served, Backlog, Fired
<1>6. Lasts(r, d)
  BY <1>1, <1>3 DEF Lasts, Runs
<1> HIDE DEF d
<1>7. Timely(r, l) /\ Dues(r) = d
  <2>1. \A u \in Timers : Holds(r.list, u) =>
          r.icnt[u] \in MaxLate + 1 .. Width - 2 /\ (Holds(Backlog(r), u) => d[u] > MaxLate - l)
    BY <1>1, <1>3, <1>5
  <2> QED
    BY <1>1, <1>3, <1>4, <1>5, <1>6, <2>1, TimelyOn, ZenonT(30)
<1> QED
  BY <1>3, <1>5, <1>7 DEF d

LEMMA DeleteTimely ==
  ASSUME NEW m, NEW l, Timely(m, l), NEW t \in Timers
  PROVE  /\ Timely(TimerDelete(m, t), l)
         /\ Dues(TimerDelete(m, t)) = [Dues(m) EXCEPT ![t] = 0]
         /\ Fired(TimerDelete(m, t)) = Fired(m) /\ TimerDelete(m, t).icnt = m.icnt
<1> DEFINE k == TimerStop(m, t)
           r == TimerDelete(m, t)
<1>1. /\ Timely(k, l) /\ Dues(k) = [Dues(m) EXCEPT ![t] = 0]
      /\ Fired(k) = Fired(m) /\ k.icnt = m.icnt
  BY StopTimely
<1>2. ~Holds(k.list, t)
  BY StopGives DEF Timely
<1>3. r = [k EXCEPT !.state[t] = "Invalid"]
  BY DEF TimerDelete
<1> HIDE DEF k, r
<1>4. k.state[t] # "Running"
  BY <1>1, <1>2 DEF Timely, Well
<1>5. /\ Timely(r, l) /\ Dues(r) = Dues(k) /\ Fired(r) = Fired(k) /\ r.icnt = k.icnt
  <2>1. Timely(k, l)
    BY <1>1
  <2>2. "Invalid" \in {"Invalid", "Stopped"}
    OBVIOUS
  <2> QED
    BY <1>3, <1>4, <2>1, <2>2, StateTimely
<1> QED
  BY <1>1, <1>5 DEF r

LEMMA CreateTimely ==
  ASSUME NEW m, NEW l, Timely(m, l), NEW t \in Timers
  PROVE  /\ Timely(TimerCreate(m, t), l) /\ Dues(TimerCreate(m, t)) = Dues(m)
         /\ Fired(TimerCreate(m, t)) = Fired(m) /\ TimerCreate(m, t).icnt = m.icnt
<1> DEFINE r == TimerCreate(m, t)
<1>1. CASE m.state[t] # "Invalid"
  BY <1>1 DEF TimerCreate
<1>2. CASE m.state[t] = "Invalid"
  <2>1. r = [m EXCEPT !.state[t] = "Stopped"] /\ m.state[t] # "Running"
    BY <1>2 DEF TimerCreate
  <2> HIDE DEF r
  <2>2. Timely(r, l) /\ Dues(r) = Dues(m) /\ Fired(r) = Fired(m) /\ r.icnt = m.icnt
    BY <2>1, StateTimely
  <2> QED
    BY <2>2 DEF r
<1> QED
  BY <1>1, <1>2

LEMMA StartTimely ==
  ASSUME NEW m, NEW l, Timely(m, l), NEW t \in Timers, NEW ms \in Delays,
         Ticks(ms) # 0, m.state[t] # "Invalid"
  PROVE  /\ Timely(TimerStart(m, t, ms), l)
         /\ Dues(TimerStart(m, t, ms)) = [Dues(m) EXCEPT ![t] = Ticks(ms)]
         /\ Fired(TimerStart(m, t, ms)) = Fired(m)
         /\ TimerStart(m, t, ms).icnt =
              IF Dues(m)[t] = 0 THEN [m.icnt EXCEPT ![t] = Ticks(ms)] ELSE m.icnt
<1> DEFINE r == TimerStart(m, t, ms)
           n == Ticks(ms)
           d == Dues(m)
           e == [d EXCEPT ![t] = n]
<1>1. /\ Well(m) /\ Thread(m) /\ m.error = FALSE /\ l \in 0 .. MaxLate /\ Lasts(m, d)
      /\ Distinct(Backlog(m))
      /\ \A u \in Timers : Holds(m.list, u) =>
           m.icnt[u] \in MaxLate + 1 .. Width - 2 /\ (Holds(Backlog(m), u) => d[u] > MaxLate - l)
  BY DEF Timely
<1>2. n \in 1 .. Width - 2 /\ n \in MaxLate + 1 .. Width - 2 /\ n > MaxLate - l
  <2>1. ms \in Nat /\ n > MaxLate /\ MaxLate \in Nat
    BY ServiceAssumption
  <2>2. n = IF ms > Width - 2 THEN Width - 2 ELSE ms
    BY DEF Ticks
  <2> HIDE DEF n
  <2>3. n \in Nat /\ n <= Width - 2 /\ Width \in Nat
    BY <2>1, <2>2, TimersAssumption
  <2>4. n \in MaxLate + 1 .. Width - 2 /\ n \in 1 .. Width - 2
    BY <2>1, <2>3
  <2> QED
    BY <1>1, <2>1, <2>3, <2>4
<1>3. /\ Well(r) /\ \A u : Holds(r.list, u) => Holds(m.list, u) \/ u = t
      /\ r.queue = m.queue /\ r.busy = m.busy
      /\ \A u \in Timers \ {t} : r.icnt[u] = m.icnt[u]
  BY <1>1, StartGives
<1>4. /\ Lasts(r, e) /\ r.error = m.error
      /\ r.icnt = IF m.state[t] = "Stopped" THEN [m.icnt EXCEPT ![t] = n] ELSE m.icnt
  BY <1>1, <1>2, StartLasts
<1> HIDE DEF r, d, n
<1>5. Thread(r) /\ Backlog(r) = Backlog(m) /\ Fired(r) = Fired(m)
  BY <1>1, <1>3 DEF Thread, Served, Backlog, Fired
<1>6. e[t] = n /\ \A u \in Timers : u # t => e[u] = d[u]
  BY <1>1 DEF Lasts, Runs
<1>7. m.state[t] = "Stopped" <=> d[t] = 0
  <2>1. m.state[t] = "Stopped" <=> ~Holds(m.list, t)
    BY <1>1 DEF Well
  <2>2. (Holds(m.list, t) => d[t] # 0) /\ (~Holds(m.list, t) => d[t] = 0)
    BY <1>1, LastsIs
  <2> QED
    BY <2>1, <2>2
<1>8. r.icnt[t] \in MaxLate + 1 .. Width - 2
  <2>1. CASE m.state[t] = "Stopped"
    <3>1. r.icnt[t] = n
      BY <1>1, <1>4, <2>1 DEF Well
    <3> QED
      BY <1>2, <3>1
  <2>2. CASE m.state[t] # "Stopped"
    <3>1. Holds(m.list, t)
      BY <1>1, <2>2 DEF Well
    <3> QED
      BY <1>1, <1>4, <2>2, <3>1
  <2> QED
    BY <2>1, <2>2
<1> HIDE DEF e
<1>9. \A u \in Timers : Holds(r.list, u) =>
        r.icnt[u] \in MaxLate + 1 .. Width - 2 /\ (Holds(Backlog(r), u) => e[u] > MaxLate - l)
  <2>1. ASSUME NEW u \in Timers, Holds(r.list, u)
        PROVE  r.icnt[u] \in MaxLate + 1 .. Width - 2 /\ (Holds(Backlog(r), u) => e[u] > MaxLate - l)
    <3>1. CASE u = t
      BY <1>2, <1>6, <1>8, <3>1
    <3>2. CASE u # t
      BY <1>1, <1>3, <1>5, <1>6, <2>1, <3>2
    <3> QED
      BY <3>1, <3>2
  <2> QED
    BY <2>1
<1>10. Timely(r, l) /\ Dues(r) = e
  BY <1>1, <1>3, <1>4, <1>5, <1>9, TimelyOn
<1> QED
  BY <1>4, <1>5, <1>7, <1>10 DEF r, e, d, n

LEMMA TickTimely ==
  ASSUME NEW m, NEW l, Timely(m, l), m.busy # NoTimer => l < MaxLate
  PROVE  /\ Timely(TimerTick(m), IF m.busy = NoTimer THEN 0 ELSE l + 1)
         /\ Dues(TimerTick(m)) = Ticked(m, Dues(m)) /\ TimerTick(m).icnt = m.icnt
         /\ Fired(TimerTick(m)) = [t \in Timers |-> IF Dues(m)[t] = 1 THEN Fired(m)[t] + 1
                                                    ELSE Fired(m)[t]]
<1> DEFINE r == TimerTick(m)
           d == Dues(m)
           e == Ticked(m, d)
           k == IF m.busy = NoTimer THEN 0 ELSE l + 1
<1>1. /\ Well(m) /\ Thread(m) /\ m.error = FALSE /\ l \in 0 .. MaxLate /\ Lasts(m, d)
      /\ Distinct(Backlog(m))
      /\ \A u \in Timers : Holds(m.list, u) =>
           m.icnt[u] \in MaxLate + 1 .. Width - 2 /\ (Holds(Backlog(m), u) => d[u] > MaxLate - l)
  BY DEF Timely
<1>2. MaxLate \in Nat /\ k \in 0 .. MaxLate
  BY <1>1, ServiceAssumption
<1>3. Periods(m)
  BY <1>1, <1>2 DEF Periods
<1>4. \A u \in Timers : d[u] \in IF Holds(m.list, u) THEN 1 .. Width - 2 ELSE {0}
  BY <1>1 DEF Lasts
<1>5. \A u : Holds(Backlog(m), u) => m.busy # NoTimer
  BY <1>1, BacklogHolds
<1> HIDE DEF d
<1>6. \A u \in Timers : d[u] = 1 => ~Holds(Backlog(m), u)
  <2>1. ASSUME NEW u \in Timers, d[u] = 1, Holds(Backlog(m), u) PROVE FALSE
    <3>1. Holds(m.list, u) /\ l < MaxLate
      BY <1>4, <1>5, <2>1
    <3>2. d[u] > MaxLate - l
      BY <1>1, <2>1, <3>1
    <3> QED
      BY <1>1, <1>2, <2>1, <3>1, <3>2
  <2> QED
    BY <2>1
<1>7. /\ Lasts(r, e) /\ Thread(r) /\ r.error = m.error /\ Distinct(Backlog(r))
      /\ \A u \in Timers : Holds(Backlog(r), u) <=> Holds(Backlog(m), u) \/ d[u] = 1
  BY <1>1, <1>3, <1>6, TickLasts
<1>8. Well(r) /\ r.icnt = m.icnt
  BY <1>1, TickGives DEF Thread
<1>9. \A u \in Timers : e[u] = IF d[u] # 1 THEN d[u] - (IF d[u] = 0 THEN 0 ELSE 1)
                               ELSE IF u \in Periodic THEN m.icnt[u] ELSE 0
  BY DEF Ticked
<1> HIDE DEF r, e, k
<1>10. \A u \in Timers : Holds(r.list, u) => e[u] # 0 /\ e[u] \in 1 .. Width - 2
  BY <1>7, LastsIs
<1>11. ASSUME NEW u \in Timers, Holds(r.list, u)
       PROVE  r.icnt[u] \in MaxLate + 1 .. Width - 2 /\ (Holds(Backlog(r), u) => e[u] > MaxLate - k)
  <2>1. Holds(m.list, u)
    <3>1. e[u] # 0
      BY <1>10, <1>11
    <3>2. d[u] # 0
      BY <1>9, <3>1
    <3> QED
      BY <1>4, <3>2
  <2>2. m.icnt[u] \in MaxLate + 1 .. Width - 2
    BY <1>1, <2>1
  <2>3. CASE d[u] = 1
    <3>1. e[u] = m.icnt[u]
      BY <1>9, <1>10, <1>11, <2>3
    <3> QED
      BY <1>2, <1>8, <2>2, <3>1
  <2>4. CASE d[u] # 1
    <3>1. Holds(Backlog(r), u) => Holds(Backlog(m), u)
      BY <1>7, <2>4
    <3>2. ASSUME Holds(Backlog(m), u) PROVE e[u] > MaxLate - k
      <4>1. d[u] > MaxLate - l /\ d[u] \in 1 .. Width - 2 /\ m.busy # NoTimer
        BY <1>1, <1>4, <1>5, <2>1, <3>2
      <4>2. e[u] = d[u] - 1
        BY <1>9, <2>4, <4>1
      <4> QED
        BY <1>1, <1>2, <4>1, <4>2 DEF k
    <3> QED
      BY <1>8, <2>2, <3>1, <3>2
  <2> QED
    BY <2>3, <2>4
<1>12. Timely(r, k) /\ Dues(r) = e
  BY <1>1, <1>2, <1>7, <1>8, <1>11, TimelyOn
<1>13. Fired(r) = [t \in Timers |-> IF d[t] = 1 THEN Fired(m)[t] + 1 ELSE Fired(m)[t]]
  <2>1. /\ Fired(r) = [t \in Timers |-> IF Holds(Backlog(r), t) THEN 1 ELSE 0]
        /\ Fired(m) = [t \in Timers |-> IF Holds(Backlog(m), t) THEN 1 ELSE 0]
    BY <1>1, <1>7, FiredIs
  <2>2. \A t \in Timers : (IF Holds(Backlog(r), t) THEN 1 ELSE 0)
                            = IF d[t] = 1 THEN Fired(m)[t] + 1 ELSE Fired(m)[t]
    BY <1>6, <1>7, <2>1
  <2> QED
    BY <2>1, <2>2
<1> QED
  BY <1>8, <1>12, <1>13 DEF r, e, d, k

\* The end of a callback takes one timer off those the thread is not done with.
LEMMA ReturnLasts ==
  ASSUME NEW m, Well(m), Thread(m), NEW d, Lasts(m, d), Distinct(Backlog(m)), m.busy # NoTimer
  PROVE  /\ Well(NextMessage(m)) /\ Thread(NextMessage(m)) /\ Lasts(NextMessage(m), d)
         /\ Distinct(Backlog(NextMessage(m))) /\ NextMessage(m).icnt = m.icnt
         /\ NextMessage(m).list = m.list /\ NextMessage(m).error = m.error
         /\ m.busy \in Timers /\ Holds(Backlog(m), m.busy)
         /\ \A u : Holds(Backlog(NextMessage(m)), u) <=> Holds(Backlog(m), u) /\ u # m.busy
<1> DEFINE r == NextMessage(m)
           q == m.queue
           s == Backlog(m)
           w == Backlog(r)
<1>1. Well(m) /\ Thread(m) /\ Lasts(m, d) /\ Distinct(s)
  OBVIOUS
<1>2. /\ Well(r) /\ Served(r) /\ r.list = m.list /\ r.icnt = m.icnt /\ r.tcnt = m.tcnt
      /\ r.error = m.error
  BY <1>1, NextGives
<1>3. m.busy \in Timers /\ q \in Seq(Timers) /\ Len(q) \in Nat
  BY <1>1 DEF Thread
<1>4. /\ q = <<>> => r.busy = NoTimer /\ r.queue = <<>>
      /\ q # <<>> => r.busy = Head(q) /\ r.queue = Tail(q)
  <2>1. CASE q = <<>>
    <3>1. r = [list |-> m.list, state |-> m.state, tcnt |-> m.tcnt, icnt |-> m.icnt,
               queue |-> m.queue, busy |-> NoTimer, error |-> m.error]
      BY <1>1, <2>1 DEF NextMessage, Well, Record
    <3> HIDE DEF r
    <3> QED
      BY <2>1, <3>1
  <2>2. CASE q # <<>>
    <3>1. r = [list |-> m.list, state |-> m.state, tcnt |-> m.tcnt, icnt |-> m.icnt,
               queue |-> Tail(m.queue), busy |-> Head(m.queue), error |-> m.error]
      BY <1>1, <2>2 DEF NextMessage, Well, Record
    <3> HIDE DEF r
    <3> QED
      BY <2>2, <3>1
  <2> QED
    BY <2>1, <2>2
<1>5. q # <<>> => /\ Head(q) = q[1] /\ Head(q) \in Timers /\ Tail(q) \in Seq(Timers)
                  /\ Len(Tail(q)) = Len(q) - 1 /\ Len(q) >= 1
                  /\ \A i \in 1 .. Len(q) - 1 : Tail(q)[i] = q[i + 1]
  BY <1>3, HeadTailProperties
<1> HIDE DEF r, q
<1>6. Thread(r)
  <2>1. <<>> \in Seq(Timers)
    OBVIOUS
  <2>2. r.busy \in Timers \union {NoTimer} /\ r.queue \in Seq(Timers)
    BY <1>4, <1>5, <2>1
  <2> QED
    BY <1>2, <2>2 DEF Thread
<1>7. Len(w) = Len(q) /\ \A i \in 1 .. Len(q) : w[i] = q[i]
  <2>1. CASE q = <<>>
    <3>1. w = <<>>
      BY <1>4, <2>1 DEF Backlog
    <3> QED
      BY <2>1, <3>1
  <2>2. CASE q # <<>>
    <3>1. r.busy = q[1] /\ r.busy # NoTimer /\ r.queue = Tail(q) /\ Len(r.queue) = Len(q) - 1
      BY <1>4, <1>5, <2>2, TimersAssumption
    <3>2. /\ Len(w) = Len(q) - 1 + 1
          /\ \A i \in 1 .. Len(q) - 1 + 1 : w[i] = IF i = 1 THEN q[1] ELSE Tail(q)[i - 1]
      <4>1. /\ Len(w) = Len(r.queue) + 1
            /\ \A i \in 1 .. Len(r.queue) + 1 : w[i] = IF i = 1 THEN r.busy ELSE r.queue[i - 1]
        BY <1>6, <3>1, BacklogIs
      <4> QED
        BY <3>1, <4>1
    <3> HIDE DEF w
    <3>3. ASSUME NEW i \in 1 .. Len(q) PROVE w[i] = q[i]
      <4>1. i \in 1 .. Len(q) - 1 + 1 /\ (i # 1 => i - 1 \in 1 .. Len(q) - 1 /\ i - 1 + 1 = i)
        BY <1>3
      <4> QED
        BY <1>5, <2>2, <3>2, <4>1
    <3>4. Len(q) - 1 + 1 = Len(q)
      BY <1>3
    <3> QED
      BY <3>2, <3>3, <3>4
  <2> QED
    BY <2>1, <2>2
<1>8. /\ Len(s) = Len(q) + 1
      /\ \A i \in 1 .. Len(q) + 1 : s[i] = IF i = 1 THEN m.busy ELSE q[i - 1]
  BY <1>1, BacklogIs DEF q
<1>9. w \in Seq(Timers)
  BY <1>6, BacklogIs
<1> HIDE DEF w, s
<1>10. \A i \in 1 .. Len(q) : i + 1 \in 1 .. Len(s) /\ s[i + 1] = w[i] /\ i + 1 # 1
  <2>1. ASSUME NEW i \in 1 .. Len(q) PROVE i + 1 \in 1 .. Len(s) /\ s[i + 1] = w[i] /\ i + 1 # 1
    <3>1. i + 1 \in 1 .. Len(s) /\ i + 1 \in 1 .. Len(q) + 1 /\ i + 1 # 1 /\ i + 1 - 1 = i
      BY <1>3, <1>8
    <3> QED
      BY <1>7, <1>8, <3>1
  <2> QED
    BY <2>1
<1>11. 1 \in 1 .. Len(s) /\ s[1] = m.busy
  BY <1>3, <1>8
<1>12. Distinct(w)
  <2>1. ASSUME NEW i \in 1 .. Len(w), NEW j \in 1 .. Len(w), w[i] = w[j] PROVE i = j
    <3>1. i + 1 = j + 1
      BY <1>1, <1>7, <1>10, <2>1 DEF Distinct
    <3>2. i \in Nat /\ j \in Nat
      BY <1>3, <1>7
    <3> QED
      BY <3>1, <3>2
  <2> QED
    BY <1>9, <2>1 DEF Distinct
<1>13. \A u : Holds(s, u) <=> Holds(w, u) \/ u = m.busy
  <2>1. \A i \in 1 .. Len(s) : i = 1 \/ (i - 1 \in 1 .. Len(q) /\ i - 1 + 1 = i)
    BY <1>3, <1>8
  <2>2. ASSUME NEW u, Holds(s, u) PROVE Holds(w, u) \/ u = m.busy
    <3>1. PICK i \in 1 .. Len(s) : s[i] = u
      BY <2>2 DEF Holds
    <3>2. CASE i = 1
      BY <1>11, <3>1, <3>2
    <3>3. CASE i # 1
      <4>1. PICK j \in 1 .. Len(q) : i = j + 1
        BY <2>1, <3>3
      <4>2. w[j] = u /\ j \in 1 .. Len(w)
        BY <1>7, <1>10, <3>1, <4>1
      <4> QED
        BY <4>2 DEF Holds
    <3> QED
      BY <3>2, <3>3
  <2>3. \A u : Holds(w, u) \/ u = m.busy => Holds(s, u)
    BY <1>7, <1>10, <1>11 DEF Holds
  <2> QED
    BY <2>2, <2>3
<1>14. ~Holds(w, m.busy)
  <2>1. ASSUME NEW i \in 1 .. Len(w), w[i] = m.busy PROVE FALSE
    BY <1>1, <1>7, <1>10, <1>11, <2>1 DEF Distinct
  <2> QED
    BY <2>1 DEF Holds
<1>15. Lasts(r, d)
  BY <1>1, <1>2 DEF Lasts, Runs
<1> QED
  BY <1>2, <1>3, <1>6, <1>12, <1>13, <1>14, <1>15 DEF r, s, w

LEMMA ReturnTimely ==
  ASSUME NEW m, NEW l, Timely(m, l), m.busy # NoTimer
  PROVE  /\ Timely(NextMessage(m), IF NextMessage(m).busy = NoTimer THEN 0 ELSE l)
         /\ Dues(NextMessage(m)) = Dues(m) /\ NextMessage(m).icnt = m.icnt
         /\ m.busy \in Timers /\ Fired(m)[m.busy] > 0
         /\ Fired(NextMessage(m)) = [Fired(m) EXCEPT ![m.busy] = @ - 1]
<1> DEFINE r == NextMessage(m)
           d == Dues(m)
           k == IF r.busy = NoTimer THEN 0 ELSE l
           s == Backlog(m)
           w == Backlog(r)
<1>1. /\ Well(m) /\ Thread(m) /\ m.error = FALSE /\ l \in 0 .. MaxLate /\ Lasts(m, d)
      /\ Distinct(s)
      /\ \A u \in Timers : Holds(m.list, u) =>
           m.icnt[u] \in MaxLate + 1 .. Width - 2 /\ (Holds(s, u) => d[u] > MaxLate - l)
  BY DEF Timely
<1>2. /\ Well(r) /\ Thread(r) /\ Lasts(r, d) /\ Distinct(w) /\ r.icnt = m.icnt /\ r.list = m.list
      /\ r.error = m.error /\ m.busy \in Timers /\ Holds(s, m.busy)
      /\ \A u : Holds(w, u) <=> Holds(s, u) /\ u # m.busy
  BY <1>1, ReturnLasts
<1>3. /\ Fired(m) = [t \in Timers |-> IF Holds(s, t) THEN 1 ELSE 0]
      /\ Fired(r) = [t \in Timers |-> IF Holds(w, t) THEN 1 ELSE 0]
  BY <1>1, <1>2, FiredIs
<1>4. \A u : Holds(w, u) => r.busy # NoTimer
  BY <1>2, BacklogHolds
<1> HIDE DEF r, s, w, d
<1>5. Fired(m)[m.busy] = 1 /\ Fired(r) = [Fired(m) EXCEPT ![m.busy] = @ - 1]
  <2>1. Fired(m)[m.busy] = 1
    BY <1>2, <1>3
  <2>2. \A t \in Timers : (IF Holds(w, t) THEN 1 ELSE 0)
                            = IF t = m.busy THEN 1 - 1 ELSE IF Holds(s, t) THEN 1 ELSE 0
    BY <1>2
  <2> QED
    BY <1>2, <1>3, <2>1, <2>2
<1>6. k \in 0 .. MaxLate /\ (r.busy # NoTimer => k = l) /\ MaxLate \in Nat
  BY <1>1, ServiceAssumption
<1> HIDE DEF k
<1>7. \A u \in Timers : Holds(r.list, u) =>
        r.icnt[u] \in MaxLate + 1 .. Width - 2 /\ (Holds(w, u) => d[u] > MaxLate - k)
  BY <1>1, <1>2, <1>4, <1>6
<1>8. Timely(r, k) /\ Dues(r) = d
  BY <1>1, <1>2, <1>6, <1>7, TimelyOn DEF w
<1> QED
  BY <1>2, <1>5, <1>8 DEF r, k, d

-----------------------------------------------------------------------------
\* Each operation of the service is the one that Deadlines has, or leaves what Deadlines
\* says unchanged.
ServiceInv == Timely(rtx, late)

LEMMA DeadlinesAre ==
  /\ [t \in Timers |-> Due(t)] = Dues(rtx) /\ [t \in Timers |-> Pending(t)] = Fired(rtx)
  /\ [t \in Timers |-> Due(t)]' = Dues(rtx') /\ [t \in Timers |-> Pending(t)]' = Fired(rtx')
BY DEF Due, Pending, Dues, Fired

LEMMA ServiceStep ==
  ASSUME ServiceInv, [ServiceNext]_serviceVars
  PROVE  ServiceInv' /\ [D!Next]_(D!vars)
<1> DEFINE due   == [t \in Timers |-> Due(t)]
           fired == [t \in Timers |-> Pending(t)]
<1>1. /\ due = Dues(rtx) /\ fired = Fired(rtx) /\ due' = Dues(rtx') /\ fired' = Fired(rtx')
  BY DeadlinesAre
<1>2. Timely(rtx, late)
  BY DEF ServiceInv
<1>3. CASE UNCHANGED serviceVars
  <2>1. rtx' = rtx /\ late' = late
    BY <1>3 DEF serviceVars
  <2>2. ServiceInv'
    BY <1>2, <2>1 DEF ServiceInv
  <2>3. due' = due /\ fired' = fired /\ rtx.icnt' = rtx.icnt
    BY <1>1, <2>1
  <2> QED
    BY <2>2, <2>3 DEF D!vars
<1>4. CASE ServiceTick
  <2>1. /\ rtx.busy # NoTimer => late < MaxLate
        /\ rtx' = TimerTick(rtx) /\ late' = IF rtx.busy = NoTimer THEN 0 ELSE late + 1
    BY <1>4 DEF ServiceTick
  <2>2. /\ Timely(rtx', late') /\ Dues(rtx') = Ticked(rtx, Dues(rtx)) /\ rtx'.icnt = rtx.icnt
        /\ Fired(rtx') = [t \in Timers |-> IF Dues(rtx)[t] = 1 THEN Fired(rtx)[t] + 1
                                           ELSE Fired(rtx)[t]]
    BY <1>2, <2>1, TickTimely
  <2>3. D!Tick
    <3>1. due' = Ticked(rtx, due) /\ rtx.icnt' = rtx.icnt
          /\ fired' = [t \in Timers |-> IF due[t] = 1 THEN fired[t] + 1 ELSE fired[t]]
      BY <1>1, <2>2
    <3> QED
      BY <3>1 DEF D!Tick, Ticked
  <2> QED
    BY <2>2, <2>3 DEF D!Next, ServiceInv
<1>5. CASE Return
  <2>1. /\ rtx.busy # NoTimer /\ rtx' = NextMessage(rtx)
        /\ late' = IF rtx'.busy = NoTimer THEN 0 ELSE late
    BY <1>5 DEF Return
  <2>2. /\ Timely(rtx', late') /\ Dues(rtx') = Dues(rtx) /\ rtx'.icnt = rtx.icnt
        /\ rtx.busy \in Timers /\ Fired(rtx)[rtx.busy] > 0
        /\ Fired(rtx') = [Fired(rtx) EXCEPT ![rtx.busy] = @ - 1]
    BY <1>2, <2>1, ReturnTimely
  <2>3. D!Return(rtx.busy)
    <3>1. due' = due /\ rtx.icnt' = rtx.icnt /\ fired[rtx.busy] > 0
          /\ fired' = [fired EXCEPT ![rtx.busy] = @ - 1]
      BY <1>1, <2>2
    <3> QED
      BY <3>1 DEF D!Return
  <2> QED
    BY <2>2, <2>3 DEF D!Next, ServiceInv
<1>6. ASSUME NEW t \in Timers, Stop(t) \/ Delete(t)
      PROVE  ServiceInv' /\ [D!Next]_(D!vars)
  <2>1. late' = late /\ (rtx' = TimerStop(rtx, t) \/ rtx' = TimerDelete(rtx, t))
    BY <1>6 DEF Stop, Delete
  <2>2. /\ Timely(rtx', late') /\ Dues(rtx') = [Dues(rtx) EXCEPT ![t] = 0]
        /\ Fired(rtx') = Fired(rtx) /\ rtx'.icnt = rtx.icnt
    BY <1>2, <2>1, StopTimely, DeleteTimely
  <2>3. D!Stop(t)
    <3>1. due' = [due EXCEPT ![t] = 0] /\ rtx.icnt' = rtx.icnt /\ fired' = fired
      BY <1>1, <2>2
    <3> QED
      BY <3>1 DEF D!Stop
  <2> QED
    BY <2>2, <2>3 DEF D!Next, ServiceInv
<1>7. ASSUME NEW t \in Timers, Create(t)
      PROVE  ServiceInv' /\ [D!Next]_(D!vars)
  <2>1. late' = late /\ rtx' = TimerCreate(rtx, t)
    BY <1>7 DEF Create
  <2>2. Timely(rtx', late') /\ Dues(rtx') = Dues(rtx) /\ Fired(rtx') = Fired(rtx) /\ rtx'.icnt = rtx.icnt
    BY <1>2, <2>1, CreateTimely
  <2>3. due' = due /\ fired' = fired /\ rtx.icnt' = rtx.icnt
    BY <1>1, <2>2
  <2> QED
    BY <2>2, <2>3 DEF D!vars, ServiceInv
<1>8. ASSUME NEW t \in Timers, NEW ms \in Delays, Start(t, ms)
      PROVE  ServiceInv' /\ [D!Next]_(D!vars)
  <2>1. late' = late /\ rtx' = TimerStart(rtx, t, ms)
    BY <1>8 DEF Start
  <2>2. CASE Ticks(ms) = 0 \/ rtx.state[t] = "Invalid"
    <3>1. rtx' = rtx
      BY <2>1, <2>2 DEF TimerStart
    <3>2. due' = due /\ fired' = fired /\ rtx.icnt' = rtx.icnt
      BY <1>1, <3>1
    <3> QED
      BY <1>2, <2>1, <3>1, <3>2 DEF D!vars, ServiceInv
  <2>3. CASE Ticks(ms) # 0 /\ rtx.state[t] # "Invalid"
    <3>1. /\ Timely(rtx', late') /\ Dues(rtx') = [Dues(rtx) EXCEPT ![t] = Ticks(ms)]
          /\ Fired(rtx') = Fired(rtx)
          /\ rtx'.icnt = IF Dues(rtx)[t] = 0 THEN [rtx.icnt EXCEPT ![t] = Ticks(ms)] ELSE rtx.icnt
      BY <1>2, <2>1, <2>3, StartTimely
    <3>2. D!Start(t, Ticks(ms))
      <4>1. /\ due' = [due EXCEPT ![t] = Ticks(ms)] /\ fired' = fired
            /\ rtx.icnt' = IF due[t] = 0 THEN [rtx.icnt EXCEPT ![t] = Ticks(ms)] ELSE rtx.icnt
        BY <1>1, <3>1
      <4> QED
        BY <4>1 DEF D!Start
    <3>3. Ticks(ms) \in {Ticks(n) : n \in Delays}
      OBVIOUS
    <3> QED
      BY <3>1, <3>2, <3>3 DEF D!Next, ServiceInv
  <2> QED
    BY <2>2, <2>3
<1> QED
  BY <1>3, <1>4, <1>5, <1>6, <1>7, <1>8 DEF ServiceNext

\* Whatever is started, stopped, created and deleted: each timer expires when the delay it
\* was given is over, each expiry is one call of its callback, and none is lost, although
\* the list keeps only the differences of the delays, in counters of 16 bits.
THEOREM TimersKeepDeadlines == ServiceSpec => ImplementsDeadlines
<1>1. ServiceInit => ServiceInv /\ D!Init
  <2> SUFFICES ASSUME ServiceInit PROVE ServiceInv /\ D!Init
    OBVIOUS
  <2>1. rtx = TimersInit /\ late = 0
    BY DEF ServiceInit
  <2>2. /\ Timely(rtx, late) /\ Dues(rtx) = [t \in Timers |-> 0] /\ Fired(rtx) = [t \in Timers |-> 0]
    BY <2>1, InitTimely
  <2>3. rtx.icnt = [t \in Timers |-> 0]
    BY <2>1 DEF TimersInit
  <2> QED
    BY <2>2, <2>3, DeadlinesAre DEF D!Init, ServiceInv
<1>2. ServiceInv /\ [ServiceNext]_serviceVars => ServiceInv' /\ [D!Next]_(D!vars)
  BY ServiceStep
<1> QED
  BY <1>1, <1>2, PTL DEF ServiceSpec, ImplementsDeadlines, D!Spec

-----------------------------------------------------------------------------
(* The buzzer and the led *)

Kernel == Well(tm) /\ Served(tm) /\ \A u \in Timers : tm.state[u] # "Invalid"

\* The buzzer sounds in BEEP and only there; what is carried out was asked for, and what
\* is not repeated keeps its timer at the time of its beep.
Buzzes ==
  /\ DOMAIN beep = {"status", "mode", "time", "repeat", "shots", "buzzer"}
  /\ beep.status \in {"STOPPED", "BEEP", "SILENCE", "WAIT_CYCLE"}
  /\ beep.status = "BEEP" <=> beep.buzzer.period = 125
  /\ beep.status # "STOPPED" => <<beep.mode, beep.time, beep.repeat>> \in BeepCalls
  /\ beep.status # "STOPPED" /\ beep.repeat = "NO_REPEAT" =>
       beep.status # "WAIT_CYCLE" /\ tm.icnt[BeepTmr] # 9 * SHORT_TIME

\* The led is lit in STAT_FLASH and only there; one that is to be on for ever stays there,
\* as its timer is quiet.
Flashes ==
  /\ DOMAIN led = {"status", "mode", "on", "off", "wait", "shots", "lit"}
  /\ led.status \in {"STOPPED", "STAT_FLASH", "STAT_OFF", "STAT_WAIT"}
  /\ led.lit \in BOOLEAN /\ (led.lit <=> led.status = "STAT_FLASH")
  /\ led.status # "STOPPED" => led.mode \in LedCalls
  /\ led.status \in {"STAT_OFF", "STAT_WAIT"} => led.mode # "ON_FOREVER"
  /\ led.mode = "ON_FOREVER" => Quiet(tm, LedTmr)

\* Between the steps of a call the timer it has stopped is quiet.
Calling ==
  \/ call = <<>>
  \/ Quiet(tm, BeepTmr) /\ \E c \in BeepCalls : call = <<"beep", c[1], c[2], c[3]>>
  \/ Quiet(tm, LedTmr) /\ \E m \in LedCalls : call = <<"led", m>>

Inv == Kernel /\ Buzzes /\ Flashes /\ Calling

LEMMA InitInv == Init => Inv
<1> SUFFICES ASSUME Init PROVE Inv
  OBVIOUS
<1>1. /\ tm.list = <<>> /\ tm.queue = <<>> /\ tm.busy = NoTimer /\ Record(tm)
      /\ tm.state = [t \in Timers |-> "Stopped"] /\ tm.icnt = [t \in Timers |-> 0]
  BY DEF Init, TimersInit, Record
<1>2. <<>> \in Seq(Timers) /\ Len(<<>>) = 0 /\ \A i : i \notin 1 .. 0
  OBVIOUS
<1>3. Distinct(<<>>) /\ \A u : ~Holds(<<>>, u)
  BY <1>2 DEF Distinct, Holds
<1>4. Kernel
  BY <1>1, <1>2, <1>3 DEF Kernel, Well, Served
<1>5. Buzzes
  BY DEF Init, BeepInit, Buzzer, Buzzes
<1>6. Flashes
  BY <1>1, <1>3, TimersAssumption, IndicatorsAssumption DEF Init, LedInit, Flashes, Quiet
<1> QED
  BY <1>4, <1>5, <1>6 DEF Init, Inv, Calling

\* What a step must do to the timers: the kernel stays as it is to be, nothing else than
\* timer t is disturbed, and a timer that is quiet stays quiet.
Only(t) ==
  /\ Kernel' /\ \A u \in Timers \ {t} : tm'.icnt[u] = tm.icnt[u]
  /\ \A u \in Timers \ {t} : Quiet(tm, u) => Quiet(tm, u)'

LEMMA StopOnly ==
  ASSUME Kernel, Free, NEW t \in Timers, tm' = TimerStop(tm, t)
  PROVE  Only(t) /\ Quiet(tm, t)' /\ tm'.icnt = tm.icnt
<1>1. /\ Well(tm') /\ ~Holds(tm'.list, t) /\ tm'.icnt = tm.icnt /\ tm'.queue = tm.queue /\ tm'.busy = tm.busy
      /\ \A u : Holds(tm'.list, u) => Holds(tm.list, u)
      /\ Alike(tm', tm)
  BY StopGives DEF Kernel
<1>2. tm.busy = NoTimer /\ tm.queue = <<>> /\ NoTimer # t
  BY TimersAssumption DEF Free, Kernel, Served
<1>3. \A u : ~Holds(<<>>, u)
  BY DEF Holds
<1> QED
  BY <1>1, <1>2, <1>3 DEF Only, Kernel, Well, Served, Quiet, Alike

LEMMA StartOnly ==
  ASSUME Kernel, NEW t \in Timers, NEW ms, tm' = TimerStart(tm, t, ms)
  PROVE  /\ Only(t)
         /\ Ticks(ms) # 0 /\ Quiet(tm, t) => tm'.icnt[t] = Ticks(ms)
<1>1. /\ Well(tm') /\ tm'.queue = tm.queue /\ tm'.busy = tm.busy
      /\ \A u : Holds(tm'.list, u) => Holds(tm.list, u) \/ u = t
      /\ \A u \in Timers \ {t} : tm'.icnt[u] = tm.icnt[u]
      /\ Ticks(ms) # 0 /\ tm.state[t] = "Stopped" => tm'.icnt[t] = Ticks(ms)
      /\ Alike(tm', tm)
  BY StartGives DEF Kernel
<1>2. ~Holds(tm.list, t) => tm.state[t] = "Stopped"
  BY DEF Kernel, Well
<1> QED
  BY <1>1, <1>2 DEF Only, Kernel, Served, Quiet, Alike

LEMMA KeepsOnly ==
  ASSUME Kernel, NEW t, tm' = tm
  PROVE  Only(t) /\ Quiet(tm, t)' = Quiet(tm, t)
  BY DEF Only, Kernel, Well, Served, Quiet

\* The end of a callback that has left m, where only its own timer is new.
LEMMA ReturnOnly ==
  ASSUME Kernel, NEW t \in Timers, NEW m, tm' = NextMessage(m),
         Well(m), Alike(m, tm), m.queue = tm.queue, m.busy = tm.busy,
         \A u : Holds(m.list, u) => Holds(tm.list, u) \/ u = t,
         \A u \in Timers \ {t} : m.icnt[u] = tm.icnt[u]
  PROVE  Only(t) /\ tm'.icnt = m.icnt
<1>1. /\ Well(tm') /\ Served(tm') /\ tm'.icnt = m.icnt /\ tm'.state = m.state
      /\ \A u \in Timers : NoTimer # u /\ ~Holds(m.list, u) /\ ~Holds(m.queue, u) => Quiet(tm', u)
  BY NextGives
<1>2. \A u \in Timers : NoTimer # u
  BY TimersAssumption
<1>3. \A u \in Timers \ {t} : Quiet(tm, u) => Quiet(tm', u)
  BY <1>1, <1>2 DEF Quiet
<1> QED
  BY <1>1, <1>3 DEF Only, Kernel, Quiet, Alike

LEMMA TickOnly ==
  ASSUME Kernel, Tick
  PROVE  Kernel' /\ tm'.icnt = tm.icnt /\ \A u : Quiet(tm, u) => Quiet(tm, u)'
<1>1. /\ Well(tm') /\ Served(tm') /\ tm'.icnt = tm.icnt
      /\ Alike(tm', tm) /\ \A u : Quiet(tm, u) => Quiet(tm', u)
  BY TickGives DEF Kernel, Tick
<1> QED
  BY <1>1 DEF Kernel, Quiet, Alike

\* What the led does with its timer leaves the buzzer alone, and the other way round.
LEMMA BuzzesOn ==
  ASSUME Inv, Only(LedTmr), beep' = beep
  PROVE  Buzzes'
  BY IndicatorsAssumption DEF Inv, Only, Buzzes

LEMMA FlashesOn ==
  ASSUME Inv, Only(BeepTmr), led' = led
  PROVE  Flashes'
  BY IndicatorsAssumption DEF Inv, Only, Flashes

-----------------------------------------------------------------------------
LEMMA BeepOwnerInv ==
  ASSUME Inv, BeepOwner
  PROVE  Inv'
<1>0. BeepTmr \in Timers /\ LedTmr \in Timers \ {BeepTmr} /\ led' = led /\ Kernel
  BY IndicatorsAssumption DEF BeepOwner, Inv
<1>1. ASSUME NEW c \in BeepCalls, BeepHalt(c[1], c[2], c[3]) PROVE Inv'
  <2>1. Only(BeepTmr) /\ Quiet(tm, BeepTmr)' /\ tm'.icnt = tm.icnt
    BY <1>0, <1>1, StopOnly DEF BeepHalt
  <2>2. Buzzes'
    BY <1>1, <2>1 DEF BeepHalt, Inv, Buzzes
  <2>3. Flashes'
    BY <1>0, <2>1, FlashesOn
  <2>4. Calling'
    BY <1>1, <2>1 DEF BeepHalt, Calling
  <2> QED
    BY <2>1, <2>2, <2>3, <2>4 DEF Inv, Only
<1>2. ASSUME BeepArm PROVE Inv'
  <2>1. PICK c \in BeepCalls : call = <<"beep", c[1], c[2], c[3]>> /\ Quiet(tm, BeepTmr)
    <3>1. \A m : <<"led", m>>[1] # "beep"
      OBVIOUS
    <3> QED
      BY <1>2, <3>1 DEF BeepArm, Inv, Calling
  <2>2. /\ call[2] = c[1] /\ call[3] = c[2] /\ call[4] = c[3] /\ c = <<c[1], c[2], c[3]>>
        /\ c[2] \in {SHORT_TIME, LONG_TIME}
    BY <2>1, IndicatorsAssumption
  <2>3. Only(BeepTmr) /\ (Ticks(c[2]) # 0 => tm'.icnt[BeepTmr] = Ticks(c[2]))
    BY <1>0, <1>2, <2>1, <2>2, StartOnly DEF BeepArm
  <2>4. Ticks(c[2]) # 0 /\ Ticks(c[2]) # 9 * SHORT_TIME
    BY <2>2, TimersAssumption, IndicatorsAssumption DEF Ticks, SHORT_TIME, LONG_TIME
  <2>5. beep' = [status |-> "BEEP", mode |-> c[1], time |-> c[2], repeat |-> c[3],
                 shots |-> c[1], buzzer |-> PeriodUs(beep.buzzer, 125)]
        /\ beep'.buzzer.period = 125
    BY <1>2, <2>2 DEF BeepArm, PeriodUs
  <2>6. Buzzes'
    BY <2>2, <2>3, <2>4, <2>5 DEF Buzzes
  <2>7. Flashes'
    BY <1>0, <2>3, FlashesOn
  <2> QED
    BY <1>2, <2>3, <2>6, <2>7 DEF Inv, Only, Calling, BeepArm
<1>3. ASSUME BeepStop PROVE Inv'
  <2>1. Only(BeepTmr)
    BY <1>0, <1>3, StopOnly DEF BeepStop
  <2>2. DOMAIN beep' = DOMAIN beep /\ beep'.status = "STOPPED" /\ beep'.buzzer.period # 125
    BY <1>3 DEF BeepStop, Inv, Buzzes, PeriodUs
  <2>3. Buzzes'
    BY <2>2 DEF Inv, Buzzes
  <2>4. Flashes'
    BY <1>0, <2>1, FlashesOn
  <2> QED
    BY <1>3, <2>1, <2>3, <2>4 DEF Inv, Only, Calling, BeepStop
<1> QED
  BY <1>1, <1>2, <1>3 DEF BeepOwner

LEMMA LedOwnerInv ==
  ASSUME Inv, LedOwner
  PROVE  Inv'
<1>0. BeepTmr \in Timers \ {LedTmr} /\ LedTmr \in Timers /\ beep' = beep /\ Kernel
  BY IndicatorsAssumption DEF LedOwner, Inv
<1>1. ASSUME NEW m \in LedCalls, LedHalt(m) PROVE Inv'
  <2>1. Only(LedTmr) /\ Quiet(tm, LedTmr)'
    BY <1>0, <1>1, StopOnly DEF LedHalt
  <2>2. Flashes'
    BY <1>1, <2>1 DEF LedHalt, Inv, Flashes
  <2>3. Buzzes'
    BY <1>0, <2>1, BuzzesOn
  <2>4. Calling'
    BY <1>1, <2>1 DEF LedHalt, Calling
  <2> QED
    BY <2>1, <2>2, <2>3, <2>4 DEF Inv, Only
<1>2. ASSUME LedArm PROVE Inv'
  <2>1. PICK m \in LedCalls : call = <<"led", m>> /\ Quiet(tm, LedTmr)
    <3>1. \A a, b, c : <<"beep", a, b, c>>[1] # "led"
      OBVIOUS
    <3> QED
      BY <1>2, <3>1 DEF LedArm, Inv, Calling
  <2>2. call[2] = m
    BY <2>1
  <2>3. led' = Lit(m) /\ tm' = (IF m = "ON_FOREVER" THEN tm ELSE TimerStart(tm, LedTmr, led'.on))
    BY <1>2, <2>2 DEF LedArm
  <2>4. Only(LedTmr) /\ (m = "ON_FOREVER" => Quiet(tm, LedTmr)')
    <3>1. CASE m = "ON_FOREVER"
      BY <1>0, <2>1, <2>3, <3>1, KeepsOnly
    <3>2. CASE m # "ON_FOREVER"
      BY <1>0, <2>3, <3>2, StartOnly
    <3> QED
      BY <3>1, <3>2
  <2>5. /\ DOMAIN led' = DOMAIN led
        /\ led'.status = "STAT_FLASH" /\ led'.mode = m /\ led'.lit = TRUE
    BY <2>3 DEF Lit, Inv, Flashes
  <2>6. Flashes'
    BY <2>4, <2>5 DEF Inv, Flashes
  <2>7. Buzzes'
    BY <1>0, <2>4, BuzzesOn
  <2> QED
    BY <1>2, <2>4, <2>6, <2>7 DEF Inv, Only, Calling, LedArm
<1>3. ASSUME LedStop PROVE Inv'
  <2>1. Only(LedTmr) /\ Quiet(tm, LedTmr)'
    BY <1>0, <1>3, StopOnly DEF LedStop
  <2>2. /\ DOMAIN led' = DOMAIN led
        /\ led'.status = "STOPPED" /\ led'.mode = led.mode /\ led'.lit = FALSE
    BY <1>3 DEF LedStop, Inv, Flashes
  <2>3. Flashes'
    BY <2>1, <2>2 DEF Inv, Flashes
  <2>4. Buzzes'
    BY <1>0, <2>1, BuzzesOn
  <2> QED
    BY <1>3, <2>1, <2>3, <2>4 DEF Inv, Only, Calling, LedStop
<1> QED
  BY <1>1, <1>2, <1>3 DEF LedOwner

\* A call that is under way during the callback of t concerns the other timer.
LEMMA CallingOn ==
  ASSUME Inv, NEW t \in {BeepTmr, LedTmr}, tm.busy = t, Only(t), call' = call
  PROVE  Calling'
<1>1. \A u : Quiet(tm, u) => u # t
  BY DEF Quiet
<1>2. \A u \in {BeepTmr, LedTmr} : Quiet(tm, u) => Quiet(tm, u)'
  BY <1>1, IndicatorsAssumption DEF Only
<1>3. CASE call = <<>>
  BY <1>3 DEF Calling
<1>4. CASE Quiet(tm, BeepTmr) /\ \E c \in BeepCalls : call = <<"beep", c[1], c[2], c[3]>>
  BY <1>2, <1>4 DEF Calling
<1>5. CASE Quiet(tm, LedTmr) /\ \E m \in LedCalls : call = <<"led", m>>
  BY <1>2, <1>5 DEF Calling
<1> QED
  BY <1>3, <1>4, <1>5 DEF Inv, Calling

\* Whatever beepTimer and ledTimer do to the timers, they do it to their own.
LEMMA BeepTimedIs ==
  ASSUME Kernel, BeepTmr \in Timers
  PROVE  /\ Well(BeepTimed) /\ Alike(BeepTimed, tm) /\ BeepTimed.queue = tm.queue /\ BeepTimed.busy = tm.busy
         /\ \A u : Holds(BeepTimed.list, u) => Holds(tm.list, u) \/ u = BeepTmr
         /\ \A u \in Timers \ {BeepTmr} : BeepTimed.icnt[u] = tm.icnt[u]
         /\ beep.status \notin {"STOPPED", "WAIT_CYCLE"} /\ ~LastShot => BeepTimed.icnt = tm.icnt
<1> DEFINE k == TimerStop(tm, BeepTmr)
<1>0. Well(tm)
  BY DEF Kernel
<1>1. /\ Well(k) /\ Alike(k, tm) /\ k.icnt = tm.icnt /\ k.queue = tm.queue /\ k.busy = tm.busy
      /\ \A u : Holds(k.list, u) => Holds(tm.list, u)
  BY <1>0, StopGives
<1> HIDE DEF k
<1>2. CASE BeepTimed = k
  BY <1>1, <1>2
<1>3. CASE BeepTimed = TimerStart(tm, BeepTmr, beep.time) /\ beep.status = "WAIT_CYCLE"
  <2>1. \A x : x = TimerStart(tm, BeepTmr, beep.time) =>
          /\ Well(x) /\ Alike(x, tm) /\ x.queue = tm.queue /\ x.busy = tm.busy
          /\ \A u : Holds(x.list, u) => Holds(tm.list, u) \/ u = BeepTmr
          /\ \A u \in Timers \ {BeepTmr} : x.icnt[u] = tm.icnt[u]
    BY <1>0, StartGives
  <2> QED
    BY <1>3, <2>1
<1>4. CASE BeepTimed = tm
  BY <1>0, <1>4 DEF Alike
<1>5. CASE BeepTimed = TimerStart(k, BeepTmr, 9 * SHORT_TIME) /\ LastShot
  <2>1. \A x : x = TimerStart(k, BeepTmr, 9 * SHORT_TIME) =>
          /\ Well(x) /\ Alike(x, k) /\ x.queue = k.queue /\ x.busy = k.busy
          /\ \A u : Holds(x.list, u) => Holds(k.list, u) \/ u = BeepTmr
          /\ \A u \in Timers \ {BeepTmr} : x.icnt[u] = k.icnt[u]
    BY <1>1, StartGives
  <2>2. /\ Well(BeepTimed) /\ Alike(BeepTimed, k) /\ BeepTimed.queue = k.queue /\ BeepTimed.busy = k.busy
        /\ \A u : Holds(BeepTimed.list, u) => Holds(k.list, u) \/ u = BeepTmr
        /\ \A u \in Timers \ {BeepTmr} : BeepTimed.icnt[u] = k.icnt[u]
    BY <1>5, <2>1
  <2> QED
    BY <1>1, <1>5, <2>2 DEF Alike
<1> QED
  BY <1>2, <1>3, <1>4, <1>5 DEF BeepTimed, k

LEMMA BeepCallbackInv ==
  ASSUME Inv, BeepCallback, led' = led
  PROVE  Inv'
<1>1. BeepTmr \in Timers /\ LedTmr \in Timers \ {BeepTmr} /\ Kernel /\ tm.busy = BeepTmr
  BY IndicatorsAssumption DEF BeepCallback, Inv
<1>2. Only(BeepTmr) /\ tm'.icnt = BeepTimed.icnt
  <2> DEFINE m == BeepTimed
  <2>1. /\ Well(m) /\ Alike(m, tm) /\ m.queue = tm.queue /\ m.busy = tm.busy
        /\ \A u : Holds(m.list, u) => Holds(tm.list, u) \/ u = BeepTmr
        /\ \A u \in Timers \ {BeepTmr} : m.icnt[u] = tm.icnt[u]
    BY <1>1, BeepTimedIs
  <2>2. tm' = NextMessage(m)
    BY DEF BeepCallback
  <2> HIDE DEF m
  <2>3. Only(BeepTmr) /\ tm'.icnt = m.icnt
    BY <1>1, <2>1, <2>2, ReturnOnly
  <2> QED
    BY <2>3 DEF m
<1>3. beep.status \notin {"STOPPED", "WAIT_CYCLE"} /\ ~LastShot => tm'.icnt = tm.icnt
  BY <1>1, <1>2, BeepTimedIs
<1>4. beep' = BeepNext
  BY DEF BeepCallback
<1>5. /\ DOMAIN beep' = DOMAIN beep /\ beep'.mode = beep.mode /\ beep'.time = beep.time
      /\ beep'.repeat = beep.repeat
  BY <1>4 DEF BeepNext, Inv, Buzzes
<1>6. CASE beep.status = "BEEP"
  <2>1. beep'.status = "SILENCE" /\ beep'.buzzer.period # 125
    BY <1>4, <1>6 DEF BeepNext, Inv, Buzzes, PeriodUs
  <2>2. tm'.icnt = tm.icnt
    BY <1>3, <1>6 DEF LastShot
  <2>3. Buzzes'
    BY <1>5, <1>6, <2>1, <2>2 DEF Inv, Buzzes
  <2> QED
    BY <1>1, <1>2, <2>3, FlashesOn, CallingOn DEF Inv, Only, BeepCallback
<1>7. CASE beep.status = "WAIT_CYCLE"
  <2>1. beep'.status = "BEEP" /\ beep'.buzzer.period = 125
    BY <1>4, <1>7 DEF BeepNext, Inv, Buzzes, PeriodUs
  <2>2. Buzzes'
    BY <1>5, <1>7, <2>1 DEF Inv, Buzzes
  <2> QED
    BY <1>1, <1>2, <2>2, FlashesOn, CallingOn DEF Inv, Only, BeepCallback
<1>8. CASE beep.status = "SILENCE"
  <2>1. /\ beep'.buzzer = beep.buzzer
        /\ beep'.status = IF ~LastShot THEN "SILENCE"
                          ELSE IF beep.repeat = "NO_REPEAT" THEN "STOPPED" ELSE "WAIT_CYCLE"
    BY <1>4, <1>8 DEF BeepNext, Inv, Buzzes
  <2>2. ~LastShot => tm'.icnt = tm.icnt
    BY <1>3, <1>8
  <2>3. Buzzes'
    BY <1>5, <1>8, <2>1, <2>2 DEF Inv, Buzzes
  <2> QED
    BY <1>1, <1>2, <2>3, FlashesOn, CallingOn DEF Inv, Only, BeepCallback
<1>9. CASE beep.status = "STOPPED"
  <2>1. beep' = beep
    BY <1>4, <1>9 DEF BeepNext
  <2>2. Buzzes'
    BY <1>9, <2>1 DEF Inv, Buzzes
  <2> QED
    BY <1>1, <1>2, <2>2, FlashesOn, CallingOn DEF Inv, Only, BeepCallback
<1> QED
  BY <1>6, <1>7, <1>8, <1>9 DEF Inv, Buzzes

LEMMA LedCallbackInv ==
  ASSUME Inv, LedCallback, beep' = beep
  PROVE  Inv'
<1>1. BeepTmr \in Timers \ {LedTmr} /\ LedTmr \in Timers /\ Kernel /\ tm.busy = LedTmr
      /\ led.mode # "ON_FOREVER"
  BY IndicatorsAssumption DEF LedCallback, Inv, Flashes, Quiet
<1>2. led' = LedNext
  BY DEF LedCallback
<1>3. DOMAIN led' = DOMAIN led /\ led'.mode = led.mode
  BY <1>2 DEF LedNext, Inv, Flashes
<1>4. /\ led'.status \in {"STOPPED", "STAT_FLASH", "STAT_OFF", "STAT_WAIT"}
      /\ led'.status = "STOPPED" <=> led.status = "STOPPED"
      /\ led'.lit \in BOOLEAN /\ (led'.lit <=> led'.status = "STAT_FLASH")
  <2>1. CASE led.status = "STAT_FLASH"
    BY <1>2, <2>1 DEF LedNext, Inv, Flashes
  <2>2. CASE led.status = "STAT_OFF" /\ EndOfCycle
    BY <1>2, <2>2 DEF LedNext, Inv, Flashes
  <2>3. CASE led.status = "STAT_OFF" /\ ~EndOfCycle
    BY <1>2, <2>3 DEF LedNext, Inv, Flashes
  <2>4. CASE led.status = "STAT_WAIT"
    BY <1>2, <2>4 DEF LedNext, Inv, Flashes
  <2>5. CASE led.status = "STOPPED"
    BY <1>2, <2>5 DEF LedNext, Inv, Flashes
  <2> QED
    BY <2>1, <2>2, <2>3, <2>4, <2>5 DEF Inv, Flashes
<1>5. Only(LedTmr)
  <2> DEFINE m == LedTimed
  <2>1. m = tm \/ \E x : m = TimerStart(tm, LedTmr, x)
    BY <1>4 DEF LedTimed
  <2>2. tm' = NextMessage(m)
    BY DEF LedCallback
  <2> HIDE DEF m
  <2>3. /\ Well(m) /\ Alike(m, tm) /\ m.queue = tm.queue /\ m.busy = tm.busy
        /\ \A u : Holds(m.list, u) => Holds(tm.list, u) \/ u = LedTmr
        /\ \A u \in Timers \ {LedTmr} : m.icnt[u] = tm.icnt[u]
    <3>1. CASE m = tm
      BY <1>1, <3>1 DEF Kernel, Alike
    <3>2. CASE \E x : m = TimerStart(tm, LedTmr, x)
      BY <1>1, <3>2, StartGives DEF Kernel
    <3> QED
      BY <2>1, <3>1, <3>2
  <2> QED
    BY <1>1, <2>2, <2>3, ReturnOnly
<1>6. Flashes'
  BY <1>1, <1>3, <1>4 DEF Inv, Flashes
<1> QED
  BY <1>1, <1>5, <1>6, BuzzesOn, CallingOn DEF Inv, Only, LedCallback

LEMMA NextInv == Inv /\ [Next]_vars => Inv'
<1> SUFFICES ASSUME Inv, [Next]_vars PROVE Inv'
  OBVIOUS
<1>1. CASE Tick
  <2>1. Kernel' /\ tm'.icnt = tm.icnt /\ \A u : Quiet(tm, u) => Quiet(tm, u)'
    BY <1>1, TickOnly DEF Inv
  <2>2. beep' = beep /\ led' = led /\ call' = call
    BY <1>1 DEF Tick
  <2>3. Buzzes'
    BY <2>1, <2>2 DEF Inv, Buzzes
  <2>4. Flashes'
    BY <2>1, <2>2 DEF Inv, Flashes
  <2>5. Calling'
    BY <2>1, <2>2 DEF Inv, Calling
  <2> QED
    BY <2>1, <2>3, <2>4, <2>5 DEF Inv
<1>2. CASE UNCHANGED vars
  <2>1. tm' = tm /\ beep' = beep /\ led' = led /\ call' = call
    BY <1>2 DEF vars
  <2>2. Kernel' /\ \A u : Quiet(tm, u)' = Quiet(tm, u)
    BY <2>1 DEF Inv, Kernel, Well, Served, Quiet
  <2>3. Buzzes' /\ Flashes' /\ Calling'
    BY <2>1, <2>2 DEF Inv, Buzzes, Flashes, Calling
  <2> QED
    BY <2>2, <2>3 DEF Inv
<1> QED
  BY <1>1, <1>2, BeepOwnerInv, LedOwnerInv, BeepCallbackInv, LedCallbackInv DEF Next, Callback

LEMMA Invariance == Spec => []Inv
<1> QED
  BY InitInv, NextInv, PTL DEF Spec

-----------------------------------------------------------------------------
(* What the code makes of every command, those included that Indicators has no plan    *)
(* for: each shot of a beep is a period of silence, and after one fast flash the led    *)
(* is dark for the two delays.                                                          *)

BeepCourse(mode, time, repeat) ==
  LET wait == 9 * SHORT_TIME
      s(on, ticks) == [on |-> on, ticks |-> ticks]
  IN  IF repeat = "NO_REPEAT"
        THEN [steps |-> <<s(TRUE, time), s(FALSE, mode * time)>>, loop |-> 0]
        ELSE [steps |-> <<s(TRUE, time), s(FALSE, mode * time), s(FALSE, wait),
                          s(TRUE, time), s(FALSE, mode * wait)>>, loop |-> 3]

BC == INSTANCE Blink WITH
        Commands <- BeepCalls, Idle <- <<>>,
        Plan <- [c \in BeepCalls |-> BeepCourse(c[1], c[2], c[3])],
        cmd <- BeepCmd, step <- BeepStep, age <- BeepAge

LedCourse(mode) ==
  LET on(ticks)  == [on |-> TRUE, ticks |-> ticks]
      off(ticks) == [on |-> FALSE, ticks |-> ticks]
  IN IF mode = "SINGLE_FAST_FLASHING"
       THEN [steps |-> <<on(5), off(5), off(15)>>, loop |-> 1]
       ELSE LedPlan(mode)

LC == INSTANCE Blink WITH
        Commands <- LedCalls, Idle <- "none",
        Plan <- [m \in LedCalls |-> LedCourse(m)],
        cmd <- LedCmd, step <- LedStep, age <- LedAge

-----------------------------------------------------------------------------
(* The times of the buzzer and the led *)

\* The delays are consistent, those that run are periodic, and none waits twice for the
\* thread.
Sound(m) ==
  /\ Well(m) /\ Thread(m) /\ Lasts(m, Dues(m)) /\ Distinct(Backlog(m)) /\ Periods(m)
  /\ \A u \in Timers : Holds(m.list, u) => u \in Periodic

\* Timer u is in r as it is in m.
Same(r, m, u) ==
  /\ Dues(r)[u] = Dues(m)[u] /\ r.icnt[u] = m.icnt[u]
  /\ Holds(Backlog(r), u) <=> Holds(Backlog(m), u)

\* A timer whose expiry waits for the thread has only started anew.
Timed(m) ==
  /\ Sound(m)
  /\ \A u \in Timers : Holds(Backlog(m), u) => Dues(m)[u] # 0 /\ Dues(m)[u] = m.icnt[u]

LEMMA DueIs ==
  ASSUME NEW m, Sound(m), NEW u \in Timers
  PROVE  /\ Dues(m)[u] # 0 <=> Holds(m.list, u)
         /\ m.state[u] = "Running" <=> Dues(m)[u] # 0
         /\ Dues(m)[u] \in 0 .. Width - 2
         /\ Dues(m)[u] # 0 => m.icnt[u] \in 1 .. Width - 2 /\ u \in Periodic
<1>1. Well(m) /\ Lasts(m, Dues(m)) /\ Periods(m) /\ (Holds(m.list, u) => u \in Periodic)
  BY DEF Sound
<1>2. /\ Holds(m.list, u) => Dues(m)[u] \in 1 .. Width - 2 /\ Dues(m)[u] # 0
      /\ ~Holds(m.list, u) => Dues(m)[u] = 0
  BY <1>1, LastsIs
<1>3. m.state[u] = "Running" <=> Holds(m.list, u)
  BY <1>1 DEF Well
<1>4. Dues(m)[u] \in 0 .. Width - 2
  BY <1>2, TimersAssumption
<1> QED
  BY <1>1, <1>2, <1>3, <1>4 DEF Periods

LEMMA StopSound ==
  ASSUME NEW m, Sound(m), NEW t \in Timers
  PROVE  /\ Sound(TimerStop(m, t)) /\ Dues(TimerStop(m, t))[t] = 0
         /\ TimerStop(m, t).icnt = m.icnt
         /\ Backlog(TimerStop(m, t)) = Backlog(m) /\ TimerStop(m, t).busy = m.busy
         /\ Alike(TimerStop(m, t), m)
         /\ \A u \in Timers \ {t} : Same(TimerStop(m, t), m, u)
<1> DEFINE r == TimerStop(m, t)
           d == Dues(m)
           e == [d EXCEPT ![t] = 0]
<1>1. /\ Well(m) /\ Thread(m) /\ Lasts(m, d) /\ Distinct(Backlog(m)) /\ Periods(m)
      /\ \A u \in Timers : Holds(m.list, u) => u \in Periodic
  BY DEF Sound
<1>2. /\ Well(r) /\ (\A u : Holds(r.list, u) => Holds(m.list, u)) /\ r.icnt = m.icnt
      /\ r.queue = m.queue /\ r.busy = m.busy /\ Alike(r, m)
  BY <1>1, StopGives
<1>3. Lasts(r, e)
  BY <1>1, StopLasts
<1> HIDE DEF r, d
<1>4. Thread(r) /\ Backlog(r) = Backlog(m)
  BY <1>1, <1>2 DEF Thread, Served, Backlog
<1>5. e[t] = 0 /\ \A u \in Timers : u # t => e[u] = d[u]
  BY <1>1 DEF Lasts, Runs
<1> HIDE DEF e
<1>6. Dues(r) = e
  BY <1>2, <1>3, DuesAre DEF Well
<1>7. Sound(r)
  BY <1>1, <1>2, <1>3, <1>4, <1>6 DEF Sound, Periods
<1>8. \A u \in Timers \ {t} : Same(r, m, u)
  BY <1>2, <1>4, <1>5, <1>6 DEF Same, d
<1> QED
  BY <1>2, <1>4, <1>5, <1>6, <1>7, <1>8 DEF r

LEMMA StartSound ==
  ASSUME NEW m, Sound(m), NEW t \in Timers \intersect Periodic, NEW n \in 1 .. Width - 2,
         m.state[t] # "Invalid"
  PROVE  /\ Sound(TimerStart(m, t, n)) /\ Dues(TimerStart(m, t, n))[t] = n
         /\ TimerStart(m, t, n).icnt[t] = IF Dues(m)[t] = 0 THEN n ELSE m.icnt[t]
         /\ Backlog(TimerStart(m, t, n)) = Backlog(m) /\ TimerStart(m, t, n).busy = m.busy
         /\ Alike(TimerStart(m, t, n), m)
         /\ \A u \in Timers \ {t} : Same(TimerStart(m, t, n), m, u)
<1> DEFINE r == TimerStart(m, t, n)
           d == Dues(m)
           e == [d EXCEPT ![t] = n]
<1>1. /\ Well(m) /\ Thread(m) /\ Lasts(m, d) /\ Distinct(Backlog(m)) /\ Periods(m)
      /\ \A u \in Timers : Holds(m.list, u) => u \in Periodic
  BY DEF Sound
<1>2. /\ Well(r) /\ (\A u : Holds(r.list, u) => Holds(m.list, u) \/ u = t)
      /\ r.queue = m.queue /\ r.busy = m.busy /\ Alike(r, m)
      /\ \A u \in Timers \ {t} : r.icnt[u] = m.icnt[u]
  BY <1>1, StartGives
<1>3. Ticks(n) = n
  BY TimersAssumption DEF Ticks
<1>4. /\ Lasts(r, e)
      /\ r.icnt = IF m.state[t] = "Stopped" THEN [m.icnt EXCEPT ![t] = n] ELSE m.icnt
  <2>1. Ticks(n) \in 1 .. Width - 2
    BY <1>3
  <2>2. /\ Lasts(r, [d EXCEPT ![t] = Ticks(n)])
        /\ r.icnt = IF m.state[t] = "Stopped" THEN [m.icnt EXCEPT ![t] = Ticks(n)] ELSE m.icnt
    BY <1>1, <2>1, StartLasts
  <2> QED
    BY <1>3, <2>2
<1>5. m.state[t] = "Stopped" <=> d[t] = 0
  <2>1. m.state[t] \in {"Invalid", "Stopped", "Running"}
    BY <1>1 DEF Well
  <2> QED
    BY <2>1, DueIs
<1> HIDE DEF r, d
<1>6. Thread(r) /\ Backlog(r) = Backlog(m)
  BY <1>1, <1>2 DEF Thread, Served, Backlog
<1>7. e[t] = n /\ \A u \in Timers : u # t => e[u] = d[u]
  BY <1>1 DEF Lasts, Runs
<1> HIDE DEF e
<1>8. Dues(r) = e
  BY <1>2, <1>4, DuesAre DEF Well
<1>9. r.icnt[t] = IF d[t] = 0 THEN n ELSE m.icnt[t]
  BY <1>1, <1>4, <1>5 DEF Well
<1>10. Periods(r)
  <2>1. ASSUME NEW u \in Timers, Holds(r.list, u) PROVE r.icnt[u] \in 1 .. Width - 2
    <3>1. CASE u # t
      BY <1>1, <1>2, <2>1, <3>1 DEF Periods
    <3>2. CASE u = t /\ d[t] # 0
      BY <1>9, <3>2, DueIs DEF d
    <3>3. CASE u = t /\ d[t] = 0
      BY <1>9, <3>3
    <3> QED
      BY <3>1, <3>2, <3>3
  <2> QED
    BY <2>1 DEF Periods
<1>11. Sound(r)
  BY <1>1, <1>2, <1>4, <1>6, <1>8, <1>10 DEF Sound
<1>12. \A u \in Timers \ {t} : Same(r, m, u)
  BY <1>2, <1>6, <1>7, <1>8 DEF Same, d
<1> QED
  BY <1>2, <1>6, <1>7, <1>8, <1>9, <1>11, <1>12 DEF r, d

LEMMA TickTimed ==
  ASSUME NEW m, Sound(m), m.busy = NoTimer
  PROVE  /\ Timed(TimerTick(m)) /\ TimerTick(m).icnt = m.icnt /\ Alike(TimerTick(m), m)
         /\ \A u \in Timers :
              /\ Dues(TimerTick(m))[u] = IF Dues(m)[u] = 0 THEN 0
                                         ELSE IF Dues(m)[u] = 1 THEN m.icnt[u] ELSE Dues(m)[u] - 1
              /\ Holds(Backlog(TimerTick(m)), u) <=> Dues(m)[u] = 1
              /\ ~Holds(Backlog(m), u)
<1> DEFINE r == TimerTick(m)
           d == Dues(m)
           e == Ticked(m, d)
<1>1. /\ Well(m) /\ Thread(m) /\ Lasts(m, d) /\ Distinct(Backlog(m)) /\ Periods(m)
      /\ \A u \in Timers : Holds(m.list, u) => u \in Periodic
  BY DEF Sound
<1>2. \A u : ~Holds(Backlog(m), u)
  BY <1>1, BacklogHolds
<1>3. /\ Lasts(r, e) /\ Thread(r) /\ Distinct(Backlog(r))
      /\ \A u \in Timers : Holds(Backlog(r), u) <=> d[u] = 1
  BY <1>1, <1>2, TickLasts
<1>4. Well(r) /\ r.icnt = m.icnt /\ Alike(r, m)
  BY <1>1, TickGives DEF Thread
<1>5. \A u \in Timers : /\ d[u] # 0 <=> Holds(m.list, u)
                        /\ d[u] # 0 => m.icnt[u] \in 1 .. Width - 2 /\ u \in Periodic
                        /\ d[u] \in 0 .. Width - 2
  BY DueIs
<1>6. \A u \in Timers : e[u] = IF d[u] # 1 THEN d[u] - (IF d[u] = 0 THEN 0 ELSE 1)
                               ELSE IF u \in Periodic THEN m.icnt[u] ELSE 0
  BY DEF Ticked
<1>7. Dues(r) = e
  BY <1>3, <1>4, DuesAre DEF Well
<1>8. \A u \in Timers : Holds(r.list, u) => e[u] # 0
  BY <1>3, LastsIs
<1> HIDE DEF r, d, e
<1>9. \A u \in Timers : e[u] = IF d[u] = 0 THEN 0 ELSE IF d[u] = 1 THEN m.icnt[u] ELSE d[u] - 1
  <2>1. ASSUME NEW u \in Timers
        PROVE  e[u] = IF d[u] = 0 THEN 0 ELSE IF d[u] = 1 THEN m.icnt[u] ELSE d[u] - 1
    BY <1>5, <1>6
  <2> QED
    BY <2>1
<1>10. ASSUME NEW u \in Timers, Holds(r.list, u) PROVE r.icnt[u] \in 1 .. Width - 2 /\ u \in Periodic
  <2>1. d[u] # 0
    BY <1>8, <1>9, <1>10
  <2> QED
    BY <1>4, <1>5, <2>1
<1>11. Sound(r)
  BY <1>3, <1>4, <1>7, <1>10 DEF Sound, Periods
<1>12. ASSUME NEW u \in Timers, Holds(Backlog(r), u) PROVE e[u] # 0 /\ e[u] = r.icnt[u]
  <2>1. d[u] = 1
    BY <1>3, <1>12
  <2>2. m.icnt[u] \in 1 .. Width - 2
    BY <1>5, <2>1
  <2> QED
    BY <1>4, <1>9, <2>1, <2>2
<1>13. Timed(r)
  BY <1>7, <1>11, <1>12 DEF Timed
<1> QED
  BY <1>2, <1>3, <1>4, <1>7, <1>9, <1>13 DEF r, d

\* A callback of timer t that has made k of the timers comes to its end.
LEMMA BackTimed ==
  ASSUME NEW m, Timed(m), NEW t \in Timers, m.busy = t,
         NEW k, Sound(k), Backlog(k) = Backlog(m), k.busy = m.busy,
         \A u \in Timers \ {t} : Same(k, m, u)
  PROVE  /\ Timed(NextMessage(k))
         /\ Dues(NextMessage(k))[t] = Dues(k)[t] /\ NextMessage(k).icnt = k.icnt
         /\ Holds(Backlog(m), t) /\ ~Holds(Backlog(NextMessage(k)), t)
         /\ \A u \in Timers \ {t} : Same(NextMessage(k), m, u)
<1> DEFINE r == NextMessage(k)
           d == Dues(k)
<1>1. /\ Well(k) /\ Thread(k) /\ Lasts(k, d) /\ Distinct(Backlog(k)) /\ Periods(k)
      /\ \A u \in Timers : Holds(k.list, u) => u \in Periodic
  BY DEF Sound
<1>2. k.busy = t /\ k.busy # NoTimer
  BY TimersAssumption
<1>3. /\ Well(r) /\ Thread(r) /\ Lasts(r, d) /\ Distinct(Backlog(r)) /\ r.icnt = k.icnt
      /\ r.list = k.list /\ Holds(Backlog(m), t)
      /\ \A u : Holds(Backlog(r), u) <=> Holds(Backlog(m), u) /\ u # t
  <2>1. /\ Well(r) /\ Thread(r) /\ Lasts(r, d) /\ Distinct(Backlog(r)) /\ r.icnt = k.icnt
        /\ r.list = k.list /\ Holds(Backlog(k), k.busy)
        /\ \A u : Holds(Backlog(r), u) <=> Holds(Backlog(k), u) /\ u # k.busy
    BY <1>1, <1>2, ReturnLasts
  <2> QED
    BY <1>2, <2>1
<1> HIDE DEF r
<1>4. Dues(r) = d
  BY <1>3, DuesAre DEF Well
<1> HIDE DEF d
<1>5. Sound(r)
  BY <1>1, <1>3, <1>4 DEF Sound, Periods
<1>6. \A u \in Timers \ {t} : Same(r, m, u)
  BY <1>3, <1>4 DEF Same, d
<1>7. Timed(r)
  BY <1>3, <1>5, <1>6 DEF Timed, Same
<1> QED
  BY <1>3, <1>4, <1>6, <1>7 DEF r, d

LEMMA FreeTimed ==
  ASSUME NEW m, Sound(m), m.busy = NoTimer
  PROVE  Timed(m) /\ \A u : ~Holds(Backlog(m), u)
<1>1. \A u : ~Holds(Backlog(m), u)
  BY BacklogHolds DEF Sound
<1> QED
  BY <1>1 DEF Timed

LEMMA StopTimed ==
  ASSUME Timed(tm), Free, NEW t \in Timers, tm' = TimerStop(tm, t)
  PROVE  /\ Timed(tm') /\ Dues(tm')[t] = 0 /\ tm'.icnt = tm.icnt
         /\ \A u \in Timers \ {t} : Same(tm', tm, u)
<1>1. Sound(tm') /\ Dues(tm')[t] = 0 /\ tm'.icnt = tm.icnt /\ tm'.busy = tm.busy
      /\ \A u \in Timers \ {t} : Same(tm', tm, u)
  BY StopSound DEF Timed
<1> QED
  BY <1>1, FreeTimed DEF Free

LEMMA StartTimed ==
  ASSUME Kernel, Timed(tm), Free, NEW t \in Timers \intersect Periodic, NEW n \in 1 .. Width - 2,
         tm' = TimerStart(tm, t, n)
  PROVE  /\ Timed(tm') /\ Dues(tm')[t] = n /\ ~Holds(Backlog(tm'), t)
         /\ tm'.icnt[t] = IF Dues(tm)[t] = 0 THEN n ELSE tm.icnt[t]
         /\ \A u \in Timers \ {t} : Same(tm', tm, u)
<1>1. /\ Sound(tm') /\ Dues(tm')[t] = n /\ tm'.busy = tm.busy
      /\ tm'.icnt[t] = IF Dues(tm)[t] = 0 THEN n ELSE tm.icnt[t]
      /\ \A u \in Timers \ {t} : Same(tm', tm, u)
  BY StartSound DEF Timed, Kernel
<1> QED
  BY <1>1, FreeTimed DEF Free

-----------------------------------------------------------------------------
\* The ticks gone of a delay of n.
Spent(m, t, n) == IF Holds(Backlog(m), t) THEN n ELSE n - Dues(m)[t]

LEMMA SpentIs ==
  ASSUME NEW m, Sound(m), NEW t \in Timers, NEW n
  PROVE  (IF m.busy = t \/ \E i \in DOMAIN m.queue : m.queue[i] = t
            THEN n ELSE n - Left(m, Place(m, t))) = Spent(m, t, n)
<1>1. /\ Thread(m) /\ Lasts(m, Dues(m)) /\ Distinct(m.list) /\ t # NoTimer
  BY TimersAssumption DEF Sound, Well
<1>2. (m.busy = t \/ \E i \in DOMAIN m.queue : m.queue[i] = t) <=> Holds(Backlog(m), t)
  <2>1. Holds(Backlog(m), t) <=> m.busy # NoTimer /\ (t = m.busy \/ Holds(m.queue, t))
    BY <1>1, BacklogHolds
  <2>2. DOMAIN m.queue = 1 .. Len(m.queue) /\ (m.busy = NoTimer => ~Holds(m.queue, t))
    BY <1>1 DEF Thread, Served, Holds
  <2> QED
    BY <1>1, <2>1, <2>2 DEF Holds
<1>3. Left(m, Place(m, t)) = Dues(m)[t]
  <2>1. DOMAIN m.list = 1 .. Len(m.list) /\ Len(m.list) \in Nat
    BY <1>1 DEF Distinct
  <2>2. CASE Holds(m.list, t)
    BY <2>1, <2>2 DEF Dues, Holds
  <2>3. CASE ~Holds(m.list, t)
    <3>1. {i \in 1 .. Len(m.list) : m.list[i] = t} = {}
      BY <2>3 DEF Holds
    <3>2. Place(m, t) = 0
      BY <3>1 DEF Place, SelectInSeq
    <3>3. Left(m, 0) = At(Dues(m), m.list, 0)
      BY <1>1, <2>1, LeftIs DEF Lasts
    <3>4. Dues(m)[t] = 0
      BY <2>1, <2>3 DEF Dues, Holds
    <3> QED
      BY <3>2, <3>3, <3>4 DEF At
  <2> QED
    BY <2>2, <2>3
<1> QED
  BY <1>2, <1>3 DEF Spent

\* What the plan of the buzzer sees of it.
BeepSeen ==
  /\ ~Beeping => BeepCmd = <<>> /\ BeepStep = 0 /\ BeepAge = 0
  /\ Beeping => BeepCmd = <<beep.mode, beep.time, beep.repeat>>
  /\ Beeping /\ beep.status = "BEEP" =>
       /\ BeepStep = IF tm.icnt[BeepTmr] = 9 * SHORT_TIME THEN 4 ELSE 1
       /\ BeepAge = Spent(tm, BeepTmr, beep.time)
  /\ Beeping /\ beep.status = "SILENCE" =>
       /\ BeepStep = IF tm.icnt[BeepTmr] = 9 * SHORT_TIME THEN 5 ELSE 2
       /\ BeepAge = (beep.mode - beep.shots) * tm.icnt[BeepTmr]
                      + Spent(tm, BeepTmr, tm.icnt[BeepTmr])
  /\ Beeping /\ beep.status = "WAIT_CYCLE" =>
       BeepStep = 3 /\ BeepAge = Spent(tm, BeepTmr, 9 * SHORT_TIME)

LEMMA BeepIsSeen == Timed(tm) => BeepSeen
<1> SUFFICES ASSUME Timed(tm) PROVE BeepSeen
  OBVIOUS
<1>1. \A n : Elapsed(BeepTmr, n) = Spent(tm, BeepTmr, n)
  BY SpentIs, IndicatorsAssumption DEF Elapsed, Timed
<1>2. Cycle = IF tm.icnt[BeepTmr] = 9 * SHORT_TIME THEN 2 ELSE 1
  BY DEF Cycle
<1> QED
  BY <1>1, <1>2 DEF BeepSeen, BeepCmd, BeepStep, BeepAge

LEMMA BeepStaysSeen == Timed(tm)' => BeepSeen'
  BY BeepIsSeen, PTL

LedSeen ==
  /\ ~Flashing => LedCmd = "none" /\ LedStep = 0 /\ LedAge = 0
  /\ Flashing => LedCmd = led.mode
  /\ Flashing /\ led.mode = "ON_FOREVER" => LedAge = 0
  /\ Flashing /\ led.status = "STAT_FLASH" =>
       /\ LedStep = 1 + SecondShot
       /\ led.mode # "ON_FOREVER" => LedAge = Spent(tm, LedTmr, led.on)
  /\ Flashing /\ led.status = "STAT_OFF" =>
       /\ LedStep = 2 + SecondShot
       /\ led.mode # "ON_FOREVER" => LedAge = Spent(tm, LedTmr, led.off)
  /\ Flashing /\ led.status = "STAT_WAIT" =>
       /\ LedStep = IF led.mode = "DUAL_FAST_FLASHING" THEN 5 ELSE 3
       /\ led.mode # "ON_FOREVER" => LedAge = Spent(tm, LedTmr, led.wait)

LEMMA LedIsSeen == Timed(tm) => LedSeen
<1> SUFFICES ASSUME Timed(tm) PROVE LedSeen
  OBVIOUS
<1>1. \A n : Elapsed(LedTmr, n) = Spent(tm, LedTmr, n)
  BY SpentIs, IndicatorsAssumption DEF Elapsed, Timed
<1> QED
  BY <1>1 DEF LedSeen, LedCmd, LedStep, LedAge

LEMMA LedStaysSeen == Timed(tm)' => LedSeen'
  BY LedIsSeen, PTL

-----------------------------------------------------------------------------
\* While the buzzer is at work its timer runs, with the time of the beep or with the wait
\* for its period, and each shot it has still to go is a period of silence.
BeepTimes ==
  Beeping =>
    /\ Dues(tm)[BeepTmr] # 0 /\ tm.icnt[BeepTmr] \in {beep.time, 9 * SHORT_TIME}
    /\ beep.status # "WAIT_CYCLE" => beep.shots \in 1 .. beep.mode
    /\ beep.status = "BEEP" => beep.shots = beep.mode
    /\ beep.status = "WAIT_CYCLE" => tm.icnt[BeepTmr] = 9 * SHORT_TIME

\* While the led is at work its times are those of its mode, and a flash is counted only
\* where a second one follows.
LedTimes ==
  Flashing /\ led.mode # "ON_FOREVER" =>
    /\ led.on = Timing(led.mode) /\ led.off = Timing(led.mode)
    /\ led.wait = IF Waits(led.mode) THEN TIME_WAIT ELSE TIME_DISABLED
    /\ led.mode = "SINGLE_FAST_FLASHING" => led.shots = 0
    /\ led.mode = "DUAL_FAST_FLASHING" => led.shots \in {0, 1}
    /\ led.status = "STAT_WAIT" => Waits(led.mode) /\ led.shots = 0

Paced == Inv /\ Timed(tm) /\ BeepTimes /\ LedTimes

LEMMA CommandIs ==
  ASSUME Inv, beep.status # "STOPPED"
  PROVE  /\ <<beep.mode, beep.time, beep.repeat>> \in BeepCalls
         /\ beep.status \in {"BEEP", "SILENCE", "WAIT_CYCLE"}
         /\ beep.mode \in {1, 2, 4} /\ beep.time \in {2, 10}
         /\ beep.repeat \in {"NO_REPEAT", "REPEAT_FOREVER"}
         /\ beep.repeat = "NO_REPEAT" =>
              beep.status # "WAIT_CYCLE" /\ tm.icnt[BeepTmr] # 9 * SHORT_TIME
         /\ beep.time \in 1 .. Width - 2 /\ 9 * SHORT_TIME \in 1 .. Width - 2
<1>1. /\ <<beep.mode, beep.time, beep.repeat>> \in BeepCalls
      /\ beep.status \in {"BEEP", "SILENCE", "WAIT_CYCLE"}
      /\ beep.repeat = "NO_REPEAT" =>
           beep.status # "WAIT_CYCLE" /\ tm.icnt[BeepTmr] # 9 * SHORT_TIME
  BY DEF Inv, Buzzes
<1>2. /\ beep.mode \in {1, 2, 4} /\ beep.time \in {2, 10}
      /\ beep.repeat \in {"NO_REPEAT", "REPEAT_FOREVER"}
  BY <1>1, IndicatorsAssumption DEF ONE_SHOT, DUAL_SHOT, QUAD_SHOT, SHORT_TIME, LONG_TIME
<1>3. Width \in Nat /\ Width > 20 /\ 9 * SHORT_TIME = 18
  BY TimersAssumption, IndicatorsAssumption DEF SHORT_TIME
<1> QED
  BY <1>1, <1>2, <1>3

\* The silences of the shots that are over, and of all of them.
LEMMA Silences ==
  ASSUME NEW mode \in {1, 2, 4}, NEW k \in 1 .. mode, NEW i \in Nat
  PROVE  /\ (mode - mode) * i = 0 /\ (mode - k) * i \in Nat /\ mode * i \in Nat
         /\ (mode - k) * i + i <= mode * i /\ (mode - 1) * i + i = mode * i
         /\ (mode - (k - 1)) * i = (mode - k) * i + i
<1>1. mode - k \in {0, 1, 2, 3} /\ mode - (k - 1) = (mode - k) + 1 /\ mode - k <= mode - 1
  OBVIOUS
<1>2. CASE mode = 1
  BY <1>1, <1>2
<1>3. CASE mode = 2
  BY <1>1, <1>3
<1>4. CASE mode = 4
  BY <1>1, <1>4
<1> QED
  BY <1>2, <1>3, <1>4

LEMMA BeepPlanIs ==
  ASSUME Inv, Beeping, BeepSeen
  PROVE  /\ BC!Steps[1].ticks = beep.time /\ BC!Steps[2].ticks = beep.mode * beep.time
         /\ [c \in BeepCalls |-> BeepCourse(c[1], c[2], c[3])][BeepCmd].loop
              = IF beep.repeat = "NO_REPEAT" THEN 0 ELSE 3
         /\ beep.repeat = "NO_REPEAT" => Len(BC!Steps) = 2
         /\ beep.repeat # "NO_REPEAT" =>
              /\ Len(BC!Steps) = 5 /\ BC!Steps[3].ticks = 9 * SHORT_TIME
              /\ BC!Steps[4].ticks = beep.time /\ BC!Steps[5].ticks = beep.mode * (9 * SHORT_TIME)
<1> DEFINE plan == BeepCourse(beep.mode, beep.time, beep.repeat)
<1>1. BeepCmd = <<beep.mode, beep.time, beep.repeat>> /\ BeepCmd \in BeepCalls
  BY CommandIs DEF Beeping, BeepSeen
<1>2. [c \in BeepCalls |-> BeepCourse(c[1], c[2], c[3])][BeepCmd] = plan
  BY <1>1
<1>3. BC!Steps = plan.steps
  BY <1>2 DEF BC!Steps
<1>4. /\ plan.steps[1].ticks = beep.time /\ plan.steps[2].ticks = beep.mode * beep.time
      /\ plan.loop = IF beep.repeat = "NO_REPEAT" THEN 0 ELSE 3
      /\ beep.repeat = "NO_REPEAT" => Len(plan.steps) = 2
      /\ beep.repeat # "NO_REPEAT" =>
           /\ Len(plan.steps) = 5 /\ plan.steps[3].ticks = 9 * SHORT_TIME
           /\ plan.steps[4].ticks = beep.time /\ plan.steps[5].ticks = beep.mode * (9 * SHORT_TIME)
  BY DEF BeepCourse
<1> QED
  BY <1>2, <1>3, <1>4

\* What does not concern the buzzer leaves what its plan sees.
LEMMA BeepFrame ==
  ASSUME Paced, Timed(tm)', Same(tm', tm, BeepTmr), beep' = beep, Beeping' <=> Beeping
  PROVE  BeepTimes' /\ UNCHANGED <<BeepCmd, BeepStep, BeepAge>>
<1>1. BeepSeen /\ BeepSeen'
  BY BeepIsSeen, BeepStaysSeen DEF Paced
<1>2. /\ Dues(tm')[BeepTmr] = Dues(tm)[BeepTmr] /\ tm'.icnt[BeepTmr] = tm.icnt[BeepTmr]
      /\ \A n : Spent(tm', BeepTmr, n) = Spent(tm, BeepTmr, n)
  BY DEF Same, Spent
<1>3. BeepTimes'
  BY <1>2 DEF Paced, BeepTimes
<1>4. CASE ~Beeping
  BY <1>1, <1>3, <1>4 DEF BeepSeen
<1>5. CASE Beeping
  <2>1. beep.status \in {"BEEP", "SILENCE", "WAIT_CYCLE"}
    BY <1>5, CommandIs DEF Beeping, Paced
  <2>2. BeepCmd' = BeepCmd
    BY <1>1, <1>5 DEF BeepSeen
  <2>3. CASE beep.status = "BEEP"
    BY <1>1, <1>2, <1>3, <1>5, <2>2, <2>3 DEF BeepSeen
  <2>4. CASE beep.status = "SILENCE"
    BY <1>1, <1>2, <1>3, <1>5, <2>2, <2>4 DEF BeepSeen
  <2>5. CASE beep.status = "WAIT_CYCLE"
    BY <1>1, <1>2, <1>3, <1>5, <2>2, <2>5 DEF BeepSeen
  <2> QED
    BY <2>1, <2>3, <2>4, <2>5
<1> QED
  BY <1>4, <1>5

\* When the buzzer rests, so does its plan.
LEMMA BeepRests ==
  ASSUME Timed(tm)', ~Beeping'
  PROVE  BeepTimes' /\ BC!Next
<1>1. BeepCmd' = <<>> /\ BeepStep' = 0 /\ BeepAge' = 0
  BY BeepStaysSeen DEF BeepSeen
<1> QED
  BY <1>1 DEF BeepTimes, BC!Next, BC!Rest

LEMMA BeepTicks ==
  ASSUME Paced, Tick
  PROVE  Timed(tm)' /\ BeepTimes' /\ [BC!Next]_(BC!vars)
<1>0. BeepTmr \in Timers /\ tm' = TimerTick(tm) /\ tm.busy = NoTimer /\ Sound(tm)
      /\ beep' = beep /\ call' = call
  BY IndicatorsAssumption DEF Tick, Paced, Timed
<1>1. /\ Timed(tm') /\ tm'.icnt = tm.icnt
      /\ Dues(tm')[BeepTmr] = IF Dues(tm)[BeepTmr] = 0 THEN 0
                              ELSE IF Dues(tm)[BeepTmr] = 1 THEN tm.icnt[BeepTmr]
                              ELSE Dues(tm)[BeepTmr] - 1
      /\ Holds(Backlog(tm'), BeepTmr) <=> Dues(tm)[BeepTmr] = 1
      /\ ~Holds(Backlog(tm), BeepTmr)
  BY <1>0, TickTimed
<1>2. Beeping' <=> Beeping
  BY <1>0 DEF Beeping
<1>3. CASE ~Beeping
  BY <1>1, <1>2, <1>3, BeepRests
<1>4. CASE Beeping
  <2> DEFINE w == Dues(tm)[BeepTmr]
             i == tm.icnt[BeepTmr]
  <2>1. BeepSeen /\ BeepSeen'
    BY <1>1, BeepIsSeen, BeepStaysSeen DEF Paced
  <2>2. w \in Nat /\ w # 0 /\ i \in Nat
    <3>1. i \in {beep.time, 9 * SHORT_TIME} /\ w # 0
      BY <1>4 DEF Paced, BeepTimes
    <3>2. i \in Nat
      BY <1>4, <3>1, CommandIs DEF Beeping, Paced
    <3>3. w \in Nat
      BY <1>0, DueIs, TimersAssumption
    <3> QED
      BY <3>1, <3>2, <3>3
  <2>3. \A n \in Nat : /\ Spent(tm, BeepTmr, n) = n - w
                       /\ Spent(tm', BeepTmr, n) = n - w + 1
    BY <1>1, <2>2 DEF Spent
  <2>4. BeepTimes'
    <3>1. i # 0
      BY <1>0, <2>2, DueIs
    <3>2. Dues(tm')[BeepTmr] # 0
      BY <1>1, <2>2, <3>1
    <3> QED
      BY <1>0, <1>1, <1>2, <3>2 DEF Paced, BeepTimes
  <2>5. BeepStep > 0 /\ BeepAge < BC!Steps[BeepStep].ticks /\ BeepAge' = BeepAge + 1
        /\ BeepCmd' = BeepCmd /\ BeepStep' = BeepStep
    <3>1. /\ beep.status \in {"BEEP", "SILENCE", "WAIT_CYCLE"} /\ beep.time \in Nat
          /\ beep.mode \in {1, 2, 4} /\ 9 * SHORT_TIME \in Nat
          /\ beep.repeat = "NO_REPEAT" => beep.status # "WAIT_CYCLE" /\ i # 9 * SHORT_TIME
      BY <1>4, CommandIs DEF Beeping, Paced
    <3>2. BeepCmd' = BeepCmd
      BY <1>0, <1>2, <1>4, <2>1 DEF BeepSeen
    <3>3. /\ i \in {beep.time, 9 * SHORT_TIME}
          /\ beep.status # "WAIT_CYCLE" => beep.shots \in 1 .. beep.mode
          /\ beep.status = "WAIT_CYCLE" => i = 9 * SHORT_TIME
      BY <1>4 DEF Paced, BeepTimes
    <3>4. /\ BC!Steps[1].ticks = beep.time /\ BC!Steps[2].ticks = beep.mode * beep.time
          /\ beep.repeat # "NO_REPEAT" =>
               /\ BC!Steps[3].ticks = 9 * SHORT_TIME
               /\ BC!Steps[4].ticks = beep.time /\ BC!Steps[5].ticks = beep.mode * (9 * SHORT_TIME)
      BY <1>4, <2>1, BeepPlanIs DEF Paced
    <3>5. CASE beep.status = "BEEP"
      <4>1. /\ BeepStep = (IF i = 9 * SHORT_TIME THEN 4 ELSE 1) /\ BeepStep' = BeepStep
            /\ BeepAge = Spent(tm, BeepTmr, beep.time) /\ BeepAge' = Spent(tm', BeepTmr, beep.time)
        BY <1>0, <1>1, <1>2, <1>4, <2>1, <3>5 DEF BeepSeen
      <4>2. BC!Steps[BeepStep].ticks = beep.time
        BY <3>1, <3>4, <4>1
      <4> QED
        BY <2>2, <2>3, <3>1, <3>2, <4>1, <4>2
    <3>6. CASE beep.status = "SILENCE"
      <4> DEFINE p == (beep.mode - beep.shots) * i
      <4>1. /\ BeepStep = (IF i = 9 * SHORT_TIME THEN 5 ELSE 2) /\ BeepStep' = BeepStep
            /\ BeepAge = p + Spent(tm, BeepTmr, i) /\ BeepAge' = p + Spent(tm', BeepTmr, i)
        BY <1>0, <1>1, <1>2, <1>4, <2>1, <3>6 DEF BeepSeen
      <4>2. BC!Steps[BeepStep].ticks = beep.mode * i
        BY <3>1, <3>3, <3>4, <4>1
      <4>3. p \in Nat /\ beep.mode * i \in Nat /\ p + i <= beep.mode * i
        BY <2>2, <3>1, <3>3, <3>6, Silences
      <4> HIDE DEF p
      <4> QED
        BY <2>2, <2>3, <3>2, <4>1, <4>2, <4>3
    <3>7. CASE beep.status = "WAIT_CYCLE"
      <4>1. /\ BeepStep = 3 /\ BeepStep' = BeepStep
            /\ BeepAge = Spent(tm, BeepTmr, 9 * SHORT_TIME)
            /\ BeepAge' = Spent(tm', BeepTmr, 9 * SHORT_TIME)
        BY <1>0, <1>1, <1>2, <1>4, <2>1, <3>7 DEF BeepSeen
      <4>2. BC!Steps[3].ticks = 9 * SHORT_TIME
        BY <3>1, <3>4, <3>7
      <4> QED
        BY <2>2, <2>3, <3>1, <3>2, <4>1, <4>2
    <3> QED
      BY <3>1, <3>5, <3>6, <3>7
  <2> QED
    BY <1>1, <2>4, <2>5 DEF BC!Next, BC!Tick
<1> QED
  BY <1>3, <1>4

LEMMA BeepOwnerTimes ==
  ASSUME Paced, BeepOwner
  PROVE  Timed(tm)' /\ BeepTimes' /\ [BC!Next]_(BC!vars) /\ Same(tm', tm, LedTmr)
         /\ led' = led /\ (Flashing' <=> Flashing)
<1>0. /\ BeepTmr \in Timers \intersect Periodic /\ LedTmr \in Timers \ {BeepTmr} /\ led' = led
      /\ Kernel /\ Timed(tm) /\ \A a, b, c : <<"beep", a, b, c>>[1] = "beep"
  BY IndicatorsAssumption DEF BeepOwner, Paced, Inv
<1>1. ASSUME NEW c \in BeepCalls, BeepHalt(c[1], c[2], c[3])
      PROVE  Timed(tm)' /\ BeepTimes' /\ BC!Next /\ Same(tm', tm, LedTmr) /\ (Flashing' <=> Flashing)
  <2>1. Timed(tm)' /\ Same(tm', tm, LedTmr)
    BY <1>0, <1>1, StopTimed DEF BeepHalt
  <2>2. ~Beeping' /\ (Flashing' <=> Flashing)
    BY <1>0, <1>1 DEF BeepHalt, Beeping, Flashing
  <2> QED
    BY <2>1, <2>2, BeepRests
<1>2. ASSUME BeepArm
      PROVE  Timed(tm)' /\ BeepTimes' /\ BC!Next /\ Same(tm', tm, LedTmr) /\ (Flashing' <=> Flashing)
  <2>1. PICK c \in BeepCalls : call = <<"beep", c[1], c[2], c[3]>> /\ Quiet(tm, BeepTmr)
    <3>1. \A m : <<"led", m>>[1] # "beep"
      OBVIOUS
    <3> QED
      BY <1>2, <3>1 DEF BeepArm, Paced, Inv, Calling
  <2>2. /\ call[2] = c[1] /\ call[3] = c[2] /\ call[4] = c[3] /\ c = <<c[1], c[2], c[3]>>
        /\ c[1] \in {1, 2, 4} /\ c[2] \in {2, 10}
    BY <2>1, IndicatorsAssumption DEF ONE_SHOT, DUAL_SHOT, QUAD_SHOT, SHORT_TIME, LONG_TIME
  <2>3. c[2] \in 1 .. Width - 2 /\ 9 * SHORT_TIME = 18
    BY <2>2, TimersAssumption, IndicatorsAssumption DEF SHORT_TIME
  <2>4. tm' = TimerStart(tm, BeepTmr, c[2]) /\ Free /\ call' = <<>>
    BY <1>2, <2>2 DEF BeepArm
  <2>5. Dues(tm)[BeepTmr] = 0
    BY <1>0, <2>1, DueIs DEF Quiet, Timed
  <2>6. /\ Timed(tm') /\ Dues(tm')[BeepTmr] = c[2] /\ tm'.icnt[BeepTmr] = c[2]
        /\ ~Holds(Backlog(tm'), BeepTmr) /\ Same(tm', tm, LedTmr)
    BY <1>0, <2>3, <2>4, <2>5, StartTimed
  <2>7. beep' = [status |-> "BEEP", mode |-> c[1], time |-> c[2], repeat |-> c[3],
                 shots |-> c[1], buzzer |-> PeriodUs(beep.buzzer, 125)]
    BY <1>2, <2>2 DEF BeepArm
  <2>8. Beeping' /\ (Flashing' <=> Flashing)
    BY <1>0, <2>1, <2>4, <2>7 DEF Beeping, Flashing
  <2>9. BeepTimes'
    BY <2>2, <2>3, <2>6, <2>7 DEF BeepTimes
  <2>10. BeepSeen'
    BY <2>6, BeepStaysSeen
  <2>11. BeepCmd' = c /\ BeepStep' = 1 /\ BeepAge' = 0
    <3>1. Spent(tm', BeepTmr, c[2]) = 0
      BY <2>2, <2>6 DEF Spent
    <3>2. beep'.status = "BEEP" /\ beep'.time = c[2] /\ <<beep'.mode, beep'.time, beep'.repeat>> = c
      BY <2>2, <2>7
    <3>3. tm'.icnt[BeepTmr] # 9 * SHORT_TIME
      BY <2>2, <2>3, <2>6
    <3> QED
      BY <2>8, <2>10, <3>1, <3>2, <3>3 DEF BeepSeen
  <2> QED
    BY <2>6, <2>8, <2>9, <2>11 DEF BC!Next, BC!Command
<1>3. ASSUME BeepStop
      PROVE  Timed(tm)' /\ BeepTimes' /\ BC!Next /\ Same(tm', tm, LedTmr) /\ (Flashing' <=> Flashing)
  <2>1. Timed(tm)' /\ Same(tm', tm, LedTmr)
    BY <1>0, <1>3, StopTimed DEF BeepStop
  <2>2. beep'.status = "STOPPED" /\ call' = call
    BY <1>3 DEF BeepStop, Paced, Inv, Buzzes
  <2>3. ~Beeping' /\ (Flashing' <=> Flashing)
    BY <1>0, <2>2 DEF Beeping, Flashing
  <2> QED
    BY <2>1, <2>3, BeepRests
<1> QED
  BY <1>0, <1>1, <1>2, <1>3 DEF BeepOwner

\* beepTimer leaves its timer as it has become, or starts it with the next delay.
LEMMA BeepBack ==
  ASSUME Paced, BeepCallback
  PROVE  /\ Timed(tm') /\ Dues(tm)[BeepTmr] # 0 /\ Dues(tm)[BeepTmr] = tm.icnt[BeepTmr]
         /\ Holds(Backlog(tm), BeepTmr) /\ ~Holds(Backlog(tm'), BeepTmr)
         /\ \A u \in Timers \ {BeepTmr} : Same(tm', tm, u)
         /\ beep.status = "WAIT_CYCLE" =>
              Dues(tm')[BeepTmr] = beep.time /\ tm'.icnt[BeepTmr] = tm.icnt[BeepTmr]
         /\ beep.status \in {"BEEP", "SILENCE"} /\ ~LastShot =>
              Dues(tm')[BeepTmr] = Dues(tm)[BeepTmr] /\ tm'.icnt[BeepTmr] = tm.icnt[BeepTmr]
         /\ LastShot /\ beep.repeat # "NO_REPEAT" =>
              Dues(tm')[BeepTmr] = 9 * SHORT_TIME /\ tm'.icnt[BeepTmr] = 9 * SHORT_TIME
<1> DEFINE k == BeepTimed
           x == TimerStop(tm, BeepTmr)
<1>0. /\ BeepTmr \in Timers \intersect Periodic /\ BeepTmr \in Timers /\ Timed(tm) /\ Sound(tm)
      /\ tm.state[BeepTmr] # "Invalid" /\ tm.busy = BeepTmr /\ tm' = NextMessage(k)
  BY IndicatorsAssumption DEF BeepCallback, Paced, Inv, Kernel, Timed
<1>1. /\ Sound(x) /\ Dues(x)[BeepTmr] = 0 /\ Backlog(x) = Backlog(tm) /\ x.busy = tm.busy
      /\ x.state[BeepTmr] # "Invalid" /\ \A u \in Timers \ {BeepTmr} : Same(x, tm, u)
  BY <1>0, StopSound DEF Alike
<1> HIDE DEF x
<1>2. /\ Sound(k) /\ Backlog(k) = Backlog(tm) /\ k.busy = tm.busy
      /\ \A u \in Timers \ {BeepTmr} : Same(k, tm, u)
      /\ beep.status = "WAIT_CYCLE" =>
           Dues(k)[BeepTmr] = beep.time
           /\ k.icnt[BeepTmr] = IF Dues(tm)[BeepTmr] = 0 THEN beep.time ELSE tm.icnt[BeepTmr]
      /\ beep.status \in {"BEEP", "SILENCE"} /\ ~LastShot =>
           Dues(k)[BeepTmr] = Dues(tm)[BeepTmr] /\ k.icnt[BeepTmr] = tm.icnt[BeepTmr]
      /\ LastShot /\ beep.repeat # "NO_REPEAT" =>
           Dues(k)[BeepTmr] = 9 * SHORT_TIME /\ k.icnt[BeepTmr] = 9 * SHORT_TIME
  <2>1. CASE beep.status = "STOPPED"
    <3>1. k = x /\ ~LastShot
      BY <2>1 DEF BeepTimed, LastShot, x
    <3> QED
      BY <1>1, <2>1, <3>1
  <2>2. CASE beep.status = "WAIT_CYCLE"
    <3>1. k = TimerStart(tm, BeepTmr, beep.time) /\ ~LastShot
      BY <2>2 DEF BeepTimed, LastShot
    <3>2. beep.time \in 1 .. Width - 2
      BY <2>2, CommandIs DEF Paced
    <3> HIDE DEF k
    <3>3. /\ Sound(k) /\ Dues(k)[BeepTmr] = beep.time /\ Backlog(k) = Backlog(tm) /\ k.busy = tm.busy
          /\ k.icnt[BeepTmr] = IF Dues(tm)[BeepTmr] = 0 THEN beep.time ELSE tm.icnt[BeepTmr]
          /\ \A u \in Timers \ {BeepTmr} : Same(k, tm, u)
      BY <1>0, <3>1, <3>2, StartSound
    <3> QED
      BY <2>2, <3>1, <3>3
  <2>3. CASE beep.status \in {"BEEP", "SILENCE"} /\ ~LastShot
    <3>1. k = tm
      BY <2>3 DEF BeepTimed
    <3> QED
      BY <1>0, <2>3, <3>1 DEF Same
  <2>4. CASE LastShot /\ beep.repeat = "NO_REPEAT"
    <3>1. k = x /\ beep.status = "SILENCE"
      BY <2>4 DEF BeepTimed, LastShot, x
    <3> QED
      BY <1>1, <2>4, <3>1
  <2>5. CASE LastShot /\ beep.repeat # "NO_REPEAT"
    <3>1. k = TimerStart(x, BeepTmr, 9 * SHORT_TIME) /\ beep.status = "SILENCE"
      BY <2>5 DEF BeepTimed, LastShot, x
    <3>2. 9 * SHORT_TIME \in 1 .. Width - 2
      BY <3>1, CommandIs DEF Paced
    <3> HIDE DEF k
    <3>3. /\ Sound(k) /\ Dues(k)[BeepTmr] = 9 * SHORT_TIME /\ Backlog(k) = Backlog(x)
          /\ k.busy = x.busy /\ k.icnt[BeepTmr] = 9 * SHORT_TIME
          /\ \A u \in Timers \ {BeepTmr} : Same(k, x, u)
      BY <1>0, <1>1, <3>1, <3>2, StartSound
    <3>4. \A u \in Timers \ {BeepTmr} : Same(k, tm, u)
      BY <1>1, <3>3 DEF Same
    <3> QED
      BY <1>1, <2>5, <3>1, <3>3, <3>4
  <2>6. beep.status \in {"STOPPED", "BEEP", "SILENCE", "WAIT_CYCLE"}
    BY DEF Paced, Inv, Buzzes
  <2> QED
    BY <2>1, <2>2, <2>3, <2>4, <2>5, <2>6 DEF LastShot
<1> HIDE DEF k
<1>3. /\ Timed(tm') /\ Dues(tm')[BeepTmr] = Dues(k)[BeepTmr] /\ tm'.icnt = k.icnt
      /\ Holds(Backlog(tm), BeepTmr) /\ ~Holds(Backlog(tm'), BeepTmr)
      /\ \A u \in Timers \ {BeepTmr} : Same(tm', tm, u)
  BY <1>0, <1>2, BackTimed
<1>4. Dues(tm)[BeepTmr] # 0 /\ Dues(tm)[BeepTmr] = tm.icnt[BeepTmr]
  BY <1>0, <1>3 DEF Timed
<1> QED
  BY <1>2, <1>3, <1>4

LEMMA BeepCallbackTimes ==
  ASSUME Paced, BeepCallback, led' = led
  PROVE  Timed(tm)' /\ BeepTimes' /\ [BC!Next]_(BC!vars) /\ Same(tm', tm, LedTmr)
         /\ (Flashing' <=> Flashing)
<1> DEFINE i == tm.icnt[BeepTmr]
           j == tm'.icnt[BeepTmr]
<1>0. /\ BeepTmr \in Timers /\ LedTmr \in Timers \ {BeepTmr} /\ call' = call /\ beep' = BeepNext
      /\ tm.busy = BeepTmr
  BY IndicatorsAssumption DEF BeepCallback
<1>1. /\ Timed(tm') /\ Dues(tm)[BeepTmr] # 0 /\ Dues(tm)[BeepTmr] = i
      /\ Holds(Backlog(tm), BeepTmr) /\ ~Holds(Backlog(tm'), BeepTmr) /\ Same(tm', tm, LedTmr)
      /\ beep.status = "WAIT_CYCLE" => Dues(tm')[BeepTmr] = beep.time /\ j = i
      /\ beep.status \in {"BEEP", "SILENCE"} /\ ~LastShot =>
           Dues(tm')[BeepTmr] = Dues(tm)[BeepTmr] /\ j = i
      /\ LastShot /\ beep.repeat # "NO_REPEAT" =>
           Dues(tm')[BeepTmr] = 9 * SHORT_TIME /\ j = 9 * SHORT_TIME
  BY <1>0, BeepBack
<1>2. Flashing' <=> Flashing
  BY <1>0 DEF Flashing
<1>3. CASE ~Beeping'
  BY <1>1, <1>2, <1>3, BeepRests
<1>4. CASE Beeping'
  <2>1. Beeping
    <3>1. beep.status = "STOPPED" => beep'.status = "STOPPED"
      BY <1>0 DEF BeepNext
    <3> QED
      BY <1>0, <1>4, <3>1 DEF Beeping
  <2>2. BeepSeen /\ BeepSeen'
    BY <1>1, BeepIsSeen, BeepStaysSeen DEF Paced
  <2>3. /\ <<beep.mode, beep.time, beep.repeat>> \in BeepCalls
        /\ beep.status \in {"BEEP", "SILENCE", "WAIT_CYCLE"}
        /\ beep.mode \in {1, 2, 4} /\ beep.time \in {2, 10}
        /\ beep.repeat \in {"NO_REPEAT", "REPEAT_FOREVER"}
        /\ beep.repeat = "NO_REPEAT" => beep.status # "WAIT_CYCLE" /\ i # 9 * SHORT_TIME
        /\ 9 * SHORT_TIME = 18
    BY <2>1, CommandIs DEF Beeping, Paced, SHORT_TIME
  <2>4. /\ i \in {beep.time, 18}
        /\ beep.status # "WAIT_CYCLE" => beep.shots \in 1 .. beep.mode
        /\ beep.status = "BEEP" => beep.shots = beep.mode
        /\ beep.status = "WAIT_CYCLE" => i = 18
    BY <2>1, <2>3 DEF Paced, BeepTimes
  <2>5. /\ BC!Steps[1].ticks = beep.time /\ BC!Steps[2].ticks = beep.mode * beep.time
        /\ [c \in BeepCalls |-> BeepCourse(c[1], c[2], c[3])][BeepCmd].loop
             = IF beep.repeat = "NO_REPEAT" THEN 0 ELSE 3
        /\ beep.repeat = "NO_REPEAT" => Len(BC!Steps) = 2
        /\ beep.repeat # "NO_REPEAT" =>
             /\ Len(BC!Steps) = 5 /\ BC!Steps[3].ticks = 18
             /\ BC!Steps[4].ticks = beep.time /\ BC!Steps[5].ticks = beep.mode * 18
    BY <2>1, <2>2, <2>3, BeepPlanIs DEF Paced
  <2>6. beep'.mode = beep.mode /\ beep'.time = beep.time /\ beep'.repeat = beep.repeat
    BY <1>0 DEF BeepNext, Paced, Inv, Buzzes
  <2>7. BeepCmd = <<beep.mode, beep.time, beep.repeat>> /\ BeepCmd' = BeepCmd
    BY <1>4, <2>1, <2>2, <2>6 DEF BeepSeen
  <2>8. /\ \A n : Spent(tm, BeepTmr, n) = n
        /\ \A n : Spent(tm', BeepTmr, n) = n - Dues(tm')[BeepTmr]
    BY <1>1 DEF Spent
  <2>9. CASE beep.status = "BEEP"
    <3>1. beep'.status = "SILENCE" /\ beep'.shots = beep.mode /\ ~LastShot
      BY <1>0, <2>4, <2>9 DEF BeepNext, LastShot, Paced, Inv, Buzzes
    <3>2. j = i /\ Dues(tm')[BeepTmr] = i /\ i # 0
      BY <1>1, <2>9, <3>1
    <3>3. BeepTimes'
      BY <2>3, <2>4, <2>6, <3>1, <3>2 DEF BeepTimes
    <3>4. BeepStep = (IF i = 18 THEN 4 ELSE 1) /\ BeepAge = beep.time
      BY <2>1, <2>2, <2>3, <2>8, <2>9 DEF BeepSeen
    <3>5. BeepStep' = (IF i = 18 THEN 5 ELSE 2) /\ BeepAge' = (beep.mode - beep.mode) * i + (i - i)
      BY <1>4, <2>2, <2>3, <2>6, <2>8, <3>1, <3>2 DEF BeepSeen
    <3>6. BeepAge' = 0
      BY <2>3, <2>4, <3>5
    <3>7. BeepStep > 0 /\ BeepAge = BC!Steps[BeepStep].ticks /\ BeepStep < Len(BC!Steps)
          /\ BeepStep' = BeepStep + 1 /\ BeepStep' # 0
      BY <2>3, <2>5, <3>4, <3>5
    <3> QED
      BY <1>1, <1>2, <2>7, <3>3, <3>6, <3>7 DEF BC!Next, BC!Advance
  <2>10. CASE beep.status = "WAIT_CYCLE"
    <3>1. beep'.status = "BEEP" /\ beep'.shots = beep.mode
      BY <1>0, <2>10 DEF BeepNext, Paced, Inv, Buzzes
    <3>2. j = 18 /\ Dues(tm')[BeepTmr] = beep.time
      BY <1>1, <2>4, <2>10
    <3>3. BeepTimes'
      BY <2>3, <2>4, <2>6, <3>1, <3>2 DEF BeepTimes
    <3>4. BeepStep = 3 /\ BeepAge = 18
      BY <2>1, <2>2, <2>3, <2>8, <2>10 DEF BeepSeen
    <3>5. BeepStep' = 4 /\ BeepAge' = beep.time - beep.time
      BY <1>4, <2>2, <2>3, <2>6, <2>8, <3>1, <3>2 DEF BeepSeen
    <3>6. BeepAge' = 0 /\ 3 < Len(BC!Steps) /\ BC!Steps[3].ticks = 18
      BY <2>3, <2>5, <2>10, <3>5
    <3> QED
      BY <1>1, <1>2, <2>7, <3>3, <3>4, <3>5, <3>6 DEF BC!Next, BC!Advance
  <2>11. CASE beep.status = "SILENCE" /\ ~LastShot
    <3>1. beep.shots \in 2 .. beep.mode
      BY <2>3, <2>4, <2>11 DEF LastShot
    <3>2. beep'.status = "SILENCE" /\ beep'.shots = (beep.shots - 1) % 256
      BY <1>0, <2>11 DEF BeepNext, LastShot, Paced, Inv, Buzzes
    <3>3. beep'.shots = beep.shots - 1 /\ beep.shots - 1 \in 1 .. beep.mode
      BY <2>3, <3>1, <3>2
    <3>4. j = i /\ Dues(tm')[BeepTmr] = i /\ i # 0 /\ i \in Nat
      BY <1>1, <2>3, <2>4, <2>11
    <3>5. BeepTimes'
      BY <2>3, <2>4, <2>6, <3>2, <3>3, <3>4 DEF BeepTimes
    <3>6. BeepStep = (IF i = 18 THEN 5 ELSE 2) /\ BeepAge = (beep.mode - beep.shots) * i + i
      BY <2>1, <2>2, <2>3, <2>8, <2>11 DEF BeepSeen
    <3>7. /\ BeepStep' = (IF i = 18 THEN 5 ELSE 2)
          /\ BeepAge' = (beep.mode - (beep.shots - 1)) * i + (i - i)
      <4>1. /\ BeepStep' = (IF j = 18 THEN 5 ELSE 2)
            /\ BeepAge' = (beep'.mode - beep'.shots) * j + Spent(tm', BeepTmr, j)
        BY <1>4, <2>2, <2>3, <3>2 DEF BeepSeen
      <4>2. Spent(tm', BeepTmr, j) = i - i
        BY <2>8, <3>4
      <4> QED
        BY <2>6, <3>3, <3>4, <4>1, <4>2
    <3>8. BeepAge' = BeepAge
      <4> DEFINE p == (beep.mode - (beep.shots - 1)) * i
                 q == (beep.mode - beep.shots) * i
      <4>1. beep.shots \in 1 .. beep.mode
        BY <2>4, <2>11
      <4>2. p = q + i /\ q \in Nat
        BY <2>3, <3>4, <4>1, Silences
      <4> HIDE DEF p, q
      <4>3. BeepAge = q + i /\ BeepAge' = p + (i - i)
        BY <3>6, <3>7 DEF p, q
      <4> QED
        BY <3>4, <4>2, <4>3
    <3> QED
      BY <1>1, <1>2, <2>7, <3>5, <3>6, <3>7, <3>8 DEF BC!vars
  <2>12. CASE LastShot
    <3>1. beep.status = "SILENCE" /\ beep.shots = 1
      BY <2>12 DEF LastShot
    <3>2. beep.repeat # "NO_REPEAT" /\ beep'.status = "WAIT_CYCLE"
      BY <1>0, <1>4, <2>12, <3>1 DEF BeepNext, Paced, Inv, Buzzes, Beeping
    <3>3. j = 18 /\ Dues(tm')[BeepTmr] = 18
      BY <1>1, <2>3, <2>12, <3>2
    <3>4. BeepTimes'
      BY <2>3, <3>2, <3>3 DEF BeepTimes
    <3>5. BeepStep = (IF i = 18 THEN 5 ELSE 2) /\ BeepAge = (beep.mode - 1) * i + i
      BY <2>1, <2>2, <2>3, <2>8, <3>1 DEF BeepSeen
    <3>6. BeepAge = BC!Steps[BeepStep].ticks
      <4>1. i \in Nat /\ 1 \in 1 .. beep.mode
        BY <2>3, <2>4
      <4>2. (beep.mode - 1) * i + i = beep.mode * i
        BY <2>3, <4>1, Silences
      <4>3. BC!Steps[BeepStep].ticks = beep.mode * i
        BY <2>3, <2>4, <2>5, <3>2, <3>5
      <4> QED
        BY <3>5, <4>2, <4>3
    <3>7. BeepStep' = 3 /\ BeepAge' = 0
      <4>1. BeepStep' = 3 /\ BeepAge' = Spent(tm', BeepTmr, 18)
        BY <1>4, <2>2, <2>3, <3>2 DEF BeepSeen
      <4>2. Spent(tm', BeepTmr, 18) = 18 - 18
        BY <2>8, <3>3
      <4> QED
        BY <4>1, <4>2
    <3>8. BeepStep > 0 /\ BeepStep' = IF BeepStep < Len(BC!Steps) THEN BeepStep + 1 ELSE 3
      <4>1. Len(BC!Steps) = 5 /\ BeepStep' = 3
        BY <2>5, <3>2, <3>7
      <4>2. BeepStep \in {2, 5}
        BY <3>5
      <4> QED
        BY <4>1, <4>2
    <3> QED
      BY <1>1, <1>2, <2>5, <2>7, <3>2, <3>4, <3>6, <3>7, <3>8 DEF BC!Next, BC!Advance
  <2> QED
    BY <2>3, <2>9, <2>10, <2>11, <2>12
<1> QED
  BY <1>3, <1>4

-----------------------------------------------------------------------------
\* How long what the led does lasts, and how many steps its plan has.
LedDelay == IF led.status = "STAT_FLASH" THEN led.on
            ELSE IF led.status = "STAT_OFF" THEN led.off ELSE led.wait

LedSteps(mode) == IF mode = "DUAL_FAST_FLASHING" THEN 5
                  ELSE IF mode = "SINGLE_FAST_FLASHING" THEN 3 ELSE 2

LEMMA LedStepsAre ==
  ASSUME NEW mode \in Modes, mode # "ON_FOREVER"
  PROVE  LET steps == LedCourse(mode).steps
         IN  /\ Len(steps) = LedSteps(mode) /\ LedCourse(mode).loop = 1
             /\ steps[1].ticks = Timing(mode) /\ steps[2].ticks = Timing(mode)
             /\ mode = "DUAL_FAST_FLASHING" =>
                  steps[3].ticks = Timing(mode) /\ steps[4].ticks = Timing(mode)
             /\ Waits(mode) => steps[LedSteps(mode)].ticks = TIME_WAIT
<1>1. CASE mode = "SLOW_FLASHING"
  BY <1>1 DEF LedCourse, LedPlan, LedSteps, Timing, Waits, TIME_SLOW
<1>2. CASE mode = "SINGLE_FAST_FLASHING"
  BY <1>2 DEF LedCourse, LedPlan, LedSteps, Timing, Waits, TIME_FAST, TIME_WAIT
<1>3. CASE mode = "DUAL_FAST_FLASHING"
  BY <1>3 DEF LedCourse, LedPlan, LedSteps, Timing, Waits, TIME_FAST, TIME_WAIT
<1>4. CASE mode = "CONTINUOUS_FAST_FLASHING"
  BY <1>4 DEF LedCourse, LedPlan, LedSteps, Timing, Waits, TIME_FAST
<1> QED
  BY <1>1, <1>2, <1>3, <1>4 DEF Modes

LEMMA LedPlanIs ==
  ASSUME Inv, LedTimes, LedSeen, Flashing, led.mode # "ON_FOREVER"
  PROVE  /\ led.mode \in LedCalls /\ led.mode \in Modes /\ LedCmd = led.mode
         /\ Len(LC!Steps) = LedSteps(led.mode)
         /\ [m \in LedCalls |-> LedCourse(m)][LedCmd].loop = 1
         /\ LedStep = IF led.status = "STAT_WAIT" THEN LedSteps(led.mode)
                      ELSE IF led.status = "STAT_FLASH" THEN 1 + SecondShot ELSE 2 + SecondShot
         /\ SecondShot \in {0, 2} /\ (SecondShot = 2 => led.mode = "DUAL_FAST_FLASHING")
         /\ LC!Steps[LedStep].ticks = LedDelay /\ LedDelay \in {5, 10, 15}
         /\ LedAge = Spent(tm, LedTmr, LedDelay)
         /\ led.status \in {"STAT_FLASH", "STAT_OFF", "STAT_WAIT"}
<1> DEFINE plan == LedCourse(led.mode)
<1>1. /\ led.mode \in LedCalls /\ led.mode \in Modes /\ LedCmd = led.mode
      /\ led.status \in {"STAT_FLASH", "STAT_OFF", "STAT_WAIT"}
  BY IndicatorsAssumption DEF Inv, Flashes, Flashing, LedSeen
<1>2. [m \in LedCalls |-> LedCourse(m)][LedCmd] = plan
  BY <1>1
<1>3. LC!Steps = plan.steps
  BY <1>2 DEF LC!Steps
<1>4. /\ Len(plan.steps) = LedSteps(led.mode) /\ plan.loop = 1
      /\ plan.steps[1].ticks = Timing(led.mode) /\ plan.steps[2].ticks = Timing(led.mode)
      /\ led.mode = "DUAL_FAST_FLASHING" =>
           plan.steps[3].ticks = Timing(led.mode) /\ plan.steps[4].ticks = Timing(led.mode)
      /\ Waits(led.mode) => plan.steps[LedSteps(led.mode)].ticks = TIME_WAIT
  BY <1>1, LedStepsAre
<1>5. /\ led.on = Timing(led.mode) /\ led.off = Timing(led.mode)
      /\ led.status = "STAT_WAIT" => Waits(led.mode) /\ led.wait = TIME_WAIT
      /\ Timing(led.mode) \in {5, 10} /\ TIME_WAIT = 15
  BY DEF LedTimes, Timing, TIME_SLOW, TIME_FAST, TIME_WAIT
<1>6. SecondShot \in {0, 2} /\ (SecondShot = 2 => led.mode = "DUAL_FAST_FLASHING")
  BY DEF SecondShot
<1>7. LedStep = IF led.status = "STAT_WAIT" THEN LedSteps(led.mode)
                ELSE IF led.status = "STAT_FLASH" THEN 1 + SecondShot ELSE 2 + SecondShot
  BY <1>1, <1>5 DEF LedSeen, LedSteps, Waits
<1> HIDE DEF plan
<1>8. LC!Steps[LedStep].ticks = LedDelay
  <2>1. CASE led.status = "STAT_WAIT"
    BY <1>3, <1>4, <1>5, <1>7, <2>1 DEF LedDelay
  <2>2. CASE led.status = "STAT_FLASH"
    BY <1>3, <1>4, <1>5, <1>6, <1>7, <2>2 DEF LedDelay
  <2>3. CASE led.status = "STAT_OFF"
    BY <1>3, <1>4, <1>5, <1>6, <1>7, <2>3 DEF LedDelay
  <2> QED
    BY <1>1, <2>1, <2>2, <2>3
<1>9. LedDelay \in {5, 10, 15}
  BY <1>1, <1>5 DEF LedDelay
<1>10. LedAge = Spent(tm, LedTmr, LedDelay)
  BY <1>1 DEF LedSeen, LedDelay
<1> QED
  BY <1>1, <1>2, <1>3, <1>4, <1>6, <1>7, <1>8, <1>9, <1>10

\* What does not concern the led leaves what its plan sees.
LEMMA LedFrame ==
  ASSUME Paced, Timed(tm)', Same(tm', tm, LedTmr), led' = led, Flashing' <=> Flashing
  PROVE  LedTimes' /\ UNCHANGED <<LedCmd, LedStep, LedAge>>
<1>1. LedSeen /\ LedSeen'
  BY LedIsSeen, LedStaysSeen DEF Paced
<1>2. \A n : Spent(tm', LedTmr, n) = Spent(tm, LedTmr, n)
  BY DEF Same, Spent
<1>3. LedTimes'
  BY DEF Paced, LedTimes
<1>4. SecondShot' = SecondShot
  BY DEF SecondShot
<1>5. CASE ~Flashing
  BY <1>1, <1>3, <1>5 DEF LedSeen
<1>6. CASE Flashing
  <2>1. led.status \in {"STAT_FLASH", "STAT_OFF", "STAT_WAIT"}
    BY <1>6 DEF Flashing, Paced, Inv, Flashes
  <2>2. LedCmd' = LedCmd
    BY <1>1, <1>6 DEF LedSeen
  <2>3. LedStep' = LedStep
    BY <1>1, <1>4, <1>6, <2>1 DEF LedSeen
  <2>4. CASE led.mode = "ON_FOREVER"
    BY <1>1, <1>3, <1>6, <2>2, <2>3, <2>4 DEF LedSeen
  <2>5. CASE led.mode # "ON_FOREVER"
    <3>1. LedAge = Spent(tm, LedTmr, LedDelay) /\ LedAge' = Spent(tm', LedTmr, LedDelay)
      BY <1>1, <1>6, <2>1, <2>5 DEF LedSeen, LedDelay
    <3> QED
      BY <1>2, <1>3, <2>2, <2>3, <3>1
  <2> QED
    BY <2>4, <2>5
<1> QED
  BY <1>5, <1>6

\* When the led rests, so does its plan.
LEMMA LedRests ==
  ASSUME Timed(tm)', ~Flashing'
  PROVE  LedTimes' /\ LC!Next
<1>1. LedCmd' = "none" /\ LedStep' = 0 /\ LedAge' = 0
  BY LedStaysSeen DEF LedSeen
<1> QED
  BY <1>1 DEF LedTimes, LC!Next, LC!Rest

LEMMA LedTicks ==
  ASSUME Paced, Tick
  PROVE  LedTimes' /\ [LC!Next]_(LC!vars)
<1>0. LedTmr \in Timers /\ tm' = TimerTick(tm) /\ tm.busy = NoTimer /\ Sound(tm)
      /\ led' = led /\ call' = call /\ Timed(tm)
  BY IndicatorsAssumption DEF Tick, Paced, Timed
<1>1. /\ Timed(tm')
      /\ Dues(tm')[LedTmr] = IF Dues(tm)[LedTmr] = 0 THEN 0
                             ELSE IF Dues(tm)[LedTmr] = 1 THEN tm.icnt[LedTmr]
                             ELSE Dues(tm)[LedTmr] - 1
      /\ Holds(Backlog(tm'), LedTmr) <=> Dues(tm)[LedTmr] = 1
      /\ ~Holds(Backlog(tm), LedTmr)
  BY <1>0, TickTimed
<1>2. (Flashing' <=> Flashing) /\ LedTimes' /\ SecondShot' = SecondShot
  BY <1>0 DEF Flashing, Paced, LedTimes, SecondShot
<1>3. LedSeen /\ LedSeen'
  BY <1>0, <1>1, LedIsSeen, LedStaysSeen
<1>4. CASE ~Flashing
  BY <1>1, <1>2, <1>4, LedRests
<1>5. CASE Flashing
  <2>1. led.status \in {"STAT_FLASH", "STAT_OFF", "STAT_WAIT"}
    BY <1>5 DEF Flashing, Paced, Inv, Flashes
  <2>2. LedCmd' = LedCmd /\ LedStep' = LedStep
    BY <1>0, <1>2, <1>3, <1>5, <2>1 DEF LedSeen
  <2>3. CASE led.mode = "ON_FOREVER"
    <3>1. LedAge' = LedAge
      BY <1>0, <1>2, <1>3, <1>5, <2>3 DEF LedSeen
    <3> QED
      BY <1>2, <2>2, <3>1 DEF LC!vars
  <2>4. CASE led.mode # "ON_FOREVER"
    <3> DEFINE w == Dues(tm)[LedTmr]
    <3>1. /\ LedStep > 0 /\ LC!Steps[LedStep].ticks = LedDelay /\ LedDelay \in {5, 10, 15}
          /\ LedAge = Spent(tm, LedTmr, LedDelay)
      <4>1. /\ LC!Steps[LedStep].ticks = LedDelay /\ LedDelay \in {5, 10, 15}
            /\ LedAge = Spent(tm, LedTmr, LedDelay) /\ SecondShot \in {0, 2}
            /\ LedStep = IF led.status = "STAT_WAIT" THEN LedSteps(led.mode)
                         ELSE IF led.status = "STAT_FLASH" THEN 1 + SecondShot ELSE 2 + SecondShot
        BY <1>3, <1>5, <2>4, LedPlanIs DEF Paced
      <4>2. LedStep > 0
        BY <4>1 DEF LedSteps
      <4> QED
        BY <4>1, <4>2
    <3>2. LedAge' = Spent(tm', LedTmr, LedDelay)
      BY <1>0, <1>2, <1>3, <1>5, <2>1, <2>4 DEF LedSeen, LedDelay
    <3>3. w \in Nat
      BY <1>0, DueIs, TimersAssumption
    <3>4. CASE w = 0
      <4>1. LedAge' = LedAge
        BY <1>1, <3>1, <3>2, <3>4 DEF Spent
      <4> QED
        BY <1>2, <2>2, <4>1 DEF LC!vars
    <3>5. CASE w # 0
      <4>1. LedAge = LedDelay - w /\ LedAge' = LedDelay - w + 1
        BY <1>1, <3>1, <3>2, <3>3, <3>5 DEF Spent
      <4>2. LedAge < LC!Steps[LedStep].ticks /\ LedAge' = LedAge + 1
        BY <3>1, <3>3, <3>5, <4>1
      <4> QED
        BY <1>2, <2>2, <3>1, <4>2 DEF LC!Next, LC!Tick
    <3> QED
      BY <3>4, <3>5
  <2> QED
    BY <2>3, <2>4
<1> QED
  BY <1>4, <1>5

LEMMA LedOwnerTimes ==
  ASSUME Paced, LedOwner
  PROVE  Timed(tm)' /\ LedTimes' /\ [LC!Next]_(LC!vars) /\ Same(tm', tm, BeepTmr)
         /\ beep' = beep /\ (Beeping' <=> Beeping)
<1>0. /\ LedTmr \in Timers \intersect Periodic /\ BeepTmr \in Timers \ {LedTmr} /\ beep' = beep
      /\ Kernel /\ Timed(tm) /\ \A a : <<"led", a>>[1] = "led"
  BY IndicatorsAssumption DEF LedOwner, Paced, Inv
<1>1. ASSUME NEW m \in LedCalls, LedHalt(m)
      PROVE  Timed(tm)' /\ LedTimes' /\ LC!Next /\ Same(tm', tm, BeepTmr) /\ (Beeping' <=> Beeping)
  <2>1. Timed(tm)' /\ Same(tm', tm, BeepTmr)
    BY <1>0, <1>1, StopTimed DEF LedHalt
  <2>2. ~Flashing' /\ (Beeping' <=> Beeping)
    BY <1>0, <1>1 DEF LedHalt, Beeping, Flashing
  <2> QED
    BY <2>1, <2>2, LedRests
<1>2. ASSUME LedArm
      PROVE  Timed(tm)' /\ LedTimes' /\ LC!Next /\ Same(tm', tm, BeepTmr) /\ (Beeping' <=> Beeping)
  <2>1. PICK m \in LedCalls : call = <<"led", m>> /\ Quiet(tm, LedTmr)
    <3>1. \A a, b, c : <<"beep", a, b, c>>[1] # "led"
      OBVIOUS
    <3> QED
      BY <1>2, <3>1 DEF LedArm, Paced, Inv, Calling
  <2>2. call[2] = m /\ m \in Modes
    BY <2>1, IndicatorsAssumption
  <2>3. /\ led' = Lit(m) /\ Free /\ call' = <<>>
        /\ tm' = (IF m = "ON_FOREVER" THEN tm ELSE TimerStart(tm, LedTmr, led'.on))
    BY <1>2, <2>2 DEF LedArm
  <2>4. DOMAIN led = {"status", "mode", "on", "off", "wait", "shots", "lit"}
    BY DEF Paced, Inv, Flashes
  <2>5. led'.status = "STAT_FLASH" /\ led'.mode = m
    BY <2>3, <2>4 DEF Lit
  <2>6. m # "ON_FOREVER" =>
          /\ led'.on = Timing(m) /\ led'.off = Timing(m)
          /\ led'.wait = (IF Waits(m) THEN TIME_WAIT ELSE TIME_DISABLED)
          /\ Waits(m) => led'.shots = 0
    BY <2>3, <2>4 DEF Lit
  <2>7. Flashing' /\ (Beeping' <=> Beeping)
    BY <1>0, <2>1, <2>3, <2>5 DEF Flashing, Beeping
  <2>8. LedTimes'
    BY <2>5, <2>6 DEF LedTimes, Waits
  <2>9. CASE m = "ON_FOREVER"
    <3>1. Timed(tm)' /\ Same(tm', tm, BeepTmr) /\ tm' = tm
      BY <1>0, <2>3, <2>9 DEF Same
    <3>2. LedCmd' = m /\ LedStep' = 1 /\ LedAge' = 0
      BY <2>5, <2>7, <2>9, <3>1, LedStaysSeen DEF LedSeen, SecondShot
    <3> QED
      BY <2>7, <2>8, <3>1, <3>2 DEF LC!Next, LC!Command
  <2>10. CASE m # "ON_FOREVER"
    <3>1. led'.on \in {5, 10} /\ led'.on \in 1 .. Width - 2
      BY <2>6, <2>10, TimersAssumption, IndicatorsAssumption DEF Timing, TIME_SLOW, TIME_FAST, SHORT_TIME
    <3>2. tm' = TimerStart(tm, LedTmr, led'.on)
      BY <2>3, <2>10
    <3>3. /\ Timed(tm') /\ Dues(tm')[LedTmr] = led'.on /\ ~Holds(Backlog(tm'), LedTmr)
          /\ Same(tm', tm, BeepTmr)
      BY <1>0, <2>3, <3>1, <3>2, StartTimed
    <3>4. Spent(tm', LedTmr, led'.on) = 0
      BY <3>1, <3>3 DEF Spent
    <3>5. SecondShot' = 0
      BY <2>5, <2>6, <2>10 DEF SecondShot, Waits
    <3>6. LedCmd' = m /\ LedStep' = 1 /\ LedAge' = 0
      BY <2>5, <2>7, <2>10, <3>3, <3>4, <3>5, LedStaysSeen DEF LedSeen
    <3> QED
      BY <2>7, <2>8, <3>3, <3>6 DEF LC!Next, LC!Command
  <2> QED
    BY <2>9, <2>10
<1>3. ASSUME LedStop
      PROVE  Timed(tm)' /\ LedTimes' /\ LC!Next /\ Same(tm', tm, BeepTmr) /\ (Beeping' <=> Beeping)
  <2>1. Timed(tm)' /\ Same(tm', tm, BeepTmr)
    BY <1>0, <1>3, StopTimed DEF LedStop
  <2>2. led'.status = "STOPPED" /\ call' = call
    BY <1>3 DEF LedStop, Paced, Inv, Flashes
  <2>3. ~Flashing' /\ (Beeping' <=> Beeping)
    BY <1>0, <2>2 DEF Beeping, Flashing
  <2> QED
    BY <2>1, <2>3, LedRests
<1> QED
  BY <1>0, <1>1, <1>2, <1>3 DEF LedOwner

\* ledTimer leaves its timer as it has become, or starts it with the next delay.
LEMMA LedBack ==
  ASSUME Paced, LedCallback, led.status # "STOPPED" => Flashing
  PROVE  /\ Timed(tm') /\ ~Holds(Backlog(tm'), LedTmr) /\ Holds(Backlog(tm), LedTmr)
         /\ Same(tm', tm, BeepTmr) /\ led.mode # "ON_FOREVER"
         /\ led'.status = "STAT_OFF" => Dues(tm')[LedTmr] = led.off
         /\ led'.status = "STAT_WAIT" => Dues(tm')[LedTmr] = led.wait
         /\ led'.status = "STAT_FLASH" => Dues(tm')[LedTmr] = led.on
<1> DEFINE k == LedTimed
           n == IF led'.status = "STAT_OFF" THEN led.off
                ELSE IF led'.status = "STAT_WAIT" THEN led.wait ELSE led.on
<1>0. /\ LedTmr \in Timers \intersect Periodic /\ LedTmr \in Timers /\ BeepTmr \in Timers \ {LedTmr}
      /\ Timed(tm) /\ Sound(tm) /\ tm.state[LedTmr] # "Invalid" /\ tm.busy = LedTmr
      /\ tm' = NextMessage(k) /\ led' = LedNext /\ led.mode # "ON_FOREVER"
      /\ DOMAIN led = {"status", "mode", "on", "off", "wait", "shots", "lit"}
      /\ led.status \in {"STOPPED", "STAT_FLASH", "STAT_OFF", "STAT_WAIT"}
  BY IndicatorsAssumption DEF LedCallback, Paced, Inv, Kernel, Timed, Flashes, Quiet
<1>1. /\ Sound(k) /\ Backlog(k) = Backlog(tm) /\ k.busy = tm.busy
      /\ \A u \in Timers \ {LedTmr} : Same(k, tm, u)
      /\ led.status # "STOPPED" => Dues(k)[LedTmr] = n
  <2>1. CASE led.status = "STOPPED"
    <3>1. led'.status = "STOPPED"
      BY <1>0, <2>1 DEF LedNext
    <3>2. k = tm
      BY <3>1 DEF LedTimed
    <3> QED
      BY <1>0, <2>1, <3>2 DEF Same
  <2>2. CASE led.status # "STOPPED"
    <3>1. /\ led.on \in {5, 10} /\ led.off \in {5, 10} /\ led.mode \in Modes
          /\ led.wait = IF Waits(led.mode) THEN 15 ELSE 0
      BY <1>0, <2>2, IndicatorsAssumption
         DEF Paced, LedTimes, Inv, Flashes, Timing, TIME_SLOW, TIME_FAST, TIME_WAIT, TIME_DISABLED
    <3>2. /\ led'.status \in {"STAT_OFF", "STAT_WAIT", "STAT_FLASH"}
          /\ led'.status = "STAT_WAIT" => led.wait # 0
      <4>1. CASE led.status = "STAT_FLASH"
        BY <1>0, <4>1 DEF LedNext
      <4>2. CASE led.status = "STAT_OFF" /\ EndOfCycle
        BY <1>0, <4>2 DEF LedNext, EndOfCycle, TIME_DISABLED
      <4>3. CASE led.status = "STAT_OFF" /\ ~EndOfCycle
        BY <1>0, <4>3 DEF LedNext
      <4>4. CASE led.status = "STAT_WAIT"
        BY <1>0, <4>4 DEF LedNext
      <4> QED
        BY <1>0, <2>2, <4>1, <4>2, <4>3, <4>4
    <3>3. k = TimerStart(tm, LedTmr, n)
      BY <3>2 DEF LedTimed
    <3>4. n \in {5, 10, 15}
      BY <3>1, <3>2
    <3> HIDE DEF k, n
    <3>5. n \in 1 .. Width - 2
      BY <3>4, TimersAssumption, IndicatorsAssumption DEF SHORT_TIME
    <3>6. /\ Sound(k) /\ Dues(k)[LedTmr] = n /\ Backlog(k) = Backlog(tm) /\ k.busy = tm.busy
          /\ \A u \in Timers \ {LedTmr} : Same(k, tm, u)
      BY <1>0, <3>3, <3>5, StartSound
    <3> QED
      BY <3>6
  <2> QED
    BY <2>1, <2>2
<1> HIDE DEF k
<1>2. /\ Timed(tm') /\ Dues(tm')[LedTmr] = Dues(k)[LedTmr]
      /\ Holds(Backlog(tm), LedTmr) /\ ~Holds(Backlog(tm'), LedTmr)
      /\ \A u \in Timers \ {LedTmr} : Same(tm', tm, u)
  BY <1>0, <1>1, BackTimed
<1>3. led.status = "STOPPED" => led'.status = "STOPPED"
  BY <1>0 DEF LedNext
<1> QED
  BY <1>0, <1>1, <1>2, <1>3

LEMMA LedCallbackTimes ==
  ASSUME Paced, LedCallback, beep' = beep
  PROVE  Timed(tm)' /\ LedTimes' /\ [LC!Next]_(LC!vars) /\ Same(tm', tm, BeepTmr)
         /\ (Beeping' <=> Beeping)
<1>0. /\ tm.busy = LedTmr /\ call' = call /\ led' = LedNext
      /\ DOMAIN led = {"status", "mode", "on", "off", "wait", "shots", "lit"}
  BY DEF LedCallback, Paced, Inv, Flashes
<1>1. led.status # "STOPPED" => Flashing
  <2>1. call # <<>> => call[1] # "led"
    <3>1. \A a, b, c : <<"beep", a, b, c>>[1] # "led"
      OBVIOUS
    <3> QED
      BY <1>0, <3>1 DEF Paced, Inv, Calling, Quiet
  <2> QED
    BY <2>1 DEF Flashing
<1>2. /\ Timed(tm') /\ ~Holds(Backlog(tm'), LedTmr) /\ Holds(Backlog(tm), LedTmr)
      /\ Same(tm', tm, BeepTmr) /\ led.mode # "ON_FOREVER"
      /\ led'.status = "STAT_OFF" => Dues(tm')[LedTmr] = led.off
      /\ led'.status = "STAT_WAIT" => Dues(tm')[LedTmr] = led.wait
      /\ led'.status = "STAT_FLASH" => Dues(tm')[LedTmr] = led.on
  BY <1>1, LedBack
<1>3. Beeping' <=> Beeping
  BY <1>0 DEF Beeping
<1>4. CASE led.status = "STOPPED"
  <2>1. ~Flashing'
    BY <1>0, <1>4 DEF LedNext, Flashing
  <2> QED
    BY <1>2, <1>3, <2>1, LedRests
<1>5. CASE led.status # "STOPPED"
  <2>1. Flashing /\ LedSeen /\ LedSeen'
    BY <1>1, <1>2, <1>5, LedIsSeen, LedStaysSeen DEF Paced
  <2>2. /\ led.mode \in Modes /\ LedCmd = led.mode
        /\ Len(LC!Steps) = LedSteps(led.mode)
        /\ [m \in LedCalls |-> LedCourse(m)][LedCmd].loop = 1
        /\ LedStep = IF led.status = "STAT_WAIT" THEN LedSteps(led.mode)
                     ELSE IF led.status = "STAT_FLASH" THEN 1 + SecondShot ELSE 2 + SecondShot
        /\ LC!Steps[LedStep].ticks = LedDelay /\ LedAge = Spent(tm, LedTmr, LedDelay)
        /\ led.status \in {"STAT_FLASH", "STAT_OFF", "STAT_WAIT"}
    BY <1>2, <2>1, LedPlanIs DEF Paced
  <2>3. LedAge = LC!Steps[LedStep].ticks
    BY <1>2, <2>2 DEF Spent
  <2>4. /\ led.on \in {5, 10} /\ led.off \in {5, 10}
        /\ led.wait = (IF Waits(led.mode) THEN 15 ELSE 0)
        /\ led.on = Timing(led.mode) /\ led.off = Timing(led.mode)
        /\ led.mode = "SINGLE_FAST_FLASHING" => led.shots = 0
        /\ led.mode = "DUAL_FAST_FLASHING" => led.shots \in {0, 1}
        /\ led.status = "STAT_WAIT" => Waits(led.mode) /\ led.shots = 0
    BY <1>2, <2>1 DEF Paced, LedTimes, Timing, TIME_SLOW, TIME_FAST, TIME_WAIT, TIME_DISABLED
  \* The status and the shots that follow, and the step they are.
  <2>5. /\ led'.mode = led.mode /\ led'.on = led.on /\ led'.off = led.off /\ led'.wait = led.wait
        /\ led'.status \in {"STAT_FLASH", "STAT_OFF", "STAT_WAIT"}
    BY <1>0, <1>5, <2>2 DEF LedNext
  <2>6. Flashing'
    BY <1>0, <2>1, <2>5 DEF Flashing
  <2>7. LedCmd' = LedCmd /\ LedAge' = 0
    <3>1. LedCmd' = LedCmd
      BY <2>1, <2>2, <2>5, <2>6 DEF LedSeen
    <3>2. CASE led'.status = "STAT_FLASH"
      <4>1. LedAge' = Spent(tm', LedTmr, led.on) /\ Dues(tm')[LedTmr] = led.on
        BY <1>2, <2>1, <2>5, <2>6, <3>2 DEF LedSeen
      <4> QED
        BY <1>2, <2>4, <3>1, <4>1 DEF Spent
    <3>3. CASE led'.status = "STAT_OFF"
      <4>1. LedAge' = Spent(tm', LedTmr, led.off) /\ Dues(tm')[LedTmr] = led.off
        BY <1>2, <2>1, <2>5, <2>6, <3>3 DEF LedSeen
      <4> QED
        BY <1>2, <2>4, <3>1, <4>1 DEF Spent
    <3>4. CASE led'.status = "STAT_WAIT"
      <4>1. LedAge' = Spent(tm', LedTmr, led.wait) /\ Dues(tm')[LedTmr] = led.wait
        BY <1>2, <2>1, <2>5, <2>6, <3>4 DEF LedSeen
      <4> QED
        BY <1>2, <2>4, <3>1, <4>1 DEF Spent
    <3> QED
      BY <2>5, <3>2, <3>3, <3>4
  <2>8. /\ led'.status = "STAT_FLASH" => LedStep' = 1 + SecondShot'
        /\ led'.status = "STAT_OFF" => LedStep' = 2 + SecondShot'
        /\ led'.status = "STAT_WAIT" => LedStep' = LedSteps(led.mode)
    <3>1. led'.status = "STAT_WAIT" => Waits(led.mode)
      BY <1>0, <1>5, <2>2, <2>4 DEF LedNext, EndOfCycle, Dual, TIME_DISABLED
    <3> QED
      BY <2>1, <2>5, <2>6, <3>1 DEF LedSeen, LedSteps, Waits
  <2>9. /\ SecondShot' = IF led.mode = "DUAL_FAST_FLASHING" /\ led'.shots = 1 THEN 2 ELSE 0
        /\ SecondShot = IF led.mode = "DUAL_FAST_FLASHING" /\ led.shots = 1 THEN 2 ELSE 0
    BY <2>5 DEF SecondShot
  <2>10. LedTimes' /\ LedStep > 0
         /\ LedStep' = IF LedStep < LedSteps(led.mode) THEN LedStep + 1 ELSE 1
    <3>1. CASE led.status = "STAT_FLASH"
      <4>1. led'.status = "STAT_OFF" /\ led'.shots = led.shots
        BY <1>0, <3>1 DEF LedNext
      <4>2. LedTimes'
        BY <2>1, <1>2, <2>5, <4>1 DEF Paced, LedTimes
      <4>3. LedStep = 1 + SecondShot /\ LedStep' = 2 + SecondShot
        BY <2>2, <2>8, <2>9, <3>1, <4>1
      <4> QED
        BY <2>9, <4>2, <4>3 DEF LedSteps
    <3>2. CASE led.status = "STAT_OFF" /\ EndOfCycle
      <4>1. Waits(led.mode) /\ (led.mode = "DUAL_FAST_FLASHING" => led.shots = 1)
        BY <2>4, <3>2 DEF EndOfCycle, TIME_DISABLED
      <4>2. led'.status = "STAT_WAIT" /\ led'.shots = 0
        BY <1>0, <2>4, <3>2, <4>1 DEF LedNext, Dual, Waits, EndOfCycle
      <4>3. LedTimes'
        BY <2>1, <1>2, <2>5, <4>1, <4>2 DEF Paced, LedTimes
      <4>4. LedStep = 2 + SecondShot /\ LedStep' = LedSteps(led.mode)
        BY <2>2, <2>8, <3>2, <4>2
      <4> QED
        BY <2>9, <4>1, <4>3, <4>4 DEF LedSteps, Waits
    <3>3. CASE led.status = "STAT_OFF" /\ ~EndOfCycle
      <4>1. /\ led.mode # "SINGLE_FAST_FLASHING"
            /\ led.mode = "DUAL_FAST_FLASHING" => led.shots = 0
        BY <2>4, <3>3 DEF EndOfCycle, TIME_DISABLED, Waits
      <4>2. /\ led'.status = "STAT_FLASH"
            /\ led.mode = "DUAL_FAST_FLASHING" => led'.shots = 1
        BY <1>0, <2>4, <3>3, <4>1 DEF LedNext, Dual, Waits, TIME_DISABLED
      <4>3. LedTimes'
        BY <2>1, <1>2, <2>5, <4>1, <4>2 DEF Paced, LedTimes
      <4>4. LedStep = 2 + SecondShot /\ LedStep' = 1 + SecondShot'
        BY <2>2, <2>8, <3>3, <4>2
      <4> QED
        BY <2>9, <4>1, <4>2, <4>3, <4>4 DEF LedSteps
    <3>4. CASE led.status = "STAT_WAIT"
      <4>1. led'.status = "STAT_FLASH" /\ led'.shots = led.shots /\ led.shots = 0 /\ Waits(led.mode)
        BY <1>0, <2>4, <3>4 DEF LedNext
      <4>2. LedTimes'
        BY <2>1, <1>2, <2>5, <4>1 DEF Paced, LedTimes
      <4>3. LedStep = LedSteps(led.mode) /\ LedStep' = 1
        BY <2>2, <2>8, <2>9, <3>4, <4>1
      <4> QED
        BY <4>2, <4>3 DEF LedSteps
    <3> QED
      BY <2>2, <3>1, <3>2, <3>3, <3>4
  <2>11. LC!Advance
    <3>1. LedStep' = IF LedStep < Len(LC!Steps) THEN LedStep + 1
                     ELSE [m \in LedCalls |-> LedCourse(m)][LedCmd].loop
      BY <2>2, <2>10
    <3>2. LedStep' # 0
      <4>1. LedSteps(led.mode) \in Nat
        BY DEF LedSteps
      <4>2. LedStep \in Nat
        BY <2>2, <2>9, <4>1
      <4> QED
        BY <2>10, <4>2
    <3> QED
      BY <2>3, <2>7, <2>10, <3>1, <3>2 DEF LC!Advance
  <2> QED
    BY <1>2, <1>3, <2>10, <2>11 DEF LC!Next
<1> QED
  BY <1>4, <1>5

-----------------------------------------------------------------------------
LEMMA InitPaced == Init => Paced /\ BC!Init /\ LC!Init
<1> SUFFICES ASSUME Init PROVE Paced /\ BC!Init /\ LC!Init
  OBVIOUS
<1>1. Inv /\ tm = TimersInit /\ beep.status = "STOPPED" /\ led.status = "STOPPED"
  BY InitInv DEF Init, BeepInit, LedInit
<1>2. Timely(tm, 0) /\ Dues(tm) = [t \in Timers |-> 0]
  BY <1>1, InitTimely
<1>3. Timed(tm)
  <2>1. tm.list = <<>> /\ tm.busy = NoTimer /\ Len(<<>>) = 0 /\ \A i : i \notin 1 .. 0
    BY <1>1 DEF TimersInit
  <2>2. \A u : ~Holds(tm.list, u)
    BY <2>1 DEF Holds
  <2>3. Sound(tm)
    BY <1>2, <2>2 DEF Timely, Sound, Periods
  <2> QED
    BY <2>1, <2>3, FreeTimed
<1>4. ~Beeping /\ ~Flashing
  BY <1>1 DEF Beeping, Flashing
<1>5. BeepSeen /\ LedSeen
  BY <1>3, BeepIsSeen, LedIsSeen
<1> QED
  BY <1>1, <1>3, <1>4, <1>5 DEF Paced, BeepTimes, LedTimes, BeepSeen, LedSeen, BC!Init, LC!Init

LEMMA NextPaced == Paced /\ [Next]_vars => Paced' /\ [BC!Next]_(BC!vars) /\ [LC!Next]_(LC!vars)
<1> SUFFICES ASSUME Paced, [Next]_vars PROVE Paced' /\ [BC!Next]_(BC!vars) /\ [LC!Next]_(LC!vars)
  OBVIOUS
<1>0. Inv' /\ BeepTmr \in Timers /\ LedTmr \in Timers
  BY NextInv, IndicatorsAssumption DEF Paced
<1>1. CASE Tick
  BY <1>0, <1>1, BeepTicks, LedTicks DEF Paced
<1>2. CASE BeepOwner
  <2>1. /\ Timed(tm)' /\ BeepTimes' /\ [BC!Next]_(BC!vars) /\ Same(tm', tm, LedTmr)
        /\ led' = led /\ (Flashing' <=> Flashing)
    BY <1>2, BeepOwnerTimes
  <2>2. LedTimes' /\ UNCHANGED <<LedCmd, LedStep, LedAge>>
    BY <2>1, LedFrame
  <2> QED
    BY <1>0, <2>1, <2>2 DEF Paced, LC!vars
<1>3. CASE LedOwner
  <2>1. /\ Timed(tm)' /\ LedTimes' /\ [LC!Next]_(LC!vars) /\ Same(tm', tm, BeepTmr)
        /\ beep' = beep /\ (Beeping' <=> Beeping)
    BY <1>3, LedOwnerTimes
  <2>2. BeepTimes' /\ UNCHANGED <<BeepCmd, BeepStep, BeepAge>>
    BY <2>1, BeepFrame
  <2> QED
    BY <1>0, <2>1, <2>2 DEF Paced, BC!vars
<1>4. CASE BeepCallback /\ led' = led
  <2>1. /\ Timed(tm)' /\ BeepTimes' /\ [BC!Next]_(BC!vars) /\ Same(tm', tm, LedTmr)
        /\ (Flashing' <=> Flashing)
    BY <1>4, BeepCallbackTimes
  <2>2. LedTimes' /\ UNCHANGED <<LedCmd, LedStep, LedAge>>
    BY <1>4, <2>1, LedFrame
  <2> QED
    BY <1>0, <2>1, <2>2 DEF Paced, LC!vars
<1>5. CASE LedCallback /\ beep' = beep
  <2>1. /\ Timed(tm)' /\ LedTimes' /\ [LC!Next]_(LC!vars) /\ Same(tm', tm, BeepTmr)
        /\ (Beeping' <=> Beeping)
    BY <1>5, LedCallbackTimes
  <2>2. BeepTimes' /\ UNCHANGED <<BeepCmd, BeepStep, BeepAge>>
    BY <1>5, <2>1, BeepFrame
  <2> QED
    BY <1>0, <2>1, <2>2 DEF Paced, BC!vars
<1>6. CASE UNCHANGED vars
  <2>1. /\ tm' = tm /\ beep' = beep /\ led' = led
        /\ (Beeping' <=> Beeping) /\ (Flashing' <=> Flashing)
    BY <1>6 DEF vars, Beeping, Flashing
  <2>2. Timed(tm)' /\ \A u \in Timers : Same(tm', tm, u)
    BY <2>1 DEF Paced, Same
  <2>3. BeepTimes' /\ UNCHANGED <<BeepCmd, BeepStep, BeepAge>>
    BY <1>0, <2>1, <2>2, BeepFrame
  <2>4. LedTimes' /\ UNCHANGED <<LedCmd, LedStep, LedAge>>
    BY <1>0, <2>1, <2>2, LedFrame
  <2> QED
    BY <1>0, <2>2, <2>3, <2>4 DEF Paced, BC!vars, LC!vars
<1> QED
  BY <1>1, <1>2, <1>3, <1>4, <1>5, <1>6 DEF Next, Callback

Repeats == {"NO_REPEAT", "REPEAT_FOREVER"}

\* A step of the course is one of the plan where there is one, and goes into or out of
\* rest where the course goes into or out of a command that has none.
LEMMA BeepStepOfPlan ==
  ASSUME [BC!Next]_(BC!vars), SHORT_TIME \in Nat, BeepCalls \subseteq Nat \X Nat \X Repeats
  PROVE  [B!Next]_(B!vars)
<1>1. ASSUME NEW c \in SingleBeeps
      PROVE  /\ c \in BeepCalls
             /\ [d \in BeepCalls |-> BeepCourse(d[1], d[2], d[3])][c]
                  = [d \in SingleBeeps |-> BeepPlan(d[2], d[3])][c]
  <2>1. c \in BeepCalls /\ c[1] = 1 /\ c[2] \in Nat
    BY DEF SingleBeeps, ONE_SHOT
  <2>2. 1 * c[2] = c[2] /\ 1 * (9 * SHORT_TIME) = 9 * SHORT_TIME
    BY <2>1
  <2>3. BeepCourse(c[1], c[2], c[3]) = BeepPlan(c[2], c[3])
    BY <2>1, <2>2 DEF BeepCourse, BeepPlan
  <2> QED
    BY <2>1, <2>3
<1>2. BeepCmd \in SingleBeeps => BC!Steps = B!Steps
  BY <1>1 DEF BC!Steps, B!Steps
<1>3. CASE BC!Tick
  BY <1>2, <1>3 DEF BC!Tick, B!Next, B!Tick, B!vars
<1>4. CASE BC!Advance
  <2>1. CASE BeepCmd \in SingleBeeps
    BY <1>1, <1>2, <1>4, <2>1 DEF BC!Advance, B!Next, B!Advance
  <2>2. CASE BeepCmd \notin SingleBeeps
    BY <1>4, <2>2 DEF BC!Advance, B!vars
  <2> QED
    BY <2>1, <2>2
<1>5. CASE BC!Rest
  BY <1>5 DEF BC!Rest, B!Next, B!Rest
<1>6. ASSUME NEW c \in BeepCalls, BC!Command(c)
      PROVE  B!Next
  BY <1>6 DEF BC!Command, B!Next, B!Command, B!Rest
<1>7. CASE UNCHANGED BC!vars
  BY <1>7 DEF BC!vars, B!vars
<1> QED
  BY <1>3, <1>4, <1>5, <1>6, <1>7 DEF BC!Next

LEMMA LedStepOfPlan ==
  ASSUME [LC!Next]_(LC!vars)
  PROVE  [L!Next]_(L!vars)
<1>1. ASSUME NEW m \in PlannedCalls
      PROVE  /\ m \in LedCalls
             /\ [d \in LedCalls |-> LedCourse(d)][m] = [d \in PlannedCalls |-> LedPlan(d)][m]
  BY DEF PlannedCalls, PlannedModes, LedCourse
<1>2. LedCmd \in PlannedCalls => LC!Steps = L!Steps
  BY <1>1 DEF LC!Steps, L!Steps
<1>3. CASE LC!Tick
  BY <1>2, <1>3 DEF LC!Tick, L!Next, L!Tick, L!vars
<1>4. CASE LC!Advance
  <2>1. CASE LedCmd \in PlannedCalls
    BY <1>1, <1>2, <1>4, <2>1 DEF LC!Advance, L!Next, L!Advance
  <2>2. CASE LedCmd \notin PlannedCalls
    BY <1>4, <2>2 DEF LC!Advance, L!vars
  <2> QED
    BY <2>1, <2>2
<1>5. CASE LC!Rest
  BY <1>5 DEF LC!Rest, L!Next, L!Rest
<1>6. ASSUME NEW m \in LedCalls, LC!Command(m)
      PROVE  L!Next
  BY <1>6 DEF LC!Command, L!Next, L!Command, L!Rest
<1>7. CASE UNCHANGED LC!vars
  BY <1>7 DEF LC!vars, L!vars
<1> QED
  BY <1>3, <1>4, <1>5, <1>6, <1>7 DEF LC!Next

LEMMA BeepCallTypes == SHORT_TIME \in Nat /\ BeepCalls \subseteq Nat \X Nat \X Repeats
  BY IndicatorsAssumption DEF Repeats, ONE_SHOT, DUAL_SHOT, QUAD_SHOT, SHORT_TIME, LONG_TIME

\* A beep of one shot is in BEEP for exactly the time it was asked for, then out of it,
\* and back again if it is to repeat, whatever calls, ticks and callbacks come in between
\* and whatever the led asks of the same list of timers.
THEOREM BeepKeepsItsTime == Spec => BeepTimesKept
<1>1. Init => B!Init
  BY InitPaced DEF BC!Init, B!Init
<1>2. Paced /\ [Next]_vars => [B!Next]_(B!vars)
  BY NextPaced, BeepStepOfPlan, BeepCallTypes
<1>3. Init => Paced
  BY InitPaced
<1>4. Paced /\ [Next]_vars => Paced'
  BY NextPaced
<1> QED
  BY <1>1, <1>2, <1>3, <1>4, PTL DEF Spec, BeepTimesKept, B!Spec

\* The led is on and off for the times of its mode, one flash or two before the wait, in
\* the modes whose times are those of the header, whatever the buzzer asks of the list.
THEOREM LedKeepsItsPlan == Spec => FlashesAsPlanned
<1>1. Init => L!Init
  BY InitPaced DEF LC!Init, L!Init
<1>2. Paced /\ [Next]_vars => [L!Next]_(L!vars)
  BY NextPaced, LedStepOfPlan
<1>3. Init => Paced
  BY InitPaced
<1>4. Paced /\ [Next]_vars => Paced'
  BY NextPaced
<1> QED
  BY <1>1, <1>2, <1>3, <1>4, PTL DEF Spec, FlashesAsPlanned, L!Spec

\* The planned steps are on for the flashes.
LEMMA LedOn ==
  ASSUME Paced, call = <<>>, led.mode \in PlannedCalls
  PROVE  L!On <=> led.status = "STAT_FLASH"
<1> DEFINE plan == LedPlan(led.mode)
<1>1. CASE led.status = "STOPPED"
  BY <1>1 DEF L!On, Flashing, LedStep
<1>2. CASE led.status # "STOPPED"
  <2>1. /\ Flashing /\ led.mode \in LedCalls /\ led.mode \in Modes
        /\ led.mode # "SINGLE_FAST_FLASHING" /\ LedCmd = led.mode
        /\ led.status \in {"STAT_FLASH", "STAT_OFF", "STAT_WAIT"}
        /\ led.status # "STAT_FLASH" => led.mode # "ON_FOREVER"
        /\ led.status = "STAT_WAIT" => Waits(led.mode)
        /\ SecondShot \in {0, 2} /\ (SecondShot = 2 => led.mode = "DUAL_FAST_FLASHING")
    BY <1>2, IndicatorsAssumption
       DEF Flashing, Paced, Inv, Flashes, LedTimes, SecondShot, LedCmd, PlannedCalls,
           PlannedModes
  <2>2. L!Steps = plan.steps
    BY <2>1 DEF L!Steps
  <2>3. /\ plan.steps[1].on = TRUE
        /\ led.mode # "ON_FOREVER" => plan.steps[2].on = FALSE
        /\ led.mode = "DUAL_FAST_FLASHING" =>
             plan.steps[3].on = TRUE /\ plan.steps[4].on = FALSE /\ plan.steps[5].on = FALSE
    BY <2>1 DEF LedPlan, Modes
  <2> HIDE DEF plan
  <2>4. CASE led.status = "STAT_FLASH"
    BY <2>1, <2>2, <2>3, <2>4 DEF L!On, LedStep
  <2>5. CASE led.status = "STAT_OFF"
    BY <2>1, <2>2, <2>3, <2>5 DEF L!On, LedStep
  <2>6. CASE led.status = "STAT_WAIT"
    BY <2>1, <2>2, <2>3, <2>6 DEF L!On, LedStep, Waits
  <2> QED
    BY <2>1, <2>4, <2>5, <2>6
<1> QED
  BY <1>1, <1>2

\* Whenever no call is under way the led is lit exactly where the plan of its mode has it
\* on, whatever the owner asks for and whichever ticks and callbacks come in between.
THEOREM LedFollowsPlan == Spec => []LedFollows
<1>1. Paced => LedFollows
  BY LedOn DEF LedFollows, Paced, Inv, Flashes
<1>2. Init => Paced
  BY InitPaced
<1>3. Paced /\ [Next]_vars => Paced'
  BY NextPaced
<1> QED
  BY <1>1, <1>2, <1>3, PTL DEF Spec
=============================================================================
