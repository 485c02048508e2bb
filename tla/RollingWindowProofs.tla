-------------------------- MODULE RollingWindowProofs --------------------------
(***************************************************************************)
(* What a queue of the recent past holds, however many samples it was fed. *)
(* The deques of the code are appended to at one end and popped and        *)
(* clipped at the other, one sample at a time; here it is shown that an    *)
(* interval window says of every instant in it what was held then, and     *)
(* that the sums taken over it count those instants.                       *)
(***************************************************************************)
EXTENDS RollingWindow, FiniteSetTheorems, SequenceTheorems, TLAPS

-----------------------------------------------------------------------------
(* Induction over the natural numbers, for a set written out.              *)
LEMMA SetInduction ==
  ASSUME NEW T \in SUBSET Nat, 0 \in T, \A n \in T : n + 1 \in T
  PROVE  T = Nat
<1> DEFINE S == Nat \ T
           R == OpToRel(<, Nat)
<1>1. SUFFICES ASSUME S # {} PROVE FALSE
  OBVIOUS
<1>2. R = {p \in Nat \X Nat : p[1] < p[2]}
  BY DEF OpToRel
<1>3. IsWellFoundedOn(R, Nat)
  BY NatLessThanWellFounded DEF OpToRel
<1> HIDE DEF R
<1>4. PICK x \in S : \A y \in S : ~(<<y, x>> \in R)
  BY <1>1, <1>3, WFMin, S \subseteq Nat
<1>5. x \in Nat /\ x # 0
  BY <1>4
<1>6. x - 1 \in Nat /\ x - 1 < x
  BY <1>5
<1>7. x - 1 \notin S
  BY <1>2, <1>4, <1>5, <1>6
<1> QED
  BY <1>4, <1>5, <1>6, <1>7

-----------------------------------------------------------------------------
(* Queues of instants that are popped from the front.                      *)

\* The instants of a sequence, and their order.
Times(s) == {s[i] : i \in DOMAIN s}

InOrder(s) == \A i, j \in DOMAIN s : i < j => s[i] < s[j]

\* A set of indices that holds all those below each of its members is an
\* interval as long as it has members.
LEMMA FrontOfSequence ==
  ASSUME NEW n \in Nat, NEW front \in SUBSET (1 .. n),
         \A i \in front : 1 .. i \subseteq front
  PROVE  /\ Cardinality(front) \in 0 .. n
         /\ front = 1 .. Cardinality(front)
<1>1. \A m \in Nat : IsFiniteSet(1 .. m) /\ Cardinality(1 .. m) = m
  BY FS_Interval
<1>2. /\ IsFiniteSet(front) /\ Cardinality(front) \in Nat
      /\ Cardinality(front) <= n
  <2>1. IsFiniteSet(1 .. n) /\ Cardinality(1 .. n) = n
    BY <1>1
  <2>2. IsFiniteSet(front) /\ Cardinality(front) <= Cardinality(1 .. n)
    BY <2>1, FS_Subset
  <2> QED
    BY <2>1, <2>2, FS_CardinalityType
<1>3. ASSUME NEW i \in front
      PROVE  i \in 1 .. Cardinality(front)
  <2>1. i \in Nat /\ 1 <= i /\ 1 .. i \in SUBSET front
    OBVIOUS
  <2>2. Cardinality(1 .. i) <= Cardinality(front)
    BY <1>2, <2>1, FS_Subset
  <2>3. Cardinality(1 .. i) = i
    BY <1>1, <2>1
  <2> QED
    BY <1>2, <2>1, <2>2, <2>3
<1>4. ASSUME NEW i \in 1 .. Cardinality(front), i \notin front
      PROVE  FALSE
  <2>1. i \in Nat /\ 1 <= i /\ i - 1 \in Nat
    BY <1>2
  <2>2. front \in SUBSET (1 .. (i - 1))
    <3> SUFFICES ASSUME NEW j \in front
                 PROVE  j \in 1 .. (i - 1)
      OBVIOUS
    <3>1. j \in Nat /\ 1 <= j /\ 1 .. j \subseteq front
      OBVIOUS
    <3>2. i <= j => i \in 1 .. j
      BY <2>1, <3>1
    <3>3. ~(i <= j)
      BY <1>4, <3>1, <3>2
    <3> QED
      BY <2>1, <3>1, <3>3
  <2>3. IsFiniteSet(1 .. (i - 1)) /\ Cardinality(1 .. (i - 1)) = i - 1
    BY <1>1, <2>1
  <2>4. Cardinality(front) <= i - 1
    BY <2>2, <2>3, FS_Subset
  <2> QED
    BY <1>2, <2>1, <2>4
<1>5. front \subseteq 1 .. Cardinality(front)
  BY <1>3
<1>6. 1 .. Cardinality(front) \subseteq front
  BY <1>4
<1>7. Cardinality(front) \in 0 .. n
  BY <1>2
<1>8. front = 1 .. Cardinality(front)
  BY <1>5, <1>6, Zenon
<1> QED
  BY <1>7, <1>8

\* Instants in order are counted by the length of their sequence.
LEMMA TimesCounted ==
  ASSUME NEW s \in Seq(Int), InOrder(s)
  PROVE  Cardinality(Times(s)) = Len(s)
<1>1. Len(s) \in Nat /\ DOMAIN s = 1 .. Len(s) /\ s \in [1 .. Len(s) -> Int]
  OBVIOUS
<1>2. s \in [1 .. Len(s) -> Times(s)]
  BY <1>1 DEF Times
<1>3. \A i, j \in 1 .. Len(s) : s[i] = s[j] => i = j
  <2> SUFFICES ASSUME NEW i \in 1 .. Len(s), NEW j \in 1 .. Len(s),
                      s[i] = s[j], i # j
               PROVE  FALSE
    OBVIOUS
  <2>1. i \in Int /\ j \in Int /\ s[i] \in Int /\ s[j] \in Int
    BY <1>1
  <2>2. i < j \/ j < i
    BY <2>1
  <2> QED
    BY <1>1, <2>1, <2>2 DEF InOrder
<1>4. \A t \in Times(s) : \E i \in 1 .. Len(s) : s[i] = t
  BY <1>1 DEF Times
<1>5. s \in Bijection(1 .. Len(s), Times(s))
  BY <1>2, <1>3, <1>4 DEF Bijection, Injection, Surjection, IsInjective
<1>6. ExistsBijection(1 .. Len(s), Times(s))
  BY <1>5 DEF ExistsBijection
<1>7. IsFiniteSet(1 .. Len(s)) /\ Cardinality(1 .. Len(s)) = Len(s)
  BY <1>1, FS_Interval
<1> QED
  BY <1>6, <1>7, FS_Bijection

\* The instants that are left when those older than `age` are popped.
Young(s, ts, age) ==
  SubSeq(s, Cardinality({i \in DOMAIN s : ts - s[i] > age}) + 1, Len(s))

\* Popping from the front leaves the young instants, and only those, in order.
LEMMA PoppingLeavesTheYoung ==
  ASSUME NEW s \in Seq(Int), InOrder(s), NEW ts \in Int, NEW age \in Int
  PROVE  /\ Young(s, ts, age) \in Seq(Int) /\ InOrder(Young(s, ts, age))
         /\ Times(Young(s, ts, age)) = {t \in Times(s) : t >= ts - age}
<1> DEFINE n == Len(s)
           old == {i \in DOMAIN s : ts - s[i] > age}
           k == Cardinality(old)
           rest == SubSeq(s, k + 1, n)
<1>1. n \in Nat /\ DOMAIN s = 1 .. n /\ \A i \in 1 .. n : s[i] \in Int
  OBVIOUS
<1>2. old \in SUBSET (1 .. n)
  BY <1>1
<1>3. ASSUME NEW i \in old
      PROVE  1 .. i \subseteq old
  <2> SUFFICES ASSUME NEW j \in 1 .. i, j < i
               PROVE  j \in old
    BY <1>2
  <2>1. i \in 1 .. n /\ j \in 1 .. n /\ ts - s[i] > age
    BY <1>1
  <2>2. s[j] < s[i]
    BY <1>1, <2>1 DEF InOrder
  <2>3. s[i] \in Int /\ s[j] \in Int
    BY <1>1, <2>1
  <2>4. ts - s[j] > age
    BY <2>1, <2>2, <2>3
  <2> QED
    BY <1>1, <2>1, <2>4
<1>4. k \in 0 .. n /\ old = 1 .. k
  <2> HIDE DEF old, n
  <2> QED
    BY <1>1, <1>2, <1>3, FrontOfSequence
<1>5. /\ rest \in Seq(Int) /\ Len(rest) = n - k
      /\ \A i \in 1 .. n - k : rest[i] = s[k + i]
  <2>1. /\ k + 1 \in 1 .. n + 1 /\ n \in (k + 1) - 1 .. n
        /\ n \in Nat /\ k \in Nat
    BY <1>1, <1>4
  <2> HIDE DEF k
  <2>2. /\ rest \in Seq(Int)
        /\ Len(rest) = IF k + 1 <= n THEN n - (k + 1) + 1 ELSE 0
        /\ \A i \in 1 .. n - (k + 1) + 1 : rest[i] = s[(k + 1) + i - 1]
    BY <1>1, <2>1, SubSeqProperties
  <2>3. \A i \in 1 .. n - k : rest[i] = s[k + i]
    BY <1>1, <2>1
  <2> QED
    BY <2>1, <2>2, <2>3
<1>6. \A i \in 1 .. n : i \in old <=> ts - s[i] > age
  BY <1>1
<1>7. DOMAIN rest = 1 .. n - k
  BY <1>5
<1> HIDE DEF rest, old, k, n
<1>8. InOrder(rest)
  <2> SUFFICES ASSUME NEW i \in 1 .. n - k, NEW j \in 1 .. n - k, i < j
               PROVE  rest[i] < rest[j]
    BY <1>7 DEF InOrder
  <2>1. k + i \in 1 .. n /\ k + j \in 1 .. n /\ k + i < k + j
    BY <1>1, <1>4
  <2>2. s[k + i] < s[k + j]
    BY <1>1, <2>1 DEF InOrder
  <2> QED
    BY <1>5, <2>2
<1>9. ASSUME NEW i \in 1 .. n - k
      PROVE  rest[i] \in Times(s) /\ rest[i] >= ts - age
  <2>1. k + i \in 1 .. n /\ k + i \notin 1 .. k /\ rest[i] = s[k + i]
    BY <1>1, <1>4, <1>5
  <2>2. ~(ts - s[k + i] > age) /\ s[k + i] \in Int
    BY <1>1, <1>4, <1>6, <2>1
  <2>3. s[k + i] >= ts - age
    BY <2>2
  <2> QED
    BY <1>1, <2>1, <2>3 DEF Times
<1>10. ASSUME NEW t \in Times(s), t >= ts - age
       PROVE  t \in Times(rest)
  <2>1. PICK i \in 1 .. n : t = s[i]
    BY <1>1 DEF Times
  <2>2. t \in Int /\ ~(ts - t > age)
    BY <1>1, <1>10, <2>1
  <2>3. i \notin 1 .. k
    BY <1>4, <1>6, <2>1, <2>2
  <2>4. i - k \in 1 .. n - k /\ k + (i - k) = i
    BY <1>1, <1>4, <2>3
  <2>5. rest[i - k] = t
    BY <1>5, <2>1, <2>4
  <2> QED
    BY <1>7, <2>4, <2>5 DEF Times
<1>11. Times(rest) = {t \in Times(s) : t >= ts - age}
  <2>1. Times(rest) \subseteq {t \in Times(s) : t >= ts - age}
    BY <1>7, <1>9 DEF Times
  <2> QED
    BY <1>10, <2>1
<1>12. rest = Young(s, ts, age)
  BY DEF rest, k, old, n, Young
<1> QED
  BY <1>5, <1>8, <1>11, <1>12

\* An instant after all those of a sequence is appended to it.
LEMMA AppendingKeepsOrder ==
  ASSUME NEW s \in Seq(Int), InOrder(s), NEW ts \in Int,
         \A t \in Times(s) : t < ts
  PROVE  /\ s \o <<ts>> \in Seq(Int) /\ InOrder(s \o <<ts>>)
         /\ Times(s \o <<ts>>) = Times(s) \cup {ts}
<1> DEFINE n == Len(s)
           longer == s \o <<ts>>
<1>1. n \in Nat /\ DOMAIN s = 1 .. n /\ \A i \in 1 .. n : s[i] \in Int
  OBVIOUS
<1>2. longer \in Seq(Int) /\ Len(longer) = n + 1
  OBVIOUS
<1>3. DOMAIN longer = 1 .. n + 1
  BY <1>2
<1>4. \A i \in 1 .. n : longer[i] = s[i]
  BY <1>1
<1>5. longer[n + 1] = ts
  BY <1>1
<1>6. \A i \in 1 .. n : s[i] < ts
  BY <1>1 DEF Times
<1> HIDE DEF longer, n
<1>7. InOrder(longer)
  <2> SUFFICES ASSUME NEW i \in 1 .. n + 1, NEW j \in 1 .. n + 1, i < j
               PROVE  longer[i] < longer[j]
    BY <1>3 DEF InOrder
  <2>1. i \in 1 .. n
    BY <1>1
  <2>2. CASE j \in 1 .. n
    BY <1>1, <1>4, <2>1, <2>2 DEF InOrder
  <2>3. CASE j = n + 1
    BY <1>4, <1>5, <1>6, <2>1, <2>3
  <2> QED
    BY <1>1, <2>2, <2>3
<1>8. Times(longer) = Times(s) \cup {ts}
  <2>1. Times(longer) \subseteq Times(s) \cup {ts}
    <3> SUFFICES ASSUME NEW i \in 1 .. n + 1
                 PROVE  longer[i] \in Times(s) \cup {ts}
      BY <1>3 DEF Times
    <3> QED
      BY <1>1, <1>4, <1>5 DEF Times
  <2>2. ts \in Times(longer)
    <3>1. n + 1 \in 1 .. n + 1
      BY <1>1
    <3> QED
      BY <1>3, <1>5, <3>1 DEF Times
  <2>3. Times(s) \subseteq Times(longer)
    <3> SUFFICES ASSUME NEW i \in 1 .. n
                 PROVE  s[i] \in Times(longer)
      BY <1>1 DEF Times
    <3>1. i \in 1 .. n + 1 /\ longer[i] = s[i]
      BY <1>1, <1>4
    <3> QED
      BY <1>3, <3>1 DEF Times
  <2> QED
    BY <2>1, <2>2, <2>3
<1> QED
  BY <1>2, <1>7, <1>8 DEF longer

-----------------------------------------------------------------------------
(* The sum of a rolling window. *)

HeldState == {"Unknown", "Open", "Closed"}

IntervalType == [start : Int, end : Int, state : HeldState]

\* Intervals that follow each other and none of which is empty.
Following(s) ==
  \A i \in DOMAIN s :
    /\ s[i].start < s[i].end
    /\ \A j \in DOMAIN s : i < j => s[i].end <= s[j].start

Covers(interval, t) == interval.start <= t /\ t < interval.end

\* The instants the first n intervals cover in one of `states`.
Covered(s, states, n) ==
  {t \in Int : \E i \in 1 .. n : Covers(s[i], t) /\ s[i].state \in states}

Share(interval, states) ==
  IF interval.state \in states THEN interval.end - interval.start ELSE 0

LEMMA SpanSize ==
  ASSUME NEW a \in Int, NEW b \in Int, a <= b
  PROVE  /\ IsFiniteSet(a .. (b - 1))
         /\ Cardinality(a .. (b - 1)) = b - a
<1>1. b - 1 \in Int
  OBVIOUS
<1>2. /\ IsFiniteSet(a .. (b - 1))
      /\ Cardinality(a .. (b - 1)) = IF a > b - 1 THEN 0 ELSE (b - 1) - a + 1
  BY <1>1, FS_Interval
<1> QED
  BY <1>2

\* One more interval covers as many more instants as it is long.
LEMMA CoveredByOneMore ==
  ASSUME NEW s \in Seq(IntervalType), Following(s), NEW states,
         NEW n \in 1 .. Len(s), IsFiniteSet(Covered(s, states, n - 1))
  PROVE  /\ IsFiniteSet(Covered(s, states, n))
         /\ Cardinality(Covered(s, states, n)) =
              Cardinality(Covered(s, states, n - 1)) + Share(s[n], states)
<1> DEFINE before == Covered(s, states, n - 1)
           more == IF s[n].state \in states THEN s[n].start .. (s[n].end - 1)
                                            ELSE {}
<1>0. \A i \in 1 .. Len(s) : s[i] \in IntervalType
  BY ElementOfSeq
<1>1. /\ Len(s) \in Nat /\ n \in Nat /\ DOMAIN s = 1 .. Len(s)
      /\ \A i \in 1 .. Len(s) : s[i].start \in Int /\ s[i].end \in Int
  BY <1>0 DEF IntervalType
<1>2. s[n].start \in Int /\ s[n].end \in Int /\ s[n].start < s[n].end
  BY <1>1 DEF Following
<1>3. IsFiniteSet(more) /\ Cardinality(more) = Share(s[n], states)
  <2>1. CASE s[n].state \in states
    <3>2. /\ IsFiniteSet(s[n].start .. (s[n].end - 1))
          /\ Cardinality(s[n].start .. (s[n].end - 1)) =
               s[n].end - s[n].start
      BY <1>2, SpanSize
    <3>3. more = s[n].start .. (s[n].end - 1)
      BY <2>1
    <3>4. Share(s[n], states) = s[n].end - s[n].start
      BY <2>1 DEF Share
    <3> HIDE DEF more
    <3> QED
      BY <3>2, <3>3, <3>4
  <2>2. CASE s[n].state \notin states
    BY <2>2, FS_EmptySet DEF Share
  <2> QED
    BY <2>1, <2>2
<1>4. Covered(s, states, n) = before \cup more
  <2>1. \A t \in Int : t \in more <=> Covers(s[n], t) /\ s[n].state \in states
    BY <1>2 DEF Covers
  <2>2. more \subseteq Int
    BY <1>2
  <2>3. \A i \in 1 .. n : i \in 1 .. (n - 1) \/ i = n
    BY <1>1
  <2>4. 1 .. (n - 1) \subseteq 1 .. n /\ n \in 1 .. n
    BY <1>1
  <2> HIDE DEF more
  <2> QED
    BY <2>1, <2>2, <2>3, <2>4 DEF Covered
<1>5. before \cap more = {}
  <2> SUFFICES ASSUME NEW t \in before, t \in more
               PROVE  FALSE
    OBVIOUS
  <2>0. t \in Int BY DEF Covered
  <2>1. PICK i \in 1 .. (n - 1) : Covers(s[i], t)
    BY DEF Covered
  <2>2. i \in 1 .. Len(s) /\ i < n
    BY <1>1
  <2>3. s[i].end <= s[n].start /\ s[i].end \in Int
    BY <1>1, <2>2 DEF Following
  <2>4. s[n].start <= t
    BY <1>2
  <2> QED
    BY <1>2, <2>0, <2>1, <2>3, <2>4 DEF Covers
<1> HIDE DEF more
<1>6. /\ IsFiniteSet(before \cup more)
      /\ Cardinality(before \cup more) =
           Cardinality(before) + Cardinality(more) - Cardinality(before \cap more)
  BY <1>3, FS_Union
<1>7. Cardinality(before) \in Nat /\ Cardinality(more) \in Nat
  BY <1>3, FS_CardinalityType
<1>8. Cardinality(before \cap more) = 0
  BY <1>5, FS_EmptySet
<1> HIDE DEF before
<1> QED
  BY <1>3, <1>4, <1>6, <1>7, <1>8 DEF before

\* The recursive function of TimeIn over the first m intervals, and the one that
\* counts.
Sums(f, s, states, m) ==
  f = [n \in 0 .. m |->
         IF n = 0 THEN 0
         ELSE f[n - 1] + (IF s[n].state \in states
                          THEN s[n].end - s[n].start ELSE 0)]

Counts(s, states, m) == [n \in 0 .. m |-> Cardinality(Covered(s, states, n))]

LEMMA SumsByOneMore ==
  ASSUME NEW s, NEW states, NEW m \in Nat, NEW sum, Sums(sum, s, states, m)
  PROVE  /\ sum[0] = 0
         /\ \A n \in 1 .. m : sum[n] = sum[n - 1] + Share(s[n], states)
<1>1. 0 \in 0 .. m /\ \A n \in 1 .. m : n \in 0 .. m /\ n # 0
  OBVIOUS
<1> QED
  BY <1>1 DEF Sums, Share

LEMMA CountsAre ==
  ASSUME NEW s, NEW states, NEW m \in Nat, NEW n \in 0 .. m
  PROVE  Counts(s, states, m)[n] = Cardinality(Covered(s, states, n))
BY DEF Counts

LEMMA CountsAreSums ==
  ASSUME NEW s, NEW states, NEW m \in Nat,
         Cardinality(Covered(s, states, 0)) = 0,
         \A n \in 1 .. m :
           Cardinality(Covered(s, states, n)) =
             Cardinality(Covered(s, states, n - 1)) + Share(s[n], states)
  PROVE  Sums(Counts(s, states, m), s, states, m)
<1> DEFINE count == Counts(s, states, m)
<1>1. \A n \in 0 .. m : count[n] = Cardinality(Covered(s, states, n))
  BY CountsAre
<1>2. count = [n \in 0 .. m |-> count[n]]
  BY DEF Counts
<1> HIDE DEF count
<1>3. ASSUME NEW n \in 0 .. m
      PROVE  count[n] = IF n = 0 THEN 0 ELSE count[n - 1] + Share(s[n], states)
  <2>1. n = 0 \/ (n \in 1 .. m /\ n # 0 /\ n - 1 \in 0 .. m)
    OBVIOUS
  <2> QED
    BY <1>1, <2>1
<1>4. \A n \in 0 .. m :
        count[n] = IF n = 0 THEN 0
                   ELSE count[n - 1] + (IF s[n].state \in states
                                        THEN s[n].end - s[n].start ELSE 0)
  BY <1>3 DEF Share
<1>5. Sums(count, s, states, m)
  BY <1>2, <1>4 DEF Sums
<1> QED
  BY <1>5 DEF count

\* The sums of updatePerclos and of EyeStatistics::result count instants: for a
\* queue of any length whose intervals follow each other, the time in `states`
\* is the number of instants covered by an interval in one of them.
THEOREM TimeInCountsInstants ==
  ASSUME NEW s \in Seq(IntervalType), Following(s), NEW states
  PROVE  TimeIn(s, states) = Cardinality(Covered(s, states, Len(s)))
<1> DEFINE count == Counts(s, states, Len(s))
           sum == CHOOSE f : Sums(f, s, states, Len(s))
<1>1. Len(s) \in Nat
  OBVIOUS
<1>2. Cardinality(Covered(s, states, 0)) = 0
  <2>1. Covered(s, states, 0) = {}
    BY DEF Covered
  <2> QED
    BY <2>1, FS_EmptySet
<1>3. \A n \in 0 .. Len(s) : IsFiniteSet(Covered(s, states, n))
  <2> DEFINE T == {n \in Nat : n \in 0 .. Len(s) =>
                                 IsFiniteSet(Covered(s, states, n))}
  <2>1. 0 \in T
    <3>1. Covered(s, states, 0) = {}
      BY DEF Covered
    <3> QED
      BY <3>1, FS_EmptySet
  <2>2. ASSUME NEW n \in T
        PROVE  n + 1 \in T
    <3> SUFFICES ASSUME n + 1 \in 0 .. Len(s)
                 PROVE  IsFiniteSet(Covered(s, states, n + 1))
      OBVIOUS
    <3>1. n \in 0 .. Len(s) /\ n + 1 \in 1 .. Len(s) /\ (n + 1) - 1 = n
      BY <1>1
    <3> QED
      BY <3>1, CoveredByOneMore
  <2> HIDE DEF T
  <2>3. T = Nat
    BY <2>1, <2>2, SetInduction DEF T
  <2> QED
    BY <1>1, <2>3 DEF T
<1>4. \A n \in 1 .. Len(s) :
        Cardinality(Covered(s, states, n)) =
          Cardinality(Covered(s, states, n - 1)) + Share(s[n], states)
  <2> SUFFICES ASSUME NEW n \in 1 .. Len(s)
               PROVE  Cardinality(Covered(s, states, n)) =
                        Cardinality(Covered(s, states, n - 1))
                          + Share(s[n], states)
    OBVIOUS
  <2>1. n - 1 \in 0 .. Len(s)
    BY <1>1
  <2> QED
    BY <1>3, <2>1, CoveredByOneMore
<1>5. Sums(count, s, states, Len(s))
  BY <1>1, <1>2, <1>4, CountsAreSums
<1>6. Sums(sum, s, states, Len(s))
  BY <1>5, Zenon
<1>7. TimeIn(s, states) = sum[Len(s)]
  BY Zenon DEF TimeIn, Sums
<1>8. \A n \in 0 .. Len(s) : count[n] = Cardinality(Covered(s, states, n))
  BY <1>1, CountsAre
<1> HIDE DEF sum, count
<1>9. /\ sum[0] = 0
      /\ \A n \in 1 .. Len(s) : sum[n] = sum[n - 1] + Share(s[n], states)
  BY <1>1, <1>6, SumsByOneMore
<1>10. \A n \in 0 .. Len(s) : sum[n] = Cardinality(Covered(s, states, n))
  <2> DEFINE T == {n \in Nat : n \in 0 .. Len(s) =>
                     sum[n] = Cardinality(Covered(s, states, n))}
  <2>1. 0 \in T
    BY <1>2, <1>9
  <2>2. ASSUME NEW n \in T
        PROVE  n + 1 \in T
    <3> SUFFICES ASSUME n + 1 \in 0 .. Len(s)
                 PROVE  sum[n + 1] = Cardinality(Covered(s, states, n + 1))
      OBVIOUS
    <3>1. n \in 0 .. Len(s) /\ n + 1 \in 1 .. Len(s) /\ (n + 1) - 1 = n
      BY <1>1
    <3> QED
      BY <1>4, <1>9, <3>1
  <2> HIDE DEF T
  <2>3. T = Nat
    BY <2>1, <2>2, SetInduction DEF T
  <2> QED
    BY <1>1, <2>3 DEF T
<1> QED
  BY <1>1, <1>7, <1>10

-----------------------------------------------------------------------------
(* What trimIntervals leaves. *)

LEMMA ClipType ==
  ASSUME NEW interval \in IntervalType, NEW start \in Int
  PROVE  /\ [interval EXCEPT !.start = start] \in IntervalType
         /\ [interval EXCEPT !.start = start].start = start
         /\ [interval EXCEPT !.start = start].end = interval.end
         /\ [interval EXCEPT !.start = start].state = interval.state
BY DEF IntervalType

\* The intervals that ended by `start` go, the others keep their order.
LEMMA PoppingLeavesTheLater ==
  ASSUME NEW s \in Seq(IntervalType), Following(s), NEW start \in Int
  PROVE  \E k \in 0 .. Len(s) :
           LET rest == PopEndedBy(s, start) IN
           /\ rest \in Seq(IntervalType) /\ Len(rest) = Len(s) - k
           /\ \A i \in 1 .. Len(rest) : rest[i] = s[k + i]
           /\ \A i \in 1 .. Len(s) : s[i].end <= start <=> i <= k
<1> DEFINE n == Len(s)
           ended == {i \in DOMAIN s : s[i].end <= start}
           k == Cardinality(ended)
           rest == SubSeq(s, k + 1, n)
<1>1. n \in Nat /\ DOMAIN s = 1 .. n /\ \A i \in 1 .. n : s[i] \in IntervalType
  BY ElementOfSeq
<1>2. \A i \in 1 .. n : s[i].start \in Int /\ s[i].end \in Int
  BY <1>1 DEF IntervalType
<1>3. ended \in SUBSET (1 .. n)
  BY <1>1
<1>4. ASSUME NEW i \in ended
      PROVE  1 .. i \subseteq ended
  <2> SUFFICES ASSUME NEW j \in 1 .. i, j < i
               PROVE  j \in ended
    BY <1>3
  <2>1. i \in 1 .. n /\ j \in 1 .. n /\ s[i].end <= start
    BY <1>1
  <2>2. s[j].end <= s[i].start /\ s[i].start < s[i].end
    BY <1>1, <2>1 DEF Following
  <2>3. s[j].end <= start
    BY <1>2, <2>1, <2>2
  <2> QED
    BY <1>1, <2>1, <2>3
<1>5. k \in 0 .. n /\ ended = 1 .. k
  <2> HIDE DEF ended, n
  <2> QED
    BY <1>1, <1>3, <1>4, FrontOfSequence
<1>6. \A i \in 1 .. n : i \in ended <=> s[i].end <= start
  BY <1>1
<1>7. rest = PopEndedBy(s, start)
  BY DEF PopEndedBy
<1> HIDE DEF ended, k
<1>8. /\ k + 1 \in 1 .. n + 1 /\ n \in (k + 1) - 1 .. n
      /\ n \in Nat /\ k \in Nat
  BY <1>1, <1>5
<1>9. /\ rest \in Seq(IntervalType)
      /\ Len(rest) = IF k + 1 <= n THEN n - (k + 1) + 1 ELSE 0
      /\ \A i \in 1 .. n - (k + 1) + 1 : rest[i] = s[(k + 1) + i - 1]
  BY <1>1, <1>8, SubSeqProperties
<1> HIDE DEF rest, n
<1>10. Len(rest) = n - k
  BY <1>5, <1>8, <1>9
<1>11. \A i \in 1 .. n - k : rest[i] = s[k + i]
  <2> SUFFICES ASSUME NEW i \in 1 .. n - k
               PROVE  rest[i] = s[k + i]
    OBVIOUS
  <2>1. i \in 1 .. n - (k + 1) + 1 /\ (k + 1) + i - 1 = k + i
    BY <1>8
  <2> QED
    BY <1>9, <2>1
<1>12. \A i \in 1 .. n : s[i].end <= start <=> i <= k
  <2> SUFFICES ASSUME NEW i \in 1 .. n
               PROVE  i \in 1 .. k <=> i <= k
    BY <1>5, <1>6
  <2> QED
    BY <1>8
<1> QED
  BY <1>5, <1>7, <1>9, <1>10, <1>11, <1>12 DEF n

\* What is left begins no earlier than `start`, and is what it was after that.
LEMMA TrimmingClips ==
  ASSUME NEW s \in Seq(IntervalType), Following(s),
         NEW now \in Int, NEW window \in Int
  PROVE  \E k \in 0 .. Len(s) :
           LET start == now - window
               left == trimIntervals(s, now, window) IN
           /\ left \in Seq(IntervalType) /\ Len(left) = Len(s) - k
           /\ \A i \in 1 .. Len(s) : s[i].end <= start <=> i <= k
           /\ \A i \in 1 .. Len(left) :
                /\ left[i].end = s[k + i].end /\ left[i].state = s[k + i].state
                /\ left[i].start = IF s[k + i].start < start THEN start
                                   ELSE s[k + i].start
<1> DEFINE start == now - window
           rest == PopEndedBy(s, start)
           left == trimIntervals(s, now, window)
<1>1. start \in Int /\ Len(s) \in Nat /\ DOMAIN s = 1 .. Len(s)
  OBVIOUS
<1>5. left = IF rest # <<>> /\ Head(rest).start < start
             THEN [rest EXCEPT ![1].start = start] ELSE rest
  BY DEF trimIntervals
<1> HIDE DEF start, left
<1>2. PICK k \in 0 .. Len(s) :
        /\ rest \in Seq(IntervalType) /\ Len(rest) = Len(s) - k
        /\ \A i \in 1 .. Len(rest) : rest[i] = s[k + i]
        /\ \A i \in 1 .. Len(s) : s[i].end <= start <=> i <= k
  BY <1>1, PoppingLeavesTheLater
<1>3. \A i \in 1 .. Len(s) : s[i] \in IntervalType
  BY ElementOfSeq
<1>4. \A i \in 1 .. Len(s) : s[i].start \in Int /\ s[i].end \in Int
  BY <1>3 DEF IntervalType
<1> HIDE DEF rest
<1>6. k \in Nat /\ Len(rest) \in Nat
  BY <1>1, <1>2
<1>7. rest = <<>> \/ (Len(rest) > 0 /\ Head(rest) = rest[1])
  BY <1>2, <1>6, EmptySeq
<1>8. \A i \in 2 .. Len(rest) : ~(s[k + i].start < start)
  <2> SUFFICES ASSUME NEW i \in 2 .. Len(rest)
               PROVE  ~(s[k + i].start < start)
    OBVIOUS
  <2>1. k + 1 \in 1 .. Len(s) /\ k + i \in 1 .. Len(s) /\ k + 1 < k + i
    BY <1>1, <1>2, <1>6
  <2>2. ~(k + 1 <= k)
    BY <1>6
  <2>3. ~(s[k + 1].end <= start)
    BY <1>2, <2>1, <2>2
  <2>4. s[k + 1].end <= s[k + i].start
    BY <1>1, <2>1 DEF Following
  <2> QED
    BY <1>1, <1>4, <2>1, <2>3, <2>4
<1>9. CASE rest # <<>> /\ Head(rest).start < start
  <2>1. 1 \in 1 .. Len(rest) /\ Len(rest) > 0 /\ Head(rest) = rest[1]
    BY <1>6, <1>7, <1>9
  <2>2. rest[1] \in IntervalType
    BY <1>2, <2>1, ElementOfSeq
  <2> DEFINE first == [rest[1] EXCEPT !.start = start]
  <2>3. /\ first \in IntervalType /\ first.start = start
        /\ first.end = rest[1].end /\ first.state = rest[1].state
    BY <1>1, <2>2, ClipType
  <2>4. left = [rest EXCEPT ![1] = first]
    BY <1>5, <1>9
  <2> HIDE DEF first
  <2>5. /\ left \in Seq(IntervalType) /\ Len(left) = Len(rest)
        /\ \A i \in 1 .. Len(rest) :
             left[i] = IF i = 1 THEN first ELSE rest[i]
    BY <1>2, <2>1, <2>3, <2>4, ExceptSeq
  <2>6. ASSUME NEW i \in 1 .. Len(left)
        PROVE  /\ left[i].end = s[k + i].end /\ left[i].state = s[k + i].state
               /\ left[i].start = IF s[k + i].start < start THEN start
                                  ELSE s[k + i].start
    <3>1. rest[i] = s[k + i] /\ left[i] = IF i = 1 THEN first ELSE rest[i]
      BY <1>2, <2>5
    <3>2. CASE i = 1
      BY <1>9, <2>1, <2>3, <3>1, <3>2
    <3>3. CASE i # 1
      <4>1. i \in 2 .. Len(rest)
        BY <1>6, <2>5, <3>3
      <4> QED
        BY <1>8, <3>1, <3>3, <4>1
    <3> QED
      BY <3>2, <3>3
  <2> QED
    BY <1>2, <2>5, <2>6 DEF start, left
<1>10. CASE ~(rest # <<>> /\ Head(rest).start < start)
  <2>1. left = rest
    BY <1>5, <1>10
  <2>2. ASSUME NEW i \in 1 .. Len(left)
        PROVE  /\ left[i].end = s[k + i].end /\ left[i].state = s[k + i].state
               /\ left[i].start = IF s[k + i].start < start THEN start
                                  ELSE s[k + i].start
    <3>1. rest[i] = s[k + i] /\ left[i] = s[k + i]
      BY <1>2, <2>1
    <3>2. Len(rest) > 0 /\ rest # <<>>
      BY <1>6, <2>1, EmptySeq
    <3>3. i = 1 \/ i \in 2 .. Len(rest)
      BY <1>6, <2>1
    <3>4. ~(s[k + i].start < start)
      BY <1>7, <1>8, <1>10, <3>1, <3>2, <3>3
    <3> QED
      BY <3>1, <3>4
  <2> QED
    BY <1>2, <2>1, <2>2 DEF start, left
<1> QED
  BY <1>9, <1>10

-----------------------------------------------------------------------------
(* A window that tells what was held when. *)

\* The intervals say of every instant from `from` until `now` what held[t] says:
\* each of them nothing else, and together whatever was known.
Records(s, held, from, now) ==
  /\ s \in Seq(IntervalType)
  /\ Following(s)
  /\ \A i \in 1 .. Len(s) : from <= s[i].start /\ s[i].end <= now
  /\ \A i \in 1 .. Len(s) : \A t \in Int :
       Covers(s[i], t) => held[t] = s[i].state
  /\ \A t \in from .. (now - 1) :
       held[t] # "Unknown" => \E i \in 1 .. Len(s) : Covers(s[i], t)

LEMMA NothingRecorded ==
  ASSUME NEW held, NEW from, NEW now,
         \A t \in from .. (now - 1) : held[t] = "Unknown"
  PROVE  Records(<<>>, held, from, now)
<1>1. <<>> \in Seq(IntervalType) /\ Len(<<>>) = 0 /\ DOMAIN <<>> = {}
  OBVIOUS
<1>2. 1 .. 0 = {}
  OBVIOUS
<1> QED
  BY <1>1, <1>2 DEF Records, Following

\* The time in states that are known is the number of instants they were held.
LEMMA RecordedTime ==
  ASSUME NEW s, NEW held, NEW from \in Int, NEW now \in Int,
         Records(s, held, from, now), NEW states, "Unknown" \notin states
  PROVE  TimeIn(s, states) =
           Cardinality({t \in from .. (now - 1) : held[t] \in states})
<1> DEFINE n == Len(s)
           counted == {t \in from .. (now - 1) : held[t] \in states}
<1>1. /\ s \in Seq(IntervalType) /\ Following(s) /\ n \in Nat
      /\ \A i \in 1 .. n : s[i] \in IntervalType
  BY ElementOfSeq DEF Records
<1>2. \A i \in 1 .. n : s[i].start \in Int /\ s[i].end \in Int
  BY <1>1 DEF IntervalType
<1>3. /\ \A i \in 1 .. n : from <= s[i].start /\ s[i].end <= now
      /\ \A i \in 1 .. n : \A t \in Int :
           Covers(s[i], t) => held[t] = s[i].state
      /\ \A t \in from .. (now - 1) :
           held[t] # "Unknown" => \E i \in 1 .. n : Covers(s[i], t)
  BY DEF Records
<1>4. TimeIn(s, states) = Cardinality(Covered(s, states, n))
  BY <1>1, TimeInCountsInstants
<1> HIDE DEF n
<1>5. ASSUME NEW t \in Covered(s, states, n)
      PROVE  t \in counted
  <2>1. t \in Int
    BY DEF Covered
  <2>2. PICK i \in 1 .. n : Covers(s[i], t) /\ s[i].state \in states
    BY DEF Covered
  <2>3. held[t] \in states
    BY <1>3, <2>1, <2>2
  <2>4. from <= t /\ t < now
    BY <1>2, <1>3, <2>1, <2>2 DEF Covers
  <2>5. t \in from .. (now - 1)
    BY <2>1, <2>4
  <2> QED
    BY <2>3, <2>5
<1>6. ASSUME NEW t \in counted
      PROVE  t \in Covered(s, states, n)
  <2>1. t \in from .. (now - 1) /\ t \in Int /\ held[t] # "Unknown"
    OBVIOUS
  <2>2. PICK i \in 1 .. n : Covers(s[i], t)
    BY <1>3, <2>1
  <2>3. s[i].state \in states
    BY <1>3, <2>1, <2>2
  <2> QED
    BY <2>1, <2>2, <2>3 DEF Covered
<1>7. Covered(s, states, n) = counted
  BY <1>5, <1>6
<1> QED
  BY <1>4, <1>7

\* appendInterval records what was held since the last sample.
LEMMA AppendingRecords ==
  ASSUME NEW s, NEW held, NEW from \in Int, NEW last \in Int, NEW now \in Int,
         from <= last, last < now, Records(s, held, from, last),
         NEW state \in HeldState, NEW gap \in Int, NEW longer,
         \A t \in from .. (last - 1) : longer[t] = held[t],
         \A t \in last .. (now - 1) :
           longer[t] = IF now - last <= gap THEN state ELSE "Unknown"
  PROVE  Records(appendInterval(s, last, now, state, gap), longer, from, now)
<1> DEFINE n == Len(s)
           known == IF now - last <= gap THEN state ELSE "Unknown"
           new == Interval(last, now, known)
           more == Append(s, new)
<1>1. /\ s \in Seq(IntervalType) /\ Following(s) /\ n \in Nat
      /\ DOMAIN s = 1 .. n
      /\ \A i \in 1 .. n : s[i] \in IntervalType
  BY ElementOfSeq DEF Records
<1>2. \A i \in 1 .. n : s[i].start \in Int /\ s[i].end \in Int
  BY <1>1 DEF IntervalType
<1>3. /\ \A i \in 1 .. n : from <= s[i].start /\ s[i].end <= last
      /\ \A i \in 1 .. n : \A t \in Int :
           Covers(s[i], t) => held[t] = s[i].state
      /\ \A t \in from .. (last - 1) :
           held[t] # "Unknown" => \E i \in 1 .. n : Covers(s[i], t)
  BY DEF Records
<1>4. known \in HeldState
  BY DEF HeldState
<1>5. \A t \in last .. (now - 1) : longer[t] = known
  OBVIOUS
<1>6. more = appendInterval(s, last, now, state, gap)
  BY DEF appendInterval
<1> HIDE DEF known
<1>7. /\ new \in IntervalType
      /\ new.start = last /\ new.end = now /\ new.state = known
  BY <1>4 DEF Interval, IntervalType
<1> HIDE DEF new
<1>8. /\ more \in Seq(IntervalType) /\ Len(more) = n + 1
      /\ \A i \in 1 .. n : more[i] = s[i]
      /\ more[n + 1] = new
  BY <1>1, <1>7, AppendProperties
<1> HIDE DEF more, n
<1>9. /\ DOMAIN more = 1 .. n + 1 /\ n + 1 \in 1 .. n + 1
      /\ \A i \in 1 .. n + 1 : i \in 1 .. n \/ i = n + 1
      /\ \A i \in 1 .. n : i \in 1 .. n + 1
  BY <1>1, <1>8
<1>10. Following(more)
  <2> SUFFICES ASSUME NEW i \in 1 .. n + 1
               PROVE  /\ more[i].start < more[i].end
                      /\ \A j \in 1 .. n + 1 :
                           i < j => more[i].end <= more[j].start
    BY <1>9 DEF Following
  <2>1. CASE i \in 1 .. n
    <3>1. more[i] = s[i] /\ s[i].start < s[i].end /\ s[i].end <= last
      BY <1>1, <1>3, <1>8, <2>1 DEF Following
    <3>2. ASSUME NEW j \in 1 .. n, i < j
          PROVE  more[i].end <= more[j].start
      BY <1>1, <1>8, <2>1, <3>2 DEF Following
    <3> QED
      BY <1>7, <1>8, <1>9, <3>1, <3>2
  <2>2. CASE i = n + 1
    <3>1. \A j \in 1 .. n + 1 : ~(i < j)
      BY <1>1, <2>2
    <3> QED
      BY <1>7, <1>8, <2>2, <3>1
  <2> QED
    BY <1>9, <2>1, <2>2
<1>11. ASSUME NEW i \in 1 .. n + 1
       PROVE  from <= more[i].start /\ more[i].end <= now
  <2>1. CASE i \in 1 .. n
    <3>1. more[i] = s[i] /\ from <= s[i].start /\ s[i].end <= last
      BY <1>3, <1>8, <2>1
    <3> QED
      BY <1>2, <2>1, <3>1
  <2>2. CASE i = n + 1
    BY <1>7, <1>8, <2>2
  <2> QED
    BY <1>9, <2>1, <2>2
<1>12. ASSUME NEW i \in 1 .. n + 1, NEW t \in Int, Covers(more[i], t)
       PROVE  longer[t] = more[i].state
  <2>1. CASE i \in 1 .. n
    <3>1. more[i] = s[i] /\ from <= s[i].start /\ s[i].end <= last
      BY <1>3, <1>8, <2>1
    <3>2. t \in from .. (last - 1)
      BY <1>2, <1>12, <2>1, <3>1 DEF Covers
    <3> QED
      BY <1>3, <1>12, <2>1, <3>1, <3>2
  <2>2. CASE i = n + 1
    <3>1. t \in last .. (now - 1)
      BY <1>7, <1>8, <1>12, <2>2 DEF Covers
    <3> QED
      BY <1>5, <1>7, <1>8, <2>2, <3>1
  <2> QED
    BY <1>9, <2>1, <2>2
<1>13. ASSUME NEW t \in from .. (now - 1), longer[t] # "Unknown"
       PROVE  \E i \in 1 .. n + 1 : Covers(more[i], t)
  <2>1. CASE t < last
    <3>1. t \in from .. (last - 1)
      BY <2>1
    <3>2. PICK i \in 1 .. n : Covers(s[i], t)
      BY <1>3, <1>13, <3>1
    <3> QED
      BY <1>8, <1>9, <3>2
  <2>2. CASE last <= t
    <3>1. Covers(new, t)
      BY <1>7, <2>2 DEF Covers
    <3> QED
      BY <1>8, <1>9, <3>1
  <2> QED
    BY <2>1, <2>2
<1> QED
  BY <1>6, <1>8, <1>10, <1>11, <1>12, <1>13 DEF Records

\* trimIntervals keeps the record of the window and forgets what was before it.
LEMMA TrimmingRecords ==
  ASSUME NEW s, NEW held, NEW from \in Int, NEW now \in Int,
         Records(s, held, from, now), NEW window \in Int,
         from <= now - window, NEW kept,
         \A t \in (now - window) .. (now - 1) : kept[t] = held[t]
  PROVE  Records(trimIntervals(s, now, window), kept, now - window, now)
<1> DEFINE n == Len(s)
           start == now - window
           left == trimIntervals(s, now, window)
<1>1. /\ s \in Seq(IntervalType) /\ Following(s) /\ n \in Nat
      /\ DOMAIN s = 1 .. n
      /\ \A i \in 1 .. n : s[i] \in IntervalType
  BY ElementOfSeq DEF Records
<1>2. \A i \in 1 .. n : s[i].start \in Int /\ s[i].end \in Int
  BY <1>1 DEF IntervalType
<1>3. /\ \A i \in 1 .. n : from <= s[i].start /\ s[i].end <= now
      /\ \A i \in 1 .. n : \A t \in Int :
           Covers(s[i], t) => held[t] = s[i].state
      /\ \A t \in from .. (now - 1) :
           held[t] # "Unknown" => \E i \in 1 .. n : Covers(s[i], t)
  BY DEF Records
<1>4. \A i \in 1 .. n :
        /\ s[i].start < s[i].end
        /\ \A j \in 1 .. n : i < j => s[i].end <= s[j].start
  BY <1>1 DEF Following
<1>5. PICK k \in 0 .. n :
        /\ left \in Seq(IntervalType) /\ Len(left) = n - k
        /\ \A i \in 1 .. n : s[i].end <= start <=> i <= k
        /\ \A i \in 1 .. Len(left) :
             /\ left[i].end = s[k + i].end /\ left[i].state = s[k + i].state
             /\ left[i].start = IF s[k + i].start < start THEN start
                                ELSE s[k + i].start
  BY <1>1, TrimmingClips
<1>6. /\ start \in Int /\ from <= start
      /\ \A t \in start .. (now - 1) : kept[t] = held[t]
  OBVIOUS
<1> HIDE DEF left, start, n
<1>7. /\ k \in Nat /\ DOMAIN left = 1 .. n - k
      /\ \A i \in 1 .. n - k : k + i \in 1 .. n /\ ~(k + i <= k)
  BY <1>1, <1>5
<1>8. ASSUME NEW i \in 1 .. n - k
      PROVE  /\ start < s[k + i].end /\ left[i].end = s[k + i].end
             /\ left[i].state = s[k + i].state
             /\ left[i].start = IF s[k + i].start < start THEN start
                                ELSE s[k + i].start
             /\ s[k + i].start \in Int /\ s[k + i].end \in Int
             /\ s[k + i].start < s[k + i].end
             /\ from <= s[k + i].start /\ s[k + i].end <= now
  <2>1. k + i \in 1 .. n /\ ~(k + i <= k)
    BY <1>7
  <2>2. ~(s[k + i].end <= start)
    BY <1>5, <2>1
  <2>3. s[k + i].start \in Int /\ s[k + i].end \in Int
    BY <1>2, <2>1
  <2> QED
    BY <1>3, <1>4, <1>5, <1>6, <2>1, <2>2, <2>3
<1>9. Following(left)
  <2> SUFFICES ASSUME NEW i \in 1 .. n - k
               PROVE  /\ left[i].start < left[i].end
                      /\ \A j \in 1 .. n - k :
                           i < j => left[i].end <= left[j].start
    BY <1>7 DEF Following
  <2>1. left[i].start < left[i].end
    BY <1>6, <1>8
  <2>2. ASSUME NEW j \in 1 .. n - k, i < j
        PROVE  left[i].end <= left[j].start
    <3>1. k + i \in 1 .. n /\ k + j \in 1 .. n /\ k + i < k + j
      BY <1>7, <2>2
    <3>2. s[k + i].end <= s[k + j].start
      BY <1>4, <3>1
    <3>3. start < s[k + i].end
      BY <1>8
    <3>4. ~(s[k + j].start < start)
      BY <1>6, <1>8, <3>2, <3>3
    <3> QED
      BY <1>8, <3>2, <3>4
  <2> QED
    BY <2>1, <2>2
<1>10. ASSUME NEW i \in 1 .. n - k
       PROVE  start <= left[i].start /\ left[i].end <= now
  BY <1>6, <1>8
<1>11. ASSUME NEW i \in 1 .. n - k, NEW t \in Int, Covers(left[i], t)
       PROVE  kept[t] = left[i].state
  <2>1. start <= t /\ t < now /\ Covers(s[k + i], t)
    BY <1>6, <1>8, <1>11 DEF Covers
  <2>2. held[t] = s[k + i].state
    BY <1>3, <1>7, <2>1
  <2>3. t \in start .. (now - 1)
    BY <1>6, <2>1
  <2> QED
    BY <1>6, <1>8, <2>2, <2>3
<1>12. ASSUME NEW t \in start .. (now - 1), kept[t] # "Unknown"
       PROVE  \E i \in 1 .. n - k : Covers(left[i], t)
  <2>1. t \in from .. (now - 1) /\ held[t] # "Unknown"
    BY <1>6, <1>12
  <2>2. PICK j \in 1 .. n : Covers(s[j], t)
    BY <1>3, <2>1
  <2>3. ~(s[j].end <= start)
    BY <1>2, <1>6, <2>2 DEF Covers
  <2>4. ~(j <= k)
    BY <1>5, <2>3
  <2>5. j - k \in 1 .. n - k /\ k + (j - k) = j
    BY <1>1, <1>7, <2>4
  <2>6. /\ left[j - k].end = s[j].end
        /\ left[j - k].start = IF s[j].start < start THEN start ELSE s[j].start
    BY <1>8, <2>5
  <2>7. Covers(left[j - k], t)
    BY <1>2, <1>6, <2>2, <2>6 DEF Covers
  <2> QED
    BY <2>5, <2>7
<1>13. Len(left) = n - k
  BY <1>5
<1>14. Records(left, kept, start, now)
  BY <1>5, <1>9, <1>10, <1>11, <1>12, <1>13 DEF Records
<1> QED
  BY <1>14 DEF left, start

\* A sample moves the window on: once appendInterval has added what was held
\* since the last one and trimIntervals has popped and clipped what is older
\* than the window, the queue tells of every instant of the new window what was
\* held then, and of no other.
THEOREM MovingRecords ==
  ASSUME NEW s, NEW held, NEW window \in Int, 0 <= window,
         NEW last \in Int, NEW now \in Int, last < now,
         Records(s, held, last - window, last),
         NEW state \in HeldState, NEW gap \in Int, NEW kept,
         \A t \in (now - window) .. (now - 1) :
           kept[t] = IF t < last THEN held[t]
                     ELSE IF now - last <= gap THEN state ELSE "Unknown"
  PROVE  Records(trimIntervals(appendInterval(s, last, now, state, gap),
                               now, window),
                 kept, now - window, now)
<1> DEFINE from == last - window
           known == IF now - last <= gap THEN state ELSE "Unknown"
           longer == [t \in from .. (now - 1) |-> IF t < last THEN held[t]
                                                  ELSE known]
           more == appendInterval(s, last, now, state, gap)
<1>1. from \in Int /\ from <= last /\ from <= now - window
  OBVIOUS
<1>2. \A t \in (now - window) .. (now - 1) :
        kept[t] = IF t < last THEN held[t] ELSE known
  OBVIOUS
<1>3. \A t \in last .. (now - 1) : longer[t] = known
  BY <1>1
<1>4. \A t \in from .. (last - 1) : longer[t] = held[t]
  BY <1>1
<1>5. \A t \in (now - window) .. (now - 1) : kept[t] = longer[t]
  BY <1>1, <1>2
<1> HIDE DEF longer
<1>6. Records(more, longer, from, now)
  BY <1>1, <1>3, <1>4, AppendingRecords
<1> HIDE DEF from, more
<1>7. Records(trimIntervals(more, now, window), kept, now - window, now)
  BY <1>1, <1>5, <1>6, TrimmingRecords
<1> QED
  BY <1>7 DEF more
=============================================================================
