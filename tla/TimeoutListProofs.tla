-------------------------- MODULE TimeoutListProofs --------------------------
(* What the operations on the timeout list of the worker task do to the    *)
(* expiry times, checked by TLAPS.  Sums along a list are compared at the  *)
(* first place where they differ.                                          *)
EXTENDS WlTask, LeastNumber

Entry == [h : Handler, time : Nat, due : Nat]
List == Seq(Entry)

-----------------------------------------------------------------------------
(* TimeTo                                                                  *)

LEMMA ListType ==
  ASSUME NEW list \in List
  PROVE  /\ Len(list) \in Nat /\ DOMAIN list = 1 .. Len(list)
         /\ \A k \in 1 .. Len(list) : /\ list[k] \in Entry /\ list[k].h \in Handler
                                      /\ list[k].time \in Nat /\ list[k].due \in Nat
<1>1. Len(list) \in Nat /\ DOMAIN list = 1 .. Len(list) /\ \A k \in 1 .. Len(list) : list[k] \in Entry
  BY DEF List
<1> QED
  BY <1>1 DEF Entry

LEMMA SumsExist ==
  ASSUME NEW list \in List, NEW n \in 0 .. Len(list)
  PROVE  \E S : S = [j \in 0 .. n |-> IF j = 0 THEN 0 ELSE S[j - 1] + list[j].time]
<1> DEFINE Step(S, j) == IF j = 0 THEN 0 ELSE S[j - 1] + list[j].time
           Sums(k) == \E S : S = [j \in 0 .. k |-> Step(S, j)]
           Bad == {k \in 0 .. Len(list) : ~Sums(k)}
<1>1. Len(list) \in Nat
  BY DEF List
<1>2. ASSUME Bad # {}
      PROVE  FALSE
  <2>1. Bad \subseteq Nat
    BY <1>1
  <2>2. PICK k \in Bad : \A f \in Bad : k <= f
    <3> HIDE DEF Bad
    <3> QED
      BY <1>2, <2>1, LeastExists
  <2>3. CASE k = 0
    <3> DEFINE T == [j \in 0 .. 0 |-> 0]
    <3>1. T = [j \in 0 .. 0 |-> Step(T, j)]
      OBVIOUS
    <3> QED
      BY <2>2, <2>3, <3>1
  <2>4. CASE k > 0
    <3>0. k \in 0 .. Len(list) /\ k \in Nat
      BY <1>1, <2>2
    <3>1. k - 1 \in 0 .. Len(list) /\ k - 1 \notin Bad
      <4> HIDE DEF Bad
      <4> QED
        BY <1>1, <2>2, <2>4, <3>0
    <3>2. PICK S : S = [j \in 0 .. k - 1 |-> Step(S, j)]
      BY <3>1
    <3> DEFINE T == [j \in 0 .. k |-> Step(S, j)]
    <3>3. \A j \in 0 .. k - 1 : T[j] = S[j]
      BY <1>1, <2>2, <3>2
    <3>4. \A j \in 0 .. k : Step(T, j) = Step(S, j)
      <4> HIDE DEF T
      <4> QED
        BY <3>0, <3>3
    <3>5. T = [j \in 0 .. k |-> Step(T, j)]
      <4> HIDE DEF Step
      <4> QED
        BY <3>4
    <3> QED
      BY <2>2, <3>5
  <2> QED
    BY <1>1, <2>2, <2>3, <2>4
<1> QED
  BY <1>2

LEMMA TimesValue ==
  ASSUME NEW list \in List
  PROVE  Times(list) = [j \in 0 .. Len(list) |->
                          IF j = 0 THEN 0 ELSE Times(list)[j - 1] + list[j].time]
<1>1. Len(list) \in 0 .. Len(list)
  BY DEF List
<1>2. \E S : S = [j \in 0 .. Len(list) |-> IF j = 0 THEN 0 ELSE S[j - 1] + list[j].time]
  BY <1>1, SumsExist
<1> QED
  BY <1>2, Zenon DEF Times

LEMMA TimeToStep ==
  ASSUME NEW list \in List
  PROVE  /\ TimeTo(list, 0) = 0
         /\ \A i \in 1 .. Len(list) : TimeTo(list, i) = TimeTo(list, i - 1) + list[i].time
<1>1. Len(list) \in Nat
  BY DEF List
<1> DEFINE T == Times(list)
<1>2. T = [j \in 0 .. Len(list) |-> IF j = 0 THEN 0 ELSE T[j - 1] + list[j].time]
  BY TimesValue
<1> HIDE DEF T
<1>3. T[0] = 0
  BY <1>1, <1>2
<1>4. ASSUME NEW i \in 1 .. Len(list)
      PROVE  T[i] = T[i - 1] + list[i].time
  <2>1. i \in 0 .. Len(list) /\ i # 0
    BY <1>1
  <2> QED
    BY <1>2, <2>1
<1> QED
  BY <1>3, <1>4 DEF T, TimeTo

LEMMA TimeToType ==
  ASSUME NEW list \in List, NEW i \in 0 .. Len(list)
  PROVE  TimeTo(list, i) \in Nat
<1> DEFINE Bad == {k \in 0 .. Len(list) : TimeTo(list, k) \notin Nat}
<1>1. Len(list) \in Nat /\ \A k \in 1 .. Len(list) : list[k].time \in Nat
  BY ListType
<1>2. ASSUME Bad # {}
      PROVE  FALSE
  <2>1. Bad \subseteq Nat
    BY <1>1
  <2>2. PICK k \in Bad : \A f \in Bad : k <= f
    <3> HIDE DEF Bad
    <3> QED
      BY <1>2, <2>1, LeastExists
  <2>3. k # 0
    BY <2>2, TimeToStep
  <2>4. k \in 1 .. Len(list) /\ k - 1 \in 0 .. Len(list) /\ TimeTo(list, k - 1) \in Nat
    BY <1>1, <2>2, <2>3
  <2> QED
    BY <1>1, <2>2, <2>4, TimeToStep
<1> QED
  BY <1>2

(* Where two lists have the same times, they have the same differences of  *)
(* expiry times.                                                           *)
LEMMA Shift ==
  ASSUME NEW l \in List, NEW m \in List, NEW d \in Int,
         NEW a \in 0 .. Len(l), NEW b \in a .. Len(l), a + d \in 0 .. Len(m), b + d <= Len(m),
         \A i \in a + 1 .. b : m[i + d].time = l[i].time
  PROVE  TimeTo(m, b + d) - TimeTo(m, a + d) = TimeTo(l, b) - TimeTo(l, a)
<1> DEFINE Same(i) == TimeTo(m, i + d) - TimeTo(m, a + d) = TimeTo(l, i) - TimeTo(l, a)
           Bad == {i \in a .. b : ~Same(i)}
<1>1. Len(l) \in Nat /\ Len(m) \in Nat /\ \A k \in 1 .. Len(l) : l[k].time \in Nat
  BY ListType
<1>2. ASSUME Bad # {}
      PROVE  FALSE
  <2>1. Bad \subseteq Nat
    BY <1>1
  <2>2. PICK k \in Bad : \A f \in Bad : k <= f
    <3> HIDE DEF Bad
    <3> QED
      BY <1>2, <2>1, LeastExists
  <2>3. TimeTo(m, a + d) \in Nat /\ TimeTo(l, a) \in Nat
    BY TimeToType
  <2>4. k # a
    BY <2>2, <2>3
  <2>5. /\ k \in a + 1 .. b /\ k - 1 \in a .. b /\ Same(k - 1)
        /\ k \in 1 .. Len(l) /\ k - 1 \in 0 .. Len(l) /\ k + d \in 1 .. Len(m)
        /\ (k - 1) + d \in 0 .. Len(m) /\ (k - 1) + d = (k + d) - 1
    BY <1>1, <2>2, <2>4
  <2>6. TimeTo(l, k) = TimeTo(l, k - 1) + l[k].time /\ TimeTo(l, k - 1) \in Nat
    BY <2>5, TimeToStep, TimeToType
  <2>7. /\ TimeTo(m, k + d) = TimeTo(m, (k - 1) + d) + m[k + d].time
        /\ TimeTo(m, (k - 1) + d) \in Nat
    BY <2>5, TimeToStep, TimeToType
  <2>8. m[k + d].time = l[k].time /\ l[k].time \in Nat
    BY <1>1, <2>5
  <2>9. ~Same(k)
    BY <2>2
  <2> DEFINE x == TimeTo(m, (k - 1) + d)
             y == TimeTo(l, k - 1)
             p == TimeTo(m, a + d)
             q == TimeTo(l, a)
             t == l[k].time
  <2>10. x \in Nat /\ y \in Nat /\ p \in Nat /\ q \in Nat /\ t \in Nat /\ x - p = y - q
    BY <2>3, <2>5, <2>6, <2>7, <2>8
  <2>11. TimeTo(m, k + d) = x + t /\ TimeTo(l, k) = y + t
    BY <2>6, <2>7, <2>8
  <2>12. ~((x + t) - p = (y + t) - q)
    BY <2>9, <2>11
  <2> HIDE DEF x, y, p, q, t
  <2> QED
    BY <2>10, <2>12
<1>3. b \in a .. b /\ b \notin Bad
  BY <1>1, <1>2
<1> QED
  BY <1>3

LEMMA SameSums ==
  ASSUME NEW l \in List, NEW m \in List, NEW b \in 0 .. Len(l), b <= Len(m),
         \A i \in 1 .. b : m[i].time = l[i].time
  PROVE  TimeTo(m, b) = TimeTo(l, b)
<1>1. Len(l) \in Nat /\ Len(m) \in Nat /\ b \in 0 .. Len(m)
  BY ListType
<1>2. /\ 0 \in Int /\ 0 \in 0 .. Len(l) /\ b \in 0 .. Len(l) /\ 0 + 0 \in 0 .. Len(m) /\ b + 0 <= Len(m)
      /\ \A i \in 0 + 1 .. b : m[i + 0].time = l[i].time
  BY <1>1
<1>3. TimeTo(m, b + 0) - TimeTo(m, 0 + 0) = TimeTo(l, b) - TimeTo(l, 0)
  BY <1>2, Shift, Zenon
<1>4. b + 0 = b /\ 0 + 0 = 0 /\ TimeTo(m, 0) = 0 /\ TimeTo(l, 0) = 0
  BY <1>1, TimeToStep
<1>5. TimeTo(m, b) \in Nat /\ TimeTo(l, b) \in Nat
  BY <1>1, TimeToType
<1> QED
  BY <1>3, <1>4, <1>5

(* From entry a on, m has the entries of l one place later.                *)
LEMMA OneLater ==
  ASSUME NEW l \in List, NEW m \in List, NEW a \in 0 .. Len(l), NEW b \in a .. Len(l),
         b + 1 <= Len(m), \A i \in a + 1 .. b : m[i + 1].time = l[i].time
  PROVE  TimeTo(m, b + 1) - TimeTo(m, a + 1) = TimeTo(l, b) - TimeTo(l, a)
<1>1. Len(l) \in Nat /\ Len(m) \in Nat
  BY ListType
<1>2. 1 \in Int /\ a + 1 \in 0 .. Len(m)
  BY <1>1
<1> QED
  BY <1>2, Shift, Zenon

-----------------------------------------------------------------------------
(* The operations                                                          *)

(* Entry j of list m is entry i of list l, with the same expiry time.      *)
Kept(m, j, l, i) == m[j].h = l[i].h /\ m[j].due = l[i].due /\ TimeTo(m, j) = TimeTo(l, i)

(* tls_timeout_p inserts the new timeout at its time and moves no other.   *)
LEMMA TimeoutPList ==
  ASSUME NEW list \in List, NEW h \in Handler
  PROVE  \E k \in 0 .. Len(list) :
            LET m == TimeoutP(list, h)
            IN  /\ m \in List /\ Len(m) = Len(list) + 1
                /\ m[k + 1].h = h /\ m[k + 1].due = Delay[h] /\ TimeTo(m, k + 1) = Delay[h]
                /\ \A i \in 1 .. k : Kept(m, i, list, i)
                /\ \A i \in k + 1 .. Len(list) : Kept(m, i + 1, list, i)
<1> DEFINE ms == Delay[h]
           before == {i \in 0 .. Len(list) : TimeTo(list, i) <= ms}
           k == CHOOSE i \in before : \A j \in before : j <= i
           n == Len(list)
           new == [h |-> h, time |-> ms - TimeTo(list, k), due |-> ms]
           m == TimeoutP(list, h)
<1>1. /\ n \in Nat /\ ms \in Nat
      /\ \A i \in 1 .. n : /\ list[i] \in Entry /\ list[i].h \in Handler
                           /\ list[i].time \in Nat /\ list[i].due \in Nat
  BY ListType, WlTaskAssumption
<1>2. 0 \in before /\ before \subseteq 0 .. n
  BY <1>1, TimeToStep
<1>3. k \in before /\ \A j \in before : j <= k
  <2> HIDE DEF before
  <2>1. \E i \in before : \A j \in before : j <= i
    BY <1>1, <1>2, GreatestExists
  <2> QED
    BY <2>1
<1>4. k \in 0 .. n /\ TimeTo(list, k) \in Nat /\ TimeTo(list, k) <= ms
  BY <1>2, <1>3, TimeToType
<1>5. ASSUME k + 1 \in 0 .. n
      PROVE  TimeTo(list, k + 1) > ms
  <2>1. k + 1 \notin before
    <3> HIDE DEF before
    <3> QED
      BY <1>1, <1>3, <1>4
  <2>2. ~(TimeTo(list, k + 1) <= ms)
    BY <1>5, <2>1
  <2>3. TimeTo(list, k + 1) \in Nat
    BY <1>5, TimeToType
  <2> QED
    BY <1>1, <2>2, <2>3
<1>6. k + 1 \in 1 .. n => list[k + 1].time > ms - TimeTo(list, k)
  BY <1>1, <1>4, <1>5, TimeToStep
<1>7. m = [i \in 1 .. n + 1 |-> CASE i <= k     -> list[i]
                                  [] i = k + 1  -> new
                                  [] i = k + 2  -> Less(list[i - 1], new.time)
                                  [] OTHER      -> list[i - 1]]
  BY DEF TimeoutP
<1> HIDE DEF k, before, m, n, ms
<1>8. new \in Entry /\ new.time = ms - TimeTo(list, k) /\ new.time \in Nat
  BY <1>1, <1>4 DEF Entry
<1>9. k + 1 \in 1 .. n => /\ Less(list[k + 1], new.time) \in Entry
                          /\ Less(list[k + 1], new.time).time = list[k + 1].time - new.time
                          /\ Less(list[k + 1], new.time).h = list[k + 1].h
                          /\ Less(list[k + 1], new.time).due = list[k + 1].due
  BY <1>1, <1>6, <1>8 DEF Entry, Less
<1>10. /\ \A i \in 1 .. k : m[i] = list[i]
       /\ m[k + 1] = new
       /\ k + 1 \in 1 .. n => m[k + 2] = Less(list[k + 1], new.time)
       /\ \A i \in k + 2 .. n : m[i + 1] = list[i]
  <2> HIDE DEF new
  <2>1. \A i \in 1 .. k : m[i] = list[i]
    BY <1>1, <1>4, <1>7
  <2>2. m[k + 1] = new
    BY <1>1, <1>4, <1>7
  <2>3. k + 1 \in 1 .. n => m[k + 2] = Less(list[k + 1], new.time)
    <3> SUFFICES ASSUME k + 1 \in 1 .. n
                 PROVE  m[k + 2] = Less(list[k + 1], new.time)
      OBVIOUS
    <3>1. k + 2 \in 1 .. n + 1 /\ ~(k + 2 <= k) /\ k + 2 # k + 1 /\ (k + 2) - 1 = k + 1
      BY <1>1, <1>4
    <3> QED
      BY <1>7, <3>1
  <2>4. ASSUME NEW i \in k + 2 .. n
        PROVE  m[i + 1] = list[i]
    <3>1. i + 1 \in 1 .. n + 1 /\ ~(i + 1 <= k) /\ i + 1 # k + 1 /\ i + 1 # k + 2 /\ (i + 1) - 1 = i
      BY <1>1, <1>4
    <3> QED
      BY <1>7, <3>1
  <2> QED
    BY <2>1, <2>2, <2>3, <2>4
<1>11. m \in List /\ Len(m) = n + 1
  <2>1. ASSUME NEW i \in 1 .. n + 1
        PROVE  m[i] \in Entry
    <3>1. i \in 1 .. k \/ i = k + 1 \/ (i = k + 2 /\ k + 1 \in 1 .. n) \/ (i - 1 \in k + 2 .. n /\ (i - 1) + 1 = i)
      BY <1>1, <1>4
    <3>2. CASE i \in 1 .. k
      <4>1. i \in 1 .. n
        BY <1>1, <1>4, <3>2
      <4> QED
        BY <1>1, <1>10, <3>2, <4>1
    <3>3. CASE i = k + 1
      BY <1>8, <1>10, <3>3
    <3>4. CASE i = k + 2 /\ k + 1 \in 1 .. n
      BY <1>9, <1>10, <3>4
    <3>5. CASE i - 1 \in k + 2 .. n /\ (i - 1) + 1 = i
      <4>1. i - 1 \in 1 .. n /\ m[i] = list[i - 1]
        BY <1>1, <1>4, <1>10, <3>5
      <4> QED
        BY <1>1, <4>1
    <3> QED
      BY <3>1, <3>2, <3>3, <3>4, <3>5
  <2>2. DOMAIN m = 1 .. n + 1 /\ n + 1 \in Nat
    BY <1>1, <1>7
  <2>3. m \in [1 .. n + 1 -> Entry]
    BY <1>7, <2>1, <2>2
  <2> QED
    BY <2>2, <2>3 DEF List
<1>12. ASSUME NEW i \in 0 .. k
       PROVE  TimeTo(m, i) = TimeTo(list, i)
  <2>1. \A j \in 1 .. i : m[j].time = list[j].time
    BY <1>1, <1>4, <1>10
  <2>2. i \in 0 .. Len(list) /\ i <= Len(m)
    BY <1>1, <1>4, <1>11 DEF n
  <2> QED
    BY <1>11, <2>1, <2>2, SameSums
<1>13. TimeTo(m, k + 1) = ms
  <2>1. k + 1 \in 1 .. Len(m) /\ (k + 1) - 1 = k /\ k \in 0 .. k
    BY <1>1, <1>4, <1>11
  <2>2. TimeTo(m, k + 1) = TimeTo(m, k) + m[k + 1].time
    BY <1>11, <2>1, TimeToStep
  <2> QED
    BY <1>1, <1>4, <1>8, <1>10, <1>12, <2>1, <2>2
<1>14. ASSUME NEW i \in k + 1 .. n
       PROVE  TimeTo(m, i + 1) = TimeTo(list, i)
  <2>1. /\ k + 1 \in 1 .. n /\ k + 2 \in 1 .. Len(m) /\ (k + 2) - 1 = k + 1 /\ (k + 1) - 1 = k
        /\ k + 1 \in 0 .. Len(list) /\ (k + 1) + 1 = k + 2 /\ (k + 1) + 1 \in 0 .. Len(m)
        /\ i \in k + 1 .. Len(list) /\ i + 1 <= Len(m) /\ i + 1 \in 0 .. Len(m) /\ i \in 0 .. Len(list)
    BY <1>1, <1>4, <1>11 DEF n
  <2>2. TimeTo(m, k + 2) = TimeTo(m, k + 1) + m[k + 2].time
    BY <1>11, <2>1, TimeToStep
  <2>3. TimeTo(list, k + 1) = TimeTo(list, k) + list[k + 1].time /\ list[k + 1].time \in Nat
    BY <1>1, <2>1, TimeToStep DEF n
  <2>4. TimeTo(m, k + 2) = TimeTo(list, k + 1)
    <3>1. m[k + 2].time = list[k + 1].time - (ms - TimeTo(list, k))
      BY <1>8, <1>9, <1>10, <2>1
    <3> QED
      BY <1>1, <1>4, <1>13, <2>2, <2>3, <3>1
  <2>5. \A j \in (k + 1) + 1 .. i : m[j + 1].time = list[j].time
    BY <1>1, <1>4, <1>10
  <2>6. TimeTo(m, i + 1) - TimeTo(m, (k + 1) + 1) = TimeTo(list, i) - TimeTo(list, k + 1)
    BY <1>11, <2>1, <2>5, OneLater, Zenon
  <2>7. TimeTo(m, i + 1) \in Nat /\ TimeTo(list, i) \in Nat /\ TimeTo(list, k + 1) \in Nat
    BY <1>11, <2>1, TimeToType
  <2>8. TimeTo(m, (k + 1) + 1) = TimeTo(list, k + 1)
    <3>1. (k + 1) + 1 = k + 2
      BY <1>1, <1>4
    <3> QED
      BY <2>4, <3>1
  <2> QED
    BY <2>6, <2>7, <2>8
<1>15. \A i \in 1 .. k : Kept(m, i, list, i)
  BY <1>1, <1>4, <1>10, <1>12 DEF Kept
<1>16. ASSUME NEW i \in k + 1 .. n
       PROVE  Kept(m, i + 1, list, i)
  <2>1. m[i + 1].h = list[i].h /\ m[i + 1].due = list[i].due
    <3>1. CASE i = k + 1
      <4>1. k + 1 \in 1 .. n /\ i + 1 = k + 2
        BY <1>1, <1>4, <3>1
      <4> QED
        BY <1>9, <1>10, <3>1, <4>1
    <3>2. CASE i # k + 1
      BY <1>1, <1>4, <1>10, <3>2
    <3> QED
      BY <3>1, <3>2
  <2> QED
    BY <1>14, <2>1 DEF Kept
<1>17. m[k + 1].h = h /\ m[k + 1].due = ms
  BY <1>10
<1> QED
  BY <1>4, <1>11, <1>13, <1>15, <1>16, <1>17 DEF m, n, ms

(* tls_untimeout_p takes out one entry of the handler, if there is one,    *)
(* and moves no other.                                                     *)
LEMMA UntimeoutPList ==
  ASSUME NEW list \in List, NEW h \in Handler, \E i \in 1 .. Len(list) : list[i].h = h
  PROVE  \E k \in 1 .. Len(list) :
            LET m == UntimeoutP(list, h)
            IN  /\ m \in List /\ Len(m) = Len(list) - 1 /\ list[k].h = h
                /\ \A i \in 1 .. k - 1 : Kept(m, i, list, i)
                /\ \A i \in k + 1 .. Len(list) : Kept(m, i - 1, list, i)
<1> DEFINE mine == {i \in DOMAIN list : list[i].h = h}
           k == CHOOSE i \in mine : \A j \in mine : i <= j
           n == Len(list)
           m == UntimeoutP(list, h)
<1>1. /\ n \in Nat /\ DOMAIN list = 1 .. n
      /\ \A i \in 1 .. n : /\ list[i] \in Entry /\ list[i].h \in Handler
                           /\ list[i].time \in Nat /\ list[i].due \in Nat
  BY ListType
<1>2. mine # {} /\ mine \subseteq Nat
  BY <1>1
<1>3. k \in mine
  <2> HIDE DEF mine
  <2>1. \E i \in mine : \A j \in mine : i <= j
    BY <1>2, LeastExists
  <2> QED
    BY <2>1
<1>4. k \in 1 .. n /\ list[k].h = h
  BY <1>1, <1>3
<1>5. m = [i \in 1 .. n - 1 |-> CASE i < k  -> list[i]
                                  [] i = k  -> More(list[i + 1], list[k].time)
                                  [] OTHER  -> list[i + 1]]
  BY <1>2 DEF UntimeoutP
<1> HIDE DEF k, mine, m, n
<1>6. k + 1 \in 1 .. n => /\ More(list[k + 1], list[k].time) \in Entry
                          /\ More(list[k + 1], list[k].time).time = list[k + 1].time + list[k].time
                          /\ More(list[k + 1], list[k].time).h = list[k + 1].h
                          /\ More(list[k + 1], list[k].time).due = list[k + 1].due
  BY <1>1, <1>4 DEF Entry, More
<1>7. /\ \A i \in 1 .. k - 1 : m[i] = list[i]
      /\ k + 1 \in 1 .. n => m[k] = More(list[k + 1], list[k].time)
      /\ \A i \in k + 1 .. n - 1 : m[i] = list[i + 1]
  <2>1. \A i \in 1 .. k - 1 : m[i] = list[i]
    BY <1>1, <1>4, <1>5
  <2>2. k + 1 \in 1 .. n => m[k] = More(list[k + 1], list[k].time)
    BY <1>1, <1>4, <1>5
  <2>3. \A i \in k + 1 .. n - 1 : m[i] = list[i + 1]
    BY <1>1, <1>4, <1>5
  <2> QED
    BY <2>1, <2>2, <2>3
<1>8. m \in List /\ Len(m) = n - 1
  <2>1. ASSUME NEW i \in 1 .. n - 1
        PROVE  m[i] \in Entry
    <3>1. i \in 1 .. n /\ i + 1 \in 1 .. n
      BY <1>1
    <3>2. i \in 1 .. k - 1 \/ (i = k /\ k + 1 \in 1 .. n) \/ i \in k + 1 .. n - 1
      BY <1>1, <1>4
    <3> QED
      BY <1>1, <1>6, <1>7, <3>1, <3>2
  <2>2. DOMAIN m = 1 .. n - 1 /\ n - 1 \in Nat
    BY <1>1, <1>4, <1>5
  <2>3. m \in [1 .. n - 1 -> Entry]
    BY <1>5, <2>1, <2>2
  <2> QED
    BY <2>2, <2>3 DEF List
<1>9. ASSUME NEW i \in 0 .. k - 1
      PROVE  TimeTo(m, i) = TimeTo(list, i)
  <2>1. \A j \in 1 .. i : m[j].time = list[j].time
    BY <1>1, <1>4, <1>7
  <2>2. i \in 0 .. Len(list) /\ i <= Len(m)
    BY <1>1, <1>4, <1>8 DEF n
  <2> QED
    BY <1>8, <2>1, <2>2, SameSums
<1>10. ASSUME NEW i \in k + 1 .. n
       PROVE  TimeTo(m, i - 1) = TimeTo(list, i)
  <2>1. /\ k + 1 \in 1 .. n /\ k \in 1 .. n /\ (k + 1) - 1 = k /\ k - 1 \in 0 .. k - 1
        /\ k \in 1 .. Len(m) /\ i - 1 \in k .. Len(m) /\ (i - 1) + 1 = i /\ k \in 0 .. Len(m)
        /\ i \in 0 .. Len(list) /\ k + 1 \in 0 .. Len(list) /\ (i - 1) + 1 <= Len(list)
        /\ i - 1 \in 0 .. Len(m) /\ k - 1 \in 0 .. Len(list)
    BY <1>1, <1>4, <1>8 DEF n
  <2>2. TimeTo(m, k) = TimeTo(m, k - 1) + m[k].time
    BY <1>8, <2>1, TimeToStep
  <2>3. /\ TimeTo(list, k + 1) = TimeTo(list, k) + list[k + 1].time
        /\ TimeTo(list, k) = TimeTo(list, k - 1) + list[k].time
        /\ list[k].time \in Nat /\ list[k + 1].time \in Nat
    BY <1>1, <2>1, TimeToStep DEF n
  <2>4. TimeTo(m, k - 1) = TimeTo(list, k - 1) /\ TimeTo(list, k - 1) \in Nat
    BY <1>9, <2>1, TimeToType
  <2>5. m[k].time = list[k + 1].time + list[k].time
    BY <1>6, <1>7, <2>1
  <2>6. TimeTo(m, k) = TimeTo(list, k + 1)
    BY <2>2, <2>3, <2>4, <2>5
  <2>7. \A j \in k + 1 .. i - 1 : list[j + 1].time = m[j].time
    <3>1. k + 1 .. i - 1 \subseteq k + 1 .. n - 1
      BY <1>1, <1>4
    <3> QED
      BY <1>7, <3>1
  <2>8. TimeTo(list, (i - 1) + 1) - TimeTo(list, k + 1) = TimeTo(m, i - 1) - TimeTo(m, k)
    BY <1>8, <2>1, <2>7, OneLater, Zenon
  <2>9. TimeTo(m, i - 1) \in Nat /\ TimeTo(list, i) \in Nat /\ TimeTo(list, k + 1) \in Nat
    BY <1>8, <2>1, TimeToType
  <2> QED
    BY <2>1, <2>6, <2>8, <2>9
<1>11. \A i \in 1 .. k - 1 : Kept(m, i, list, i)
  BY <1>1, <1>4, <1>7, <1>9 DEF Kept
<1>12. ASSUME NEW i \in k + 1 .. n
       PROVE  Kept(m, i - 1, list, i)
  <2>1. m[i - 1].h = list[i].h /\ m[i - 1].due = list[i].due
    <3>1. CASE i = k + 1
      <4>1. k + 1 \in 1 .. n /\ i - 1 = k
        BY <1>1, <1>4, <3>1
      <4> QED
        BY <1>6, <1>7, <3>1, <4>1
    <3>2. CASE i # k + 1
      <4>1. i - 1 \in k + 1 .. n - 1 /\ (i - 1) + 1 = i
        BY <1>1, <1>4, <3>2
      <4> QED
        BY <1>7, <4>1
    <3> QED
      BY <3>1, <3>2
  <2> QED
    BY <1>10, <2>1 DEF Kept
<1> QED
  BY <1>4, <1>8, <1>11, <1>12 DEF m, n

(* The time waited comes off every expiry time alike.                      *)
LEMMA WaitedList ==
  ASSUME NEW list \in List, list # <<>>, NEW w \in Nat
  PROVE  LET m == [list EXCEPT ![1].time = Monus(@, w)]
         IN  /\ m \in List /\ Len(m) = Len(list)
             /\ \A i \in 1 .. Len(list) :
                   /\ m[i].h = list[i].h /\ m[i].due = list[i].due
                   /\ TimeTo(m, i) = TimeTo(list, i) - list[1].time + Monus(list[1].time, w)
<1> DEFINE n == Len(list)
           m == [list EXCEPT ![1].time = Monus(@, w)]
<1>1. /\ n \in Nat /\ n > 0 /\ DOMAIN list = 1 .. n /\ 1 \in 1 .. n
      /\ \A i \in 1 .. n : /\ list[i] \in Entry /\ list[i].h \in Handler
                           /\ list[i].time \in Nat /\ list[i].due \in Nat
  <2>1. n \in Nat /\ DOMAIN list = 1 .. n
    BY ListType
  <2>2. n > 0
    BY <2>1 DEF List
  <2> QED
    BY <2>1, <2>2, ListType
<1>2. Monus(list[1].time, w) \in Nat
  BY <1>1 DEF Monus
<1>3. m = [list EXCEPT ![1] = [list[1] EXCEPT !.time = Monus(list[1].time, w)]]
  BY <1>1 DEF Entry
<1>4. /\ [list[1] EXCEPT !.time = Monus(list[1].time, w)] \in Entry
      /\ [list[1] EXCEPT !.time = Monus(list[1].time, w)].time = Monus(list[1].time, w)
      /\ [list[1] EXCEPT !.time = Monus(list[1].time, w)].h = list[1].h
      /\ [list[1] EXCEPT !.time = Monus(list[1].time, w)].due = list[1].due
  BY <1>1, <1>2 DEF Entry
<1>5. m \in List /\ Len(m) = n
  BY <1>1, <1>3, <1>4 DEF List
<1>6. /\ m[1] = [list[1] EXCEPT !.time = Monus(list[1].time, w)]
      /\ \A i \in 2 .. n : m[i] = list[i]
  BY <1>1, <1>3
<1> HIDE DEF m, n
<1>7. ASSUME NEW i \in 1 .. n
      PROVE  TimeTo(m, i) = TimeTo(list, i) - list[1].time + Monus(list[1].time, w)
  <2>1. /\ 0 \in Int /\ 1 \in 0 .. Len(list) /\ i \in 1 .. Len(list) /\ 1 + 0 \in 0 .. Len(m)
        /\ i + 0 <= Len(m) /\ i \in 0 .. Len(m) /\ i \in 0 .. Len(list)
    BY <1>1, <1>5 DEF n
  <2>2. \A j \in 1 + 1 .. i : m[j + 0].time = list[j].time
    BY <1>1, <1>6
  <2>3. TimeTo(m, i + 0) - TimeTo(m, 1 + 0) = TimeTo(list, i) - TimeTo(list, 1)
    BY <1>5, <2>1, <2>2, Shift, Zenon
  <2>4. 1 \in 1 .. Len(m) /\ 1 \in 1 .. Len(list) /\ 1 - 1 = 0
    BY <1>1, <1>5 DEF n
  <2>5. TimeTo(m, 1) = TimeTo(m, 0) + m[1].time /\ TimeTo(list, 1) = TimeTo(list, 0) + list[1].time
    BY <1>5, <2>4, TimeToStep
  <2>6. TimeTo(m, 0) = 0 /\ TimeTo(list, 0) = 0
    BY <1>5, TimeToStep
  <2>7. TimeTo(m, i) \in Nat /\ TimeTo(list, i) \in Nat
    BY <1>5, <2>1, TimeToType
  <2> QED
    BY <1>1, <1>2, <1>4, <1>6, <2>3, <2>5, <2>6, <2>7
<1>8. ASSUME NEW i \in 1 .. n
      PROVE  m[i].h = list[i].h /\ m[i].due = list[i].due
  <2>1. i = 1 \/ i \in 2 .. n
    BY <1>1
  <2> QED
    BY <1>4, <1>6, <2>1
<1> QED
  BY <1>5, <1>7, <1>8 DEF m, n

(* The entries behind an expired one are as much nearer as its time was.   *)
LEMMA ExpiredList ==
  ASSUME NEW list \in List, list # <<>>, NEW e \in Nat
  PROVE  LET m == [i \in 1 .. Len(list) - 1 |-> [list[i + 1] EXCEPT !.due = Monus(@, e)]]
         IN  /\ m \in List /\ Len(m) = Len(list) - 1
             /\ \A i \in 1 .. Len(list) - 1 :
                   /\ m[i].h = list[i + 1].h /\ m[i].due = Monus(list[i + 1].due, e)
                   /\ TimeTo(m, i) = TimeTo(list, i + 1) - list[1].time
<1> DEFINE n == Len(list)
           m == [i \in 1 .. Len(list) - 1 |-> [list[i + 1] EXCEPT !.due = Monus(@, e)]]
<1>1. /\ n \in Nat /\ n > 0 /\ DOMAIN list = 1 .. n /\ 1 \in 1 .. n
      /\ \A i \in 1 .. n : /\ list[i] \in Entry /\ list[i].h \in Handler
                           /\ list[i].time \in Nat /\ list[i].due \in Nat
  <2>1. n \in Nat /\ DOMAIN list = 1 .. n
    BY ListType
  <2>2. n > 0
    BY <2>1 DEF List
  <2> QED
    BY <2>1, <2>2, ListType
<1>2. ASSUME NEW i \in 1 .. n - 1
      PROVE  /\ m[i] \in Entry /\ m[i].h = list[i + 1].h /\ m[i].time = list[i + 1].time
             /\ m[i].due = Monus(list[i + 1].due, e)
  <2>1. i + 1 \in 1 .. n
    BY <1>1
  <2>2. list[i + 1] \in Entry /\ Monus(list[i + 1].due, e) \in Nat
    BY <1>1, <2>1 DEF Monus
  <2>3. m[i] = [list[i + 1] EXCEPT !.due = Monus(list[i + 1].due, e)]
    BY <2>2 DEF Entry
  <2> QED
    BY <2>2, <2>3 DEF Entry
<1>3. m \in List /\ Len(m) = n - 1
  <2>1. n - 1 \in Nat /\ m \in [1 .. n - 1 -> Entry]
    BY <1>1, <1>2
  <2> QED
    BY <2>1 DEF List
<1> HIDE DEF m, n
<1>4. ASSUME NEW i \in 1 .. n - 1
      PROVE  TimeTo(m, i) = TimeTo(list, i + 1) - list[1].time
  <2>1. /\ 0 \in 0 .. Len(m) /\ i \in 0 .. Len(m) /\ i + 1 <= Len(list) /\ i + 1 \in 0 .. Len(list)
        /\ 1 \in 1 .. Len(list) /\ 1 - 1 = 0 /\ 0 + 1 = 1
    BY <1>1, <1>3 DEF n
  <2>2. \A j \in 0 + 1 .. i : list[j + 1].time = m[j].time
    BY <1>1, <1>2
  <2>3. TimeTo(list, i + 1) - TimeTo(list, 0 + 1) = TimeTo(m, i) - TimeTo(m, 0)
    BY <1>3, <2>1, <2>2, OneLater, Zenon
  <2>4. TimeTo(list, 1) = TimeTo(list, 0) + list[1].time /\ TimeTo(m, 0) = 0 /\ TimeTo(list, 0) = 0
    BY <1>3, <2>1, TimeToStep
  <2>5. TimeTo(m, i) \in Nat /\ TimeTo(list, i + 1) \in Nat
    BY <1>3, <2>1, TimeToType
  <2> QED
    BY <1>1, <2>1, <2>3, <2>4, <2>5
<1> QED
  BY <1>2, <1>3, <1>4 DEF m, n

LEMMA TickList ==
  ASSUME NEW list \in List, NEW e \in Nat
  PROVE  LET m == [i \in DOMAIN list |-> [list[i] EXCEPT !.due = Monus(@, e)]]
         IN  /\ m \in List /\ Len(m) = Len(list)
             /\ \A i \in 1 .. Len(list) :
                   /\ m[i].h = list[i].h /\ m[i].time = list[i].time
                   /\ m[i].due = Monus(list[i].due, e) /\ TimeTo(m, i) = TimeTo(list, i)
<1> DEFINE n == Len(list)
           m == [i \in DOMAIN list |-> [list[i] EXCEPT !.due = Monus(@, e)]]
<1>1. /\ n \in Nat /\ DOMAIN list = 1 .. n
      /\ \A i \in 1 .. n : /\ list[i] \in Entry /\ list[i].h \in Handler
                           /\ list[i].time \in Nat /\ list[i].due \in Nat
  BY ListType
<1>2. ASSUME NEW i \in 1 .. n
      PROVE  /\ m[i] \in Entry /\ m[i].h = list[i].h /\ m[i].time = list[i].time
             /\ m[i].due = Monus(list[i].due, e)
  <2>1. list[i] \in Entry /\ Monus(list[i].due, e) \in Nat
    BY <1>1 DEF Monus
  <2>2. m[i] = [list[i] EXCEPT !.due = Monus(list[i].due, e)]
    BY <1>1, <2>1 DEF Entry
  <2> QED
    BY <2>1, <2>2 DEF Entry
<1>3. m \in List /\ Len(m) = n
  <2>1. m \in [1 .. n -> Entry]
    BY <1>1, <1>2
  <2> QED
    BY <1>1, <2>1 DEF List
<1> HIDE DEF m, n
<1>4. ASSUME NEW i \in 1 .. n
      PROVE  TimeTo(m, i) = TimeTo(list, i)
  <2>1. i \in 0 .. Len(list) /\ i <= Len(m) /\ \A j \in 1 .. i : m[j].time = list[j].time
    BY <1>1, <1>2, <1>3 DEF n
  <2> QED
    BY <1>3, <2>1, SameSums
<1> QED
  BY <1>2, <1>3, <1>4 DEF m, n
=============================================================================
