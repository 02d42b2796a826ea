---------------------------- MODULE SecurityProofs ----------------------------
(***************************************************************************)
(* Proofs about Security, for any number of clients and threads and any    *)
(* length of the lists. What depends on the order of the lists is proved   *)
(* where the comparator is an order (AddressesNear).                       *)
(***************************************************************************)
EXTENDS Security, NatLemmas

-----------------------------------------------------------------------------
(* The operators.                                                          *)

LEMMA Constants ==
    /\ NoThread \notin Threads
    /\ \A c \in Clients : c \in Nat
    /\ IntRange \in Nat \ {0} /\ BacklogLen \in Nat \ {0} /\ BlacklistLen \in Nat \ {0}
    /\ Second \in Nat \ {0} /\ MaxRequest \in Nat /\ MaxTime \in Nat
    /\ MaxClock \in Nat /\ MaxCounter \in Nat
    /\ \A g \in Gaps : g \in Nat
BY SecurityAssumption

\* Near addresses are compared as numbers.
LEMMA CompareIsOrder ==
    ASSUME AddressesNear, NEW a \in Clients \cup {NoAddress}, NEW b \in Clients \cup {NoAddress}
    PROVE  Compare(a, b) = a - b
<1>1. a \in Int /\ b \in Int /\ IntRange \in Nat \ {0}
    BY Constants DEF NoAddress
<1>2. 2 * (a - b) < IntRange /\ 2 * (b - a) < IntRange
    BY DEF AddressesNear
<1>3. CASE a >= b
  <2>1. (a - b) % IntRange = a - b
      BY <1>1, <1>2, <1>3
  <2>2. QED
      BY <1>1, <1>2, <2>1 DEF Compare
<1>4. CASE a < b
  <2>1. (a - b) % IntRange = a - b + IntRange
      BY <1>1, <1>2, <1>4
  <2>2. QED
      BY <1>1, <1>2, <1>4, <2>1 DEF Compare
<1>5. QED
    BY <1>1, <1>3, <1>4

\* A list of a fixed length is a sequence of that length.
LEMMA ListLength ==
    ASSUME NEW n \in Nat, NEW s \in [1 .. n -> Entries]
    PROVE  Len(s) = n /\ DOMAIN s = 1 .. n
OBVIOUS

\* bsearch() finds a client in a list that is in order and has it once, and
\* finds none that is not there.
LEMMA BsearchFinds ==
    ASSUME AddressesNear, NEW n \in Nat, NEW s \in [1 .. n -> Entries],
           InOrder(s), Once(s), NEW ip \in Clients
    PROVE  IF \E k \in 1 .. n : s[k].ip_num = ip
           THEN Bsearch(ip, s) \in 1 .. n /\ s[Bsearch(ip, s)].ip_num = ip
           ELSE Bsearch(ip, s) = 0
<1> DEFINE D == 1 .. n + 1
           step(f, l, u) ==
               LET m == (l + u) \div 2
                   c == Compare(ip, s[m].ip_num)
               IN  IF l >= u THEN 0
                   ELSE IF c = 0 THEN m
                   ELSE IF c < 0 THEN f[<<l, m>>] ELSE f[<<m + 1, u>>]
           find == CHOOSE f : f = [r \in D \X D |-> step(f, r[1], r[2])]
           at(l, u) == { k \in l .. u - 1 : s[k].ip_num = ip }
           pick(S) == IF S = {} THEN 0 ELSE CHOOSE k \in S : TRUE
           found(l, u) == pick(at(l, u))
           g == [r \in D \X D |-> found(r[1], r[2])]
<1>1. Len(s) = n
    BY ListLength
<1>2. Bsearch(ip, s) = find[<<1, n + 1>>]
    BY <1>1 DEF Bsearch
<1>3. \A k \in 1 .. n : /\ s[k].ip_num \in Int
                        /\ Compare(ip, s[k].ip_num) = ip - s[k].ip_num
    BY CompareIsOrder, Constants DEF Entries, NoAddress
<1>4. ip \in Int /\ ip # NoAddress
    BY Constants DEF NoAddress
<1>5. ASSUME NEW l \in D, NEW u \in D
      PROVE  /\ l >= u => found(l, u) = 0
             /\ l < u =>
                  LET m == (l + u) \div 2 IN
                  /\ m \in l .. u - 1 /\ m \in 1 .. n /\ m \in D /\ m + 1 \in D
                  /\ s[m].ip_num = ip => found(l, u) = m
                  /\ ip < s[m].ip_num => found(l, u) = found(l, m)
                  /\ ip > s[m].ip_num => found(l, u) = found(m + 1, u)
  <2>1. CASE l >= u
    <3>1. l .. u - 1 = {}
        BY <2>1
    <3>2. QED
        BY <2>1, <3>1
  <2>2. CASE l < u
    <3> DEFINE m == (l + u) \div 2
    <3>1. m \in l .. u - 1 /\ m \in 1 .. n /\ m \in D /\ m + 1 \in D
        BY <2>2
    <3> HIDE DEF m
    <3>2. l .. u - 1 \subseteq 1 .. n
        BY <2>2
    <3>3. \A i, j \in 1 .. n : i < j => s[i].ip_num <= s[j].ip_num
        BY <1>1 DEF InOrder
    <3>4. s[m].ip_num = ip => found(l, u) = m
      <4> SUFFICES ASSUME s[m].ip_num = ip
                   PROVE  found(l, u) = m
          OBVIOUS
      <4>1. at(l, u) = {m}
          BY <1>4, <3>1, <3>2 DEF Once
      <4>2. QED
          BY <4>1
    <3>5. ip < s[m].ip_num => found(l, u) = found(l, m)
      <4>1. ip < s[m].ip_num => at(l, u) = at(l, m)
          BY <1>3, <1>4, <3>1, <3>2, <3>3, SMTT(20)
      <4> HIDE DEF at, pick
      <4>2. QED
          BY <4>1
    <3>6. ip > s[m].ip_num => found(l, u) = found(m + 1, u)
      <4>1. ip > s[m].ip_num => at(l, u) = at(m + 1, u)
          BY <1>3, <1>4, <3>1, <3>2, <3>3
      <4> HIDE DEF at, pick
      <4>2. QED
          BY <4>1
    <3> HIDE DEF found, at, pick
    <3>7. QED
        BY <2>2, <3>1, <3>4, <3>5, <3>6 DEF m
  <2> HIDE DEF found, at, pick
  <2>3. QED
      BY <2>1, <2>2
<1> HIDE DEF found, at, pick
<1>6. ASSUME NEW f, NEW l \in D, NEW u \in D
      PROVE  /\ l >= u => step(f, l, u) = 0
             /\ l < u =>
                  LET m == (l + u) \div 2 IN
                  /\ s[m].ip_num = ip => step(f, l, u) = m
                  /\ ip < s[m].ip_num => step(f, l, u) = f[<<l, m>>]
                  /\ ip > s[m].ip_num => step(f, l, u) = f[<<m + 1, u>>]
  <2> DEFINE m == (l + u) \div 2
  <2>1. l < u => /\ m \in 1 .. n
                 /\ s[m].ip_num \in Int
                 /\ Compare(ip, s[m].ip_num) = ip - s[m].ip_num
      BY <1>3, <1>5
  <2> HIDE DEF m
  <2>2. step(f, l, u) = IF l >= u THEN 0
                        ELSE IF Compare(ip, s[m].ip_num) = 0 THEN m
                        ELSE IF Compare(ip, s[m].ip_num) < 0
                        THEN f[<<l, m>>] ELSE f[<<m + 1, u>>]
      BY DEF m
  <2> HIDE DEF step
  <2>3. QED
      BY <1>4, <2>1, <2>2 DEF m
<1> HIDE DEF step
<1>7. ASSUME NEW l \in D, NEW u \in D
      PROVE  found(l, u) = step(g, l, u)
  <2>1. \A x, y \in D : g[<<x, y>>] = found(x, y)
      OBVIOUS
  <2> HIDE DEF g
  <2>2. CASE l >= u
    <3>1. found(l, u) = 0
        BY <1>5, <2>2
    <3>2. step(g, l, u) = 0
        BY <1>6, <2>2
    <3>3. QED
        BY <3>1, <3>2
  <2>3. CASE l < u
    <3> DEFINE m == (l + u) \div 2
    <3>1. m \in 1 .. n /\ m \in D /\ m + 1 \in D /\ s[m].ip_num \in Int
        BY <1>3, <1>5, <2>3
    <3>2. /\ s[m].ip_num = ip => found(l, u) = m
          /\ ip < s[m].ip_num => found(l, u) = found(l, m)
          /\ ip > s[m].ip_num => found(l, u) = found(m + 1, u)
        BY <1>5, <2>3
    <3>3. /\ s[m].ip_num = ip => step(g, l, u) = m
          /\ ip < s[m].ip_num => step(g, l, u) = g[<<l, m>>]
          /\ ip > s[m].ip_num => step(g, l, u) = g[<<m + 1, u>>]
        BY <1>6, <2>3
    <3> HIDE DEF m
    <3>4. QED
        BY <1>4, <2>1, <3>1, <3>2, <3>3
  <2>4. QED
      BY <2>2, <2>3
<1>8. g = [r \in D \X D |-> step(g, r[1], r[2])]
  <2>1. \A r \in D \X D : found(r[1], r[2]) = step(g, r[1], r[2])
      BY <1>7
  <2>2. QED
      BY <2>1
<1>9. find = [r \in D \X D |-> step(find, r[1], r[2])]
    BY <1>8
<1>10. \A l, u \in D : find[<<l, u>>] = step(find, l, u)
  <2>1. \A l, u \in D : <<l, u>> \in D \X D /\ <<l, u>>[1] = l /\ <<l, u>>[2] = u
      OBVIOUS
  <2> HIDE DEF find
  <2>2. QED
      BY <1>9, <2>1, ZenonT(40)
<1> HIDE DEF find
<1>11. \A l, u \in D : find[<<l, u>>] = found(l, u)
  <2> SUFFICES ASSUME ~ \A l, u \in D : find[<<l, u>>] = found(l, u)
               PROVE  FALSE
      OBVIOUS
  <2> DEFINE wrong(d) == \E l, u \in D : u - l = d /\ find[<<l, u>>] # found(l, u)
             T == { d \in Nat : wrong(d) }
  <2>1. \A l, u \in D : l >= u => find[<<l, u>>] = found(l, u)
    <3>1. \A l, u \in D : l >= u => found(l, u) = 0
        BY <1>5
    <3>2. \A l, u \in D : l >= u => step(find, l, u) = 0
        BY <1>6
    <3>3. QED
        BY <1>10, <3>1, <3>2
  <2>2. T # {} /\ T \subseteq Nat
    <3>1. PICK l \in D, u \in D : find[<<l, u>>] # found(l, u)
        OBVIOUS
    <3>2. l < u /\ u - l \in Nat
        BY <2>1, <3>1
    <3>3. QED
        BY <3>1, <3>2
  <2>3. PICK d \in T : \A e \in T : d <= e
    <3> HIDE DEF T
    <3>1. QED
      BY <2>2, LeastNat
  <2>4. PICK l \in D, u \in D : u - l = d /\ find[<<l, u>>] # found(l, u)
      OBVIOUS
  <2>5. \A x, y \in D : y - x < d => find[<<x, y>>] = found(x, y)
    <3> SUFFICES ASSUME NEW x \in D, NEW y \in D, y - x < d, find[<<x, y>>] # found(x, y)
                 PROVE  FALSE
        OBVIOUS
    <3>1. y - x \in Nat
        BY <2>1
    <3>2. y - x \in T
        BY <3>1
    <3> HIDE DEF T
    <3>3. QED
        BY <2>2, <2>3, <3>1, <3>2
  <2>6. l < u
      BY <2>1, <2>4
  <2> DEFINE m == (l + u) \div 2
  <2>7. /\ m \in l .. u - 1 /\ m \in 1 .. n /\ m \in D /\ m + 1 \in D /\ s[m].ip_num \in Int
      BY <1>3, <1>5, <2>6
  <2>8. /\ s[m].ip_num = ip => found(l, u) = m
        /\ ip < s[m].ip_num => found(l, u) = found(l, m)
        /\ ip > s[m].ip_num => found(l, u) = found(m + 1, u)
      BY <1>5, <2>6
  <2>9. /\ s[m].ip_num = ip => step(find, l, u) = m
        /\ ip < s[m].ip_num => step(find, l, u) = find[<<l, m>>]
        /\ ip > s[m].ip_num => step(find, l, u) = find[<<m + 1, u>>]
      BY <1>6, <2>6
  <2> HIDE DEF m, T
  <2>10. m - l < d /\ u - (m + 1) < d
      BY <2>4, <2>7
  <2>11. find[<<l, m>>] = found(l, m) /\ find[<<m + 1, u>>] = found(m + 1, u)
      BY <2>5, <2>7, <2>10
  <2>12. find[<<l, u>>] = step(find, l, u)
      BY <1>10
  <2>13. QED
      BY <1>4, <2>4, <2>7, <2>8, <2>9, <2>11, <2>12
<1>12. Bsearch(ip, s) = found(1, n + 1)
    BY <1>2, <1>11
<1>13. at(1, n + 1) = { k \in 1 .. n : s[k].ip_num = ip }
    BY DEF at
<1>14. QED
    BY <1>12, <1>13 DEF found, pick

\* qsort() keeps the entries of a list, each as often as before.
LEMMA QsortPermutes ==
    ASSUME NEW n \in Nat, NEW s \in [1 .. n -> Entries], NEW r \in Qsort(s)
    PROVE  /\ r \in [1 .. n -> Entries]
           /\ \A k \in 1 .. n : \E j \in 1 .. n : r[k] = s[j]
           /\ \A j \in 1 .. n : \E k \in 1 .. n : r[k] = s[j]
           /\ Once(s) => Once(r)
           /\ \A k \in 1 .. n - 1 : Compare(r[k].ip_num, r[k + 1].ip_num) <= 0
<1>1. Len(s) = n /\ DOMAIN s = 1 .. n
    BY ListLength
<1>2. PICK p \in Bijection(1 .. n, 1 .. n) : r = [k \in 1 .. n |-> s[p[k]]]
    BY <1>1 DEF Qsort
<1>3. /\ p \in [1 .. n -> 1 .. n]
      /\ \A i, j \in 1 .. n : p[i] = p[j] => i = j
      /\ \A j \in 1 .. n : \E k \in 1 .. n : p[k] = j
    BY <1>2 DEF Bijection, Injection, Surjection, IsInjective
<1>4. r \in [1 .. n -> Entries] /\ \A k \in 1 .. n : r[k] = s[p[k]] /\ p[k] \in 1 .. n
    BY <1>2, <1>3
<1>5. Len(r) = n /\ DOMAIN r = 1 .. n
    BY <1>4, ListLength
<1>6. \A k \in 1 .. n - 1 : Compare(r[k].ip_num, r[k + 1].ip_num) <= 0
    BY <1>5 DEF Qsort
<1>7. Once(s) => Once(r)
  <2> SUFFICES ASSUME Once(s), NEW i \in 1 .. n, NEW j \in 1 .. n,
                      r[i].ip_num = r[j].ip_num, r[i].ip_num # NoAddress
               PROVE  i = j
      BY <1>5 DEF Once
  <2>1. /\ p[i] \in 1 .. n /\ p[j] \in 1 .. n
        /\ s[p[i]].ip_num = s[p[j]].ip_num /\ s[p[i]].ip_num # NoAddress
      BY <1>4
  <2>2. p[i] = p[j]
      BY <1>1, <2>1 DEF Once
  <2>3. QED
      BY <1>3, <2>2
<1>8. \A j \in 1 .. n : \E k \in 1 .. n : r[k] = s[j]
    BY <1>3, <1>4
<1>9. QED
    BY <1>4, <1>6, <1>7, <1>8

\* Where the comparator is an order, neighbours in order make a list in order.
LEMMA QsortOrders ==
    ASSUME AddressesNear, NEW n \in Nat, NEW s \in [1 .. n -> Entries], NEW r \in Qsort(s)
    PROVE  InOrder(r)
<1>1. /\ r \in [1 .. n -> Entries]
      /\ \A k \in 1 .. n - 1 : Compare(r[k].ip_num, r[k + 1].ip_num) <= 0
    BY QsortPermutes
<1>2. \A k \in 1 .. n : r[k].ip_num \in Clients \cup {NoAddress} /\ r[k].ip_num \in Int
    BY <1>1, Constants DEF Entries, NoAddress
<1>3. \A k \in 1 .. n - 1 : r[k].ip_num <= r[k + 1].ip_num
  <2> SUFFICES ASSUME NEW k \in 1 .. n - 1
               PROVE  r[k].ip_num <= r[k + 1].ip_num
      OBVIOUS
  <2>1. k \in 1 .. n /\ k + 1 \in 1 .. n
      OBVIOUS
  <2>2. /\ r[k].ip_num \in Clients \cup {NoAddress} /\ r[k].ip_num \in Int
        /\ r[k + 1].ip_num \in Clients \cup {NoAddress} /\ r[k + 1].ip_num \in Int
      BY <1>2, <2>1
  <2>3. Compare(r[k].ip_num, r[k + 1].ip_num) = r[k].ip_num - r[k + 1].ip_num
      BY <2>2, CompareIsOrder
  <2>4. QED
      BY <1>1, <2>2, <2>3
<1>4. DOMAIN r = 1 .. n
    BY <1>1
<1> SUFFICES ASSUME NEW i \in 1 .. n, NEW j \in 1 .. n, i < j, ~(r[i].ip_num <= r[j].ip_num)
             PROVE  FALSE
    BY <1>4 DEF InOrder
<1> DEFINE T == { k \in i .. n : ~(r[i].ip_num <= r[k].ip_num) }
<1>5. T \subseteq Nat /\ T # {}
    OBVIOUS
<1> HIDE DEF T
<1>6. PICK k \in T : \A x \in T : k <= x
    BY <1>5, LeastNat
<1>7. k \in 1 .. n /\ k >= i /\ ~(r[i].ip_num <= r[k].ip_num)
    BY <1>6 DEF T
<1>8. k # i
    BY <1>2, <1>7
<1>9. k - 1 \in 1 .. n - 1 /\ k - 1 >= i
    BY <1>7, <1>8
<1>10. r[i].ip_num <= r[k - 1].ip_num
    BY <1>6, <1>7, <1>9 DEF T
<1>11. r[k - 1].ip_num <= r[k].ip_num
    BY <1>3, <1>7, <1>9
<1>12. QED
    BY <1>2, <1>7, <1>9, <1>10, <1>11

\* An entry of a list that is counted, renewed, or replaced.
CountAt(s, k) == [s EXCEPT ![k].counter = @ + 1]
RenewAt(s, k, time) == [s EXCEPT ![k].counter = @ + 1, ![k].timestamp = time]
PutAt(s, k, e) == [s EXCEPT ![k] = e]

\* The slot that is overwritten is one of the list.
LEMMA OverwriteSlot ==
    ASSUME NEW n \in Nat \ {0}, NEW s \in [1 .. n -> Entries], NEW last \in 0 .. n - 1,
           NEW e \in Entries
    PROVE  /\ (last + 1) % n \in 0 .. n - 1
           /\ Overwrite(s, last, e) = PutAt(s, ((last + 1) % n) + 1, e)
           /\ ((last + 1) % n) + 1 \in 1 .. n
           /\ Overwrite(s, last, e) \in [1 .. n -> Entries]
<1>1. (last + 1) % n \in 0 .. n - 1
    OBVIOUS
<1>2. Overwrite(s, last, e) = PutAt(s, ((last + 1) % n) + 1, e)
    BY ListLength DEF Overwrite, PutAt
<1>3. ((last + 1) % n) + 1 \in 1 .. n
    BY <1>1
<1>4. PutAt(s, ((last + 1) % n) + 1, e) \in [1 .. n -> Entries]
    BY <1>3 DEF PutAt
<1>5. QED
    BY <1>1, <1>2, <1>3, <1>4

-----------------------------------------------------------------------------
(* Types.                                                                  *)

\* An entry that is counted, or renewed too.
LEMMA EntryCounted ==
    ASSUME NEW e \in Entries, NEW time \in Int
    PROVE  /\ [e EXCEPT !.counter = @ + 1] \in Entries
           /\ [e EXCEPT !.counter = @ + 1].ip_num = e.ip_num
           /\ [e EXCEPT !.counter = @ + 1].timestamp = e.timestamp
           /\ [e EXCEPT !.counter = @ + 1, !.timestamp = time] \in Entries
           /\ [e EXCEPT !.counter = @ + 1, !.timestamp = time].ip_num = e.ip_num
           /\ [e EXCEPT !.counter = @ + 1, !.timestamp = time].timestamp = time
<1>1. e.counter + 1 \in Nat
    BY DEF Entries
<1>2. [e EXCEPT !.counter = @ + 1] \in Entries
    BY <1>1 DEF Entries
<1>3. [e EXCEPT !.counter = @ + 1, !.timestamp = time] \in Entries
    BY <1>1 DEF Entries
<1>4. QED
    BY <1>2, <1>3 DEF Entries

\* The entries of a list keep their addresses when one of them is counted or
\* renewed.
LEMMA CountUpdate ==
    ASSUME NEW n \in Nat, NEW s \in [1 .. n -> Entries], NEW k
    PROVE  /\ CountAt(s, k) \in [1 .. n -> Entries]
           /\ \A i \in 1 .. n :
                /\ CountAt(s, k)[i].ip_num = s[i].ip_num
                /\ CountAt(s, k)[i].timestamp = s[i].timestamp
<1> DEFINE C(e) == [e EXCEPT !.counter = @ + 1]
<1>1. CountAt(s, k) = [i \in 1 .. n |-> IF i = k THEN C(s[i]) ELSE s[i]]
    BY DEF CountAt
<1>2. \A e \in Entries : /\ C(e) \in Entries /\ C(e).ip_num = e.ip_num
                         /\ C(e).timestamp = e.timestamp
  <2>1. 0 \in Int
      OBVIOUS
  <2>2. QED
      BY <2>1, EntryCounted
<1>3. \A i \in 1 .. n : s[i] \in Entries
    OBVIOUS
<1> HIDE DEF C
<1>4. CountAt(s, k) \in [1 .. n -> Entries]
    BY <1>1, <1>2, <1>3
<1>5. ASSUME NEW i \in 1 .. n
      PROVE  /\ CountAt(s, k)[i].ip_num = s[i].ip_num
             /\ CountAt(s, k)[i].timestamp = s[i].timestamp
  <2>1. CountAt(s, k)[i] = IF i = k THEN C(s[i]) ELSE s[i]
      BY <1>1
  <2>2. QED
      BY <1>2, <1>3, <2>1
<1>6. QED
    BY <1>4, <1>5

LEMMA RenewUpdate ==
    ASSUME NEW n \in Nat, NEW s \in [1 .. n -> Entries], NEW k, NEW time \in Int
    PROVE  /\ RenewAt(s, k, time) \in [1 .. n -> Entries]
           /\ \A i \in 1 .. n :
                /\ RenewAt(s, k, time)[i].ip_num = s[i].ip_num
                /\ RenewAt(s, k, time)[i].timestamp = IF i = k THEN time ELSE s[i].timestamp
<1> DEFINE C(e) == [e EXCEPT !.counter = @ + 1, !.timestamp = time]
<1>1. RenewAt(s, k, time) = [i \in 1 .. n |-> IF i = k THEN C(s[i]) ELSE s[i]]
    BY DEF RenewAt
<1>2. \A e \in Entries : /\ C(e) \in Entries /\ C(e).ip_num = e.ip_num
                         /\ C(e).timestamp = time
    BY EntryCounted
<1>3. \A i \in 1 .. n : s[i] \in Entries
    OBVIOUS
<1> HIDE DEF C
<1>4. RenewAt(s, k, time) \in [1 .. n -> Entries]
    BY <1>1, <1>2, <1>3
<1>5. ASSUME NEW i \in 1 .. n
      PROVE  /\ RenewAt(s, k, time)[i].ip_num = s[i].ip_num
             /\ RenewAt(s, k, time)[i].timestamp = IF i = k THEN time ELSE s[i].timestamp
  <2>1. RenewAt(s, k, time)[i] = IF i = k THEN C(s[i]) ELSE s[i]
      BY <1>1
  <2>2. QED
      BY <1>2, <1>3, <2>1
<1>6. QED
    BY <1>4, <1>5

LEMMA ArriveTypes ==
    ASSUME TypeOK, NEW t \in Threads, Arrive(t)
    PROVE  TypeOK'
<1>1. PICK ip \in Clients, gap \in Gaps :
        /\ clock + gap <= MaxClock /\ clock' = clock + gap
        /\ tmp_entry' = [tmp_entry EXCEPT ![t] = Entry(ip, 1, clock + gap)]
    BY DEF Arrive
<1>2. clock' \in 0 .. MaxClock
    BY <1>1, Constants DEF TypeOK
<1>3. Entry(ip, 1, clock + gap) \in Entries
    BY <1>1, <1>2 DEF Entry, Entries
<1>4. QED
    BY <1>1, <1>2, <1>3 DEF Arrive, TypeOK

LEMMA NoEntryInEntries ==
    ASSUME NEW time \in Int
    PROVE  Entry(NoAddress, 0, time) \in Entries
BY DEF Entry, Entries

LEMMA CheckTypes ==
    ASSUME TypeOK, NEW t \in Threads, check_client(t)
    PROVE  TypeOK'
<1> DEFINE Banned == Bsearch(tmp_entry[t].ip_num, blacklist)
           Known == Bsearch(tmp_entry[t].ip_num, backlog)
<1>1. /\ BacklogLen \in Nat \ {0} /\ BlacklistLen \in Nat \ {0}
      /\ backlog \in [1 .. BacklogLen -> Entries]
      /\ blacklist \in [1 .. BlacklistLen -> Entries]
      /\ backlog_last \in 0 .. BacklogLen - 1 /\ blacklist_last \in 0 .. BlacklistLen - 1
      /\ clock \in 0 .. MaxClock /\ clock \in Int
      /\ tmp_entry[t] \in Entries
    BY Constants DEF TypeOK
<1>2. CASE Lock(t) \/ NotBanned(t)
    BY <1>2 DEF Lock, NotBanned, TypeOK
<1>3. ASSUME NEW code \in {"success", "blacklisted", "add_blacklist"}, Return(t, code),
             backlog' \in [1 .. BacklogLen -> Entries],
             blacklist' \in [1 .. BlacklistLen -> Entries],
             backlog_last' \in 0 .. BacklogLen - 1, blacklist_last' \in 0 .. BlacklistLen - 1
      PROVE  TypeOK'
    BY <1>3 DEF Return, TypeOK
<1>4. CASE RefuseClient(t)
  <2> HIDE DEF Banned
  <2>1. blacklist' = RenewAt(blacklist, Banned, clock)
      BY <1>4 DEF RefuseClient, Banned, RenewAt
  <2>2. blacklist' \in [1 .. BlacklistLen -> Entries]
      BY <1>1, <2>1, RenewUpdate
  <2>3. QED
      BY <1>1, <1>3, <1>4, <2>2 DEF RefuseClient
<1>5. CASE ForgetBan(t)
  <2> HIDE DEF Banned
  <2>1. blacklist' \in Qsort([blacklist EXCEPT ![Banned] = Entry(NoAddress, 0, -1)])
      BY <1>5 DEF ForgetBan, Banned
  <2>2. [blacklist EXCEPT ![Banned] = Entry(NoAddress, 0, -1)] \in [1 .. BlacklistLen -> Entries]
    <3>1. Entry(NoAddress, 0, -1) \in Entries
        BY NoEntryInEntries
    <3>2. QED
        BY <1>1, <3>1
  <2>3. blacklist' \in [1 .. BlacklistLen -> Entries]
      BY <1>1, <2>1, <2>2, QsortPermutes
  <2>4. QED
      BY <1>5, <2>3 DEF ForgetBan, TypeOK
<1>6. CASE BanClient(t)
  <2> HIDE DEF Known
  <2>1. /\ backlog' = CountAt(backlog, Known)
        /\ blacklist_last' = (blacklist_last + 1) % BlacklistLen
        /\ blacklist' \in Qsort(Overwrite(blacklist, blacklist_last, tmp_entry[t]))
        /\ Return(t, "add_blacklist") /\ backlog_last' = backlog_last
      BY <1>6 DEF BanClient, Known, CountAt
  <2>2. backlog' \in [1 .. BacklogLen -> Entries]
      BY <1>1, <2>1, CountUpdate
  <2>3. /\ Overwrite(blacklist, blacklist_last, tmp_entry[t]) \in [1 .. BlacklistLen -> Entries]
        /\ blacklist_last' \in 0 .. BlacklistLen - 1
      BY <1>1, <2>1, OverwriteSlot
  <2>4. blacklist' \in [1 .. BlacklistLen -> Entries]
      BY <1>1, <2>1, <2>3, QsortPermutes
  <2>5. QED
      BY <1>1, <1>3, <2>1, <2>2, <2>3, <2>4
<1>7. CASE CountRequest(t)
  <2> HIDE DEF Known
  <2>1. /\ backlog' = RenewAt(backlog, Known, clock)
        /\ Return(t, "success") /\ UNCHANGED <<backlog_last, blacklist, blacklist_last>>
      BY <1>7 DEF CountRequest, Known, RenewAt
  <2>2. backlog' \in [1 .. BacklogLen -> Entries]
      BY <1>1, <2>1, RenewUpdate
  <2>3. QED
      BY <1>1, <1>3, <2>1, <2>2
<1>8. CASE RecordClient(t)
  <2>1. /\ backlog_last' = (backlog_last + 1) % BacklogLen
        /\ backlog' \in Qsort(Overwrite(backlog, backlog_last, tmp_entry[t]))
        /\ Return(t, "success") /\ UNCHANGED <<blacklist, blacklist_last>>
      BY <1>8 DEF RecordClient
  <2>2. /\ Overwrite(backlog, backlog_last, tmp_entry[t]) \in [1 .. BacklogLen -> Entries]
        /\ backlog_last' \in 0 .. BacklogLen - 1
      BY <1>1, <2>1, OverwriteSlot
  <2>3. backlog' \in [1 .. BacklogLen -> Entries]
      BY <1>1, <2>1, <2>2, QsortPermutes
  <2>4. QED
      BY <1>1, <1>3, <2>1, <2>2, <2>3
<1>9. QED
    BY <1>2, <1>4, <1>5, <1>6, <1>7, <1>8 DEF check_client

\* The positions stay inside the lists, whose length does not change, however
\* the clients come and whatever the comparator makes of their addresses.
THEOREM PositionsInBounds == Spec => []TypeOK
<1>1. Init => TypeOK
  <2> SUFFICES ASSUME Init
               PROVE  TypeOK
      OBVIOUS
  <2>1. Entry(NoAddress, 0, 0) \in Entries
      BY NoEntryInEntries
  <2>2. QED
      BY <2>1, Constants DEF Init, TypeOK
<1>2. TypeOK /\ [Next]_vars => TypeOK'
  <2>1. CASE UNCHANGED vars
      BY <2>1 DEF TypeOK, vars
  <2>2. QED
      BY <2>1, ArriveTypes, CheckTypes DEF Next
<1>3. QED
    BY <1>1, <1>2, PTL DEF Spec

-----------------------------------------------------------------------------
(* The order of the lists.                                                 *)

\* Counting and renewing leave a list in order.
LEMMA SameAddresses ==
    ASSUME NEW n \in Nat, NEW s \in [1 .. n -> Entries], NEW r \in [1 .. n -> Entries],
           \A i \in 1 .. n : r[i].ip_num = s[i].ip_num, InOrder(s), Once(s)
    PROVE  InOrder(r) /\ Once(r)
<1>1. DOMAIN s = 1 .. n /\ DOMAIN r = 1 .. n
    OBVIOUS
<1>2. InOrder(r)
    BY <1>1 DEF InOrder
<1>3. Once(r)
    BY <1>1 DEF Once
<1>4. QED
    BY <1>2, <1>3

\* The list r has e instead of entry j of the list s, and is in order.
Replaces(r, s, n, j, e) ==
    /\ r \in [1 .. n -> Entries]
    /\ InOrder(r) /\ Once(r)
    /\ \A k \in 1 .. n : r[k] = e \/ \E i \in 1 .. n : i # j /\ r[k] = s[i]
    /\ \A i \in 1 .. n : i # j => \E k \in 1 .. n : r[k] = s[i]

\* No entry of the list has the address of e.
NewTo(s, n, e) == e.ip_num # NoAddress => \A i \in 1 .. n : s[i].ip_num # e.ip_num

\* So does putting an entry into a slot and sorting again, if its address is
\* on no list entry yet. The entries of the other slots are kept.
LEMMA PutKeepsOrder ==
    ASSUME AddressesNear, NEW n \in Nat, NEW s \in [1 .. n -> Entries], Once(s),
           NEW j \in 1 .. n, NEW e \in Entries,
           NewTo(s, n, e), NEW r \in Qsort(PutAt(s, j, e))
    PROVE  Replaces(r, s, n, j, e)
<1> DEFINE w == PutAt(s, j, e)
<1>1. /\ w \in [1 .. n -> Entries] /\ DOMAIN w = 1 .. n /\ DOMAIN s = 1 .. n
      /\ w[j] = e
      /\ \A i \in 1 .. n : i # j => w[i] = s[i]
    BY DEF PutAt
<1>2. r \in Qsort(w)
    OBVIOUS
<1> HIDE DEF w
<1>3. Once(w)
    BY <1>1 DEF Once, NewTo
<1>4. /\ r \in [1 .. n -> Entries]
      /\ \A k \in 1 .. n : \E i \in 1 .. n : r[k] = w[i]
      /\ \A i \in 1 .. n : \E k \in 1 .. n : r[k] = w[i]
      /\ Once(r)
    BY <1>1, <1>2, <1>3, QsortPermutes
<1>5. InOrder(r)
    BY <1>1, <1>2, QsortOrders
<1>6. \A k \in 1 .. n : r[k] = e \/ \E i \in 1 .. n : i # j /\ r[k] = s[i]
  <2> SUFFICES ASSUME NEW k \in 1 .. n
               PROVE  r[k] = e \/ \E i \in 1 .. n : i # j /\ r[k] = s[i]
      OBVIOUS
  <2>1. PICK i \in 1 .. n : r[k] = w[i]
      BY <1>4
  <2>2. QED
      BY <1>1, <2>1
<1>7. \A i \in 1 .. n : i # j => \E k \in 1 .. n : r[k] = s[i]
    BY <1>1, <1>4
<1>8. QED
    BY <1>4, <1>5, <1>6, <1>7 DEF Replaces

IInv == TypeOK /\ LimiterInv

\* What the invariant says of the lists, for the lemmas above.
LEMMA Lists ==
    ASSUME IInv
    PROVE  /\ BacklogLen \in Nat \ {0} /\ BlacklistLen \in Nat \ {0} /\ MaxTime \in Nat
           /\ backlog \in [1 .. BacklogLen -> Entries] /\ DOMAIN backlog = 1 .. BacklogLen
           /\ blacklist \in [1 .. BlacklistLen -> Entries] /\ DOMAIN blacklist = 1 .. BlacklistLen
           /\ InOrder(backlog) /\ Once(backlog)
           /\ InOrder(blacklist) /\ Once(blacklist)
           /\ backlog_last \in 0 .. BacklogLen - 1 /\ blacklist_last \in 0 .. BlacklistLen - 1
           /\ clock \in Int
BY Constants DEF IInv, TypeOK, LimiterInv

\* The thread that uses the lists is alone with them.
LEMMA Owner ==
    ASSUME IInv, NEW t \in Threads, pc[t] \in {"blacklist", "backlog"}
    PROVE  /\ tmp_entry[t].ip_num \in Clients /\ tmp_entry[t] \in Entries
           /\ verdict[t] = "none"
           /\ \A u \in Threads : u # t => pc[u] \in {"idle", "arrived"}
BY DEF IInv, TypeOK, LimiterInv

\* bsearch() in the lists.
LEMMA BannedAt ==
    ASSUME AddressesNear, IInv, NEW ip \in Clients
    PROVE  /\ Bsearch(ip, blacklist) # 0 =>
                /\ Bsearch(ip, blacklist) \in 1 .. BlacklistLen
                /\ blacklist[Bsearch(ip, blacklist)].ip_num = ip
           /\ Bsearch(ip, blacklist) = 0 =>
                \A k \in 1 .. BlacklistLen : blacklist[k].ip_num # ip
<1>1. BlacklistLen \in Nat /\ blacklist \in [1 .. BlacklistLen -> Entries]
      /\ InOrder(blacklist) /\ Once(blacklist)
    BY Lists
<1>2. IF \E k \in 1 .. BlacklistLen : blacklist[k].ip_num = ip
      THEN Bsearch(ip, blacklist) \in 1 .. BlacklistLen
           /\ blacklist[Bsearch(ip, blacklist)].ip_num = ip
      ELSE Bsearch(ip, blacklist) = 0
    BY <1>1, BsearchFinds
<1>3. QED
    BY <1>2

LEMMA KnownAt ==
    ASSUME AddressesNear, IInv, NEW ip \in Clients
    PROVE  Bsearch(ip, backlog) = 0 => \A k \in 1 .. BacklogLen : backlog[k].ip_num # ip
<1>1. BacklogLen \in Nat /\ backlog \in [1 .. BacklogLen -> Entries]
      /\ InOrder(backlog) /\ Once(backlog)
    BY Lists
<1>2. IF \E k \in 1 .. BacklogLen : backlog[k].ip_num = ip
      THEN Bsearch(ip, backlog) \in 1 .. BacklogLen
           /\ backlog[Bsearch(ip, backlog)].ip_num = ip
      ELSE Bsearch(ip, backlog) = 0
    BY <1>1, BsearchFinds
<1>3. QED
    BY <1>2

\* Returning gives the mutex back; the others are not between the lists.
LEMMA ReturnKeeps ==
    ASSUME IInv, TypeOK', NEW t \in Threads, pc[t] \in {"blacklist", "backlog"},
           NEW code, Return(t, code),
           InOrder(backlog') /\ Once(backlog'), InOrder(blacklist') /\ Once(blacklist')
    PROVE  LimiterInv'
<1>1. \A u \in Threads : u # t => pc[u] \in {"idle", "arrived"}
    BY Owner
<1>2. /\ pc' = [pc EXCEPT ![t] = "idle"] /\ verdict' = [verdict EXCEPT ![t] = code]
      /\ tmp_entry' = tmp_entry
      /\ pc \in [Threads -> {"idle", "arrived", "blacklist", "backlog"}]
      /\ verdict \in [Threads -> {"none", "success", "blacklisted", "add_blacklist"}]
    BY DEF Return, IInv, TypeOK
<1>3. \A u \in Threads : pc'[u] \in {"idle", "arrived"}
    BY <1>1, <1>2
<1>4. \A u \in Threads : pc'[u] # "idle" =>
          u # t /\ pc'[u] = pc[u] /\ verdict'[u] = verdict[u]
    BY <1>2
<1>5. \A u \in Threads : pc'[u] # "idle" =>
          tmp_entry'[u].ip_num \in Clients /\ verdict'[u] = "none"
    BY <1>2, <1>4 DEF IInv, LimiterInv
<1>6. QED
    BY <1>3, <1>5 DEF LimiterInv

\* A ban that is renewed.
LEMMA RefuseClientKeeps ==
    ASSUME IInv, TypeOK', NEW t \in Threads, RefuseClient(t)
    PROVE  /\ LimiterInv'
           /\ \A i \in 1 .. BlacklistLen :
                /\ blacklist'[i].ip_num = blacklist[i].ip_num
                /\ \/ blacklist'[i].timestamp = blacklist[i].timestamp
                   \/ blacklist'[i].timestamp = clock
<1> DEFINE k == Bsearch(tmp_entry[t].ip_num, blacklist)
<1> HIDE DEF k
<1>1. /\ pc[t] = "blacklist" /\ Return(t, "blacklisted") /\ backlog' = backlog
      /\ blacklist' = RenewAt(blacklist, k, clock)
    BY DEF RefuseClient, k, RenewAt
<1>2. /\ blacklist' \in [1 .. BlacklistLen -> Entries]
      /\ \A i \in 1 .. BlacklistLen :
            /\ blacklist'[i].ip_num = blacklist[i].ip_num
            /\ blacklist'[i].timestamp = IF i = k THEN clock ELSE blacklist[i].timestamp
  <2>1. BlacklistLen \in Nat /\ blacklist \in [1 .. BlacklistLen -> Entries] /\ clock \in Int
      BY Lists
  <2>2. QED
      BY <1>1, <2>1, RenewUpdate
<1>3. InOrder(blacklist') /\ Once(blacklist')
    BY <1>2, Lists, SameAddresses, ZenonT(40)
<1>4. InOrder(backlog') /\ Once(backlog')
    BY <1>1, Lists
<1>5. LimiterInv'
    BY <1>1, <1>3, <1>4, ReturnKeeps
<1>6. QED
    BY <1>2, <1>5

\* The end of a ban: the client is on the blacklist no more, and all the others
\* are still there.
LEMMA ForgetBanKeeps ==
    ASSUME AddressesNear, IInv, TypeOK', NEW t \in Threads, ForgetBan(t)
    PROVE  /\ LimiterInv'
           /\ \A i \in 1 .. BlacklistLen : blacklist[i].ip_num = tmp_entry[t].ip_num =>
                  clock - blacklist[i].timestamp > MaxTime
           /\ \A i \in 1 .. BlacklistLen : blacklist[i].ip_num # tmp_entry[t].ip_num =>
                  \E k \in 1 .. BlacklistLen : blacklist'[k] = blacklist[i]
<1> DEFINE ip == tmp_entry[t].ip_num
           b == Bsearch(ip, blacklist)
           free == Entry(NoAddress, 0, -1)
<1>1. ip \in Clients /\ \A u \in Threads : u # t => pc[u] \in {"idle", "arrived"}
    BY Owner DEF ForgetBan
<1>2. b \in 1 .. BlacklistLen /\ blacklist[b].ip_num = ip
    BY <1>1, BannedAt DEF ForgetBan
<1>3. /\ blacklist' \in Qsort([blacklist EXCEPT ![b] = free])
      /\ pc' = [pc EXCEPT ![t] = "backlog"] /\ pc[t] = "blacklist"
      /\ UNCHANGED <<sec_lock, backlog, tmp_entry, verdict>>
      /\ Expired(blacklist[b])
    BY DEF ForgetBan
<1> HIDE DEF b
<1>4. \A i \in 1 .. BlacklistLen : blacklist[i].ip_num = ip => i = b
  <2>1. Once(blacklist) /\ DOMAIN blacklist = 1 .. BlacklistLen
      BY Lists
  <2>2. ip # NoAddress
      BY <1>1, Constants DEF NoAddress
  <2>3. QED
      BY <1>2, <2>1, <2>2 DEF Once
<1>5. free \in Entries /\ free.ip_num = NoAddress
  <2>1. -1 \in Int
      OBVIOUS
  <2>2. QED
      BY <2>1, NoEntryInEntries DEF Entry
<1> HIDE DEF free
<1>6. /\ blacklist' \in [1 .. BlacklistLen -> Entries]
      /\ InOrder(blacklist') /\ Once(blacklist')
      /\ \A k \in 1 .. BlacklistLen :
            blacklist'[k] = free \/ \E i \in 1 .. BlacklistLen : i # b /\ blacklist'[k] = blacklist[i]
      /\ \A i \in 1 .. BlacklistLen : i # b =>
            \E k \in 1 .. BlacklistLen : blacklist'[k] = blacklist[i]
  <2>1. /\ BlacklistLen \in Nat /\ blacklist \in [1 .. BlacklistLen -> Entries]
        /\ Once(blacklist)
      BY Lists
  <2>2. NewTo(blacklist, BlacklistLen, free)
      BY <1>5 DEF NewTo
  <2>3. blacklist' \in Qsort(PutAt(blacklist, b, free)) /\ b \in 1 .. BlacklistLen
      BY <1>2, <1>3 DEF PutAt
  <2>4. free \in Entries
      BY <1>5
  <2>5. Replaces(blacklist', blacklist, BlacklistLen, b, free)
      BY <2>1, <2>2, <2>3, <2>4, PutKeepsOrder
  <2>6. QED
      BY <2>5 DEF Replaces
<1>7. \A k \in 1 .. BlacklistLen : blacklist'[k].ip_num # ip
  <2>1. ip # NoAddress
      BY <1>1, Constants DEF NoAddress
  <2>2. QED
      BY <1>4, <1>5, <1>6, <2>1
<1>8. LimiterInv'
  <2>1. pc \in [Threads -> {"idle", "arrived", "blacklist", "backlog"}] /\ sec_lock = t
      BY <1>3 DEF IInv, TypeOK, LimiterInv
  <2>2. \A u \in Threads : pc'[u] \in {"blacklist", "backlog"} => u = t
      BY <1>1, <1>3, <2>1
  <2>3. \A u \in Threads : pc'[u] # "idle" => pc[u] # "idle"
      BY <1>3, <2>1
  <2>4. \A u \in Threads : pc'[u] # "idle" =>
            tmp_entry'[u].ip_num \in Clients /\ verdict'[u] = "none"
      BY <1>3, <2>3 DEF IInv, LimiterInv
  <2>5. \A u \in Threads : pc'[u] = "backlog" =>
            \A k \in DOMAIN blacklist' : blacklist'[k].ip_num # tmp_entry'[u].ip_num
      BY <1>3, <1>6, <1>7, <2>2
  <2>6. InOrder(backlog') /\ Once(backlog')
      BY <1>3, Lists
  <2>7. QED
      BY <1>3, <1>6, <2>1, <2>2, <2>4, <2>5, <2>6 DEF LimiterInv
<1>9. \A i \in 1 .. BlacklistLen : blacklist[i].ip_num = ip =>
          clock - blacklist[i].timestamp > MaxTime
    BY <1>3, <1>4 DEF Expired
<1>10. \A i \in 1 .. BlacklistLen : blacklist[i].ip_num # ip =>
          \E k \in 1 .. BlacklistLen : blacklist'[k] = blacklist[i]
    BY <1>2, <1>6
<1>11. QED
    BY <1>8, <1>9, <1>10

\* A new ban, of a client that is not on the blacklist: the other slots keep
\* what they have.
LEMMA BanClientKeeps ==
    ASSUME AddressesNear, IInv, TypeOK', NEW t \in Threads, BanClient(t)
    PROVE  /\ LimiterInv'
           /\ verdict[t] = "none" /\ verdict'[t] = "add_blacklist"
           /\ \E j \in 1 .. BlacklistLen : \A i \in 1 .. BlacklistLen : i # j =>
                  \E k \in 1 .. BlacklistLen : blacklist'[k] = blacklist[i]
<1> DEFINE j == ((blacklist_last + 1) % BlacklistLen) + 1
           known == Bsearch(tmp_entry[t].ip_num, backlog)
<1>1. /\ tmp_entry[t].ip_num \in Clients /\ tmp_entry[t] \in Entries
      /\ pc[t] = "backlog" /\ verdict[t] = "none"
    BY Owner DEF BanClient
<1>2. /\ BlacklistLen \in Nat \ {0} /\ BacklogLen \in Nat \ {0}
      /\ blacklist \in [1 .. BlacklistLen -> Entries]
      /\ backlog \in [1 .. BacklogLen -> Entries]
      /\ blacklist_last \in 0 .. BlacklistLen - 1
      /\ InOrder(backlog) /\ Once(backlog) /\ Once(blacklist)
    BY Lists
<1>3. j \in 1 .. BlacklistLen
    BY <1>2
<1>4. Overwrite(blacklist, blacklist_last, tmp_entry[t]) = PutAt(blacklist, j, tmp_entry[t])
    BY <1>1, <1>2, OverwriteSlot
<1> HIDE DEF j, known
<1>5. /\ backlog' = CountAt(backlog, known)
      /\ Return(t, "add_blacklist")
      /\ blacklist' \in Qsort(PutAt(blacklist, j, tmp_entry[t]))
    BY <1>4 DEF BanClient, CountAt, known
<1>6. \A i \in 1 .. BlacklistLen : blacklist[i].ip_num # tmp_entry[t].ip_num
    BY <1>1, Lists DEF IInv, LimiterInv
<1>7. /\ InOrder(blacklist') /\ Once(blacklist')
      /\ \A i \in 1 .. BlacklistLen : i # j =>
            \E k \in 1 .. BlacklistLen : blacklist'[k] = blacklist[i]
  <2>1. /\ BlacklistLen \in Nat /\ blacklist \in [1 .. BlacklistLen -> Entries]
        /\ Once(blacklist) /\ j \in 1 .. BlacklistLen /\ tmp_entry[t] \in Entries
      BY <1>1, <1>2, <1>3
  <2>2. NewTo(blacklist, BlacklistLen, tmp_entry[t])
      BY <1>6 DEF NewTo
  <2>3. blacklist' \in Qsort(PutAt(blacklist, j, tmp_entry[t]))
      BY <1>5
  <2>4. Replaces(blacklist', blacklist, BlacklistLen, j, tmp_entry[t])
      BY <2>1, <2>2, <2>3, PutKeepsOrder
  <2>5. QED
      BY <2>4 DEF Replaces
<1>8. InOrder(backlog') /\ Once(backlog')
  <2>1. /\ CountAt(backlog, known) \in [1 .. BacklogLen -> Entries]
        /\ \A i \in 1 .. BacklogLen : CountAt(backlog, known)[i].ip_num = backlog[i].ip_num
      BY <1>2, CountUpdate
  <2>2. QED
      BY <1>2, <1>5, <2>1, SameAddresses
<1>9. LimiterInv'
    BY <1>1, <1>5, <1>7, <1>8, ReturnKeeps
<1>10. verdict'[t] = "add_blacklist"
    BY <1>5 DEF Return, IInv, TypeOK
<1>11. QED
    BY <1>1, <1>3, <1>7, <1>9, <1>10

LEMMA CountRequestKeeps ==
    ASSUME IInv, TypeOK', NEW t \in Threads, CountRequest(t)
    PROVE  LimiterInv'
<1> DEFINE known == Bsearch(tmp_entry[t].ip_num, backlog)
<1> HIDE DEF known
<1>1. /\ pc[t] = "backlog" /\ Return(t, "success") /\ blacklist' = blacklist
      /\ backlog' = RenewAt(backlog, known, clock)
    BY DEF CountRequest, RenewAt, known
<1>2. /\ BacklogLen \in Nat /\ backlog \in [1 .. BacklogLen -> Entries] /\ clock \in Int
      /\ InOrder(backlog) /\ Once(backlog)
    BY Lists
<1>3. /\ backlog' \in [1 .. BacklogLen -> Entries]
      /\ \A i \in 1 .. BacklogLen : backlog'[i].ip_num = backlog[i].ip_num
    BY <1>1, <1>2, RenewUpdate
<1>4. InOrder(backlog') /\ Once(backlog')
    BY <1>2, <1>3, SameAddresses
<1>5. InOrder(blacklist') /\ Once(blacklist')
    BY <1>1, Lists
<1>6. QED
    BY <1>1, <1>4, <1>5, ReturnKeeps

\* A client that is not known takes the place of another one.
LEMMA RecordClientKeeps ==
    ASSUME AddressesNear, IInv, TypeOK', NEW t \in Threads, RecordClient(t)
    PROVE  LimiterInv'
<1> DEFINE j == ((backlog_last + 1) % BacklogLen) + 1
<1>1. /\ tmp_entry[t].ip_num \in Clients /\ tmp_entry[t] \in Entries
      /\ pc[t] = "backlog"
    BY Owner DEF RecordClient
<1>2. /\ BacklogLen \in Nat \ {0}
      /\ backlog \in [1 .. BacklogLen -> Entries]
      /\ backlog_last \in 0 .. BacklogLen - 1
      /\ Once(backlog)
    BY Lists
<1>3. j \in 1 .. BacklogLen
    BY <1>2
<1>4. Overwrite(backlog, backlog_last, tmp_entry[t]) = PutAt(backlog, j, tmp_entry[t])
    BY <1>1, <1>2, OverwriteSlot
<1> HIDE DEF j
<1>5. /\ Return(t, "success") /\ blacklist' = blacklist
      /\ backlog' \in Qsort(PutAt(backlog, j, tmp_entry[t]))
    BY <1>4 DEF RecordClient
<1>6. \A i \in 1 .. BacklogLen : backlog[i].ip_num # tmp_entry[t].ip_num
    BY <1>1, KnownAt DEF RecordClient
<1>7. InOrder(backlog') /\ Once(backlog')
  <2>1. /\ BacklogLen \in Nat /\ backlog \in [1 .. BacklogLen -> Entries]
        /\ Once(backlog) /\ j \in 1 .. BacklogLen /\ tmp_entry[t] \in Entries
      BY <1>1, <1>2, <1>3
  <2>2. NewTo(backlog, BacklogLen, tmp_entry[t])
      BY <1>6 DEF NewTo
  <2>3. backlog' \in Qsort(PutAt(backlog, j, tmp_entry[t]))
      BY <1>5
  <2>4. Replaces(backlog', backlog, BacklogLen, j, tmp_entry[t])
      BY <2>1, <2>2, <2>3, PutKeepsOrder
  <2>5. QED
      BY <2>4 DEF Replaces
<1>8. InOrder(blacklist') /\ Once(blacklist')
    BY <1>5, Lists
<1>9. QED
    BY <1>1, <1>5, <1>7, <1>8, ReturnKeeps

LEMMA NotBannedKeeps ==
    ASSUME AddressesNear, IInv, NEW t \in Threads, NotBanned(t)
    PROVE  /\ LimiterInv'
           /\ \A i \in 1 .. BlacklistLen : blacklist[i].ip_num # tmp_entry[t].ip_num
<1>1. /\ tmp_entry[t].ip_num \in Clients
      /\ \A u \in Threads : u # t => pc[u] \in {"idle", "arrived"}
    BY Owner DEF NotBanned
<1>2. /\ pc[t] = "blacklist" /\ pc' = [pc EXCEPT ![t] = "backlog"]
      /\ UNCHANGED <<sec_lock, backlog, blacklist, tmp_entry, verdict>>
      /\ pc \in [Threads -> {"idle", "arrived", "blacklist", "backlog"}]
    BY DEF NotBanned, IInv, TypeOK
<1>3. \A i \in 1 .. BlacklistLen : blacklist[i].ip_num # tmp_entry[t].ip_num
    BY <1>1, BannedAt DEF NotBanned
<1>4. \A u \in Threads : pc'[u] \in {"blacklist", "backlog"} => u = t
    BY <1>1, <1>2
<1>5. sec_lock' = t
    BY <1>2 DEF IInv, LimiterInv
<1>6. \A u \in Threads : pc'[u] # "idle" => pc[u] # "idle"
    BY <1>2
<1>7. \A u \in Threads : pc'[u] # "idle" =>
          tmp_entry'[u].ip_num \in Clients /\ verdict'[u] = "none"
    BY <1>2, <1>6 DEF IInv, LimiterInv
<1>8. DOMAIN blacklist = 1 .. BlacklistLen
    BY Lists
<1>9. \A s \in {backlog', blacklist'} : InOrder(s) /\ Once(s)
    BY <1>2, Lists
<1>10. \A u \in Threads : pc'[u] = "backlog" =>
          \A k \in DOMAIN blacklist' : blacklist'[k].ip_num # tmp_entry'[u].ip_num
    BY <1>2, <1>3, <1>4, <1>8
<1>11. LimiterInv'
    BY <1>4, <1>5, <1>7, <1>9, <1>10 DEF LimiterInv
<1>12. QED
    BY <1>3, <1>11

LEMMA LockKeeps ==
    ASSUME IInv, NEW t \in Threads, Lock(t)
    PROVE  LimiterInv'
<1>1. /\ pc' = [pc EXCEPT ![t] = "blacklist"] /\ pc[t] = "arrived"
      /\ sec_lock = NoThread /\ sec_lock' = t
      /\ UNCHANGED <<backlog, blacklist, tmp_entry, verdict>>
      /\ pc \in [Threads -> {"idle", "arrived", "blacklist", "backlog"}]
    BY DEF Lock, IInv, TypeOK
<1>2. \A u \in Threads : pc[u] \in {"idle", "arrived"}
    BY <1>1, Constants DEF IInv, LimiterInv
<1>3. \A u \in Threads : /\ pc'[u] \in {"blacklist", "backlog"} => u = t
                         /\ pc'[u] # "backlog"
                         /\ pc'[u] # "idle" => pc[u] # "idle"
    BY <1>1, <1>2
<1>4. \A u \in Threads : pc'[u] # "idle" =>
          tmp_entry'[u].ip_num \in Clients /\ verdict'[u] = "none"
    BY <1>1, <1>3 DEF IInv, LimiterInv
<1>5. \A s \in {backlog', blacklist'} : InOrder(s) /\ Once(s)
    BY <1>1, Lists
<1>6. QED
    BY <1>1, <1>3, <1>4, <1>5 DEF LimiterInv

LEMMA ArriveKeeps ==
    ASSUME IInv, NEW t \in Threads, Arrive(t)
    PROVE  LimiterInv'
<1>1. PICK ip \in Clients, gap \in Gaps :
        tmp_entry' = [tmp_entry EXCEPT ![t] = Entry(ip, 1, clock + gap)]
    BY DEF Arrive
<1>2. /\ pc' = [pc EXCEPT ![t] = "arrived"] /\ verdict' = [verdict EXCEPT ![t] = "none"]
      /\ UNCHANGED <<sec_lock, backlog, blacklist>>
      /\ pc \in [Threads -> {"idle", "arrived", "blacklist", "backlog"}]
      /\ tmp_entry \in [Threads -> Entries]
      /\ verdict \in [Threads -> {"none", "success", "blacklisted", "add_blacklist"}]
    BY DEF Arrive, IInv, TypeOK
<1>3. tmp_entry'[t].ip_num = ip /\ verdict'[t] = "none" /\ pc'[t] = "arrived"
    BY <1>1, <1>2 DEF Entry
<1>4. \A u \in Threads : u # t => /\ pc'[u] = pc[u] /\ verdict'[u] = verdict[u]
                                  /\ tmp_entry'[u] = tmp_entry[u]
    BY <1>1, <1>2
<1>5. \A u \in Threads : pc'[u] # "idle" =>
          tmp_entry'[u].ip_num \in Clients /\ verdict'[u] = "none"
    BY <1>3, <1>4 DEF IInv, LimiterInv
<1>6. \A u \in Threads : pc'[u] \in {"blacklist", "backlog"} => u # t /\ sec_lock' = u
    BY <1>2, <1>3, <1>4 DEF IInv, LimiterInv
<1>7. \A u \in Threads : pc'[u] = "backlog" =>
          \A k \in DOMAIN blacklist' : blacklist'[k].ip_num # tmp_entry'[u].ip_num
    BY <1>2, <1>3, <1>4 DEF IInv, LimiterInv
<1>8. \A s \in {backlog', blacklist'} : InOrder(s) /\ Once(s)
    BY <1>2, Lists
<1>9. QED
    BY <1>5, <1>6, <1>7, <1>8 DEF LimiterInv

-----------------------------------------------------------------------------
(* The theorems.                                                           *)

LEMMA StepKeeps ==
    ASSUME AddressesNear, IInv, [Next]_vars
    PROVE  IInv'
<1>1. TypeOK'
    BY ArriveTypes, CheckTypes DEF IInv, Next, TypeOK, vars
<1>2. LimiterInv'
  <2>1. CASE UNCHANGED vars
      BY <2>1 DEF IInv, LimiterInv, vars
  <2>2. CASE Next
    <3>1. PICK t \in Threads : Arrive(t) \/ check_client(t)
        BY <2>2 DEF Next
    <3>2. QED
        BY <1>1, <3>1, ArriveKeeps, LockKeeps, RefuseClientKeeps, ForgetBanKeeps, NotBannedKeeps,
           BanClientKeeps, CountRequestKeeps, RecordClientKeeps DEF check_client
  <2>3. QED
      BY <2>1, <2>2
<1>3. QED
    BY <1>1, <1>2 DEF IInv

THEOREM ListsInOrder ==
    ASSUME AddressesNear
    PROVE  Spec => []IInv
<1>1. Init => IInv
  <2> SUFFICES ASSUME Init
               PROVE  IInv
      OBVIOUS
  <2>1. /\ backlog = [i \in 1 .. BacklogLen |-> Entry(NoAddress, 0, 0)]
        /\ blacklist = [i \in 1 .. BlacklistLen |-> Entry(NoAddress, 0, 0)]
        /\ \A t \in Threads : pc[t] = "idle"
      BY DEF Init
  <2>2. \A s \in {backlog, blacklist} : \A i \in DOMAIN s : s[i].ip_num = NoAddress
    <3>1. Entry(NoAddress, 0, 0).ip_num = NoAddress
        BY DEF Entry
    <3>2. QED
        BY <2>1, <3>1
  <2>3. \A s \in {backlog, blacklist} : InOrder(s) /\ Once(s)
      BY <2>2 DEF InOrder, Once, NoAddress
  <2>4. LimiterInv
      BY <2>1, <2>3 DEF LimiterInv
  <2>5. TypeOK
    <3>1. Entry(NoAddress, 0, 0) \in Entries
        BY NoEntryInEntries
    <3>2. QED
        BY <3>1, Constants DEF Init, TypeOK
  <2>6. QED
      BY <2>4, <2>5 DEF IInv
<1>2. IInv /\ [Next]_vars => IInv'
    BY StepKeeps
<1>3. QED
    BY <1>1, <1>2, PTL DEF Spec

\* Every client on a list is found by bsearch(), and is there once, whatever
\* was overwritten, forgotten and sorted before.
THEOREM ClientsFound ==
    ASSUME AddressesNear
    PROVE  Spec => []Searchable
<1>1. ASSUME IInv
      PROVE  Searchable
  <2>1. ASSUME NEW n \in Nat, NEW s \in [1 .. n -> Entries], InOrder(s), Once(s),
               NEW k \in 1 .. n, s[k].ip_num # NoAddress
        PROVE  Bsearch(s[k].ip_num, s) = k
    <3> DEFINE ip == s[k].ip_num
    <3>1. ip \in Clients
        BY <2>1 DEF Entries
    <3>2. \E j \in 1 .. n : s[j].ip_num = ip
        OBVIOUS
    <3> HIDE DEF ip
    <3>3. Bsearch(ip, s) \in 1 .. n /\ s[Bsearch(ip, s)].ip_num = ip
        BY <2>1, <3>1, <3>2, BsearchFinds
    <3>4. QED
        BY <2>1, <3>3 DEF Once, ip
  <2>2. /\ BacklogLen \in Nat /\ BlacklistLen \in Nat
        /\ backlog \in [1 .. BacklogLen -> Entries] /\ DOMAIN backlog = 1 .. BacklogLen
        /\ blacklist \in [1 .. BlacklistLen -> Entries] /\ DOMAIN blacklist = 1 .. BlacklistLen
        /\ InOrder(backlog) /\ Once(backlog)
        /\ InOrder(blacklist) /\ Once(blacklist)
      BY <1>1, Lists
  <2>3. \A k \in DOMAIN backlog :
            backlog[k].ip_num # NoAddress => Bsearch(backlog[k].ip_num, backlog) = k
      BY <2>1, <2>2
  <2>4. \A k \in DOMAIN blacklist :
            blacklist[k].ip_num # NoAddress => Bsearch(blacklist[k].ip_num, blacklist) = k
      BY <2>1, <2>2
  <2>5. QED
      BY <2>3, <2>4 DEF Searchable
<1>2. QED
    BY <1>1, ListsInOrder, PTL

\* A client that is on the blacklist, and whose ban is not over, does not get
\* past it.
THEOREM BannedStaysOut ==
    ASSUME AddressesNear
    PROVE  Spec => BannedRefused
<1> DEFINE Past(t) == pc[t] = "blacklist" /\ pc'[t] = "backlog"
<1>1. ASSUME IInv, [Next]_vars, NEW t \in Threads, Past(t)
      PROVE  ~LiveBan(tmp_entry[t].ip_num)
  <2>1. PICK u \in Threads : Arrive(u) \/ check_client(u)
      BY <1>1 DEF Next, vars
  <2>2. pc \in [Threads -> {"idle", "arrived", "blacklist", "backlog"}]
      BY <1>1 DEF IInv, TypeOK
  <2>3. ForgetBan(t) \/ NotBanned(t)
      BY <1>1, <2>1, <2>2 DEF Arrive, check_client, Lock, RefuseClient, ForgetBan, NotBanned,
                          BanClient, CountRequest, RecordClient, Return
  <2>4. /\ DOMAIN blacklist = 1 .. BlacklistLen /\ clock \in Int /\ MaxTime \in Nat
        /\ \A i \in 1 .. BlacklistLen : blacklist[i].timestamp \in Int
      BY <1>1, Lists DEF Entries
  <2>5. CASE NotBanned(t)
      BY <1>1, <2>4, <2>5, NotBannedKeeps DEF LiveBan
  <2>6. CASE ForgetBan(t)
    <3>1. TypeOK'
        BY <1>1, ArriveTypes, CheckTypes DEF IInv, Next, TypeOK, vars
    <3>2. \A i \in 1 .. BlacklistLen : blacklist[i].ip_num = tmp_entry[t].ip_num =>
              clock - blacklist[i].timestamp > MaxTime
        BY <1>1, <2>6, <3>1, ForgetBanKeeps
    <3>3. QED
        BY <2>4, <3>2 DEF LiveBan
  <2>7. QED
      BY <2>3, <2>5, <2>6
<1>2. IInv /\ [Next]_vars
        => [ \A t \in Threads :
                pc[t] = "blacklist" /\ pc'[t] = "backlog" => ~LiveBan(tmp_entry[t].ip_num) ]_vars
    BY <1>1
<1>3. QED
    BY <1>2, ListsInOrder, PTL DEF Spec, BannedRefused

\* A ban that is not over is lost to a new ban only, and alone.
LEMMA LostAlone ==
    ASSUME AddressesNear, IInv, [Next]_vars, clock' = clock
    PROVE  \A ip \in Clients : Lost(ip) =>
                /\ \E t \in Threads : verdict[t] = "none" /\ verdict'[t] = "add_blacklist"
                /\ \A other \in Clients : Lost(other) => other = ip
<1>1. IInv'
    BY StepKeeps
<1>2. /\ DOMAIN blacklist = 1 .. BlacklistLen /\ clock \in Int /\ MaxTime \in Nat
      /\ DOMAIN blacklist' = 1 .. BlacklistLen
      /\ \A i \in 1 .. BlacklistLen : blacklist[i].timestamp \in Int
      /\ TypeOK'
    BY <1>1, Lists DEF IInv, TypeOK, Entries
<1>3. ASSUME NEW ip, Lost(ip)
      PROVE  /\ \E i \in 1 .. BlacklistLen :
                    blacklist[i].ip_num = ip /\ clock - blacklist[i].timestamp <= MaxTime
             /\ \A k \in 1 .. BlacklistLen :
                    ~(blacklist'[k].ip_num = ip /\ clock - blacklist'[k].timestamp <= MaxTime)
    BY <1>2, <1>3 DEF Lost, LiveBan
<1>4. CASE UNCHANGED blacklist
    BY <1>3, <1>4
<1>5. ASSUME NEW t \in Threads, RefuseClient(t), NEW ip
      PROVE  ~Lost(ip)
  <2>1. \A i \in 1 .. BlacklistLen :
            /\ blacklist'[i].ip_num = blacklist[i].ip_num
            /\ \/ blacklist'[i].timestamp = blacklist[i].timestamp
               \/ blacklist'[i].timestamp = clock
      BY <1>2, <1>5, RefuseClientKeeps
  <2>2. QED
      BY <1>2, <1>3, <2>1
<1>6. ASSUME NEW t \in Threads, ForgetBan(t), NEW ip
      PROVE  ~Lost(ip)
  <2>1. /\ \A i \in 1 .. BlacklistLen : blacklist[i].ip_num = tmp_entry[t].ip_num =>
                ~(clock - blacklist[i].timestamp <= MaxTime)
        /\ \A i \in 1 .. BlacklistLen : blacklist[i].ip_num # tmp_entry[t].ip_num =>
                \E k \in 1 .. BlacklistLen : blacklist'[k] = blacklist[i]
      BY <1>2, <1>6, ForgetBanKeeps
  <2>2. QED
      BY <1>3, <2>1
<1>7. ASSUME NEW t \in Threads, BanClient(t), NEW ip \in Clients, Lost(ip)
      PROVE  /\ verdict[t] = "none" /\ verdict'[t] = "add_blacklist"
             /\ \A other \in Clients : Lost(other) => other = ip
  <2>1. PICK j \in 1 .. BlacklistLen : \A i \in 1 .. BlacklistLen : i # j =>
            \E k \in 1 .. BlacklistLen : blacklist'[k] = blacklist[i]
      BY <1>2, <1>7, BanClientKeeps
  <2>2. ASSUME NEW other, Lost(other)
        PROVE  blacklist[j].ip_num = other
      BY <1>3, <2>1, <2>2
  <2>3. QED
      BY <1>2, <1>7, <2>2, BanClientKeeps
<1>8. CASE Next
  <2>1. PICK t \in Threads : Arrive(t) \/ check_client(t)
      BY <1>8 DEF Next
  <2>2. \/ UNCHANGED blacklist
        \/ RefuseClient(t) \/ ForgetBan(t) \/ BanClient(t)
      BY <2>1 DEF Arrive, check_client, Lock, NotBanned, CountRequest, RecordClient
  <2>3. QED
      BY <1>4, <1>5, <1>6, <1>7, <2>2
<1>9. QED
    BY <1>4, <1>8 DEF vars

THEOREM BansStay ==
    ASSUME AddressesNear
    PROVE  Spec => BanStays
<1>1. IInv /\ [Next]_vars
        => [ clock' = clock =>
                \A ip \in Clients : Lost(ip) =>
                    /\ \E t \in Threads : verdict[t] = "none" /\ verdict'[t] = "add_blacklist"
                    /\ \A other \in Clients : Lost(other) => other = ip ]_vars
    BY LostAlone
<1>2. QED
    BY <1>1, ListsInOrder, PTL DEF Spec, BanStays
=============================================================================
