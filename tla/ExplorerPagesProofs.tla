-------------------------- MODULE ExplorerPagesProofs --------------------------
(***************************************************************************)
(* The explorer's pages, for any chain, addresses, settings, claims and    *)
(* failures.                                                               *)
(***************************************************************************)
EXTENDS ExplorerPages, SumLemmas

-----------------------------------------------------------------------------
(* What the queries of update_richlist return.                             *)

(* s orders the k largest addresses of a set.                              *)
IsOrder(s, k, amounts, from) ==
    /\ s \in Seq(from) /\ Len(s) = k
    /\ \A i, j \in 1..k : i < j => s[i] # s[j] /\ amounts[s[j]] <= amounts[s[i]]
    /\ \A i \in 1..k, a \in from \ Range(s) : amounts[a] <= amounts[s[i]]

Largest(S, amounts) == {a \in S : \A b \in S : amounts[b] <= amounts[a]}

LEMMA OrderGrows ==
    ASSUME NEW from, NEW amounts, \A a \in from : amounts[a] \in Nat,
           NEW k \in Nat, NEW s, IsOrder(s, k, amounts, from),
           NEW a \in Largest(from \ Range(s), amounts)
    PROVE  IsOrder(Append(s, a), k + 1, amounts, from)
<1> DEFINE t == Append(s, a)
<1>1. /\ s \in Seq(from) /\ Len(s) = k /\ a \in from /\ a \notin Range(s)
      /\ \A b \in from \ Range(s) : amounts[b] <= amounts[a]
  BY DEF IsOrder, Largest
<1>2. /\ t \in Seq(from) /\ Len(t) = k + 1 /\ t[k + 1] = a
      /\ \A i \in 1..k : t[i] = s[i] /\ s[i] \in from /\ s[i] \in Range(s)
  BY <1>1 DEF Range
<1>3. Range(t) = Range(s) \cup {a}
  <2>1. DOMAIN t = 1..(k + 1) /\ DOMAIN s = 1..k
    BY <1>1, <1>2
  <2> HIDE DEF t
  <2> QED  BY <1>2, <2>1 DEF Range
<1> HIDE DEF t
<1>4. ASSUME NEW i \in 1..(k + 1), NEW j \in 1..(k + 1), i < j
      PROVE  t[i] # t[j] /\ amounts[t[j]] <= amounts[t[i]]
  <2>1. i \in 1..k
    BY <1>4
  <2>2. CASE j \in 1..k
    BY <1>2, <1>4, <2>1, <2>2 DEF IsOrder
  <2>3. CASE j = k + 1
    BY <1>1, <1>2, <2>1, <2>3 DEF IsOrder
  <2> QED  BY <1>4, <2>2, <2>3
<1>5. ASSUME NEW i \in 1..(k + 1), NEW b \in from \ Range(t)
      PROVE  amounts[b] <= amounts[t[i]]
  <2>1. b \in from \ Range(s)
    BY <1>3
  <2>2. CASE i \in 1..k
    BY <1>2, <2>1, <2>2 DEF IsOrder
  <2>3. CASE i = k + 1
    BY <1>1, <1>2, <2>1, <2>3
  <2> QED  BY <2>2, <2>3
<1> QED  BY <1>2, <1>4, <1>5 DEF IsOrder, t

SizeOf(from, limit) == IF Cardinality(from) < limit THEN Cardinality(from) ELSE limit

(* The recursion of Sorted.                                                *)
LEMMA SortedIsOrder ==
    ASSUME NEW from, IsFiniteSet(from), NEW limit \in Nat,
           NEW amounts, \A a \in from : amounts[a] \in Nat,
           NEW s \in Sorted(amounts, from, limit)
    PROVE  IsOrder(s, SizeOf(from, limit), amounts, from)
<1> DEFINE n == SizeOf(from, limit)
           Longer(q) == {Append(q, a) : a \in Largest(from \ Range(q), amounts)}
           More(T) == UNION {Longer(q) : q \in T}
           IsOrders(f) == f = [i \in 0..n |-> IF i = 0 THEN {<<>>} ELSE More(f[i - 1])]
           V == SUBSET Seq(from)
           step == [i \in 1..n |-> [T \in V |-> More(T)]]
           none == {<<>>}
           orders == CHOOSE f : IsOrders(f)
<1>0. ASSUME NEW T, NEW t \in More(T)
      PROVE  \E q \in T : t \in Longer(q)
  <2> HIDE DEF Longer
  <2> QED  OBVIOUS
<1>1. n \in Nat
  BY FS_CardinalityType DEF SizeOf
<1>2. ASSUME NEW T \in V PROVE More(T) \in V
  <2>1. ASSUME NEW q \in T, NEW t \in Longer(q)
        PROVE  t \in Seq(from)
    BY DEF Largest
  <2>2. ASSUME NEW t \in More(T) PROVE t \in Seq(from)
    <3>1. PICK q \in T : t \in Longer(q)
      BY <1>0, <2>2
    <3> QED  BY <2>1, <3>1
  <2> QED  BY <2>2
<1>3. step \in [1..n -> [V -> V]]
  <2> HIDE DEF n, V, More
  <2> QED  BY <1>2
<1>4. none \in V
  OBVIOUS
<1>5. PICK f \in [0..n -> V] :
          f[0] = none /\ \A i \in 1..n : f[i] = step[i][f[i - 1]]
  <2> HIDE DEF n, V, step, none
  <2>1. PICK f \in [0..n -> V] : IteratesFromZero(f, n, none, step)
    BY <1>1, <1>3, <1>4, RecursionFromZero
  <2> QED  BY <2>1 DEF IteratesFromZero
<1>6. IsOrders(f)
  <2>1. ASSUME NEW i \in 0..n PROVE f[i] = IF i = 0 THEN {<<>>} ELSE More(f[i - 1])
    <3>1. CASE i = 0
      BY <1>5, <3>1
    <3>2. CASE i # 0
      <4>1. i \in 1..n /\ i - 1 \in 0..n
        BY <1>1, <3>2
      <4>2. f[i - 1] \in V
        BY <1>5, <4>1
      <4>3. step[i][f[i - 1]] = More(f[i - 1])
        <5> HIDE DEF n, V, More
        <5> QED  BY <4>1, <4>2
      <4> HIDE DEF n, V, More, step
      <4> QED  BY <1>5, <3>2, <4>1, <4>3
    <3> QED  BY <3>1, <3>2
  <2>2. f = [i \in 0..n |-> f[i]]
    BY <1>5
  <2> HIDE DEF n, V, More
  <2> QED  BY <2>1, <2>2
<1>7. IsOrders(orders)
  <2> HIDE DEF IsOrders
  <2> QED  BY <1>6
<1>8. Sorted(amounts, from, limit) = orders[n]
  BY DEF Sorted, SizeOf, Largest
<1>9. /\ orders[0] = {<<>>}
      /\ \A i \in 1..n : orders[i] = More(orders[i - 1])
  <2>1. \A i \in 0..n : orders[i] = IF i = 0 THEN {<<>>} ELSE More(orders[i - 1])
    <3> HIDE DEF n, More, orders
    <3> QED  BY <1>7
  <2> HIDE DEF n, More, orders
  <2> QED  BY <1>1, <2>1
<1> HIDE DEF orders
<1> DEFINE Good(k) == \A q \in orders[k] : IsOrder(q, k, amounts, from)
           B == {k \in 1..n : Good(k)}
<1>10. Good(0)
  <2>1. ASSUME NEW q \in orders[0] PROVE IsOrder(q, 0, amounts, from)
    <3>1. q = <<>>
      BY <1>9
    <3> QED  BY <3>1 DEF IsOrder
  <2> QED  BY <2>1
<1>11. ASSUME NEW k \in 1..n, Good(k - 1) PROVE Good(k)
  <2>1. k - 1 \in Nat /\ (k - 1) + 1 = k
    BY <1>1
  <2>2. ASSUME NEW t \in orders[k] PROVE IsOrder(t, k, amounts, from)
    <3>1. PICK q \in orders[k - 1] : t \in Longer(q)
      <4>1. t \in More(orders[k - 1])
        <5> HIDE DEF More, n
        <5> QED  BY <1>9, <2>2
      <4> HIDE DEF More, Longer
      <4> QED  BY <1>0, <4>1
    <3>2. PICK a \in Largest(from \ Range(q), amounts) : t = Append(q, a)
      BY <3>1
    <3>3. IsOrder(q, k - 1, amounts, from)
      BY <1>11
    <3>4. IsOrder(Append(q, a), (k - 1) + 1, amounts, from)
      BY <2>1, <3>3, OrderGrows
    <3> QED  BY <2>1, <3>2, <3>4
  <2> QED  BY <2>2
<1>12. ASSUME NEW k \in 1..n, k > 1 => k - 1 \in B PROVE k \in B
  <2>1. Good(k - 1)
    <3>1. CASE k = 1
      <4>1. k - 1 = 0
        BY <3>1
      <4> HIDE DEF Good
      <4> QED  BY <1>10, <4>1
    <3>2. CASE k # 1
      <4>1. k > 1
        BY <1>1, <3>2
      <4> HIDE DEF Good
      <4> QED  BY <1>12, <4>1
    <3> QED  BY <3>1, <3>2
  <2> HIDE DEF Good
  <2> QED  BY <1>11, <2>1
<1>13. 1..n \subseteq B
  <2> HIDE DEF B, n
  <2> QED  BY <1>1, <1>12, IntervalInduction
<1>14. Good(n)
  <2>1. CASE n = 0
    <3> HIDE DEF n, Good
    <3> QED  BY <1>10, <2>1
  <2>2. CASE n # 0
    <3>1. n \in 1..n
      BY <1>1, <2>2
    <3> HIDE DEF n, Good
    <3> QED  BY <1>13, <3>1
  <2> QED  BY <2>1, <2>2
<1> HIDE DEF n
<1> QED  BY <1>8, <1>14 DEF n

-----------------------------------------------------------------------------
(* What the loop over the addresses of the balance query keeps.            *)

(* The places of the list that are kept, of the first p.                   *)
Places(g, kept, p, list) ==
    /\ g \in [1..Len(kept) -> 1..p]
    /\ \A j, l \in 1..Len(kept) : j < l => g[j] < g[l]
    /\ \A j \in 1..Len(kept) : kept[j] = list[g[j]] /\ list[g[j]].a_id \notin Omitted
    /\ \A q \in 1..p : list[q].a_id \notin Omitted =>
          \/ \E j \in 1..Len(kept) : g[j] = q
          \/ Len(kept) = TopSize /\ \A j \in 1..Len(kept) : g[j] < q

Picked(kept, p, list) ==
    /\ kept \in List /\ Len(kept) <= TopSize
    /\ \E g : Places(g, kept, p, list)

LEMMA PickNone == ASSUME NEW list PROVE Picked(<<>>, 0, list)
<1> DEFINE g == [j \in 1..0 |-> 1]
<1>1. Places(g, <<>>, 0, list)
  BY DEF Places
<1> QED  BY <1>1, ChainAssumption DEF Picked, List

LEMMA PickSkip ==
    ASSUME NEW list, NEW p \in Nat, NEW kept, Picked(kept, p, list),
           list[p + 1].a_id \in Omitted \/ Len(kept) >= TopSize
    PROVE  Picked(kept, p + 1, list)
<1>1. PICK g : Places(g, kept, p, list)
  BY DEF Picked
<1>2. Len(kept) \in Nat /\ Len(kept) <= TopSize /\ TopSize \in Nat
  BY ChainAssumption DEF Picked, List
<1>3. g \in [1..Len(kept) -> 1..(p + 1)] /\ \A j \in 1..Len(kept) : g[j] < p + 1
  BY <1>1, <1>2 DEF Places
<1>4. ASSUME NEW q \in 1..(p + 1), list[q].a_id \notin Omitted
      PROVE  \/ \E j \in 1..Len(kept) : g[j] = q
             \/ Len(kept) = TopSize /\ \A j \in 1..Len(kept) : g[j] < q
  <2>1. CASE q \in 1..p
    BY <1>1, <1>4, <2>1 DEF Places
  <2>2. CASE q = p + 1
    BY <1>2, <1>3, <1>4, <2>2
  <2> QED  BY <2>1, <2>2
<1>5. Places(g, kept, p + 1, list)
  BY <1>1, <1>3, <1>4 DEF Places
<1> QED  BY <1>5 DEF Picked

LEMMA PickOne ==
    ASSUME NEW list, NEW p \in Nat, NEW kept, Picked(kept, p, list),
           list[p + 1] \in Entry, list[p + 1].a_id \notin Omitted, Len(kept) < TopSize
    PROVE  Picked(Append(kept, list[p + 1]), p + 1, list)
<1> DEFINE more == Append(kept, list[p + 1])
           n == Len(kept)
<1>1. PICK g : Places(g, kept, p, list)
  BY DEF Picked
<1>2. kept \in Seq(Entry) /\ n \in Nat /\ TopSize \in Nat
  BY ChainAssumption DEF Picked, List
<1>3. /\ more \in Seq(Entry) /\ Len(more) = n + 1 /\ more[n + 1] = list[p + 1]
      /\ \A j \in 1..n : more[j] = kept[j]
  BY <1>2
<1> DEFINE h == [j \in 1..(n + 1) |-> IF j = n + 1 THEN p + 1 ELSE g[j]]
<1> HIDE DEF more
<1>4. /\ h[n + 1] = p + 1
      /\ \A j \in 1..n : h[j] = g[j] /\ g[j] \in 1..p
  BY <1>1, <1>2 DEF Places
<1>5. h \in [1..(n + 1) -> 1..(p + 1)]
  <2>1. ASSUME NEW j \in 1..(n + 1) PROVE h[j] \in 1..(p + 1)
    <3>1. j \in 1..n \/ j = n + 1
      BY <1>2
    <3> HIDE DEF h
    <3> QED  BY <1>4, <3>1
  <2> HIDE DEF n
  <2> QED  BY <2>1
<1> HIDE DEF h
<1>6. ASSUME NEW j \in 1..(n + 1), NEW l \in 1..(n + 1), j < l PROVE h[j] < h[l]
  <2>1. j \in 1..n
    BY <1>2, <1>6
  <2>2. CASE l \in 1..n
    BY <1>1, <1>4, <1>6, <2>1, <2>2 DEF Places
  <2>3. CASE l = n + 1
    BY <1>4, <2>1, <2>3
  <2> QED  BY <1>2, <2>2, <2>3
<1>7. ASSUME NEW j \in 1..(n + 1)
      PROVE  more[j] = list[h[j]] /\ list[h[j]].a_id \notin Omitted
  <2>1. CASE j \in 1..n
    BY <1>1, <1>3, <1>4, <2>1 DEF Places
  <2>2. CASE j = n + 1
    BY <1>3, <1>4, <2>2
  <2> QED  BY <1>2, <2>1, <2>2
<1>8. ASSUME NEW q \in 1..(p + 1), list[q].a_id \notin Omitted
      PROVE  \E j \in 1..(n + 1) : h[j] = q
  <2>1. n + 1 \in 1..(n + 1) /\ \A j \in 1..n : j \in 1..(n + 1)
    BY <1>2
  <2>2. CASE q \in 1..p
    <3>1. n # TopSize
      BY <1>2
    <3>2. PICK j \in 1..n : g[j] = q
      BY <1>1, <1>8, <2>2, <3>1 DEF Places
    <3> QED  BY <1>4, <2>1, <3>2
  <2>3. CASE q = p + 1
    BY <1>4, <2>1, <2>3
  <2> QED  BY <2>2, <2>3
<1>9. Places(h, more, p + 1, list)
  BY <1>3, <1>5, <1>6, <1>7, <1>8 DEF Places
<1>10. more \in List /\ Len(more) <= TopSize
  BY <1>2, <1>3 DEF List
<1> QED  BY <1>9, <1>10 DEF Picked, more

LEMMA ShownIsPicked ==
    ASSUME NEW list \in List
    PROVE  Picked(Shown(list), Len(list), list)
<1> DEFINE n == Len(list)
           Skips(i, k) == list[i].a_id \in Omitted \/ Len(k) >= TopSize
           After(i, k) == IF Skips(i, k) THEN k ELSE Append(k, list[i])
           IsKept(f) == f = [i \in 0..n |-> IF i = 0 THEN <<>> ELSE After(i, f[i - 1])]
           step == [i \in 1..n |-> [k \in List |-> After(i, k)]]
           kept == CHOOSE f : IsKept(f)
           none == <<>>
<1>1. n \in Nat /\ none \in List /\ \A i \in 1..n : list[i] \in Entry
  BY DEF List
<1>2. ASSUME NEW i \in 1..n, NEW k \in List PROVE After(i, k) \in List
  BY <1>1 DEF List
<1>3. step \in [1..n -> [List -> List]]
  <2> HIDE DEF n, After
  <2> QED  BY <1>2
<1>4. PICK f \in [0..n -> List] :
          f[0] = none /\ \A i \in 1..n : f[i] = step[i][f[i - 1]]
  <2> HIDE DEF n, step, none
  <2>1. PICK f \in [0..n -> List] : IteratesFromZero(f, n, none, step)
    BY <1>1, <1>3, RecursionFromZero
  <2> QED  BY <2>1 DEF IteratesFromZero
<1>5. IsKept(f)
  <2>1. ASSUME NEW i \in 0..n PROVE f[i] = IF i = 0 THEN <<>> ELSE After(i, f[i - 1])
    <3>1. CASE i = 0
      BY <1>4, <3>1
    <3>2. CASE i # 0
      <4>1. i \in 1..n /\ i - 1 \in 0..n
        BY <1>1, <3>2
      <4>2. f[i - 1] \in List
        BY <1>4, <4>1
      <4>3. step[i][f[i - 1]] = After(i, f[i - 1])
        <5> HIDE DEF n, After
        <5> QED  BY <4>1, <4>2
      <4> HIDE DEF n, After, step
      <4> QED  BY <1>4, <3>2, <4>1, <4>3
    <3> QED  BY <3>1, <3>2
  <2>2. f = [i \in 0..n |-> f[i]]
    BY <1>4
  <2> HIDE DEF n, After
  <2> QED  BY <2>1, <2>2
<1>6. IsKept(kept)
  <2> HIDE DEF IsKept
  <2> QED  BY <1>5
<1>7. Shown(list) = kept[n]
  BY DEF Shown
<1>8. /\ kept[0] = <<>>
      /\ \A i \in 1..n : kept[i] = After(i, kept[i - 1])
  <2>1. \A i \in 0..n : kept[i] = IF i = 0 THEN <<>> ELSE After(i, kept[i - 1])
    <3> HIDE DEF n, After, kept
    <3> QED  BY <1>6
  <2> HIDE DEF n, After, kept
  <2> QED  BY <1>1, <2>1
<1> HIDE DEF kept
<1> DEFINE Good(i) == Picked(kept[i], i, list)
           B == {i \in 1..n : Good(i)}
<1>9. Good(0)
  BY <1>8, PickNone
<1>10. ASSUME NEW i \in 1..n, Good(i - 1) PROVE Good(i)
  <2>1. i - 1 \in Nat /\ (i - 1) + 1 = i
    BY <1>1
  <2>2. kept[i] = After(i, kept[i - 1]) /\ Picked(kept[i - 1], i - 1, list)
    BY <1>8, <1>10
  <2>3. CASE Skips(i, kept[i - 1])
    <3>1. kept[i] = kept[i - 1]
      BY <2>2, <2>3
    <3>2. Picked(kept[i - 1], (i - 1) + 1, list)
      BY <2>1, <2>2, <2>3, PickSkip
    <3> QED  BY <2>1, <3>1, <3>2
  <2>4. CASE ~Skips(i, kept[i - 1])
    <3>1. kept[i] = Append(kept[i - 1], list[i])
      BY <2>2, <2>4
    <3>2. Len(kept[i - 1]) < TopSize /\ list[i].a_id \notin Omitted
      <4>1. Len(kept[i - 1]) \in Nat /\ TopSize \in Nat
        BY <2>2, ChainAssumption DEF Picked, List
      <4> QED  BY <2>4, <4>1
    <3>3. Picked(Append(kept[i - 1], list[(i - 1) + 1]), (i - 1) + 1, list)
      BY <1>1, <2>1, <2>2, <3>2, PickOne
    <3> QED  BY <2>1, <3>1, <3>3
  <2> QED  BY <2>3, <2>4
<1>11. ASSUME NEW i \in 1..n, i > 1 => i - 1 \in B PROVE i \in B
  <2>1. Good(i - 1)
    <3>1. CASE i = 1
      <4>1. i - 1 = 0
        BY <3>1
      <4> HIDE DEF Good
      <4> QED  BY <1>9, <4>1
    <3>2. CASE i # 1
      <4>1. i > 1
        BY <1>1, <3>2
      <4> HIDE DEF Good
      <4> QED  BY <1>11, <4>1
    <3> QED  BY <3>1, <3>2
  <2> HIDE DEF Good
  <2> QED  BY <1>10, <2>1
<1>12. 1..n \subseteq B
  <2> HIDE DEF B, n
  <2> QED  BY <1>1, <1>11, IntervalInduction
<1>13. Good(n)
  <2>1. CASE n = 0
    <3> HIDE DEF n, Good
    <3> QED  BY <1>9, <2>1
  <2>2. CASE n # 0
    <3>1. n \in 1..n
      BY <1>1, <2>2
    <3> HIDE DEF n, Good
    <3> QED  BY <1>12, <3>1
  <2> QED  BY <2>1, <2>2
<1> QED  BY <1>7, <1>13

-----------------------------------------------------------------------------
(* What a query has returned, and what of it is shown.                     *)

Listed(list) == {list[i].a_id : i \in DOMAIN list}

(* The list is the top of a set of addresses, as many as the limit allows. *)
Ordered(list, amounts, from, limit) ==
    /\ list \in List /\ Len(list) = SizeOf(from, limit)
    /\ \A i \in 1..Len(list) :
          list[i].a_id \in from /\ list[i].amount = amounts[list[i].a_id]
    /\ \A i, j \in 1..Len(list) : i < j =>
          list[i].a_id # list[j].a_id /\ list[j].amount <= list[i].amount
    /\ \A i \in 1..Len(list), a \in from \ Listed(list) : amounts[a] <= list[i].amount

LEMMA ListType ==
    ASSUME NEW list \in List
    PROVE  /\ Len(list) \in Nat /\ DOMAIN list = 1..Len(list)
           /\ \A i \in 1..Len(list) : list[i].a_id \in Addresses /\ list[i].amount \in Nat
<1>1. list \in Seq(Entry)
  BY DEF List
<1>2. Len(list) \in Nat /\ DOMAIN list = 1..Len(list) /\ \A i \in 1..Len(list) : list[i] \in Entry
  BY <1>1
<1>3. \A e \in Entry : e.a_id \in Addresses /\ e.amount \in Nat
  BY DEF Entry
<1> QED  BY <1>2, <1>3

LEMMA NamedOrdered ==
    ASSUME NEW from \in SUBSET Addresses, NEW limit, NEW amounts \in [Addresses -> Nat],
           claims \in [Addresses -> Names \cup {NoName}],
           NEW s, IsOrder(s, SizeOf(from, limit), amounts, from)
    PROVE  Ordered(Named(s, amounts), amounts, from, limit)
<1> DEFINE list == Named(s, amounts)
           n == Len(s)
<1>1. /\ s \in Seq(from) /\ n = SizeOf(from, limit) /\ n \in Nat
      /\ DOMAIN s = 1..n /\ \A i \in 1..n : s[i] \in from
  BY DEF IsOrder
<1>2. list = [i \in 1..n |-> [a_id |-> s[i], amount |-> amounts[s[i]],
                              claim_name |-> claims[s[i]]]]
  BY <1>1 DEF Named
<1>3. ASSUME NEW i \in 1..n PROVE list[i] \in Entry
  <2>1. s[i] \in Addresses /\ amounts[s[i]] \in Nat /\ claims[s[i]] \in Names \cup {NoName}
    BY <1>1
  <2> QED  BY <1>2, <2>1 DEF Entry
<1>4. list \in List /\ Len(list) = n /\ DOMAIN list = 1..n
  <2>1. list \in [1..n -> Entry]
    <3> HIDE DEF n
    <3> QED  BY <1>2, <1>3
  <2> HIDE DEF list, n
  <2> QED  BY <1>1, <2>1 DEF List
<1>5. \A i \in 1..n : list[i].a_id = s[i] /\ list[i].amount = amounts[s[i]]
  BY <1>2
<1> HIDE DEF list
<1>6. Listed(list) = Range(s)
  BY <1>1, <1>4, <1>5 DEF Listed, Range
<1> QED  BY <1>1, <1>4, <1>5, <1>6 DEF Ordered, IsOrder, list

(* Different terms make a set of as many.                                  *)
LEMMA DistinctTerms ==
    ASSUME NEW n \in Nat, NEW f, \A i, j \in 1..n : i < j => f[i] # f[j]
    PROVE  /\ IsFiniteSet({f[i] : i \in 1..n})
           /\ Cardinality({f[i] : i \in 1..n}) = n
<1> DEFINE S == {f[i] : i \in 1..n}
           b == [i \in 1..n |-> f[i]]
<1>1. ASSUME NEW i \in 1..n, NEW j \in 1..n, b[i] = b[j] PROVE i = j
  <2>1. i < j \/ j < i \/ i = j
    OBVIOUS
  <2> QED  BY <1>1, <2>1
<1>2. b \in Bijection(1..n, S)
  <2>1. b \in Injection(1..n, S)
    BY <1>1 DEF Injection, IsInjective
  <2>2. b \in Surjection(1..n, S)
    BY DEF Surjection
  <2> QED  BY <2>1, <2>2 DEF Bijection
<1>3. ExistsBijection(1..n, S)
  BY <1>2 DEF ExistsBijection
<1> HIDE DEF S
<1>4. IsFiniteSet(S) /\ Cardinality(S) = n
  BY <1>3, FS_NatBijection, FS_CountingElements
<1> QED  BY <1>4 DEF S

LEMMA ListedSize ==
    ASSUME NEW list \in List,
           \A i, j \in 1..Len(list) : i < j => list[i].a_id # list[j].a_id
    PROVE  /\ IsFiniteSet(Listed(list)) /\ Cardinality(Listed(list)) = Len(list)
           /\ Listed(list) = {list[i].a_id : i \in 1..Len(list)}
<1> DEFINE n == Len(list)
           f == [i \in 1..n |-> list[i].a_id]
<1>1. n \in Nat /\ DOMAIN list = 1..n
  BY ListType
<1>2. \A i, j \in 1..n : i < j => f[i] # f[j]
  OBVIOUS
<1>3. Listed(list) = {f[i] : i \in 1..n} /\ Listed(list) = {list[i].a_id : i \in 1..n}
  BY <1>1 DEF Listed
<1>4. IsFiniteSet({f[i] : i \in 1..n}) /\ Cardinality({f[i] : i \in 1..n}) = n
  <2> HIDE DEF n, f
  <2> QED  BY <1>1, <1>2, DistinctTerms
<1> QED  BY <1>3, <1>4

(* A list as long as the page is the top of what the query was about.      *)
LEMMA OrderedIsTop ==
    ASSUME NEW list, NEW amounts, NEW from, Ordered(list, amounts, from, TopSize)
    PROVE  IsTop(list, amounts, from)
<1>1. list \in List /\ DOMAIN list = 1..Len(list)
  BY ListType DEF Ordered
<1> QED  BY <1>1 DEF Ordered, IsTop, Listed, SizeOf

(* The loop leaves as many addresses as there are, or as the page shows:   *)
(* the limit of the query makes up for those it drops.                     *)
LEMMA ShownIsTop ==
    ASSUME NEW from \in SUBSET Addresses, NEW amounts \in [Addresses -> Nat],
           NEW list, Ordered(list, amounts, from, QueryLimit)
    PROVE  IsTop(Shown(list), amounts, from \ Omitted)
<1> DEFINE kept == Shown(list)
           n == Len(list)
           k == Len(kept)
           rest == from \ Omitted
<1>1. list \in List /\ n \in Nat /\ DOMAIN list = 1..n
  BY ListType DEF Ordered
<1>2. PICK g : Places(g, kept, n, list)
  BY <1>1, ShownIsPicked DEF Picked
<1>3. kept \in List /\ k <= TopSize /\ TopSize \in Nat
  BY <1>1, ShownIsPicked, ChainAssumption DEF Picked
<1>4. k \in Nat /\ DOMAIN kept = 1..k
  BY <1>3, ListType
<1> HIDE DEF kept
<1>5. \A j \in 1..k : /\ g[j] \in 1..n /\ kept[j] = list[g[j]]
                      /\ kept[j].a_id \in rest
  BY <1>2 DEF Places, Ordered
<1>6. ASSUME NEW i \in 1..k, NEW j \in 1..k, i < j
      PROVE  kept[i].a_id # kept[j].a_id /\ kept[j].amount <= kept[i].amount
  <2>1. g[i] < g[j]
    BY <1>2, <1>6 DEF Places
  <2> HIDE DEF k, n
  <2> QED  BY <1>5, <2>1 DEF Ordered, n
<1>7. \A j \in 1..k : kept[j].amount = amounts[kept[j].a_id]
  BY <1>5 DEF Ordered
<1>8. /\ IsFiniteSet(Listed(kept)) /\ Cardinality(Listed(kept)) = k
      /\ Listed(kept) = {kept[j].a_id : j \in 1..k}
  BY <1>3, <1>6, ListedSize
<1>9. /\ IsFiniteSet(Listed(list)) /\ Cardinality(Listed(list)) = n
      /\ Listed(list) = {list[i].a_id : i \in 1..n}
  BY <1>1, ListedSize DEF Ordered
<1>10. IsFiniteSet(from) /\ IsFiniteSet(rest) /\ IsFiniteSet(Omitted)
       /\ IsFiniteSet(Burned) /\ IsFiniteSet(Special)
  <2>1. /\ from \in SUBSET Addresses /\ rest \in SUBSET Addresses
        /\ Omitted \in SUBSET Addresses /\ Burned \in SUBSET Addresses
        /\ Special \in SUBSET Addresses
    BY ChainAssumption DEF Omitted
  <2> HIDE DEF rest
  <2> QED  BY <2>1, ChainAssumption, FS_Subset
<1>11. Listed(kept) \in SUBSET rest
  BY <1>5, <1>8
<1>12. ASSUME NEW i \in 1..k, NEW a \in rest \ Listed(kept)
       PROVE  amounts[a] <= kept[i].amount
  <2>1. CASE a \notin Listed(list)
    BY <1>5, <1>12, <2>1 DEF Ordered
  <2>2. CASE a \in Listed(list)
    <3>1. PICK q \in 1..n : a = list[q].a_id
      BY <1>9, <2>2
    <3>2. ~ \E j \in 1..k : g[j] = q
      <4>1. \A j \in 1..k : g[j] = q => a \in Listed(kept)
        <5> HIDE DEF n, k
        <5> QED  BY <1>5, <1>8, <3>1
      <4> QED  BY <1>12, <4>1
    <3>3. g[i] < q
      BY <1>2, <1>12, <3>1, <3>2 DEF Places
    <3>4. list[q].amount <= list[g[i]].amount /\ list[q].amount = amounts[a]
      BY <1>5, <3>1, <3>3 DEF Ordered
    <3> QED  BY <1>5, <3>4
  <2> QED  BY <2>1, <2>2
<1>13. k = IF Cardinality(rest) < TopSize THEN Cardinality(rest) ELSE TopSize
  <2>1. k <= Cardinality(rest) /\ Cardinality(rest) \in Nat
    <3> HIDE DEF rest, k
    <3> QED  BY <1>8, <1>10, <1>11, FS_Subset, FS_CardinalityType
  <2>2. CASE k = TopSize
    BY <1>3, <2>1, <2>2
  <2>3. CASE k # TopSize
    <3>1. \A a \in Listed(list) : a \notin Omitted => a \in Listed(kept)
      <4> SUFFICES ASSUME NEW q \in 1..n, list[q].a_id \notin Omitted
                   PROVE  list[q].a_id \in Listed(kept)
        BY <1>9
      <4>1. PICK j \in 1..k : g[j] = q
        BY <1>2, <2>3 DEF Places
      <4> QED  BY <1>5, <1>8, <4>1
    <3>2. n < QueryLimit
      <4> DEFINE dropped == Listed(list) \cap Omitted
                 both == Listed(kept) \cup Omitted
      <4>1. Listed(list) \in SUBSET both
        BY <3>1
      <4>2. /\ IsFiniteSet(both)
            /\ Cardinality(both) = k + Cardinality(Omitted)
                                     - Cardinality(Listed(kept) \cap Omitted)
        BY <1>8, <1>10, FS_Union
      <4>3. n <= Cardinality(both)
        <5> HIDE DEF both, n
        <5> QED  BY <1>9, <4>1, <4>2, FS_Subset
      <4>4. Cardinality(Omitted) = Cardinality(Burned) + Cardinality(Special)
                                     - Cardinality(Burned \cap Special)
        BY <1>10, FS_Union DEF Omitted
      <4>5. IsFiniteSet(Listed(kept) \cap Omitted) /\ IsFiniteSet(Burned \cap Special)
        BY <1>8, <1>10, FS_Intersection
      <4>6. /\ Cardinality(Listed(kept) \cap Omitted) \in Nat
            /\ Cardinality(Burned \cap Special) \in Nat
            /\ Cardinality(Burned) \in Nat /\ Cardinality(Special) \in Nat
        BY <1>10, <4>5, FS_CardinalityType
      <4>7. k < TopSize
        <5> HIDE DEF n, k
        <5> QED  BY <1>3, <1>4, <2>3
      <4> HIDE DEF both, k, n
      <4> QED  BY <1>1, <1>3, <1>4, <4>2, <4>3, <4>4, <4>6, <4>7 DEF QueryLimit
    <3>3. n = Cardinality(from)
      BY <3>2 DEF Ordered, SizeOf
    <3>4. Listed(list) \in SUBSET from
      BY <1>9 DEF Ordered
    <3>5. Listed(list) = from
      <4> HIDE DEF n
      <4> QED  BY <1>9, <1>10, <3>3, <3>4, FS_Subset
    <3>6. Listed(kept) = rest
      BY <1>11, <3>1, <3>5
    <3>7. k < TopSize
      <4> HIDE DEF n, k
      <4> QED  BY <1>3, <1>4, <2>3
    <3>8. Cardinality(rest) = k
      BY <1>8, <3>6
    <3> HIDE DEF n, k, rest
    <3> QED  BY <3>7, <3>8
  <2> QED  BY <2>2, <2>3
<1> HIDE DEF k, n, rest
<1>14. IsTop(kept, amounts, rest)
  <2>1. Listed(kept) = {kept[i].a_id : i \in DOMAIN kept} /\ Listed(kept) \subseteq rest
    BY <1>11 DEF Listed
  <2> QED  BY <1>4, <1>6, <1>7, <1>12, <1>13, <2>1 DEF IsTop, k
<1> QED  BY <1>14 DEF kept, rest

-----------------------------------------------------------------------------
(* Sums of amounts.                                                        *)

LEMMA AmountsType ==
    ASSUME NEW list \in List
    PROVE  /\ DOMAIN Amounts(list) = 1..Len(list)
           /\ \A i \in 1..Len(list) :
                 Amounts(list)[i] = list[i].amount /\ Amounts(list)[i] \in Nat
           /\ AmountIn(list) = SumFunctionOnSet(Amounts(list), 1..Len(list))
           /\ AmountIn(list) \in Nat
<1>1. /\ DOMAIN list = 1..Len(list) /\ Len(list) \in Nat
      /\ \A i \in 1..Len(list) : list[i].amount \in Nat
  BY ListType
<1>2. DOMAIN Amounts(list) = 1..Len(list) /\ \A i \in 1..Len(list) : Amounts(list)[i] = list[i].amount
  BY <1>1 DEF Amounts
<1>3. AmountIn(list) = SumFunctionOnSet(Amounts(list), 1..Len(list))
  BY <1>2 DEF AmountIn, SumFunction
<1>4. IsFiniteSet(1..Len(list))
  <2>1. Len(list) \in Int /\ 1 \in Int
    BY <1>1
  <2> QED  BY <2>1, FS_Interval
<1>5. \A i \in 1..Len(list) : Amounts(list)[i] \in Nat
  BY <1>1, <1>2
<1>6. SumFunctionOnSet(Amounts(list), 1..Len(list)) \in Nat
  BY <1>4, <1>5, SumNat
<1> QED  BY <1>2, <1>3, <1>5, <1>6

LEMMA AmountInEmpty == AmountIn(<<>>) = 0
<1>1. DOMAIN Amounts(<<>>) = {}
  BY DEF Amounts
<1> QED  BY <1>1, SumEmpty DEF AmountIn, SumFunction

(* Some places of a list that names each address once, with its amount.    *)
LEMMA PlacesSum ==
    ASSUME NEW list \in List, NEW amounts \in [Addresses -> Nat], NEW I \in SUBSET (1..Len(list)),
           \A i, j \in 1..Len(list) : i < j => list[i].a_id # list[j].a_id,
           \A i \in 1..Len(list) : list[i].amount = amounts[list[i].a_id]
    PROVE  /\ {list[i].a_id : i \in I} \in SUBSET Addresses
           /\ SumFunctionOnSet(Amounts(list), I)
                = SumFunctionOnSet(amounts, {list[i].a_id : i \in I})
<1> DEFINE n == Len(list)
           T == {list[i].a_id : i \in I}
           h == [i \in I |-> list[i].a_id]
<1>1. n \in Nat /\ \A i \in 1..n : list[i].a_id \in Addresses
  BY ListType
<1>2. \A i \in 1..n : Amounts(list)[i] = list[i].amount /\ Amounts(list)[i] \in Nat
  BY AmountsType
<1>3. IsFiniteSet(1..n)
  <2>1. n \in Int /\ 1 \in Int
    BY <1>1
  <2> HIDE DEF n
  <2> QED  BY <2>1, FS_Interval
<1>4. T \in SUBSET Addresses
  BY <1>1
<1>5. IsFiniteSet(I) /\ IsFiniteSet(T)
  <2> HIDE DEF T, n
  <2> QED  BY <1>3, <1>4, ChainAssumption, FS_Subset DEF n
<1>6. \A x, y \in I : h[x] = h[y] => x = y
  <2> SUFFICES ASSUME NEW x \in I, NEW y \in I, h[x] = h[y] PROVE x = y
    OBVIOUS
  <2>1. x \in 1..n /\ y \in 1..n /\ list[x].a_id = list[y].a_id
    OBVIOUS
  <2>2. x < y \/ y < x \/ x = y
    BY <2>1
  <2> HIDE DEF n, h
  <2> QED  BY <2>1, <2>2 DEF n
<1>7. h \in [I -> T]
  OBVIOUS
<1>8. \A t \in T : \E x \in I : h[x] = t
  OBVIOUS
<1> DEFINE terms == Amounts(list)
<1>9. \A x \in I : terms[x] \in Int /\ amounts[h[x]] = terms[x]
  BY <1>2
<1>10. SumFunctionOnSet(amounts, T) = SumFunctionOnSet(terms, I)
  <2> HIDE DEF T, h, terms, n
  <2>1. h \in Bijection(I, T)
    BY <1>6, <1>7, <1>8 DEF Bijection, Injection, Surjection, IsInjective
  <2>2. CarriedBy(h, I, amounts, terms)
    BY <1>9 DEF CarriedBy
  <2> QED  BY <1>5, <2>1, <2>2, SumImage
<1> QED  BY <1>4, <1>10

LEMMA SupplyType ==
    ASSUME NEW h \in Heights
    PROVE  /\ Balance[h] \in [Addresses -> Nat] /\ Received[h] \in [Addresses -> Nat]
           /\ SupplyAt(h) = SumFunctionOnSet(Balance[h], Addresses)
           /\ SupplyAt(h) \in Nat
<1>1. Balance[h] \in [Addresses -> Nat] /\ Received[h] \in [Addresses -> Nat]
  BY ChainAssumption DEF Heights
<1>2. SupplyAt(h) = SumFunctionOnSet(Balance[h], Addresses)
  BY <1>1 DEF SupplyAt, SumFunction
<1>3. SumFunctionOnSet(Balance[h], Addresses) \in Nat
  <2>1. \A a \in Addresses : Balance[h][a] \in Nat
    BY <1>1
  <2> QED  BY <2>1, ChainAssumption, SumNat
<1> QED  BY <1>1, <1>2, <1>3

(* What is shown and what is counted as burned are of different addresses. *)
LEMMA ShownWithinSupply ==
    ASSUME NEW h \in Heights, NEW from, from \subseteq Addresses, NEW limit,
           NEW list, Ordered(list, Balance[h], from, limit)
    PROVE  AmountIn(Shown(list)) + BurnedIn(list) <= SupplyAt(h)
<1> DEFINE amounts == Balance[h]
           kept == Shown(list)
           n == Len(list)
           k == Len(kept)
           I == {i \in DOMAIN list : list[i].a_id \in Omitted}
           A == {kept[j].a_id : j \in 1..k}
           B == {list[i].a_id : i \in I}
<1>1. list \in List /\ n \in Nat /\ DOMAIN list = 1..n
  BY ListType DEF Ordered
<1>2. PICK g : Places(g, kept, n, list)
  BY <1>1, ShownIsPicked DEF Picked
<1>3. kept \in List
  BY <1>1, ShownIsPicked DEF Picked
<1> HIDE DEF kept
<1>4. k \in Nat /\ \A j \in 1..k : /\ g[j] \in 1..n /\ kept[j] = list[g[j]]
                                   /\ kept[j].a_id \notin Omitted
  BY <1>2, <1>3, ListType DEF Places
<1>5. \A i, j \in 1..k : i < j => kept[i].a_id # kept[j].a_id
  <2> SUFFICES ASSUME NEW i \in 1..k, NEW j \in 1..k, i < j
               PROVE  kept[i].a_id # kept[j].a_id
    OBVIOUS
  <2>1. g[i] < g[j]
    BY <1>2 DEF Places
  <2> HIDE DEF k, n
  <2> QED  BY <1>4, <2>1 DEF Ordered, n
<1>6. \A j \in 1..k : kept[j].amount = amounts[kept[j].a_id]
  BY <1>4 DEF Ordered
<1>7. amounts \in [Addresses -> Nat] /\ SupplyAt(h) = SumFunctionOnSet(amounts, Addresses)
  BY SupplyType
<1>8. A \in SUBSET Addresses /\ AmountIn(kept) = SumFunctionOnSet(amounts, A)
  <2>1. 1..k \in SUBSET (1..Len(kept))
    OBVIOUS
  <2>2. AmountIn(kept) = SumFunctionOnSet(Amounts(kept), 1..k)
    BY <1>3, AmountsType
  <2>3. /\ A \in SUBSET Addresses
        /\ SumFunctionOnSet(Amounts(kept), 1..k) = SumFunctionOnSet(amounts, A)
    <3> HIDE DEF amounts
    <3> QED  BY <1>3, <1>5, <1>6, <1>7, <2>1, PlacesSum
  <2> QED  BY <2>2, <2>3
<1>9. B \in SUBSET Addresses /\ BurnedIn(list) = SumFunctionOnSet(amounts, B)
  <2>1. I \in SUBSET (1..n)
    BY <1>1
  <2>2. /\ \A i, j \in 1..n : i < j => list[i].a_id # list[j].a_id
        /\ \A i \in 1..n : list[i].amount = amounts[list[i].a_id]
    BY DEF Ordered
  <2>3. B \in SUBSET Addresses /\ SumFunctionOnSet(Amounts(list), I) = SumFunctionOnSet(amounts, B)
    <3> HIDE DEF amounts, I
    <3> QED  BY <1>1, <1>7, <2>1, <2>2, PlacesSum
  <2> QED  BY <2>3 DEF BurnedIn
<1>10. A \cap B = {}
  BY <1>4
<1> HIDE DEF A, B, amounts
<1>11. \A a \in Addresses : amounts[a] \in Nat
  BY <1>7
<1> DEFINE C == A \cup B
<1>12. C \in SUBSET Addresses /\ A \in SUBSET C /\ C \ A = B
  BY <1>8, <1>9, <1>10
<1>13. SumFunctionOnSet(amounts, C)
         = SumFunctionOnSet(amounts, A) + SumFunctionOnSet(amounts, B)
  <2>1. IsFiniteSet(C)
    BY <1>12, ChainAssumption, FS_Subset
  <2>2. \A a \in C : amounts[a] \in Int
    BY <1>11, <1>12
  <2> HIDE DEF C
  <2> QED  BY <1>12, <2>1, <2>2, SumSplit
<1>14. SumFunctionOnSet(amounts, C) <= SumFunctionOnSet(amounts, Addresses)
  <2> HIDE DEF C
  <2> QED  BY <1>11, <1>12, ChainAssumption, SumOfPart
<1> QED  BY <1>7, <1>8, <1>9, <1>13, <1>14 DEF kept

LEMMA ListWithinSupply ==
    ASSUME NEW h \in Heights, NEW from, from \subseteq Addresses, NEW limit,
           NEW list, Ordered(list, Balance[h], from, limit)
    PROVE  AmountIn(list) <= SupplyAt(h)
<1> DEFINE amounts == Balance[h]
           A == {list[i].a_id : i \in 1..Len(list)}
<1>1. list \in List /\ 1..Len(list) \in SUBSET (1..Len(list))
  BY DEF Ordered
<1>2. /\ \A i, j \in 1..Len(list) : i < j => list[i].a_id # list[j].a_id
      /\ \A i \in 1..Len(list) : list[i].amount = amounts[list[i].a_id]
  BY DEF Ordered
<1>3. amounts \in [Addresses -> Nat] /\ SupplyAt(h) = SumFunctionOnSet(amounts, Addresses)
  BY SupplyType
<1> HIDE DEF amounts
<1>4. A \in SUBSET Addresses
      /\ SumFunctionOnSet(Amounts(list), 1..Len(list)) = SumFunctionOnSet(amounts, A)
  BY <1>1, <1>2, <1>3, PlacesSum
<1>5. SumFunctionOnSet(amounts, A) <= SumFunctionOnSet(amounts, Addresses)
  <2>1. \A a \in Addresses : amounts[a] \in Nat
    BY <1>3
  <2> HIDE DEF A
  <2> QED  BY <1>4, <2>1, ChainAssumption, SumOfPart
<1> QED  BY <1>1, <1>3, <1>4, <1>5, AmountsType

LEMMA BurnedType == ASSUME NEW list \in List PROVE BurnedIn(list) \in Nat
<1> DEFINE I == {i \in DOMAIN list : list[i].a_id \in Omitted}
<1>1. Len(list) \in Int /\ 1 \in Int /\ DOMAIN list = 1..Len(list)
  BY ListType
<1>2. I \in SUBSET (1..Len(list))
  BY <1>1
<1>3. IsFiniteSet(1..Len(list))
  BY <1>1, FS_Interval
<1>4. IsFiniteSet(I)
  <2> HIDE DEF I
  <2> QED  BY <1>2, <1>3, FS_Subset
<1>5. \A i \in I : Amounts(list)[i] \in Nat
  BY <1>2, AmountsType
<1>6. SumFunctionOnSet(Amounts(list), I) \in Nat
  <2> HIDE DEF I
  <2> QED  BY <1>4, <1>5, SumNat
<1> QED  BY <1>6 DEF BurnedIn

-----------------------------------------------------------------------------
(* The answers of the two queries, and what is stored of them.             *)

RankedAt(list, amountsAt, n) ==
    \E h \in 0 .. n : IsTop(list, amountsAt[h], Indexed(h) \ Omitted)

LEMMA RankedGrows ==
    ASSUME NEW n \in Nat, NEW m \in Nat, n <= m, NEW list, NEW amountsAt,
           RankedAt(list, amountsAt, n)
    PROVE  RankedAt(list, amountsAt, m)
<1>1. PICK h \in 0 .. n : IsTop(list, amountsAt[h], Indexed(h) \ Omitted)
  BY DEF RankedAt
<1>2. h \in 0 .. m
  OBVIOUS
<1> QED  BY <1>1, <1>2 DEF RankedAt

BurnedOf(list) == IF settings.counted THEN BurnedIn(list) ELSE 0

LEMMA QueryOrdered ==
    ASSUME TypeOK, NEW from \in SUBSET Addresses, NEW limit \in Nat,
           NEW amounts \in [Addresses -> Nat], NEW s \in Sorted(amounts, from, limit)
    PROVE  Ordered(Named(s, amounts), amounts, from, limit)
<1>0. \A a \in from : amounts[a] \in Nat
  OBVIOUS
<1>1. IsFiniteSet(from)
  BY ChainAssumption, FS_Subset
<1>2. IsOrder(s, SizeOf(from, limit), amounts, from)
  BY <1>0, <1>1, SortedIsOrder
<1>3. claims \in [Addresses -> Names \cup {NoName}]
  BY DEF TypeOK
<1> QED  BY <1>2, <1>3, NamedOrdered

LEMMA IndexType ==
    ASSUME TypeOK
    PROVE  /\ InIndex \in SUBSET Addresses /\ InIndex \ Omitted \in SUBSET Addresses
           /\ InIndex = Indexed(indexed)
           /\ indexed \in Heights /\ indexed \in Nat /\ indexed \in 0 .. indexed
           /\ TopSize \in Nat /\ QueryLimit \in Nat
<1>1. indexed \in Heights /\ indexed \in Nat /\ TopSize \in Nat
  <2>1. indexed \in Heights
    BY DEF TypeOK
  <2> QED  BY <2>1, ChainAssumption DEF Heights
<1>2. Burned \in SUBSET Addresses /\ Special \in SUBSET Addresses
  BY ChainAssumption
<1>3. IsFiniteSet(Burned) /\ IsFiniteSet(Special)
  BY <1>2, ChainAssumption, FS_Subset
<1>4. Cardinality(Burned) \in Nat /\ Cardinality(Special) \in Nat
  BY <1>3, FS_CardinalityType
<1>5. InIndex = Indexed(indexed) /\ InIndex \in SUBSET Addresses
  BY DEF InIndex, Indexed
<1> QED  BY <1>1, <1>4, <1>5 DEF QueryLimit

LEMMA ReceivedQuery ==
    ASSUME TypeOK, NEW list \in ReceivedLists
    PROVE  list \in List /\ RankedAt(list, Received, indexed)
<1> DEFINE amounts == Received[indexed]
           from == InIndex \ Omitted
<1>1. amounts \in [Addresses -> Nat]
  BY IndexType, SupplyType
<1>2. PICK s \in Sorted(amounts, from, TopSize) : list = Named(s, amounts)
  BY DEF ReceivedLists
<1>3. Ordered(list, amounts, from, TopSize)
  <2> HIDE DEF amounts, from
  <2> QED  BY <1>1, <1>2, IndexType, QueryOrdered DEF from
<1>4. IsTop(list, amounts, from)
  BY <1>3, OrderedIsTop
<1>5. list \in List
  BY <1>3 DEF Ordered
<1> QED  BY <1>4, <1>5, IndexType DEF RankedAt

LEMMA BalanceQuery ==
    ASSUME TypeOK, NEW list \in BalanceLists
    PROVE  /\ list \in List
           /\ RankedAt(BalanceOf(list), Balance, indexed)
           /\ AmountIn(BalanceOf(list)) + BurnedOf(list) <= SupplyAt(indexed)
<1> DEFINE amounts == Balance[indexed]
           from == InIndex \ Omitted
<1>1. amounts \in [Addresses -> Nat]
  BY IndexType, SupplyType
<1>2. CASE settings.counted
  <2>1. PICK s \in Sorted(amounts, InIndex, QueryLimit) : list = Named(s, amounts)
    BY <1>2 DEF BalanceLists
  <2>2. Ordered(list, amounts, InIndex, QueryLimit)
    <3> HIDE DEF amounts
    <3> QED  BY <1>1, <2>1, IndexType, QueryOrdered
  <2>3. IsTop(Shown(list), amounts, from)
    <3> HIDE DEF amounts
    <3> QED  BY <1>1, <2>2, IndexType, ShownIsTop
  <2>4. AmountIn(Shown(list)) + BurnedIn(list) <= SupplyAt(indexed)
    BY <2>2, IndexType, ShownWithinSupply
  <2>5. list \in List
    BY <2>2 DEF Ordered
  <2>6. BalanceOf(list) = Shown(list) /\ BurnedOf(list) = BurnedIn(list)
    BY <1>2 DEF BalanceOf, BurnedOf
  <2>7. RankedAt(Shown(list), Balance, indexed)
    BY <2>3, IndexType DEF RankedAt
  <2> QED  BY <2>4, <2>5, <2>6, <2>7
<1>3. CASE ~settings.counted
  <2>1. PICK s \in Sorted(amounts, from, TopSize) : list = Named(s, amounts)
    BY <1>3 DEF BalanceLists
  <2>2. Ordered(list, amounts, from, TopSize)
    <3> HIDE DEF amounts, from
    <3> QED  BY <1>1, <2>1, IndexType, QueryOrdered DEF from
  <2>3. IsTop(list, amounts, from)
    BY <2>2, OrderedIsTop
  <2>4. AmountIn(list) <= SupplyAt(indexed)
    <3>1. from \subseteq Addresses
      BY IndexType
    <3> QED  BY <2>2, <3>1, IndexType, ListWithinSupply
  <2>5. list \in List
    BY <2>2 DEF Ordered
  <2>6. BalanceOf(list) = list /\ BurnedOf(list) = 0
    BY <1>3 DEF BalanceOf, BurnedOf
  <2>7. AmountIn(list) \in Nat
    BY <2>5, AmountsType
  <2>8. RankedAt(list, Balance, indexed)
    BY <2>3, IndexType DEF RankedAt
  <2>9. SupplyAt(indexed) \in Nat
    BY IndexType, SupplyType
  <2> QED  BY <2>4, <2>5, <2>6, <2>7, <2>8, <2>9
<1> QED  BY <1>2, <1>3

LEMMA BalanceOfType ==
    ASSUME NEW list \in List PROVE BalanceOf(list) \in List
<1>1. Shown(list) \in List
  BY ShownIsPicked DEF Picked
<1> QED  BY <1>1 DEF BalanceOf

-----------------------------------------------------------------------------
(* The invariant.  The lists of the database, of the server's copy and of  *)
(* the run are rankings of a height of the index; the coins of the balance *)
(* list and the burned ones are within what was issued up to the height of *)
(* the index.                                                              *)

Ranks(l, n) ==
    /\ l.received = <<>> \/ RankedAt(l.received, Received, n)
    /\ l.balance = <<>> \/ RankedAt(l.balance, Balance, n)

RankInv ==
    /\ richlist # NoList => Ranks(richlist, indexed)
    /\ copy # NoList => Ranks(copy, indexed)
    /\ pc = "received read" => RankedAt(draft, Received, indexed)
    /\ pc = "balance read" => RankedAt(BalanceOf(draft), Balance, indexed)

SumInv ==
    /\ richlist # NoList /\ ~mixed => Distributed <= SupplyAt(indexed)
    /\ pc = "balance read" =>
          AmountIn(BalanceOf(draft)) + BurnedOf(draft) <= SupplyAt(indexed)

PagesInv == TypeOK /\ RankInv /\ SumInv

LEMMA FailsType == TypeOK /\ Fails => faults' \in 0 .. MaxFaults
<1> SUFFICES ASSUME TypeOK, Fails PROVE faults' \in 0 .. MaxFaults
  OBVIOUS
<1>1. faults \in 0 .. MaxFaults
  BY DEF TypeOK
<1>2. faults < MaxFaults /\ faults' = faults + 1
  BY DEF Fails
<1> QED  BY <1>1, <1>2, BoundAssumption

LEMMA EmptyType ==
    /\ <<>> \in List /\ EmptyList \in RichList
    /\ EmptyList.received = <<>> /\ EmptyList.balance = <<>> /\ EmptyList.burned = 0
  BY DEF List, EmptyList, RichList

LEMMA RichListType ==
    ASSUME NEW l \in RichList, NEW r \in List, NEW b \in List, NEW n \in Nat
    PROVE  /\ [l EXCEPT !.received = r] \in RichList
           /\ [l EXCEPT !.received = r, !.balance = b] \in RichList
           /\ [l EXCEPT !.balance = b, !.burned = n] \in RichList
  BY DEF RichList

LEMMA SyncType == TypeOK /\ (SyncStep \/ Crash) => TypeOK'
<1> SUFFICES ASSUME TypeOK, SyncStep \/ Crash PROVE TypeOK'
  OBVIOUS
<1>1. CASE Start
  BY <1>1 DEF TypeOK, Start, Goto, webVars, listVars
<1>2. CASE SaveStats
  <2>1. supply' \in {SupplyAt(h) : h \in Heights} \cup {0}
    BY <1>2 DEF TypeOK, SaveStats
  <2> QED  BY <1>2, <2>1, FailsType DEF TypeOK, SaveStats, Goto, webVars, listVars
<1>3. CASE IndexBlock
  <2>1. indexed' \in Heights
    <3>1. indexed \in Heights /\ count \in Heights
      BY DEF TypeOK
    <3>2. indexed' = indexed \/ (indexed' = indexed + 1 /\ indexed < count)
      <4>1. CASE indexed < count
        BY <1>3, <4>1 DEF IndexBlock
      <4>2. CASE ~(indexed < count)
        BY <1>3, <4>2 DEF IndexBlock
      <4> QED  BY <4>1, <4>2
    <3> QED  BY <3>1, <3>2, ChainAssumption DEF Heights
  <2> QED  BY <1>3, <2>1 DEF TypeOK, IndexBlock, Goto, webVars, listVars
<1>4. CASE DeleteRichlist
  <2>1. richlist' # NoList => richlist' \in RichList
    BY <1>4, EmptyType DEF TypeOK, DeleteRichlist, listVars
  <2>2. spares' \in Nat
    <3>1. spares \in Nat
      BY DEF TypeOK
    <3>2. spares' = spares \/ (spares # 0 /\ spares' = spares - 1)
      <4>1. CASE spares = 0
        BY <1>4, <4>1 DEF DeleteRichlist, listVars
      <4>2. CASE spares # 0
        BY <1>4, <4>2 DEF DeleteRichlist, listVars
      <4> QED  BY <4>1, <4>2
    <3> QED  BY <3>1, <3>2
  <2>3. mixed' \in BOOLEAN
    BY <1>4 DEF TypeOK, DeleteRichlist, listVars
  <2> QED  BY <1>4, <2>1, <2>2, <2>3, FailsType DEF TypeOK, DeleteRichlist, Goto, webVars
<1>5. CASE CreateRichlist
  <2>1. richlist' # NoList => richlist' \in RichList
    BY <1>5, EmptyType DEF TypeOK, CreateRichlist
  <2>2. spares' \in Nat
    BY <1>5 DEF TypeOK, CreateRichlist
  <2> QED  BY <1>5, <2>1, <2>2, FailsType DEF TypeOK, CreateRichlist, Goto, webVars
<1>6. CASE ReadReceived
  <2>1. draft' \in List
    BY <1>6, ReceivedQuery DEF TypeOK, ReadReceived
  <2> QED  BY <1>6, <2>1, FailsType DEF TypeOK, ReadReceived, Goto, webVars, listVars
<1>7. CASE WriteReceived
  <2>1. richlist' # NoList => richlist' \in RichList
    <3>1. draft \in List /\ (richlist # NoList => richlist \in RichList)
      BY DEF TypeOK
    <3>2. richlist # NoList => [richlist EXCEPT !.received = draft] \in RichList
      BY <3>1, EmptyType, RichListType
    <3> QED  BY <1>7, <3>1, <3>2 DEF WriteReceived, Stored
  <2> QED  BY <1>7, <2>1, FailsType, EmptyType DEF TypeOK, WriteReceived, Goto, webVars, listVars
<1>8. CASE ReadBalance
  <2>1. draft' \in List
    BY <1>8, BalanceQuery DEF TypeOK, ReadBalance
  <2> QED  BY <1>8, <2>1, FailsType DEF TypeOK, ReadBalance, Goto, webVars, listVars
<1>9. CASE WriteBalance
  <2>1. richlist' # NoList => richlist' \in RichList
    <3> DEFINE burned == IF settings.counted THEN BurnedIn(draft) ELSE richlist.burned
               new == [richlist EXCEPT !.balance = BalanceOf(draft), !.burned = burned]
    <3>1. draft \in List /\ (richlist # NoList => richlist \in RichList)
      BY DEF TypeOK
    <3>2. richlist # NoList => burned \in Nat
      BY <3>1, BurnedType DEF RichList
    <3>3. richlist # NoList => new \in RichList
      <4> HIDE DEF burned
      <4> QED  BY <3>1, <3>2, EmptyType, BalanceOfType, RichListType
    <3>4. richlist' = Stored(new) \/ richlist' = richlist
      BY <1>9 DEF WriteBalance
    <3> HIDE DEF new
    <3> QED  BY <3>1, <3>3, <3>4 DEF Stored
  <2>2. mixed' \in BOOLEAN
    BY <1>9 DEF TypeOK, WriteBalance
  <2> QED  BY <1>9, <2>1, <2>2, FailsType, EmptyType DEF TypeOK, WriteBalance, Goto, webVars, listVars
<1>10. CASE SaveHistory
  BY <1>10, FailsType DEF TypeOK, SaveHistory, Goto, webVars, listVars
<1>11. CASE PruneHistory
  BY <1>11, FailsType DEF TypeOK, PruneHistory, Goto, webVars, listVars
<1>12. CASE Crash
  BY <1>12, FailsType, EmptyType DEF TypeOK, Crash, Goto, webVars, listVars
<1> QED  BY <1>1, <1>2, <1>3, <1>4, <1>5, <1>6, <1>7, <1>8, <1>9, <1>10, <1>11,
            <1>12 DEF SyncStep

LEMMA InitialiseType ==
    ASSUME TypeOK, Initialise, faults' \in 0 .. MaxFaults
    PROVE  TypeOK'
  BY EmptyType DEF TypeOK, Initialise, runVars, listVars

LEMMA WebType ==
    ASSUME TypeOK,
           \/ WebStep \/ RestartServer \/ Extend
           \/ \E a \in Addresses, name \in Names \cup {NoName} : Claim(a, name)
    PROVE  TypeOK'
<1>1. CASE ReadRichlist
  BY <1>1 DEF TypeOK, ReadRichlist, runVars, listVars
<1>2. CASE WriteRichlist
  <2>1. richlist' # NoList => richlist' \in RichList
    <3>1. richlist # NoList => richlist \in RichList
      BY DEF TypeOK
    <3>2. copy \in RichList
      BY <1>2 DEF TypeOK, WriteRichlist
    <3>3. copy.received \in List /\ copy.balance \in List
      BY <3>2 DEF RichList
    <3>4. richlist # NoList => WriteBack \in RichList
      BY <3>1, <3>3, RichListType, EmptyType DEF WriteBack
    <3>5. richlist' = Stored(WriteBack) \/ richlist' = richlist
      BY <1>2 DEF WriteRichlist
    <3> QED  BY <3>1, <3>4, <3>5 DEF Stored
  <2>2. mixed' \in BOOLEAN
    BY <1>2 DEF TypeOK, WriteRichlist
  <2> QED  BY <1>2, <2>1, <2>2, FailsType DEF TypeOK, WriteRichlist, runVars, listVars
<1>3. CASE ClaimThrows
  <2>1. faults' \in 0 .. MaxFaults
    BY <1>3, FailsType DEF TypeOK, ClaimThrows
  <2> QED  BY <1>3, <2>1, InitialiseType DEF ClaimThrows
<1>4. CASE RestartServer
  <2>1. faults' \in 0 .. MaxFaults
    BY <1>4 DEF TypeOK, RestartServer
  <2> QED  BY <1>4, <2>1, InitialiseType DEF RestartServer
<1>5. CASE Extend
  <2>1. chain' \in Heights
    <3>1. chain \in Heights
      BY DEF TypeOK
    <3> QED  BY <1>5, <3>1, ChainAssumption DEF Extend, Heights
  <2> QED  BY <1>5, <2>1 DEF TypeOK, Extend, runVars, listVars, webVars
<1>6. ASSUME NEW a \in Addresses, NEW name \in Names \cup {NoName}, Claim(a, name)
      PROVE  TypeOK'
  <2>1. claimed' \in 0 .. MaxClaims
    <3>1. claimed \in 0 .. MaxClaims
      BY DEF TypeOK
    <3>2. claimed < MaxClaims /\ claimed' = claimed + 1
      BY <1>6 DEF Claim
    <3> QED  BY <3>1, <3>2, BoundAssumption
  <2> QED  BY <1>6, <2>1 DEF TypeOK, Claim, runVars, listVars
<1> QED  BY <1>1, <1>2, <1>3, <1>4, <1>5, <1>6 DEF WebStep

LEMMA NextType == TypeOK /\ [Next]_vars => TypeOK'
<1>1. CASE UNCHANGED vars
  BY <1>1 DEF TypeOK, vars, listVars, runVars, webVars
<1> QED  BY <1>1, SyncType, WebType DEF Next

LEMMA InitType == Init => TypeOK
<1>1. 0 \in Heights /\ 0 \in 0 .. MaxClaims /\ 0 \in 0 .. MaxFaults
  BY ChainAssumption, BoundAssumption DEF Heights
<1>2. 0 \in Nat /\ 0 \in {SupplyAt(h) : h \in Heights} \cup {0}
  OBVIOUS
<1> QED  BY <1>1, <1>2, EmptyType DEF Init, TypeOK

(* Every variable stays within its type: no matter which queries fail, and *)
(* where the run or the server ends, what is stored is a list of addresses *)
(* of the chain with amounts, and a height.                                *)
THEOREM PagesTypeCorrect == Spec => []TypeOK
  BY InitType, NextType, PTL DEF Spec

-----------------------------------------------------------------------------
(* The lists.                                                              *)

LEMMA RanksGrow ==
    ASSUME NEW n \in Nat, NEW m \in Nat, n <= m, NEW l, Ranks(l, n)
    PROVE  Ranks(l, m)
  BY RankedGrows DEF Ranks

LEMMA EmptyRanks == ASSUME NEW n PROVE Ranks(EmptyList, n)
  BY EmptyType DEF Ranks

LEMMA IndexGrows ==
    ASSUME TypeOK, [Next]_vars
    PROVE  indexed \in Nat /\ indexed' \in Nat /\ indexed <= indexed' /\ settings' = settings
<1>1. indexed \in Heights /\ count \in Heights
  BY DEF TypeOK
<1>2. indexed \in Nat /\ count \in Nat
  BY <1>1, ChainAssumption DEF Heights
<1>3. CASE IndexBlock
  <2>1. CASE indexed < count
    BY <1>2, <1>3, <2>1 DEF IndexBlock
  <2>2. CASE ~(indexed < count)
    BY <1>2, <1>3, <2>2 DEF IndexBlock
  <2> QED  BY <2>1, <2>2
<1>4. CASE ~IndexBlock
  <2>1. indexed' = indexed /\ settings' = settings
    BY <1>4 DEF Next, SyncStep, WebStep, Start, SaveStats, DeleteRichlist, CreateRichlist,
       ReadReceived, WriteReceived, ReadBalance, WriteBalance, SaveHistory, PruneHistory,
       Crash, ReadRichlist, WriteRichlist, ClaimThrows, RestartServer, Initialise, Extend,
       Claim, vars, listVars
  <2> QED  BY <1>2, <2>1
<1> QED  BY <1>3, <1>4

(* A list that is kept after a step was kept before it, or is the answer   *)
(* of a query.                                                             *)
LEMMA RankStep ==
    ASSUME TypeOK, RankInv, [Next]_vars
    PROVE  RankInv'
<1> DEFINE Kept(l) == l # NoList => Ranks(l, indexed)
<1>1. indexed \in Nat /\ indexed' \in Nat /\ indexed <= indexed' /\ settings' = settings
  BY IndexGrows
<1>2. Kept(richlist) /\ Kept(copy)
  BY DEF RankInv
<1>3. Kept(copy')
  <2>1. copy' = copy \/ copy' = richlist \/ copy' = NoList
    BY DEF Next, SyncStep, WebStep, Start, SaveStats, IndexBlock, DeleteRichlist,
       CreateRichlist, ReadReceived, WriteReceived, ReadBalance, WriteBalance, SaveHistory,
       PruneHistory, Crash, ReadRichlist, WriteRichlist, ClaimThrows, RestartServer,
       Initialise, Extend, Claim, vars, listVars, webVars
  <2> HIDE DEF Kept
  <2>2. CASE copy' = NoList
    BY <2>2 DEF Kept
  <2> QED  BY <1>2, <2>1, <2>2
<1>4. Kept(richlist')
  <2>1. CASE WriteReceived
    <3>1. draft \in List /\ pc = "received read" /\ (richlist # NoList => richlist \in RichList)
      BY <2>1 DEF TypeOK, WriteReceived
    <3>2. RankedAt(draft, Received, indexed)
      BY <3>1 DEF RankInv
    <3> DEFINE new == [richlist EXCEPT !.received = draft]
    <3>3. richlist # NoList => new.received = draft /\ new.balance = richlist.balance
      BY <3>1 DEF RichList
    <3>4. richlist' = richlist \/ richlist' = Stored(new)
      BY <2>1 DEF WriteReceived
    <3> HIDE DEF new
    <3>5. richlist # NoList => Ranks(new, indexed)
      BY <1>2, <3>2, <3>3 DEF Ranks
    <3> QED  BY <1>2, <3>4, <3>5 DEF Stored
  <2>2. CASE WriteBalance
    <3>1. draft \in List /\ pc = "balance read" /\ (richlist # NoList => richlist \in RichList)
      BY <2>2 DEF TypeOK, WriteBalance
    <3>2. RankedAt(BalanceOf(draft), Balance, indexed)
      BY <3>1 DEF RankInv
    <3> DEFINE new == [richlist EXCEPT !.balance = BalanceOf(draft),
                          !.burned = IF settings.counted THEN BurnedIn(draft) ELSE @]
    <3>3. richlist # NoList => /\ new.received = richlist.received
                               /\ new.balance = BalanceOf(draft)
      BY <3>1 DEF RichList
    <3>4. richlist' = richlist \/ richlist' = Stored(new)
      BY <2>2 DEF WriteBalance
    <3> HIDE DEF new
    <3>5. richlist # NoList => Ranks(new, indexed)
      BY <1>2, <3>2, <3>3 DEF Ranks
    <3> QED  BY <1>2, <3>4, <3>5 DEF Stored
  <2>3. CASE WriteRichlist
    <3>1. copy # NoList /\ (richlist # NoList => richlist \in RichList)
      BY <2>3 DEF TypeOK, WriteRichlist
    <3>2. richlist # NoList => /\ WriteBack.received = copy.received
                               /\ WriteBack.balance = copy.balance
      BY <3>1 DEF RichList, WriteBack
    <3>3. richlist' = richlist \/ richlist' = Stored(WriteBack)
      BY <2>3 DEF WriteRichlist
    <3>4. richlist # NoList => Ranks(WriteBack, indexed)
      BY <1>2, <3>1, <3>2 DEF Ranks
    <3> QED  BY <1>2, <3>3, <3>4 DEF Stored
  <2>4. CASE ~(WriteReceived \/ WriteBalance \/ WriteRichlist)
    <3>1. richlist' = richlist \/ richlist' = EmptyList \/ richlist' = NoList
      BY <2>4 DEF Next, SyncStep, WebStep, Start, SaveStats, IndexBlock, DeleteRichlist,
         CreateRichlist, ReadReceived, ReadBalance, SaveHistory, PruneHistory, Crash,
         ReadRichlist, ClaimThrows, RestartServer, Initialise, Extend, Claim, vars, listVars
    <3>2. Kept(EmptyList) /\ Kept(NoList)
      BY EmptyRanks
    <3> HIDE DEF Kept
    <3> QED  BY <1>2, <3>1, <3>2
  <2> QED  BY <2>1, <2>2, <2>3, <2>4
<1>5. pc' = "received read" => RankedAt(draft', Received, indexed)
  <2>1. CASE ReadReceived
    <3>1. draft' \in ReceivedLists \/ pc' = "balance"
      BY <2>1 DEF ReadReceived, Goto
    <3> QED  BY <3>1, ReceivedQuery
  <2>2. CASE ~ReadReceived
    <3>1. pc' # "received read" \/ (pc' = pc /\ draft' = draft)
      BY <2>2 DEF TypeOK, Next, SyncStep, WebStep, Start, SaveStats, IndexBlock, DeleteRichlist,
         CreateRichlist, WriteReceived, ReadBalance, WriteBalance, SaveHistory,
         PruneHistory, Crash, ReadRichlist, WriteRichlist, ClaimThrows, RestartServer,
         Initialise, Extend, Claim, Goto, vars, listVars, runVars
    <3> QED  BY <3>1 DEF RankInv
  <2> QED  BY <2>1, <2>2
<1>6. pc' = "balance read" => RankedAt(BalanceOf(draft'), Balance, indexed)
  <2>1. CASE ReadBalance
    <3>1. draft' \in BalanceLists \/ pc' = "history"
      BY <2>1 DEF ReadBalance, Goto
    <3> QED  BY <3>1, BalanceQuery
  <2>2. CASE ~ReadBalance
    <3>1. pc' # "balance read" \/ (pc' = pc /\ draft' = draft)
      BY <2>2 DEF TypeOK, Next, SyncStep, WebStep, Start, SaveStats, IndexBlock, DeleteRichlist,
         CreateRichlist, ReadReceived, WriteReceived, WriteBalance, SaveHistory,
         PruneHistory, Crash, ReadRichlist, WriteRichlist, ClaimThrows, RestartServer,
         Initialise, Extend, Claim, Goto, vars, listVars, runVars
    <3> QED  BY <3>1 DEF RankInv
  <2> QED  BY <2>1, <2>2
<1>7. BalanceOf(draft)' = BalanceOf(draft')
  BY <1>1 DEF BalanceOf
<1>8. /\ richlist' # NoList => Ranks(richlist', indexed')
      /\ copy' # NoList => Ranks(copy', indexed')
  BY <1>1, <1>3, <1>4, RanksGrow
<1>9. /\ pc' = "received read" => RankedAt(draft', Received, indexed')
      /\ pc' = "balance read" => RankedAt(BalanceOf(draft'), Balance, indexed')
  BY <1>1, <1>5, <1>6, RankedGrows
<1> QED  BY <1>7, <1>8, <1>9 DEF RankInv

-----------------------------------------------------------------------------
(* The sums.                                                               *)

DistOf(l) == AmountIn(l.balance) + (IF settings.counted THEN l.burned ELSE 0)

LEMMA HeightType ==
    ASSUME NEW h \in Heights
    PROVE  h \in Nat /\ SupplyAt(h) \in Nat
           /\ \A k \in Heights : h <= k => SupplyAt(h) <= SupplyAt(k)
  BY ChainAssumption, SupplyAssumption, SupplyType DEF Heights

(* A balance list is stored together with its burned coins; the server     *)
(* stores one without them, which mixed says if it is another one.         *)
LEMMA DistStep ==
    ASSUME TypeOK, SumInv, [Next]_vars
    PROVE  richlist' # NoList /\ ~mixed' => DistOf(richlist') <= SupplyAt(indexed)
<1> DEFINE Kept(l) == DistOf(l) <= SupplyAt(indexed)
<1>1. richlist # NoList /\ ~mixed => Kept(richlist)
  BY DEF SumInv, Distributed, DistOf
<1>2. Kept(EmptyList)
  <2>1. SupplyAt(indexed) \in Nat
    BY HeightType DEF TypeOK
  <2>2. DistOf(EmptyList) = 0
    BY EmptyType, AmountInEmpty DEF DistOf
  <2> QED  BY <2>1, <2>2
<1>3. CASE WriteReceived
  <2> DEFINE new == [richlist EXCEPT !.received = draft]
  <2>1. (richlist # NoList => richlist \in RichList) /\ mixed' = mixed
    BY <1>3 DEF TypeOK, WriteReceived
  <2>2. richlist # NoList => new.balance = richlist.balance /\ new.burned = richlist.burned
    BY <2>1 DEF RichList
  <2>3. richlist' = richlist \/ richlist' = Stored(new)
    BY <1>3 DEF WriteReceived
  <2> HIDE DEF new
  <2>4. richlist # NoList => DistOf(new) = DistOf(richlist)
    BY <2>2 DEF DistOf
  <2> QED  BY <1>1, <2>1, <2>3, <2>4 DEF Stored
<1>4. CASE WriteBalance
  <2> DEFINE burned == IF settings.counted THEN BurnedIn(draft) ELSE richlist.burned
             new == [richlist EXCEPT !.balance = BalanceOf(draft), !.burned = burned]
  <2>1. (richlist # NoList => richlist \in RichList) /\ pc = "balance read"
    BY <1>4 DEF TypeOK, WriteBalance
  <2>2. richlist # NoList => new.balance = BalanceOf(draft) /\ new.burned = burned
    BY <2>1 DEF RichList
  <2>3. (richlist' = richlist /\ mixed' = mixed) \/ richlist' = Stored(new)
    BY <1>4 DEF WriteBalance
  <2> HIDE DEF new
  <2>4. richlist # NoList => DistOf(new) = AmountIn(BalanceOf(draft)) + BurnedOf(draft)
    BY <2>2 DEF DistOf, BurnedOf
  <2>5. AmountIn(BalanceOf(draft)) + BurnedOf(draft) <= SupplyAt(indexed)
    BY <2>1 DEF SumInv
  <2>6. richlist # NoList => Kept(new)
    BY <2>4, <2>5
  <2> QED  BY <1>1, <2>3, <2>6 DEF Stored
<1>5. CASE WriteRichlist
  <2>1. copy # NoList /\ (richlist # NoList => richlist \in RichList)
    BY <1>5 DEF TypeOK, WriteRichlist
  <2>2. richlist # NoList => /\ WriteBack.burned = richlist.burned
                             /\ WriteBack.balance = copy.balance
    BY <2>1 DEF RichList, WriteBack
  <2>3. CASE richlist' = richlist /\ mixed' = mixed
    BY <1>1, <2>3
  <2>4. CASE /\ richlist' = Stored(WriteBack)
             /\ mixed' = (mixed \/ (richlist # NoList /\ copy.balance # richlist.balance))
    <3>1. richlist # NoList /\ ~mixed' => ~mixed /\ DistOf(WriteBack) = DistOf(richlist)
      BY <2>2, <2>4 DEF DistOf
    <3> QED  BY <1>1, <2>4, <3>1 DEF Stored
  <2> QED  BY <1>5, <2>3, <2>4 DEF WriteRichlist
<1>6. CASE ~(WriteReceived \/ WriteBalance \/ WriteRichlist)
  <2>1. (richlist' = richlist /\ mixed' = mixed) \/ richlist' = EmptyList \/ richlist' = NoList
    BY <1>6 DEF Next, SyncStep, WebStep, Start, SaveStats, IndexBlock, DeleteRichlist,
       CreateRichlist, ReadReceived, ReadBalance, SaveHistory, PruneHistory, Crash,
       ReadRichlist, ClaimThrows, RestartServer, Initialise, Extend, Claim, vars, listVars
  <2> HIDE DEF Kept
  <2> QED  BY <1>1, <1>2, <2>1 DEF Kept
<1> QED  BY <1>3, <1>4, <1>5, <1>6

LEMMA DraftStep ==
    ASSUME TypeOK, SumInv, [Next]_vars
    PROVE  pc' = "balance read" =>
               AmountIn(BalanceOf(draft')) + BurnedOf(draft') <= SupplyAt(indexed)
<1>1. CASE ReadBalance
  <2>1. draft' \in BalanceLists \/ pc' = "history"
    BY <1>1 DEF ReadBalance, Goto
  <2> QED  BY <2>1, BalanceQuery
<1>2. CASE ~ReadBalance
  <2>1. pc' # "balance read" \/ (pc' = pc /\ draft' = draft)
    BY <1>2 DEF TypeOK, Next, SyncStep, WebStep, Start, SaveStats, IndexBlock, DeleteRichlist,
       CreateRichlist, ReadReceived, WriteReceived, WriteBalance, SaveHistory,
       PruneHistory, Crash, ReadRichlist, WriteRichlist, ClaimThrows, RestartServer,
       Initialise, Extend, Claim, Goto, vars, listVars, runVars
  <2> QED  BY <2>1 DEF SumInv
<1> QED  BY <1>1, <1>2

LEMMA DistOfType ==
    ASSUME NEW l \in RichList PROVE DistOf(l) \in Nat
<1>1. l.balance \in List /\ l.burned \in Nat
  BY DEF RichList
<1>2. AmountIn(l.balance) \in Nat
  BY <1>1, AmountsType
<1> QED  BY <1>1, <1>2 DEF DistOf

LEMMA SumStep ==
    ASSUME TypeOK, SumInv, [Next]_vars
    PROVE  SumInv'
<1>1. TypeOK' /\ settings' = settings
  BY NextType, IndexGrows
<1>2. indexed \in Heights /\ indexed' \in Heights /\ indexed <= indexed'
  BY <1>1, IndexGrows DEF TypeOK
<1>3. /\ SupplyAt(indexed) <= SupplyAt(indexed')
      /\ SupplyAt(indexed) \in Nat /\ SupplyAt(indexed') \in Nat
  BY <1>2, HeightType
<1>4. richlist' # NoList /\ ~mixed' => DistOf(richlist') <= SupplyAt(indexed')
  <2>1. richlist' # NoList => DistOf(richlist') \in Nat
    BY <1>1, DistOfType DEF TypeOK
  <2> QED  BY <1>3, <2>1, DistStep
<1>5. pc' = "balance read" =>
          AmountIn(BalanceOf(draft')) + BurnedOf(draft') <= SupplyAt(indexed')
  <2> DEFINE read == pc' = "balance read"
             sum == AmountIn(BalanceOf(draft')) + BurnedOf(draft')
  <2>1. draft' \in List
    BY <1>1 DEF TypeOK
  <2>2. AmountIn(BalanceOf(draft')) \in Nat /\ BurnedOf(draft') \in Nat
    BY <2>1, BalanceOfType, AmountsType, BurnedType DEF BurnedOf
  <2>3. read => sum <= SupplyAt(indexed)
    BY DraftStep
  <2> HIDE DEF read
  <2>4. read => sum <= SupplyAt(indexed')
    BY <1>3, <2>2, <2>3
  <2> QED  BY <2>4 DEF read
<1>6. /\ Distributed' = DistOf(richlist')
      /\ BalanceOf(draft)' = BalanceOf(draft') /\ BurnedOf(draft)' = BurnedOf(draft')
  BY <1>1 DEF Distributed, DistOf, BalanceOf, BurnedOf
<1> QED  BY <1>4, <1>5, <1>6 DEF SumInv

LEMMA InitPages == Init => PagesInv
<1> SUFFICES ASSUME Init PROVE PagesInv
  OBVIOUS
<1>1. TypeOK
  BY InitType
<1>2. RankInv
  BY EmptyRanks DEF Init, RankInv
<1>3. SumInv
  <2>1. pc = "idle"
    BY DEF Init
  <2>2. Distributed = 0
    BY EmptyType, AmountInEmpty DEF Init, Distributed
  <2>3. SupplyAt(indexed) \in Nat
    BY <1>1, HeightType DEF TypeOK
  <2> QED  BY <2>1, <2>2, <2>3 DEF SumInv
<1> QED  BY <1>1, <1>2, <1>3 DEF PagesInv

LEMMA NextPages == PagesInv /\ [Next]_vars => PagesInv'
  BY NextType, RankStep, SumStep DEF PagesInv

LEMMA PagesInvariant == Spec => []PagesInv
  BY InitPages, NextPages, PTL DEF Spec

(* Both lists of the rich list page are complete rankings of one height of *)
(* the index, however large the chain, the page and the set of burned      *)
(* addresses: the limit of the query (1067) makes up for every address     *)
(* that the loop (1093) drops.                                             *)
THEOREM ListsRanked == Spec => []ListsAreRankings
<1>1. PagesInv => ListsAreRankings
  BY DEF PagesInv, RankInv, Ranks, RankedAt, ListsAreRankings, IsRanking
<1> QED  BY <1>1, PagesInvariant, PTL

(* No coin is counted twice on the distribution page: for any chain, page  *)
(* and burned addresses, whichever queries fail (1067 to 1106).            *)
THEOREM CoinsCountedOnce == Spec => []NoCoinCountedTwice
<1>1. PagesInv => NoCoinCountedTwice
  BY DEF PagesInv, SumInv, NoCoinCountedTwice
<1> QED  BY <1>1, PagesInvariant, PTL

=============================================================================
