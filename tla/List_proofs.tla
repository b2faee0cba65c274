----------------------------- MODULE List_proofs -----------------------------
(***************************************************************************)
(* Proofs about List, for any number of blocks and any items: the links    *)
(* stay well formed and nothing leaks, and the list implements the         *)
(* sequence with a cursor of ItemList.                                     *)
(***************************************************************************)
EXTENDS List, WellFoundedInduction, FiniteSetTheorems, SequenceTheorems, TLAPS

\* A set of numbers has a least one: induction over the length of the chain.
LEMMA LeastNat ==
  ASSUME NEW S \in SUBSET Nat, S # {}
  PROVE  \E n \in S : \A m \in S : n <= m
<1>1. IsWellFoundedOn(OpToRel(<, Nat), Nat)
  BY NatLessThanWellFounded
<1>2. PICK n \in S : \A m \in S : ~(<<m, n>> \in OpToRel(<, Nat))
  BY <1>1, WFMin
<1>3. \A m \in S : ~(m < n)
  BY <1>2 DEF OpToRel
<1> QED
  BY <1>3

\* A function on 1 .. k is a sequence of length k.
LEMMA FunctionIsSeq ==
  ASSUME NEW S, NEW k \in Nat, NEW s \in [1 .. k -> S]
  PROVE  s \in Seq(S) /\ Len(s) = k
  OBVIOUS

-----------------------------------------------------------------------------
(* The chain *)

\* s[1], ..., s[k] are the nodes from _first to _last, each once and nothing else.
IsChain(s, k) ==
  /\ k \in Nat /\ s \in [1 .. k -> Nodes] /\ count = k
  /\ \A i, j \in 1 .. k : s[i] = s[j] => i = j
  /\ first = IF k = 0 THEN Null ELSE s[1]
  /\ last = IF k = 0 THEN Null ELSE s[k]
  /\ \A i \in 1 .. k : next[s[i]] = IF i = k THEN Null ELSE s[i + 1]
  /\ \A i \in 1 .. k : prev[s[i]] = IF i = 1 THEN Null ELSE s[i - 1]
  /\ alloc = {s[i] : i \in 1 .. k}

Fields ==
  /\ prev \in [Nodes -> Nodes \union {Null}] /\ next \in [Nodes -> Nodes \union {Null}]
  /\ item \in [Nodes -> Items \union {Null}]

Linked == Fields /\ \E s, k : IsChain(s, k)

\* Different nodes are no more than there are blocks.
LEMMA ChainFits ==
  ASSUME NEW k \in Nat, NEW s \in [1 .. k -> Nodes],
         \A i, j \in 1 .. k : s[i] = s[j] => i = j
  PROVE  k <= HeapSize
<1>1. s \in Injection(1 .. k, Nodes)
  BY DEF Injection, IsInjective
<1>2. IsFiniteSet(Nodes) /\ Cardinality(Nodes) = HeapSize
  BY FS_Interval, HeapAssumption DEF Nodes
<1>3. Cardinality(1 .. k) = k
  BY FS_Interval
<1> QED
  BY <1>1, <1>2, <1>3, FS_Injection

\* Following the links of a chain gives its nodes, and then nothing.
Walk(f, f0, nx) == [i \in Nodes |-> IF i = 1 THEN f0 ELSE IF f[i - 1] = Null THEN Null ELSE nx[f[i - 1]]]
Walked(f0, nx)  == CHOOSE f : f = Walk(f, f0, nx)
Padded(s, k)    == [i \in Nodes |-> IF i <= k THEN s[i] ELSE Null]

LEMMA WalkIsPadded ==
  ASSUME NEW k \in Nat, k <= HeapSize, NEW s \in [1 .. k -> Nodes], NEW f0, NEW nx,
         f0 = IF k = 0 THEN Null ELSE s[1],
         \A i \in 1 .. k : nx[s[i]] = IF i = k THEN Null ELSE s[i + 1]
  PROVE  Walked(f0, nx) = Padded(s, k)
<1> DEFINE N == Padded(s, k)
<1>0. HeapSize \in Nat \ {0} /\ \A i \in 1 .. k : s[i] # Null
  BY HeapAssumption DEF Nodes, Null
<1>1. N = Walk(N, f0, nx)
  <2>1. ASSUME NEW i \in Nodes
        PROVE  N[i] = IF i = 1 THEN f0 ELSE IF N[i - 1] = Null THEN Null ELSE nx[N[i - 1]]
    <3>1. CASE i = 1
      BY <1>0, <3>1 DEF Padded, Nodes
    <3>2. CASE i # 1
      <4>1. i - 1 \in Nodes /\ i \in Nat
        BY <1>0, <3>2 DEF Nodes
      <4>2. N[i - 1] = IF i - 1 <= k THEN s[i - 1] ELSE Null
        BY <4>1 DEF Padded
      <4>3. N[i] = IF i <= k THEN s[i] ELSE Null
        BY DEF Padded
      <4>4. CASE i - 1 <= k
        <5>1. i - 1 \in 1 .. k /\ (i - 1) + 1 = i
          BY <3>2, <4>4 DEF Nodes
        <5> QED
          BY <1>0, <3>2, <4>1, <4>2, <4>3, <5>1
      <4>5. CASE ~(i - 1 <= k)
        BY <3>2, <4>1, <4>2, <4>3, <4>5
      <4> QED
        BY <4>4, <4>5
    <3> QED
      BY <3>1, <3>2
  <2> QED
    BY <2>1 DEF Padded, Walk
<1>2. ASSUME NEW f, f = Walk(f, f0, nx), f # N PROVE FALSE
  <2> DEFINE Bad == {i \in Nat : i \in Nodes /\ f[i] # N[i]}
  <2>0. f = [i \in Nodes |-> f[i]] /\ N = [i \in Nodes |-> N[i]]
    BY <1>2 DEF Walk, Padded
  <2>1. Bad # {}
    <3>1. PICK i \in Nodes : f[i] # N[i]
      BY <1>2, <2>0
    <3> QED
      BY <3>1 DEF Nodes
  <2>2. PICK i \in Bad : \A j \in Bad : i <= j
    BY <2>1, LeastNat
  <2>3. /\ f[i] = IF i = 1 THEN f0 ELSE IF f[i - 1] = Null THEN Null ELSE nx[f[i - 1]]
        /\ N[i] = IF i = 1 THEN f0 ELSE IF N[i - 1] = Null THEN Null ELSE nx[N[i - 1]]
    BY <1>1, <1>2 DEF Walk
  <2>4. i # 1 => f[i - 1] = N[i - 1]
    <3> SUFFICES ASSUME i # 1 PROVE f[i - 1] = N[i - 1]
      OBVIOUS
    <3>1. i - 1 \in Nodes /\ i - 1 \in Nat /\ ~(i <= i - 1)
      BY <1>0 DEF Nodes
    <3> QED
      BY <2>2, <3>1
  <2> QED
    BY <2>3, <2>4
<1> QED
  BY <1>1, <1>2 DEF Walked

\* NodeAt, ChainLength and Chain of a chain.
LEMMA ChainIs ==
  ASSUME NEW s, NEW k, IsChain(s, k)
  PROVE  ChainLength = k /\ Chain = s
<1>1. /\ k \in Nat /\ s \in [1 .. k -> Nodes]
      /\ \A i, j \in 1 .. k : s[i] = s[j] => i = j
      /\ first = IF k = 0 THEN Null ELSE s[1]
      /\ \A i \in 1 .. k : next[s[i]] = IF i = k THEN Null ELSE s[i + 1]
  BY DEF IsChain
<1>2. HeapSize \in Nat /\ k <= HeapSize
  BY <1>1, ChainFits, HeapAssumption
<1>3. \A i \in 1 .. k : s[i] # Null
  BY <1>1 DEF Nodes, Null
<1>4. NodeAt = Padded(s, k)
  <2>1. NodeAt = Walked(first, next)
    BY DEF NodeAt, Walk, Walked
  <2> QED
    BY <1>1, <1>2, <2>1, WalkIsPadded
<1>5. \A i \in Nodes : NodeAt[i] = IF i <= k THEN s[i] ELSE Null
  BY <1>4 DEF Padded
<1>6. {i \in Nodes : NodeAt[i] # Null} = 1 .. k
  BY <1>1, <1>2, <1>3, <1>5 DEF Nodes
<1>7. Cardinality(1 .. k) = k
  <2>1. 1 \in Int /\ k \in Int /\ (IF 1 > k THEN 0 ELSE k - 1 + 1) = k
    BY <1>1
  <2> QED
    BY <2>1, FS_Interval
<1>8. ChainLength = k
  BY <1>6, <1>7 DEF ChainLength
<1> QED
  BY <1>1, <1>2, <1>5, <1>8 DEF Chain, Nodes

-----------------------------------------------------------------------------
(* What the operations make of the chain *)

Extended(s, k, n) == [i \in 1 .. k + 1 |-> IF i <= k THEN s[i] ELSE n]
Without(s, k, j)  == [i \in 1 .. k - 1 |-> IF i < j THEN s[i] ELSE s[i + 1]]

\* What addItem does when malloc has a block.
Linking(n, x) ==
  /\ alloc' = alloc \union {n}
  /\ item' = [item EXCEPT ![n] = x]
  /\ IF count = 0
       THEN /\ first' = n /\ last' = n
            /\ prev' = [prev EXCEPT ![n] = Null]
            /\ next' = [next EXCEPT ![n] = Null]
       ELSE /\ next' = [next EXCEPT ![last] = n, ![n] = Null]
            /\ prev' = [prev EXCEPT ![n] = last]
            /\ last' = n /\ UNCHANGED first
  /\ count' = count + 1

\* addItem links the new block behind the last one.
LEMMA Extends ==
  ASSUME Fields, NEW s, NEW k, IsChain(s, k), NEW x \in Items,
         NEW n \in Nodes \ alloc, Linking(n, x)
  PROVE  Fields' /\ IsChain(Extended(s, k, n), k + 1)'
<1> DEFINE t == Extended(s, k, n)
<1>1. /\ k \in Nat /\ s \in [1 .. k -> Nodes] /\ count = k /\ n \in Nodes
      /\ \A i, j \in 1 .. k : s[i] = s[j] => i = j
      /\ first = (IF k = 0 THEN Null ELSE s[1]) /\ last = (IF k = 0 THEN Null ELSE s[k])
      /\ \A i \in 1 .. k : next[s[i]] = IF i = k THEN Null ELSE s[i + 1]
      /\ \A i \in 1 .. k : prev[s[i]] = IF i = 1 THEN Null ELSE s[i - 1]
      /\ alloc = {s[i] : i \in 1 .. k} /\ \A i \in 1 .. k : s[i] # n
  BY DEF IsChain
<1>2. t \in [1 .. k + 1 -> Nodes] /\ t[k + 1] = n /\ \A i \in 1 .. k : t[i] = s[i]
  BY <1>1 DEF Extended
<1>3. \A i, j \in 1 .. k + 1 : t[i] = t[j] => i = j
  <2> SUFFICES ASSUME NEW i \in 1 .. k + 1, NEW j \in 1 .. k + 1, t[i] = t[j] PROVE i = j
    OBVIOUS
  <2>1. (i \in 1 .. k \/ i = k + 1) /\ (j \in 1 .. k \/ j = k + 1)
    BY <1>1
  <2> QED
    BY <1>1, <1>2, <2>1
<1>4. /\ alloc' = alloc \union {n} /\ count' = k + 1 /\ first' = t[1] /\ last' = t[k + 1]
  BY <1>1, <1>2 DEF Linking
<1>5. alloc' = {t[i] : i \in 1 .. k + 1}
  <2>1. \A i \in 1 .. k + 1 : i \in 1 .. k \/ i = k + 1
    BY <1>1
  <2>2. \A i \in 1 .. k : i \in 1 .. k + 1
    BY <1>1
  <2>3. k + 1 \in 1 .. k + 1
    BY <1>1
  <2> QED
    BY <1>1, <1>2, <1>4, <2>1, <2>2, <2>3
<1>6. /\ \A i \in 1 .. k + 1 : next'[t[i]] = IF i = k + 1 THEN Null ELSE t[i + 1]
      /\ \A i \in 1 .. k + 1 : prev'[t[i]] = IF i = 1 THEN Null ELSE t[i - 1]
      /\ next' \in [Nodes -> Nodes \union {Null}] /\ prev' \in [Nodes -> Nodes \union {Null}]
  <2>1. CASE k = 0
    <3>1. next' = [next EXCEPT ![n] = Null] /\ prev' = [prev EXCEPT ![n] = Null]
      BY <1>1, <2>1 DEF Linking
    <3> QED
      BY <1>1, <1>2, <2>1, <3>1 DEF Fields
  <2>2. CASE k # 0
    <3>1. /\ next' = [next EXCEPT ![s[k]] = n, ![n] = Null] /\ prev' = [prev EXCEPT ![n] = s[k]]
          /\ k \in 1 .. k /\ s[k] \in Nodes /\ s[k] # n
      BY <1>1, <2>2 DEF Linking
    <3>2. /\ next'[n] = Null /\ next'[s[k]] = n
          /\ \A m \in Nodes : m # n /\ m # s[k] => next'[m] = next[m]
          /\ prev'[n] = s[k] /\ \A m \in Nodes : m # n => prev'[m] = prev[m]
          /\ next' \in [Nodes -> Nodes \union {Null}] /\ prev' \in [Nodes -> Nodes \union {Null}]
      BY <1>1, <3>1 DEF Fields
    <3>3. ASSUME NEW i \in 1 .. k + 1
          PROVE  next'[t[i]] = IF i = k + 1 THEN Null ELSE t[i + 1]
      <4>1. CASE i = k + 1
        BY <1>2, <3>2, <4>1
      <4>2. CASE i = k
        BY <1>1, <1>2, <3>1, <3>2, <4>2
      <4>3. CASE i # k + 1 /\ i # k
        <5>1. i \in 1 .. k /\ i + 1 \in 1 .. k /\ s[i] # s[k] /\ s[i] # n /\ s[i] \in Nodes
          BY <1>1, <3>1, <4>3
        <5> QED
          BY <1>1, <1>2, <3>2, <4>3, <5>1
      <4> QED
        BY <4>1, <4>2, <4>3
    <3>4. ASSUME NEW i \in 1 .. k + 1
          PROVE  prev'[t[i]] = IF i = 1 THEN Null ELSE t[i - 1]
      <4>1. CASE i = k + 1
        <5>1. i # 1 /\ i - 1 = k
          BY <1>1, <2>2, <4>1
        <5> QED
          BY <1>2, <3>1, <3>2, <4>1, <5>1
      <4>2. CASE i # k + 1
        <5>1. i \in 1 .. k /\ s[i] # n /\ s[i] \in Nodes /\ (i # 1 => i - 1 \in 1 .. k)
          BY <1>1, <4>2
        <5> QED
          BY <1>1, <1>2, <3>2, <5>1
      <4> QED
        BY <4>1, <4>2
    <3> QED
      BY <3>2, <3>3, <3>4
  <2> QED
    BY <2>1, <2>2
<1>7. item' \in [Nodes -> Items \union {Null}]
  BY DEF Linking, Fields
<1>8. IsChain(t, k + 1)'
  <2>1. k + 1 \in Nat /\ k + 1 # 0
    BY <1>1
  <2> HIDE DEF t
  <2> QED
    BY <1>2, <1>3, <1>4, <1>5, <1>6, <2>1 DEF IsChain
<1> QED
  BY <1>6, <1>7, <1>8 DEF Fields

\* The private removeItem takes one node out of the chain, wherever it is.
LEMMA Unlinks ==
  ASSUME Fields, NEW s, NEW k, IsChain(s, k), NEW j \in 1 .. k, Unlink(s[j])
  PROVE  Fields' /\ IsChain(Without(s, k, j), k - 1)' /\ search' = IF k = 1 THEN Null ELSE search
<1> DEFINE t == Without(s, k, j)
<1>1. /\ k \in Nat /\ s \in [1 .. k -> Nodes] /\ count = k
      /\ \A h, i \in 1 .. k : s[h] = s[i] => h = i
      /\ first = (IF k = 0 THEN Null ELSE s[1]) /\ last = (IF k = 0 THEN Null ELSE s[k])
      /\ \A i \in 1 .. k : next[s[i]] = IF i = k THEN Null ELSE s[i + 1]
      /\ \A i \in 1 .. k : prev[s[i]] = IF i = 1 THEN Null ELSE s[i - 1]
      /\ alloc = {s[i] : i \in 1 .. k} /\ \A i \in 1 .. k : s[i] \in Nodes /\ s[i] # Null
  BY DEF IsChain, Nodes, Null
<1>2. /\ t \in [1 .. k - 1 -> Nodes]
      /\ \A i \in 1 .. k - 1 : t[i] = IF i < j THEN s[i] ELSE s[i + 1]
  BY <1>1 DEF Without
<1>3. \A h, i \in 1 .. k - 1 : t[h] = t[i] => h = i
  <2> SUFFICES ASSUME NEW h \in 1 .. k - 1, NEW i \in 1 .. k - 1, t[h] = t[i] PROVE h = i
    OBVIOUS
  <2>1. h \in 1 .. k /\ h + 1 \in 1 .. k /\ i \in 1 .. k /\ i + 1 \in 1 .. k
    BY <1>1
  <2>2. (IF h < j THEN h ELSE h + 1) = (IF i < j THEN i ELSE i + 1)
    BY <1>1, <1>2, <2>1
  <2> QED
    BY <2>2
<1>4. alloc' = {t[i] : i \in 1 .. k - 1}
  <2>1. alloc' = {s[i] : i \in 1 .. k} \ {s[j]}
    BY <1>1 DEF Unlink, Freed
  <2>2. ASSUME NEW i \in 1 .. k - 1 PROVE t[i] \in alloc'
    <3>1. i \in 1 .. k /\ i + 1 \in 1 .. k /\ (i < j => i # j) /\ (~(i < j) => i + 1 # j)
      BY <1>1
    <3> QED
      BY <1>1, <1>2, <2>1, <3>1
  <2>3. ASSUME NEW i \in 1 .. k, i # j PROVE \E h \in 1 .. k - 1 : t[h] = s[i]
    <3>1. CASE i < j
      <4>1. i \in 1 .. k - 1
        BY <1>1, <3>1
      <4> QED
        BY <1>2, <3>1, <4>1
    <3>2. CASE i > j
      <4>1. i - 1 \in 1 .. k - 1 /\ ~(i - 1 < j) /\ (i - 1) + 1 = i
        BY <1>1, <3>2
      <4> QED
        BY <1>2, <4>1
    <3> QED
      BY <1>1, <2>3, <3>1, <3>2
  <2> QED
    BY <2>1, <2>2, <2>3
<1>5. /\ prev[s[j]] = (IF j = 1 THEN Null ELSE s[j - 1]) /\ next[s[j]] = (IF j = k THEN Null ELSE s[j + 1])
      /\ j # 1 => j - 1 \in 1 .. k
      /\ j # k => j + 1 \in 1 .. k
  BY <1>1
<1>6. prev[s[j]] = Null <=> j = 1
  BY <1>1, <1>5
<1>7. next[s[j]] = Null <=> j = k
  BY <1>1, <1>5
<1>8. CASE k = 1
  <2>1. j = 1 /\ k - 1 = 0 /\ 1 .. k - 1 = {}
    BY <1>1, <1>8
  <2>2. first' = Null /\ last' = Null /\ count' = 0 /\ search' = Null /\ UNCHANGED <<prev, next, item>>
    BY <1>6, <1>7, <1>8, <2>1 DEF Unlink
  <2>3. IsChain(t, k - 1)'
    <3> HIDE DEF t
    <3> QED
      BY <1>2, <1>4, <2>1, <2>2 DEF IsChain
  <2> QED
    BY <1>8, <2>2, <2>3 DEF Fields
<1>9. CASE k # 1
  <2>0. k - 1 \in Nat /\ k - 1 # 0 /\ 1 \in 1 .. k - 1 /\ k - 1 \in 1 .. k - 1 /\ 2 \in 1 .. k
    BY <1>1, <1>9
  <2>1. /\ count' = k - 1 /\ search' = search /\ item' = item
        /\ first' = t[1] /\ last' = t[k - 1]
    <3>1. CASE j = 1
      <4>1. first' = s[2] /\ last' = s[k] /\ count' = k - 1 /\ search' = search /\ item' = item
        BY <1>1, <1>5, <1>6, <1>7, <1>9, <3>1 DEF Unlink
      <4> QED
        BY <1>1, <1>2, <2>0, <3>1, <4>1
    <3>2. CASE j # 1
      <4>1. /\ first' = s[1] /\ last' = (IF j = k THEN s[k - 1] ELSE s[k])
            /\ count' = k - 1 /\ search' = search /\ item' = item
        BY <1>1, <1>5, <1>6, <1>7, <1>9, <3>2 DEF Unlink, LastWithout
      <4>2. t[1] = s[1] /\ t[k - 1] = (IF j = k THEN s[k - 1] ELSE s[k])
        BY <1>1, <1>2, <2>0, <3>2
      <4> QED
        BY <4>1, <4>2
    <3> QED
      BY <3>1, <3>2
  <2>2. /\ next' \in [Nodes -> Nodes \union {Null}]
        /\ \A i \in 1 .. k - 1 : next'[t[i]] = IF i = k - 1 THEN Null ELSE t[i + 1]
    <3>1. CASE j = 1
      <4>1. next' = next
        BY <1>6, <1>7, <1>9, <3>1 DEF Unlink
      <4>2. ASSUME NEW i \in 1 .. k - 1
            PROVE  next'[t[i]] = IF i = k - 1 THEN Null ELSE t[i + 1]
        <5>1. i + 1 \in 1 .. k /\ t[i] = s[i + 1] /\ (i # k - 1 => i + 1 \in 1 .. k - 1 /\ i + 1 # k)
          BY <1>1, <1>2, <3>1
        <5>2. i # k - 1 => t[i + 1] = s[(i + 1) + 1]
          BY <1>2, <3>1, <5>1
        <5>3. i = k - 1 => i + 1 = k
          BY <1>1
        <5> QED
          BY <1>1, <4>1, <5>1, <5>2, <5>3
      <4> QED
        BY <4>1, <4>2 DEF Fields
    <3>2. CASE j # 1
      <4>1. /\ next' = [next EXCEPT ![s[j - 1]] = next[s[j]]]
            /\ s[j - 1] \in Nodes /\ next[s[j]] \in Nodes \union {Null}
        BY <1>1, <1>5, <1>6, <3>2 DEF Unlink, Fields
      <4>2. /\ next' \in [Nodes -> Nodes \union {Null}]
            /\ next'[s[j - 1]] = next[s[j]]
            /\ \A m \in Nodes : m # s[j - 1] => next'[m] = next[m]
        BY <4>1 DEF Fields
      <4>3. ASSUME NEW i \in 1 .. k - 1
            PROVE  next'[t[i]] = IF i = k - 1 THEN Null ELSE t[i + 1]
        <5>1. CASE i = j - 1
          <6>1. t[i] = s[j - 1] /\ (i = k - 1 <=> j = k) /\ (j # k => i + 1 \in 1 .. k - 1 /\ i + 1 = j)
            BY <1>1, <1>2, <5>1
          <6>2. j # k => t[i + 1] = s[j + 1]
            BY <1>2, <6>1
          <6> QED
            BY <1>5, <4>2, <6>1, <6>2
        <5>2. CASE i < j - 1
          <6>1. /\ i \in 1 .. k /\ i + 1 \in 1 .. k - 1 /\ t[i] = s[i] /\ t[i + 1] = s[i + 1]
                /\ i # k /\ i # k - 1 /\ i # j - 1
            BY <1>1, <1>2, <5>2
          <6>2. s[i] # s[j - 1] /\ s[i] \in Nodes
            BY <1>1, <1>5, <3>2, <6>1
          <6> QED
            BY <1>1, <4>2, <6>1, <6>2, SMTT(30)
        <5>3. CASE i > j - 1
          <6>1. /\ i + 1 \in 1 .. k /\ t[i] = s[i + 1] /\ i + 1 # j - 1
                /\ (i = k - 1 <=> i + 1 = k) /\ (i # k - 1 => i + 1 \in 1 .. k - 1)
            BY <1>1, <1>2, <5>3
          <6>2. i # k - 1 => t[i + 1] = s[(i + 1) + 1]
            BY <1>1, <1>2, <5>3, <6>1
          <6>3. s[i + 1] # s[j - 1] /\ s[i + 1] \in Nodes
            BY <1>1, <1>5, <3>2, <6>1
          <6> QED
            BY <1>1, <4>2, <6>1, <6>2, <6>3
        <5> QED
          BY <1>1, <5>1, <5>2, <5>3
      <4> QED
        BY <4>2, <4>3
    <3> QED
      BY <3>1, <3>2
  <2>3. /\ prev' \in [Nodes -> Nodes \union {Null}]
        /\ \A i \in 1 .. k - 1 : prev'[t[i]] = IF i = 1 THEN Null ELSE t[i - 1]
    <3>1. CASE j = k
      <4>1. prev' = prev
        BY <1>6, <1>7, <1>9, <3>1 DEF Unlink
      <4>2. ASSUME NEW i \in 1 .. k - 1
            PROVE  prev'[t[i]] = IF i = 1 THEN Null ELSE t[i - 1]
        <5>1. i \in 1 .. k /\ t[i] = s[i] /\ (i # 1 => i - 1 \in 1 .. k - 1 /\ t[i - 1] = s[i - 1])
          BY <1>1, <1>2, <3>1
        <5> QED
          BY <1>1, <4>1, <5>1
      <4> QED
        BY <4>1, <4>2 DEF Fields
    <3>2. CASE j # k
      <4>1. /\ prev' = [prev EXCEPT ![s[j + 1]] = prev[s[j]]]
            /\ s[j + 1] \in Nodes /\ prev[s[j]] \in Nodes \union {Null}
        BY <1>1, <1>5, <1>6, <1>7, <3>2 DEF Unlink, Fields
      <4>2. /\ prev' \in [Nodes -> Nodes \union {Null}]
            /\ prev'[s[j + 1]] = prev[s[j]]
            /\ \A m \in Nodes : m # s[j + 1] => prev'[m] = prev[m]
        BY <4>1 DEF Fields
      <4>3. ASSUME NEW i \in 1 .. k - 1
            PROVE  prev'[t[i]] = IF i = 1 THEN Null ELSE t[i - 1]
        <5>1. CASE i = j
          <6>1. t[i] = s[j + 1] /\ (i # 1 => i - 1 \in 1 .. k - 1 /\ t[i - 1] = s[j - 1])
            BY <1>1, <1>2, <5>1
          <6> QED
            BY <1>5, <4>2, <5>1, <6>1
        <5>2. CASE i < j
          <6>1. /\ i \in 1 .. k /\ t[i] = s[i] /\ i # j + 1
                /\ (i # 1 => i - 1 \in 1 .. k - 1 /\ t[i - 1] = s[i - 1])
            BY <1>1, <1>2, <5>2
          <6>2. s[i] # s[j + 1] /\ s[i] \in Nodes
            BY <1>1, <1>5, <3>2, <6>1
          <6> QED
            BY <1>1, <4>2, <6>1, <6>2
        <5>3. CASE i > j
          <6>1. /\ i + 1 \in 1 .. k /\ t[i] = s[i + 1] /\ i + 1 # j + 1 /\ i + 1 # 1 /\ i # 1
                /\ i - 1 \in 1 .. k - 1 /\ t[i - 1] = s[(i - 1) + 1] /\ (i - 1) + 1 = (i + 1) - 1
            BY <1>1, <1>2, <5>3
          <6>2. s[i + 1] # s[j + 1] /\ s[i + 1] \in Nodes
            BY <1>1, <1>5, <3>2, <6>1
          <6> QED
            BY <1>1, <4>2, <6>1, <6>2
        <5> QED
          BY <1>1, <5>1, <5>2, <5>3
      <4> QED
        BY <4>2, <4>3
    <3> QED
      BY <3>1, <3>2
  <2>4. IsChain(t, k - 1)'
    <3> HIDE DEF t
    <3> QED
      BY <1>2, <1>3, <1>4, <2>0, <2>1, <2>2, <2>3 DEF IsChain
  <2> QED
    BY <1>9, <2>1, <2>2, <2>3, <2>4 DEF Fields
<1> QED
  BY <1>8, <1>9

\* FirstHolding finds the first node that has the item.
LEMMA FirstHoldingIs ==
  ASSUME NEW s, NEW k, IsChain(s, k), NEW x
  PROVE  /\ Holding(x) = {i \in 1 .. k : item[s[i]] = x}
         /\ Holding(x) # {} =>
              \E j \in 1 .. k : /\ FirstHolding(x) = s[j] /\ item[s[j]] = x
                                /\ \A i \in 1 .. k : item[s[i]] = x => j <= i
<1>1. Chain = s /\ k \in Nat /\ s \in [1 .. k -> Nodes]
  BY ChainIs DEF IsChain
<1>2. Holding(x) = {i \in 1 .. k : item[s[i]] = x}
  BY <1>1 DEF Holding, Contents
<1>3. ASSUME Holding(x) # {}
      PROVE  \E j \in 1 .. k : /\ FirstHolding(x) = s[j] /\ item[s[j]] = x
                               /\ \A i \in 1 .. k : item[s[i]] = x => j <= i
  <2>1. Holding(x) \in SUBSET Nat
    BY <1>1, <1>2
  <2>2. \E i \in Holding(x) : \A j \in Holding(x) : i <= j
    BY <1>3, <2>1, LeastNat
  <2> DEFINE j == CHOOSE i \in Holding(x) : \A h \in Holding(x) : i <= h
  <2>3. j \in Holding(x) /\ \A h \in Holding(x) : j <= h
    BY <2>2
  <2>4. FirstHolding(x) = s[j]
    BY <1>1 DEF FirstHolding
  <2> QED
    BY <1>2, <2>3, <2>4
<1> QED
  BY <1>2, <1>3

-----------------------------------------------------------------------------
(* The links stay a chain *)

LEMMA InitLinked == Init => Linked
<1> SUFFICES ASSUME Init PROVE Linked
  OBVIOUS
<1>1. Fields
  BY DEF Init, Fields
<1>2. IsChain([i \in 1 .. 0 |-> Null], 0)
  BY DEF Init, IsChain
<1> QED
  BY <1>1, <1>2 DEF Linked

\* A step that leaves the structure alone keeps its chain.
LEMMA Keeps ==
  ASSUME Fields, NEW s, NEW k, IsChain(s, k), UNCHANGED <<alloc, links, ends>>
  PROVE  Fields' /\ IsChain(s, k)'
<1>1. UNCHANGED <<alloc, prev, next, item, first, last, count>>
  BY DEF links, ends
<1>2. Fields'
  BY <1>1 DEF Fields
<1>3. IsChain(s, k)'
  BY <1>1 DEF IsChain
<1> QED
  BY <1>2, <1>3

\* Removing an item, or the last node, keeps a chain.
LEMMA RemoveLinked ==
  ASSUME Linked, (\E x \in Items : removeItem(x)) \/ DestroyStep
  PROVE  Linked'
<1>1. PICK s, k : IsChain(s, k)
  BY DEF Linked
<1>2. ASSUME NEW j \in 1 .. k, Unlink(s[j]) PROVE Linked'
  BY <1>1, <1>2, Unlinks DEF Linked
<1>3. ASSUME UNCHANGED <<alloc, links, ends>> PROVE Linked'
  BY <1>1, <1>3, Keeps DEF Linked
<1>4. ASSUME NEW x \in Items, removeItem(x) PROVE Linked'
  <2>1. CASE Holding(x) # {} /\ Unlink(FirstHolding(x))
    BY <1>1, <1>2, <2>1, FirstHoldingIs
  <2>2. CASE UNCHANGED <<alloc, links, ends>>
    BY <1>3, <2>2
  <2>3. (Holding(x) # {} /\ Unlink(FirstHolding(x))) \/ UNCHANGED <<alloc, links, ends>>
    BY <1>4, Zenon DEF removeItem
  <2> QED
    BY <2>1, <2>2, <2>3
<1>5. CASE DestroyStep
  <2>1. CASE first = Null
    BY <1>3, <1>5, <2>1 DEF DestroyStep
  <2>2. CASE first # Null
    <3>1. k \in 1 .. k /\ last = s[k]
      BY <1>1, <2>2 DEF IsChain
    <3> QED
      BY <1>2, <1>5, <2>2, <3>1 DEF DestroyStep
  <2> QED
    BY <2>1, <2>2
<1> QED
  BY <1>4, <1>5

LEMMA NextLinked == Linked /\ [Next]_vars => Linked'
<1> SUFFICES ASSUME Linked, [Next]_vars PROVE Linked'
  OBVIOUS
<1>1. PICK s, k : IsChain(s, k)
  BY DEF Linked
<1>2. ASSUME UNCHANGED <<alloc, links, ends>> PROVE Linked'
  BY <1>1, <1>2, Keeps DEF Linked
<1>3. ASSUME NEW x \in Items, addItem(x) PROVE Linked'
  <2>1. CASE \E n \in Nodes \ alloc : Linking(n, x)
    BY <1>1, <2>1, Extends DEF Linked
  <2>2. CASE UNCHANGED <<alloc, links, ends>>
    BY <1>2, <2>2
  <2>3. (\E n \in Nodes \ alloc : Linking(n, x)) \/ UNCHANGED <<alloc, links, ends>>
    BY <1>3, Zenon DEF addItem, Linking
  <2> QED
    BY <2>1, <2>2, <2>3
<1>4. CASE \/ getFirstItem \/ getNextItem \/ (\E x \in Items : searchItem(x)) \/ Destroy
           \/ UNCHANGED vars
  BY <1>2, <1>4 DEF getFirstItem, getNextItem, searchItem, Destroy, vars
<1> QED
  BY <1>3, <1>4, RemoveLinked DEF Next, Calls

LEMMA Invariance == Spec => []Linked
  BY InitLinked, NextLinked, PTL DEF Spec

\* Whatever calls are made, and while the destructor runs, the links mirror each other
\* from _first to _last, _count is their number, and every block is linked.
THEOREM StaysWellFormed == Spec => []WellFormed
<1>1. Linked => WellFormed
  <2> SUFFICES ASSUME Linked PROVE WellFormed
    OBVIOUS
  <2>1. PICK s, k : IsChain(s, k)
    BY DEF Linked
  <2>2. ChainLength = k /\ Chain = s /\ k \in Nat /\ DOMAIN s = 1 .. k
    <3>1. ChainLength = k /\ Chain = s
      BY <2>1, ChainIs
    <3> QED
      BY <2>1, <3>1 DEF IsChain
  <2>3. count = 0 => first = Null /\ last = Null
    BY <2>1 DEF IsChain
  <2>4. count # 0 => prev[first] = Null /\ last = s[count] /\ next[last] = Null
    <3> SUFFICES ASSUME count # 0 PROVE prev[first] = Null /\ last = s[count] /\ next[last] = Null
      OBVIOUS
    <3>1. count = k /\ 1 \in 1 .. k /\ k \in 1 .. k
      BY <2>1, <2>2 DEF IsChain
    <3> QED
      BY <2>1, <3>1 DEF IsChain
  <2>5. \A i \in 2 .. count : prev[s[i]] = s[i - 1]
    BY <2>1, <2>2 DEF IsChain
  <2> QED
    BY <2>1, <2>2, <2>3, <2>4, <2>5 DEF WellFormed, IsChain
<1> QED
  BY <1>1, Invariance, PTL

-----------------------------------------------------------------------------
(* The list implements the sequence with a cursor *)

\* What Contents and Cursor are, told from the nodes.
ChainAgrees ==
  \A s, k : IsChain(s, k) =>
    /\ Contents = [i \in 1 .. k |-> item[s[i]]]
    /\ search = Null => Cursor = 0
    /\ \A i \in 1 .. k : search = s[i] => Cursor = i
    /\ (search # Null /\ \A i \in 1 .. k : search # s[i]) => Cursor = 0 - 1
    /\ Cursor \in {0 - 1} \union 0 .. k

LEMMA Agrees == ChainAgrees
<1> SUFFICES ASSUME NEW s, NEW k, IsChain(s, k)
             PROVE  /\ Contents = [i \in 1 .. k |-> item[s[i]]]
                    /\ search = Null => Cursor = 0
                    /\ \A i \in 1 .. k : search = s[i] => Cursor = i
                    /\ (search # Null /\ \A i \in 1 .. k : search # s[i]) => Cursor = 0 - 1
                    /\ Cursor \in {0 - 1} \union 0 .. k
  BY DEF ChainAgrees
<1>1. ChainLength = k /\ Chain = s
  BY ChainIs
<1>2. /\ k \in Nat /\ s \in [1 .. k -> Nodes] /\ DOMAIN s = 1 .. k
      /\ \A i, j \in 1 .. k : s[i] = s[j] => i = j
      /\ \A i \in 1 .. k : s[i] # Null
  BY DEF IsChain, Nodes, Null
<1>3. Contents = [i \in 1 .. k |-> item[s[i]]]
  BY <1>1, <1>2 DEF Contents
<1>4. InChain(search) <=> \E i \in 1 .. k : s[i] = search
  BY <1>1, <1>2 DEF InChain
<1>5. ASSUME search = Null PROVE Cursor = 0
  <2>1. \A i \in 0 .. k : (IF i = 0 THEN search = Null ELSE s[i] = search) <=> i = 0
    BY <1>2, <1>5
  <2>2. Position = 0
    BY <1>1, <1>2, <2>1 DEF Position
  <2> QED
    BY <1>5, <2>2 DEF Cursor
<1>6. ASSUME NEW j \in 1 .. k, search = s[j] PROVE Cursor = j
  <2>1. \A i \in 0 .. k : (IF i = 0 THEN search = Null ELSE s[i] = search) <=> i = j
    BY <1>2, <1>6
  <2>2. Position = j
    BY <1>1, <1>2, <2>1 DEF Position
  <2> QED
    BY <1>4, <1>6, <2>2 DEF Cursor
<1>7. ASSUME search # Null, \A i \in 1 .. k : search # s[i] PROVE Cursor = 0 - 1
  BY <1>4, <1>7 DEF Cursor
<1>8. Cursor \in {0 - 1} \union 0 .. k
  BY <1>2, <1>5, <1>6, <1>7
<1> QED
  BY <1>3, <1>5, <1>6, <1>7, <1>8

LEMMA AgreesNext == ChainAgrees'
  BY Agrees, PTL

\* Taking an element out of a sequence.
LEMMA Cut ==
  ASSUME NEW S, NEW q \in Seq(S), NEW j \in 1 .. Len(q)
  PROVE  SubSeq(q, 1, j - 1) \o SubSeq(q, j + 1, Len(q))
           = [i \in 1 .. Len(q) - 1 |-> IF i < j THEN q[i] ELSE q[i + 1]]
<1> DEFINE a == SubSeq(q, 1, j - 1)
           b == SubSeq(q, j + 1, Len(q))
           c == [i \in 1 .. Len(q) - 1 |-> IF i < j THEN q[i] ELSE q[i + 1]]
<1>1. /\ a \in Seq(S) /\ Len(a) = j - 1 /\ \A i \in 1 .. j - 1 : a[i] = q[i]
      /\ b \in Seq(S) /\ Len(b) = Len(q) - j /\ \A i \in 1 .. Len(q) - j : b[i] = q[j + i]
  OBVIOUS
<1> HIDE DEF a, b
<1>2. /\ a \o b \in Seq(S) /\ Len(a \o b) = Len(q) - 1
      /\ \A i \in 1 .. Len(q) - 1 : (a \o b)[i] = IF i < j THEN a[i] ELSE b[i - (j - 1)]
  <2>1. /\ a \o b \in Seq(S) /\ Len(a \o b) = Len(a) + Len(b)
        /\ \A i \in 1 .. Len(a) + Len(b) : (a \o b)[i] = IF i <= Len(a) THEN a[i] ELSE b[i - Len(a)]
    BY <1>1, ConcatProperties
  <2>2. Len(a) = j - 1 /\ Len(a) + Len(b) = Len(q) - 1
    BY <1>1
  <2>3. \A i \in 1 .. Len(q) - 1 : i <= j - 1 <=> i < j
    OBVIOUS
  <2> QED
    BY <2>1, <2>2, <2>3
<1>3. c \in Seq(S) /\ Len(c) = Len(q) - 1
  <2>1. Len(q) - 1 \in Nat /\ \A i \in 1 .. Len(q) - 1 : i \in 1 .. Len(q) /\ i + 1 \in 1 .. Len(q)
    OBVIOUS
  <2>2. c \in [1 .. Len(q) - 1 -> S]
    BY <2>1
  <2> QED
    BY <2>1, <2>2, FunctionIsSeq
<1>4. ASSUME NEW i \in 1 .. Len(q) - 1 PROVE (a \o b)[i] = c[i]
  <2>1. CASE i < j
    BY <1>1, <1>2, <2>1
  <2>2. CASE ~(i < j)
    <3>1. i - (j - 1) \in 1 .. Len(q) - j /\ j + (i - (j - 1)) = i + 1
      BY <2>2
    <3> QED
      BY <1>1, <1>2, <2>2, <3>1
  <2> QED
    BY <2>1, <2>2
<1> HIDE DEF c
<1> QED
  BY <1>2, <1>3, <1>4, SeqEqual DEF a, b, c

\* The sequence a chain stands for.
LEMMA ViewIs ==
  ASSUME Fields, NEW s, NEW k, IsChain(s, k)
  PROVE  /\ Contents \in Seq(Items \union {Null}) /\ Len(Contents) = k
         /\ k \in Nat /\ Contents = [i \in 1 .. k |-> item[s[i]]]
         /\ \A i \in 1 .. k : Contents[i] = item[s[i]]
<1>1. k \in Nat /\ s \in [1 .. k -> Nodes] /\ Contents = [i \in 1 .. k |-> item[s[i]]]
  BY Agrees DEF ChainAgrees, IsChain
<1>2. Contents \in [1 .. k -> Items \union {Null}]
  BY <1>1 DEF Fields
<1> QED
  BY <1>1, <1>2, FunctionIsSeq

\* A step that touches neither the chain nor the cursor leaves the sequence alone.
LEMMA Still ==
  ASSUME NEW s, NEW k, IsChain(s, k), UNCHANGED <<alloc, links, ends>>
  PROVE  /\ IsChain(s, k)' /\ Contents' = Contents
         /\ search' = search => Cursor' = Cursor
<1>1. IsChain(s, k)'
  BY DEF IsChain, links, ends
<1>2. Contents' = Contents
  <2>1. item' = item
    BY DEF links
  <2>2. Contents = [i \in 1 .. k |-> item[s[i]]]
    BY Agrees DEF ChainAgrees
  <2>3. Contents' = [i \in 1 .. k |-> item'[s[i]]]
    BY <1>1, AgreesNext DEF ChainAgrees
  <2> QED
    BY <2>1, <2>2, <2>3
<1>3. ASSUME search' = search PROVE Cursor' = Cursor
  <2>1. CASE search = Null
    BY <1>1, <1>3, <2>1, Agrees, AgreesNext DEF ChainAgrees
  <2>2. CASE \E i \in 1 .. k : search = s[i]
    BY <1>1, <1>3, <2>2, Agrees, AgreesNext DEF ChainAgrees
  <2>3. CASE search # Null /\ \A i \in 1 .. k : search # s[i]
    BY <1>1, <1>3, <2>3, Agrees, AgreesNext DEF ChainAgrees
  <2> QED
    BY <2>1, <2>2, <2>3
<1> QED
  BY <1>1, <1>2, <1>3

LEMMA InitRefines == Init => Promise!Init
<1> SUFFICES ASSUME Init PROVE Promise!Init
  OBVIOUS
<1> DEFINE s == [i \in 1 .. 0 |-> Null]
<1>1. IsChain(s, 0)
  BY DEF Init, IsChain
<1>2. Fields
  BY DEF Init, Fields
<1>3. Contents = <<>>
  <2>1. Contents \in Seq(Items \union {Null}) /\ Len(Contents) = 0
    BY <1>1, <1>2, ViewIs
  <2> QED
    BY <2>1, EmptySeq
<1>4. Cursor = 0 /\ ret = Null
  BY <1>1, Agrees DEF ChainAgrees, Init
<1> QED
  BY <1>3, <1>4 DEF Promise!Init

\* addItem appends; when malloc fails the list does not move.
LEMMA AddRefines ==
  ASSUME Linked, NEW x \in Items, addItem(x)
  PROVE  Promise!addItem(x) \/ UNCHANGED <<Contents, Cursor, ret>>
<1>1. PICK s, k : IsChain(s, k)
  BY DEF Linked
<1>2. Fields /\ k \in Nat /\ s \in [1 .. k -> Nodes] /\ \A i \in 1 .. k : s[i] # Null
  BY <1>1 DEF Linked, IsChain, Nodes, Null
<1>3. CASE UNCHANGED <<alloc, links, ends>> /\ search' = search /\ ret' = ret
  BY <1>1, <1>3, Still
<1>4. ASSUME NEW n \in Nodes \ alloc, Linking(n, x), search' = search, ret' = ret
      PROVE  Promise!addItem(x)
  <2> DEFINE t == Extended(s, k, n)
  <2>1. Fields' /\ IsChain(t, k + 1)'
    BY <1>1, <1>2, <1>4, Extends
  <2>2. /\ Contents \in Seq(Items \union {Null}) /\ Len(Contents) = k
        /\ \A i \in 1 .. k : Contents[i] = item[s[i]]
    BY <1>1, <1>2, ViewIs
  <2>3. Contents' = [i \in 1 .. k + 1 |-> item'[t[i]]]
    BY <2>1, AgreesNext DEF ChainAgrees
  <2>4. /\ \A i \in 1 .. k : t[i] = s[i] /\ s[i] # n /\ s[i] \in Nodes
        /\ t[k + 1] = n /\ k + 1 \in 1 .. k + 1
    BY <1>1, <1>2 DEF Extended, IsChain
  <2>5. item' = [item EXCEPT ![n] = x]
    BY <1>4 DEF Linking
  <2>6. Contents' = Append(Contents, x)
    <3>1. /\ Append(Contents, x) \in Seq(Items \union {Null}) /\ Len(Append(Contents, x)) = k + 1
          /\ Append(Contents, x)[k + 1] = x /\ \A i \in 1 .. k : Append(Contents, x)[i] = Contents[i]
      BY <2>2
    <3>2. \A i \in 1 .. k : item'[t[i]] = Contents[i]
      BY <1>2, <2>2, <2>4, <2>5 DEF Fields
    <3>3. item'[t[k + 1]] = x
      BY <1>2, <2>4, <2>5 DEF Fields
    <3>4. \A i \in 1 .. k + 1 : item'[t[i]] = Append(Contents, x)[i]
      <4>1. \A i \in 1 .. k + 1 : i \in 1 .. k \/ i = k + 1
        BY <1>2
      <4> QED
        BY <3>1, <3>2, <3>3, <4>1
    <3>5. Append(Contents, x) = [i \in 1 .. k + 1 |-> Append(Contents, x)[i]]
      BY <3>1, LenProperties
    <3> HIDE DEF t
    <3> QED
      BY <2>3, <3>4, <3>5
  <2>7. Len(Contents') = k + 1
    BY <2>2, <2>6
  <2>8. Cursor' \in {0 - 1} \union 0 .. k + 1
    BY <2>1, AgreesNext DEF ChainAgrees
  <2>9. Cursor # 0 - 1 => Cursor' = Cursor
    <3>1. CASE search = Null
      BY <1>1, <1>4, <2>1, <3>1, Agrees, AgreesNext DEF ChainAgrees
    <3>2. CASE \E i \in 1 .. k : search = s[i]
      <4>1. PICK i \in 1 .. k : search = s[i]
        BY <3>2
      <4>2. i \in 1 .. k + 1 /\ search' = t[i]
        BY <1>2, <1>4, <2>4, <4>1
      <4>3. Cursor = i
        BY <1>1, <4>1, Agrees DEF ChainAgrees
      <4>4. Cursor' = i
        BY <2>1, <4>2, AgreesNext DEF ChainAgrees
      <4> QED
        BY <4>3, <4>4
    <3>3. CASE search # Null /\ \A i \in 1 .. k : search # s[i]
      BY <1>1, <3>3, Agrees DEF ChainAgrees
    <3> QED
      BY <3>1, <3>2, <3>3
  <2> QED
    BY <1>4, <2>6, <2>7, <2>8, <2>9 DEF Promise!addItem, Promise!Anywhere, Promise!Lost
<1>5. \/ \E n \in Nodes \ alloc : Linking(n, x) /\ search' = search /\ ret' = ret
      \/ UNCHANGED <<alloc, links, ends>> /\ search' = search /\ ret' = ret
  <2>1. CASE \E n \in Nodes \ alloc : Linking(n, x) /\ UNCHANGED <<search, ret, life>>
    BY <2>1
  <2>2. CASE UNCHANGED <<alloc, links, ends, search, ret>>
    BY <2>2
  <2>3. \/ \E n \in Nodes \ alloc : Linking(n, x) /\ UNCHANGED <<search, ret, life>>
        \/ UNCHANGED <<alloc, links, ends, search, ret>>
    BY Zenon DEF addItem, Linking
  <2> QED
    BY <2>1, <2>2, <2>3
<1> QED
  BY <1>3, <1>4, <1>5

\* The node the loops of removeItem and searchItem stop at is the first index of the item.
LEMMA FoundAt ==
  ASSUME Fields, NEW s, NEW k, IsChain(s, k), NEW x
  PROVE  /\ Promise!Has(x) <=> Holding(x) # {}
         /\ Holding(x) # {} =>
              \E j \in 1 .. k : FirstHolding(x) = s[j] /\ item[s[j]] = x /\ Promise!IndexOf(x) = j
<1>1. /\ Len(Contents) = k /\ k \in Nat /\ DOMAIN Contents = 1 .. k
      /\ \A i \in 1 .. k : Contents[i] = item[s[i]]
  BY ViewIs, LenProperties
<1>2. Holding(x) = {i \in 1 .. k : item[s[i]] = x}
  BY FirstHoldingIs
<1>3. Promise!Has(x) <=> Holding(x) # {}
  BY <1>1, <1>2 DEF Promise!Has
<1>4. ASSUME Holding(x) # {}
      PROVE  \E j \in 1 .. k : /\ FirstHolding(x) = s[j] /\ item[s[j]] = x
                               /\ Promise!IndexOf(x) = j
  <2>1. PICK j \in 1 .. k : /\ FirstHolding(x) = s[j] /\ item[s[j]] = x
                            /\ \A i \in 1 .. k : item[s[i]] = x => j <= i
    BY <1>4, FirstHoldingIs
  <2>2. ASSUME NEW i \in 1 .. k
        PROVE  (Contents[i] = x /\ \A h \in 1 .. (i - 1) : Contents[h] # x) <=> i = j
    <3>1. \A h \in 1 .. (i - 1) : h \in 1 .. k /\ h < i
      BY <1>1
    <3>2. CASE i = j
      <4>1. \A h \in 1 .. (i - 1) : ~(j <= h)
        BY <3>2
      <4> QED
        BY <1>1, <2>1, <3>1, <3>2, <4>1
    <3>3. CASE i # j
      <4>1. Contents[i] = x => j \in 1 .. (i - 1)
        BY <1>1, <2>1, <3>3
      <4>2. Contents[j] = x
        BY <1>1, <2>1
      <4> QED
        BY <3>3, <4>1, <4>2
    <3> QED
      BY <3>2, <3>3
  <2>3. Promise!IndexOf(x) = j
    BY <1>1, <2>2 DEF Promise!IndexOf
  <2> QED
    BY <2>1, <2>3
<1> QED
  BY <1>3, <1>4

\* removeItem takes the first occurrence out, and moves the cursor with it.
LEMMA RemoveRefines ==
  ASSUME Linked, NEW x \in Items, removeItem(x)
  PROVE  Promise!removeItem(x) \/ UNCHANGED <<Contents, Cursor, ret>>
<1>1. PICK s, k : IsChain(s, k)
  BY DEF Linked
<1>2. /\ Fields /\ k \in Nat /\ s \in [1 .. k -> Nodes] /\ \A i \in 1 .. k : s[i] # Null
      /\ \A i, h \in 1 .. k : s[i] = s[h] => i = h
  BY <1>1 DEF Linked, IsChain, Nodes, Null
<1>3. CASE UNCHANGED <<alloc, links, ends>> /\ search' = search
  <2>1. ret' = ret
    BY DEF removeItem
  <2> QED
    BY <1>1, <1>3, <2>1, Still
<1>4. CASE Holding(x) # {} /\ Unlink(FirstHolding(x))
  <2>1. PICK j \in 1 .. k : FirstHolding(x) = s[j] /\ item[s[j]] = x /\ Promise!IndexOf(x) = j
    BY <1>1, <1>2, <1>4, FoundAt
  <2>2. Promise!Has(x)
    BY <1>1, <1>2, <1>4, FoundAt
  <2> DEFINE t == Without(s, k, j)
  <2>3. Fields' /\ IsChain(t, k - 1)' /\ search' = (IF k = 1 THEN Null ELSE search) /\ item' = item
    <3>1. Unlink(s[j])
      BY <1>4, <2>1
    <3>2. item' = item
      BY <3>1 DEF Unlink
    <3> QED
      BY <1>1, <1>2, <3>1, <3>2, Unlinks
  <2>4. \A i \in 1 .. k - 1 : t[i] = IF i < j THEN s[i] ELSE s[i + 1]
    BY DEF Without
  <2>5. /\ Contents \in Seq(Items \union {Null}) /\ Len(Contents) = k
        /\ \A i \in 1 .. k : Contents[i] = item[s[i]]
    BY <1>1, <1>2, ViewIs
  <2>6. Contents' = SubSeq(Contents, 1, j - 1) \o SubSeq(Contents, j + 1, Len(Contents))
    <3>1. Contents' = [i \in 1 .. k - 1 |-> item'[t[i]]]
      BY <2>3, AgreesNext DEF ChainAgrees
    <3>2. \A i \in 1 .. k - 1 : item'[t[i]] = IF i < j THEN Contents[i] ELSE Contents[i + 1]
      <4>1. \A i \in 1 .. k - 1 : i \in 1 .. k /\ i + 1 \in 1 .. k
        BY <1>2
      <4> QED
        BY <2>3, <2>4, <2>5, <4>1
    <3>3. SubSeq(Contents, 1, j - 1) \o SubSeq(Contents, j + 1, Len(Contents))
            = [i \in 1 .. k - 1 |-> IF i < j THEN Contents[i] ELSE Contents[i + 1]]
      BY <2>5, Cut
    <3> HIDE DEF t
    <3> QED
      BY <3>1, <3>2, <3>3
  <2>7. Contents' \in Seq(Items \union {Null})' /\ Len(Contents') = k - 1
    <3>1. Contents' = [i \in 1 .. k - 1 |-> item'[t[i]]] /\ k - 1 \in Nat
      BY <1>2, <2>3, AgreesNext DEF ChainAgrees
    <3>2. t \in [1 .. k - 1 -> Nodes]
      BY <2>3 DEF IsChain
    <3>3. Contents' \in [1 .. k - 1 -> Items \union {Null}]
      BY <2>3, <3>1, <3>2 DEF Fields
    <3> QED
      BY <3>1, <3>3, FunctionIsSeq
  <2>8. Cursor' \in {0 - 1} \union 0 .. k - 1
    BY <2>3, AgreesNext DEF ChainAgrees
  <2>9. CASE k = 1
    <3>1. Contents' = <<>>
      BY <2>7, <2>9, EmptySeq
    <3>2. Cursor' = 0
      BY <2>3, <2>9, AgreesNext DEF ChainAgrees
    <3> QED
      BY <2>1, <2>2, <2>6, <3>1, <3>2 DEF Promise!removeItem, removeItem
  <2>10. CASE k # 1
    <3>1. Contents' # <<>>
      BY <1>2, <2>7, <2>10
    <3>2. search' = search
      BY <2>3, <2>10
    <3>3. Cursor \notin {0 - 1, j} => Cursor' = IF Cursor > j THEN Cursor - 1 ELSE Cursor
      <4>1. CASE search = Null
        <5>1. Cursor = 0 /\ Cursor' = 0
          BY <1>1, <2>3, <3>2, <4>1, Agrees, AgreesNext DEF ChainAgrees
        <5> QED
          BY <5>1
      <4>2. CASE search # Null /\ \A i \in 1 .. k : search # s[i]
        BY <1>1, <4>2, Agrees DEF ChainAgrees
      <4>3. ASSUME NEW i \in 1 .. k, search = s[i], i # j
            PROVE  Cursor = i /\ Cursor' = IF i > j THEN i - 1 ELSE i
        <5> DEFINE h == IF i > j THEN i - 1 ELSE i
        <5>1. h \in 1 .. k - 1
          BY <1>2, <4>3
        <5>2. t[h] = s[i]
          <6>1. CASE i > j
            <7>1. ~(i - 1 < j) /\ (i - 1) + 1 = i /\ h = i - 1
              BY <4>3, <6>1
            <7> QED
              BY <2>4, <5>1, <7>1
          <6>2. CASE ~(i > j)
            <7>1. i < j /\ h = i
              BY <4>3, <6>2
            <7> QED
              BY <2>4, <5>1, <7>1
          <6> QED
            BY <6>1, <6>2
        <5>3. Cursor = i
          BY <1>1, <4>3, Agrees DEF ChainAgrees
        <5>4. search' = t[h]
          BY <3>2, <4>3, <5>2
        <5> HIDE DEF t
        <5>5. Cursor' = h
          BY <2>3, <5>1, <5>4, AgreesNext DEF ChainAgrees
        <5> QED
          BY <5>3, <5>5
      <4>4. ASSUME NEW i \in 1 .. k, search = s[i] PROVE Cursor = i
        BY <1>1, <4>4, Agrees DEF ChainAgrees
      <4> QED
        BY <4>1, <4>2, <4>3, <4>4
    <3>4. ret' = ret
      BY DEF removeItem
    <3>5. Cursor \in {Promise!Lost, j} => Cursor' \in Promise!Anywhere
      BY <2>7, <2>8 DEF Promise!Lost, Promise!Anywhere
    <3>6. Cursor \notin {Promise!Lost, j} => Cursor' = IF Cursor > j THEN Cursor - 1 ELSE Cursor
      BY <3>3 DEF Promise!Lost
    <3> HIDE DEF t
    <3> QED
      BY <2>1, <2>2, <2>6, <3>1, <3>4, <3>5, <3>6 DEF Promise!removeItem
  <2> QED
    BY <2>9, <2>10
<1>5. \/ Holding(x) # {} /\ Unlink(FirstHolding(x))
      \/ UNCHANGED <<alloc, links, ends>> /\ search' = search
  BY Zenon DEF removeItem
<1> QED
  BY <1>3, <1>4, <1>5

LEMMA FirstRefines ==
  ASSUME Linked, getFirstItem
  PROVE  Promise!getFirstItem
<1>1. PICK s, k : IsChain(s, k)
  BY DEF Linked
<1>2. Fields
  BY DEF Linked
<1>3. /\ UNCHANGED <<alloc, links, ends>> /\ search' = first
      /\ ret' = IF first = Null THEN Null ELSE item[first]
  BY DEF getFirstItem, ItemOf
<1>4. IsChain(s, k)' /\ Contents' = Contents
  BY <1>1, <1>3, Still
<1>5. /\ Contents \in Seq(Items \union {Null}) /\ Len(Contents) = k
      /\ \A i \in 1 .. k : Contents[i] = item[s[i]]
  BY <1>1, <1>2, ViewIs
<1>6. /\ k \in Nat /\ first = (IF k = 0 THEN Null ELSE s[1])
      /\ \A i \in 1 .. k : s[i] # Null
  BY <1>1 DEF IsChain, Nodes, Null
<1>7. CASE k = 0
  <2>1. Contents = <<>>
    BY <1>5, <1>7, EmptySeq
  <2>2. Cursor' = 0
    BY <1>3, <1>4, <1>6, <1>7, AgreesNext DEF ChainAgrees
  <2> QED
    BY <1>3, <1>4, <1>6, <1>7, <2>1, <2>2 DEF Promise!getFirstItem
<1>8. CASE k # 0
  <2>1. 1 \in 1 .. k /\ first = s[1] /\ first # Null
    BY <1>6, <1>8
  <2>2. Contents # <<>> /\ Contents[1] = item[s[1]]
    BY <1>5, <1>8, <2>1
  <2>3. Cursor' = 1
    BY <1>3, <1>4, <2>1, AgreesNext DEF ChainAgrees
  <2> QED
    BY <1>3, <1>4, <2>1, <2>2, <2>3 DEF Promise!getFirstItem
<1> QED
  BY <1>7, <1>8

\* getNextItem moves one place on; a cursor on a freed node is a fault, not a step.
LEMMA NextRefines ==
  ASSUME Linked, getNextItem
  PROVE  Promise!getNextItem \/ UNCHANGED <<Contents, Cursor, ret>>
<1>1. PICK s, k : IsChain(s, k)
  BY DEF Linked
<1>2. Fields
  BY DEF Linked
<1>3. UNCHANGED <<alloc, links, ends>>
  BY DEF getNextItem
<1>4. IsChain(s, k)' /\ Contents' = Contents /\ item' = item
  BY <1>1, <1>3, Still DEF links
<1>5. /\ Contents \in Seq(Items \union {Null}) /\ Len(Contents) = k
      /\ \A i \in 1 .. k : Contents[i] = item[s[i]]
  BY <1>1, <1>2, ViewIs
<1>6. /\ k \in Nat /\ alloc = {s[i] : i \in 1 .. k}
      /\ \A i \in 1 .. k : s[i] # Null
      /\ \A i \in 1 .. k : next[s[i]] = IF i = k THEN Null ELSE s[i + 1]
  BY <1>1 DEF IsChain, Nodes, Null
<1>7. CASE search = Null
  <2>1. search' = Null /\ ret' = Null
    BY <1>7 DEF getNextItem, ItemOf
  <2>2. Cursor = 0 /\ Cursor' = 0
    BY <1>1, <1>4, <1>7, <2>1, Agrees, AgreesNext DEF ChainAgrees
  <2> QED
    BY <1>4, <1>5, <1>6, <2>1, <2>2 DEF Promise!getNextItem, Promise!Lost
<1>8. ASSUME NEW i \in 1 .. k, search = s[i] PROVE Promise!getNextItem
  <2>1. search \in alloc /\ search # Null
    BY <1>6, <1>8
  <2>2. search' = next[search]
    BY <2>1 DEF getNextItem
  <2>3. ret' = IF search' = Null THEN Null ELSE item[search']
    BY <2>1 DEF getNextItem, ItemOf
  <2>4. Cursor = i
    BY <1>1, <1>8, Agrees DEF ChainAgrees
  <2>5. CASE i = k
    <3>1. search' = Null
      BY <1>6, <1>8, <2>2, <2>5
    <3>2. Cursor' = 0
      BY <1>4, <3>1, AgreesNext DEF ChainAgrees
    <3> QED
      BY <1>4, <1>5, <1>6, <2>3, <2>4, <2>5, <3>1, <3>2 DEF Promise!getNextItem, Promise!Lost
  <2>6. CASE i # k
    <3>1. i + 1 \in 1 .. k /\ search' = s[i + 1] /\ i \in 1 .. (k - 1)
      BY <1>6, <1>8, <2>2, <2>6
    <3>2. Cursor' = i + 1
      BY <1>4, <3>1, AgreesNext DEF ChainAgrees
    <3>3. ret' = Contents[i + 1]
      BY <1>5, <1>6, <2>3, <3>1
    <3> QED
      BY <1>4, <1>5, <1>6, <2>4, <3>1, <3>2, <3>3 DEF Promise!getNextItem, Promise!Lost
  <2> QED
    BY <2>5, <2>6
<1>9. CASE search # Null /\ \A i \in 1 .. k : search # s[i]
  <2>1. search \notin {Null} \union alloc
    BY <1>6, <1>9
  <2>2. search' = search /\ ret' = ret
    BY <2>1 DEF getNextItem
  <2> QED
    BY <1>1, <1>3, <2>2, Still
<1> QED
  BY <1>7, <1>8, <1>9

LEMMA SearchRefines ==
  ASSUME Linked, NEW x \in Items, searchItem(x)
  PROVE  Promise!searchItem(x)
<1>1. PICK s, k : IsChain(s, k)
  BY DEF Linked
<1>2. Fields
  BY DEF Linked
<1>3. UNCHANGED <<alloc, links, ends>>
  BY DEF searchItem
<1>4. IsChain(s, k)' /\ Contents' = Contents
  BY <1>1, <1>3, Still
<1>5. CASE Holding(x) = {}
  <2>1. ~Promise!Has(x)
    BY <1>1, <1>2, <1>5, FoundAt
  <2>2. search' = Null /\ ret' = Null
    BY <1>5 DEF searchItem
  <2>3. Cursor' = 0
    BY <1>4, <2>2, AgreesNext DEF ChainAgrees
  <2> QED
    BY <1>4, <2>1, <2>2, <2>3 DEF Promise!searchItem
<1>6. CASE Holding(x) # {}
  <2>1. PICK j \in 1 .. k : FirstHolding(x) = s[j] /\ item[s[j]] = x /\ Promise!IndexOf(x) = j
    BY <1>1, <1>2, <1>6, FoundAt
  <2>2. Promise!Has(x)
    BY <1>1, <1>2, <1>6, FoundAt
  <2>3. search' = s[j] /\ ret' = x
    BY <1>6, <2>1 DEF searchItem
  <2>4. Cursor' = j
    BY <1>4, <2>3, AgreesNext DEF ChainAgrees
  <2> QED
    BY <1>4, <2>1, <2>2, <2>3, <2>4 DEF Promise!searchItem
<1> QED
  BY <1>5, <1>6

\* While it lives, the list is the sequence List.h describes: a call is a step of it, and
\* a call that faults, finds nothing or starts the destructor leaves it as it was.
THEOREM ImplementsSequence == Spec => ImplementsItemList
<1>1. ASSUME Linked, [Next]_vars
      PROVE  [life = "alive" => Promise!Next]_<<Contents, Cursor, ret>>
  <2>1. PICK s, k : IsChain(s, k)
    BY <1>1 DEF Linked
  <2>2. CASE UNCHANGED vars \/ Destroy
    <3>1. UNCHANGED <<alloc, links, ends>> /\ search' = search /\ ret' = ret
      BY <2>2 DEF vars, Destroy
    <3> QED
      BY <2>1, <3>1, Still
  <2>3. CASE DestroyStep
    BY <2>3 DEF DestroyStep
  <2>4. CASE getFirstItem
    BY <1>1, <2>4, FirstRefines DEF Promise!Next
  <2>5. CASE getNextItem
    BY <1>1, <2>5, NextRefines DEF Promise!Next
  <2>6. ASSUME NEW x \in Items, addItem(x)
        PROVE  [life = "alive" => Promise!Next]_<<Contents, Cursor, ret>>
    BY <1>1, <2>6, AddRefines DEF Promise!Next
  <2>7. ASSUME NEW x \in Items, removeItem(x)
        PROVE  [life = "alive" => Promise!Next]_<<Contents, Cursor, ret>>
    BY <1>1, <2>7, RemoveRefines DEF Promise!Next
  <2>8. ASSUME NEW x \in Items, searchItem(x)
        PROVE  [life = "alive" => Promise!Next]_<<Contents, Cursor, ret>>
    BY <1>1, <2>8, SearchRefines DEF Promise!Next
  <2> QED
    BY <1>1, <2>2, <2>3, <2>4, <2>5, <2>6, <2>7, <2>8 DEF Next, Calls
<1> QED
  BY <1>1, Invariance, InitRefines, PTL DEF Spec, ImplementsItemList
=============================================================================
