--------------------------- MODULE ExecListTheorems ---------------------------
(***************************************************************************)
(* What is left of a list when some of its nodes are removed, and what     *)
(* taking the first or last node off, or adding one, does to a list.       *)
(***************************************************************************)
EXTENDS ExecList, FiniteSetTheorems, SequenceTheorems, TLAPS

(***************************************************************************)
(* The k-th of a finite set of numbers exists for every k up to their      *)
(* number, and the k-th grows with k.                                      *)
(***************************************************************************)
LEMMA Rank ==
  ASSUME NEW n \in Nat, NEW kept \in SUBSET (1 .. n)
  PROVE  LET rank(i) == Cardinality({j \in kept : j <= i})
             nth(k)  == CHOOSE i \in kept : rank(i) = k
         IN  /\ IsFiniteSet(kept) /\ Cardinality(kept) \in Nat
             /\ \A k \in 1 .. Cardinality(kept) : nth(k) \in kept
             /\ \A k, l \in 1 .. Cardinality(kept) : k < l => nth(k) < nth(l)
             /\ \A i \in kept : \E k \in 1 .. Cardinality(kept) : nth(k) = i
<1> DEFINE upto(i) == {j \in kept : j <= i}
           rank(i) == Cardinality(upto(i))
           nth(k)  == CHOOSE i \in kept : rank(i) = k
           m == Cardinality(kept)
<1>1. IsFiniteSet(kept) /\ m \in Nat /\ \A i \in kept : i \in Int
  <2>1. IsFiniteSet(1 .. n)
    BY FS_Interval
  <2>2. IsFiniteSet(kept)
    BY <2>1, FS_Subset
  <2> QED BY <2>2, FS_CardinalityType
<1>2. \A i \in kept : IsFiniteSet(upto(i)) /\ rank(i) \in 1 .. m /\ rank(i) \in Int
  <2> SUFFICES ASSUME NEW i \in kept
               PROVE  IsFiniteSet(upto(i)) /\ rank(i) \in 1 .. m /\ rank(i) \in Int
    OBVIOUS
  <2>1. upto(i) \in SUBSET kept /\ i \in upto(i)
    OBVIOUS
  <2> HIDE DEF upto
  <2>2. IsFiniteSet(upto(i)) /\ rank(i) <= m /\ rank(i) \in Nat
    BY <1>1, <2>1, FS_Subset, FS_CardinalityType
  <2>3. rank(i) # 0
    BY <2>1, <2>2, FS_EmptySet
  <2> QED BY <1>1, <2>2, <2>3
<1>3. \A i, j \in kept : i < j => rank(i) < rank(j)
  <2> SUFFICES ASSUME NEW i \in kept, NEW j \in kept, i < j
               PROVE  rank(i) < rank(j)
    OBVIOUS
  <2>0. i \in Int /\ j \in Int
    BY <1>1
  <2>1. upto(i) \in SUBSET upto(j) /\ j \in upto(j) /\ j \notin upto(i)
    <3>1. ASSUME NEW x \in upto(i) PROVE x \in upto(j)
      <4>1. x \in kept /\ x <= i /\ x \in Int
        BY <1>1, <3>1
      <4>2. x <= j
        BY <2>0, <4>1
      <4> QED BY <4>1, <4>2
    <3>2. j <= j /\ ~(j <= i)
      BY <2>0
    <3> QED BY <3>1, <3>2
  <2>2. upto(i) # upto(j)
    BY <2>1
  <2>3. rank(i) <= rank(j) /\ rank(i) # rank(j)
    <3> HIDE DEF upto
    <3> QED BY <1>2, <2>1, <2>2, FS_Subset
  <2>4. rank(i) \in Int /\ rank(j) \in Int
    BY <1>2
  <2> HIDE DEF rank
  <2> QED BY <2>3, <2>4
<1> DEFINE f == [i \in kept |-> rank(i)]
<1>4. f \in Surjection(kept, 1 .. m)
  <2>1. f \in [kept -> 1 .. m]
    <3> HIDE DEF rank
    <3> QED BY <1>2
  <2>2. \A i, j \in kept : rank(i) = rank(j) => i = j
    <3> SUFFICES ASSUME NEW i \in kept, NEW j \in kept, rank(i) = rank(j), i # j
                 PROVE  FALSE
      OBVIOUS
    <3>1. i < j \/ j < i
      BY <1>1
    <3>2. rank(i) \in Int /\ rank(j) \in Int
      BY <1>2
    <3>3. rank(i) < rank(j) \/ rank(j) < rank(i)
      BY <1>3, <3>1
    <3> HIDE DEF rank
    <3> QED BY <3>2, <3>3
  <2>3. f \in Injection(kept, 1 .. m)
    <3> HIDE DEF rank
    <3> QED BY <2>1, <2>2 DEF Injection, IsInjective
  <2>4. IsFiniteSet(1 .. m) /\ Cardinality(1 .. m) = m
    BY <1>1, FS_Interval
  <2> HIDE DEF f
  <2> QED BY <2>3, <2>4, FS_Injection
<1> HIDE DEF rank
<1>5. \A k \in 1 .. m : nth(k) \in kept /\ rank(nth(k)) = k
  <2> SUFFICES ASSUME NEW k \in 1 .. m PROVE nth(k) \in kept /\ rank(nth(k)) = k
    OBVIOUS
  <2>1. \E i \in kept : rank(i) = k
    BY <1>4 DEF Surjection
  <2> QED BY <2>1
<1> HIDE DEF nth, m
<1>6. \A k, l \in 1 .. m : k < l => nth(k) < nth(l)
  <2> SUFFICES ASSUME NEW k \in 1 .. m, NEW l \in 1 .. m, k < l, ~(nth(k) < nth(l))
               PROVE  FALSE
    OBVIOUS
  <2>1. nth(k) \in Int /\ nth(l) \in Int /\ k \in Int /\ l \in Int
    <3>1. nth(k) \in kept /\ nth(l) \in kept
      BY <1>5
    <3>2. k \in Int /\ l \in Int
      BY <1>1
    <3> QED BY <1>1, <3>1, <3>2
  <2>2. nth(l) < nth(k) \/ nth(l) = nth(k)
    BY <2>1
  <2>3. l < k \/ l = k
    BY <1>3, <1>5, <2>2
  <2> QED BY <2>1, <2>3
<1>7. \A i \in kept : \E k \in 1 .. m : nth(k) = i
  <2> SUFFICES ASSUME NEW i \in kept PROVE nth(rank(i)) = i
    BY <1>2
  <2>1. rank(i) \in 1 .. m
    BY <1>2
  <2>2. nth(rank(i)) \in kept /\ rank(nth(rank(i))) = rank(i)
    BY <1>5, <2>1
  <2>3. i \in Int /\ nth(rank(i)) \in Int /\ rank(i) \in Int
    BY <1>1, <1>2, <2>2
  <2>4. ~(i < nth(rank(i))) /\ ~(nth(rank(i)) < i)
    <3>1. i < nth(rank(i)) => rank(i) < rank(i)
      BY <1>3, <2>2
    <3>2. nth(rank(i)) < i => rank(i) < rank(i)
      BY <1>3, <2>2
    <3> QED BY <2>3, <3>1, <3>2
  <2> QED BY <2>3, <2>4
<1> QED BY <1>1, <1>5, <1>6, <1>7 DEF nth, rank, m

(***************************************************************************)
(* A set of numbers that ends somewhere has a smallest one.                *)
(***************************************************************************)
LEMMA LeastNumber ==
  ASSUME NEW n \in Nat, NEW S \in SUBSET (1 .. n), S # {}
  PROVE  \E i \in S : \A j \in S : i <= j
<1> DEFINE rank(i) == Cardinality({j \in S : j <= i})
           nth(k)  == CHOOSE i \in S : rank(i) = k
           m == Cardinality(S)
<1>1. /\ IsFiniteSet(S) /\ m \in Nat
      /\ \A k \in 1 .. m : nth(k) \in S
      /\ \A k, l \in 1 .. m : k < l => nth(k) < nth(l)
      /\ \A i \in S : \E k \in 1 .. m : nth(k) = i
  BY Rank
<1>2. m # 0
  BY <1>1, FS_EmptySet
<1>3. \A i \in S : i \in Int
  OBVIOUS
<1> HIDE DEF nth, m
<1>4. 1 \in 1 .. m
  BY <1>1, <1>2
<1>5. ASSUME NEW j \in S PROVE nth(1) <= j
  <2> PICK k \in 1 .. m : nth(k) = j
    BY <1>1
  <2>1. nth(1) \in Int /\ nth(k) \in Int
    BY <1>1, <1>3, <1>4
  <2>2. k = 1 \/ 1 < k
    BY <1>1
  <2> QED BY <1>1, <1>4, <2>1, <2>2
<1> QED BY <1>1, <1>4, <1>5

(***************************************************************************)
(* The nodes that are not of S are left, in their order, each as often as  *)
(* before.                                                                 *)
(***************************************************************************)
LEMMA WithoutFacts ==
  ASSUME NEW T, NEW q \in Seq(T), NEW S
  PROVE  /\ Without(q, S) \in Seq(T)
         /\ Range(Without(q, S)) = Range(q) \ S
         /\ Len(Without(q, S)) = Len(q) - Cardinality(Places(q, S))
         /\ \E f \in [1 .. Len(Without(q, S)) -> 1 .. Len(q)] :
              /\ \A k \in 1 .. Len(Without(q, S)) : Without(q, S)[k] = q[f[k]]
              /\ \A k, l \in 1 .. Len(Without(q, S)) : k < l => f[k] < f[l]
<1> DEFINE n == Len(q)
           kept == (1 .. n) \ Places(q, S)
           rank(i) == Cardinality({j \in kept : j <= i})
           nth(k)  == CHOOSE i \in kept : rank(i) = k
           m == Cardinality(kept)
           r == [k \in 1 .. m |-> q[nth(k)]]
<1>1. n \in Nat /\ DOMAIN q = 1 .. n /\ (\A i \in 1 .. n : q[i] \in T)
      /\ kept \in SUBSET (1 .. n)
  BY LenProperties, ElementOfSeq
<1>2. Without(q, S) = r
  BY DEF Without
<1>3. /\ m \in Nat
      /\ \A k \in 1 .. m : nth(k) \in kept
      /\ \A k, l \in 1 .. m : k < l => nth(k) < nth(l)
      /\ \A i \in kept : \E k \in 1 .. m : nth(k) = i
  <2> HIDE DEF kept, n
  <2> QED BY <1>1, Rank
<1>4. m = n - Cardinality(Places(q, S))
  <2>1. IsFiniteSet(1 .. n) /\ Cardinality(1 .. n) = n
    BY <1>1, FS_Interval
  <2>2. (1 .. n) \cap Places(q, S) = Places(q, S)
    BY DEF Places
  <2>3. m = Cardinality(1 .. n) - Cardinality((1 .. n) \cap Places(q, S))
    BY <2>1, FS_Difference
  <2> QED BY <2>1, <2>2, <2>3
<1>5. \A i \in 1 .. n : i \in kept <=> q[i] \notin S
  BY DEF Places
<1> HIDE DEF kept, nth, m, n
<1>6. r \in Seq(T) /\ Len(r) = m /\ DOMAIN r = 1 .. m
  <2>1. r \in [1 .. m -> T]
    BY <1>1, <1>3
  <2>2. r \in Seq(T)
    BY <1>3, <2>1, SeqDef
  <2>3. DOMAIN r = 1 .. m /\ DOMAIN r = 1 .. Len(r) /\ Len(r) \in Nat
    BY <2>2, LenProperties
  <2> QED BY <1>3, <2>2, <2>3
<1>7. Range(r) = Range(q) \ S
  <2>1. ASSUME NEW x \in Range(r) PROVE x \in Range(q) \ S
    <3> PICK k \in 1 .. m : x = r[k]
      BY <1>6, <2>1 DEF Range
    <3>1. nth(k) \in kept /\ x = q[nth(k)]
      BY <1>3
    <3>2. nth(k) \in 1 .. n
      BY <1>1, <3>1
    <3> QED BY <1>1, <1>5, <3>1, <3>2 DEF Range
  <2>2. ASSUME NEW x \in Range(q) \ S PROVE x \in Range(r)
    <3> PICK i \in 1 .. n : x = q[i]
      BY <1>1, <2>2 DEF Range
    <3>1. i \in kept
      BY <1>5
    <3> PICK k \in 1 .. m : nth(k) = i
      BY <1>3, <3>1
    <3>2. r[k] = x
      OBVIOUS
    <3> QED BY <1>6, <3>2 DEF Range
  <2> QED BY <2>1, <2>2
<1>8. \E f \in [1 .. m -> 1 .. n] :
        /\ \A k \in 1 .. m : r[k] = q[f[k]]
        /\ \A k, l \in 1 .. m : k < l => f[k] < f[l]
  <2> DEFINE f == [k \in 1 .. m |-> nth(k)]
  <2>1. f \in [1 .. m -> 1 .. n]
    BY <1>1, <1>3
  <2>2. /\ \A k \in 1 .. m : r[k] = q[f[k]]
        /\ \A k, l \in 1 .. m : k < l => f[k] < f[l]
    BY <1>3
  <2> HIDE DEF f, r
  <2> QED BY <2>1, <2>2
<1> HIDE DEF r
<1> QED BY <1>2, <1>4, <1>6, <1>7, <1>8 DEF n

(***************************************************************************)
(* A list that has each node once keeps it so, and gets shorter by the     *)
(* nodes that are removed.                                                 *)
(***************************************************************************)
LEMMA WithoutInjective ==
  ASSUME NEW T, NEW q \in Seq(T), IsInjective(q), NEW S \in SUBSET Range(q)
  PROVE  /\ IsInjective(Without(q, S))
         /\ Len(Without(q, S)) = Len(q) - Cardinality(S)
         /\ Cardinality(S) \in Nat /\ Cardinality(S) <= Len(q)
<1> DEFINE r == Without(q, S)
<1>1. r \in Seq(T) /\ Len(r) = Len(q) - Cardinality(Places(q, S))
      /\ \E f \in [1 .. Len(r) -> 1 .. Len(q)] :
           /\ \A k \in 1 .. Len(r) : r[k] = q[f[k]]
           /\ \A k, l \in 1 .. Len(r) : k < l => f[k] < f[l]
  BY WithoutFacts
<1>2. Len(q) \in Nat /\ DOMAIN q = 1 .. Len(q)
  BY LenProperties
<1> HIDE DEF r
<1>3. IsInjective(r)
  <2> PICK f \in [1 .. Len(r) -> 1 .. Len(q)] :
             /\ \A k \in 1 .. Len(r) : r[k] = q[f[k]]
             /\ \A k, l \in 1 .. Len(r) : k < l => f[k] < f[l]
    BY <1>1
  <2> SUFFICES ASSUME NEW k \in 1 .. Len(r), NEW l \in 1 .. Len(r), r[k] = r[l]
               PROVE  k = l
    BY <1>1, LenProperties DEF IsInjective
  <2>1. f[k] = f[l] /\ f[k] \in Int
    BY <1>2 DEF IsInjective
  <2>2. ~(k < l) /\ ~(l < k)
    BY <2>1
  <2>3. k \in Int /\ l \in Int
    BY <1>1, LenProperties
  <2> QED BY <2>2, <2>3
<1>4. Cardinality(Places(q, S)) = Cardinality(S) /\ Cardinality(S) \in Nat
      /\ Cardinality(S) <= Len(q)
  <2> DEFINE P == Places(q, S)
             f == [i \in P |-> q[i]]
  <2>1. P \in SUBSET (1 .. Len(q))
    BY DEF Places
  <2>2. IsFiniteSet(P) /\ Cardinality(P) \in Nat /\ Cardinality(P) <= Len(q)
    <3>1. IsFiniteSet(1 .. Len(q)) /\ Cardinality(1 .. Len(q)) = Len(q)
      BY <1>2, FS_Interval
    <3> HIDE DEF P
    <3> QED BY <2>1, <3>1, FS_Subset, FS_CardinalityType
  <2>3. f \in Bijection(P, S)
    <3>1. f \in [P -> S]
      BY DEF Places
    <3>2. \A i, j \in P : f[i] = f[j] => i = j
      BY <1>2, <2>1 DEF IsInjective
    <3>3. \A x \in S : \E i \in P : f[i] = x
      BY <1>2 DEF Places, Range
    <3> HIDE DEF f, P
    <3> QED BY <3>1, <3>2, <3>3 DEF Bijection, Injection, Surjection, IsInjective
  <2>4. Cardinality(S) = Cardinality(P)
    <3> HIDE DEF f, P
    <3> QED BY <2>2, <2>3, FS_Bijection DEF ExistsBijection
  <2> QED BY <2>2, <2>4
<1> QED BY <1>1, <1>3, <1>4 DEF r

(***************************************************************************)
(* Append, Front and Last, Tail and Head of a list.                        *)
(***************************************************************************)
LEMMA AppendFacts ==
  ASSUME NEW T, NEW q \in Seq(T), NEW x \in T
  PROVE  /\ Append(q, x) \in Seq(T) /\ Append(q, x) # << >>
         /\ Len(Append(q, x)) = Len(q) + 1
         /\ Range(Append(q, x)) = Range(q) \cup {x}
         /\ IsInjective(q) /\ x \notin Range(q) => IsInjective(Append(q, x))
<1> DEFINE r == Append(q, x)
<1>1. /\ r \in Seq(T) /\ r # << >> /\ Len(r) = Len(q) + 1 /\ Len(q) \in Nat
      /\ \A i \in 1 .. Len(q) : r[i] = q[i]
      /\ r[Len(q) + 1] = x
  BY AppendProperties, LenProperties
<1>2. DOMAIN q = 1 .. Len(q) /\ DOMAIN r = 1 .. Len(q) + 1
  BY <1>1, LenProperties
<1> HIDE DEF r
<1>3. Range(r) = Range(q) \cup {x}
  BY <1>1, <1>2 DEF Range
<1>4. ASSUME IsInjective(q), x \notin Range(q) PROVE IsInjective(r)
  <2> SUFFICES ASSUME NEW i \in 1 .. Len(q) + 1, NEW j \in 1 .. Len(q) + 1, r[i] = r[j]
               PROVE  i = j
    BY <1>2 DEF IsInjective
  <2>1. i \in 1 .. Len(q) /\ j \in 1 .. Len(q) => i = j
    BY <1>1, <1>2, <1>4 DEF IsInjective
  <2>2. \A k \in 1 .. Len(q) : r[k] # x
    BY <1>1, <1>2, <1>4 DEF Range
  <2> QED BY <1>1, <2>1, <2>2
<1> QED BY <1>1, <1>3, <1>4 DEF r

LEMMA FrontFacts ==
  ASSUME NEW T, NEW q \in Seq(T), q # << >>
  PROVE  LET front == SubSeq(q, 1, Len(q) - 1)  last == q[Len(q)]
         IN  /\ front \in Seq(T) /\ last \in T
             /\ Len(q) > 0 /\ Len(front) = Len(q) - 1
             /\ last \in Range(q)
             /\ IsInjective(q) => IsInjective(front) /\ Range(front) = Range(q) \ {last}
<1> DEFINE r == SubSeq(q, 1, Len(q) - 1)  l == q[Len(q)]
<1>1. Len(q) \in Nat \ {0} /\ DOMAIN q = 1 .. Len(q)
  BY LenProperties, EmptySeq
<1>2. /\ r \in Seq(T) /\ Len(r) = Len(q) - 1
      /\ \A i \in 1 .. Len(q) - 1 : r[i] = q[i]
  BY <1>1, SubSeqProperties, ElementOfSeq
<1> DEFINE n == Len(q)
<1>0. /\ \A i \in 1 .. n - 1 : i \in 1 .. n /\ i # n
      /\ \A i \in 1 .. n : i # n => i \in 1 .. n - 1
      /\ n \in 1 .. n
  <2>1. n \in Nat \ {0}
    BY <1>1
  <2> HIDE DEF n
  <2> QED BY <2>1
<1>3. DOMAIN r = 1 .. Len(q) - 1
  BY <1>2, LenProperties
<1>4. l \in T /\ l \in Range(q)
  BY <1>1, ElementOfSeq DEF Range
<1> HIDE DEF r, l
<1>5. ASSUME IsInjective(q) PROVE IsInjective(r) /\ Range(r) = Range(q) \ {l}
  <2>1. IsInjective(r)
    BY <1>1, <1>2, <1>3, <1>5 DEF IsInjective
  <2>2. ASSUME NEW x \in Range(r) PROVE x \in Range(q) \ {l}
    <3> PICK i \in 1 .. Len(q) - 1 : x = r[i]
      BY <1>3, <2>2 DEF Range
    <3>1. i \in 1 .. Len(q) /\ i # Len(q) /\ Len(q) \in 1 .. Len(q)
      BY <1>0
    <3>2. x = q[i] /\ x # q[Len(q)]
      BY <1>1, <1>2, <1>5, <3>1 DEF IsInjective
    <3> QED BY <1>1, <3>1, <3>2 DEF Range, l
  <2>3. ASSUME NEW x \in Range(q) \ {l} PROVE x \in Range(r)
    <3> PICK i \in 1 .. Len(q) : x = q[i]
      BY <1>1, <2>3 DEF Range
    <3>1. i # Len(q)
      BY <2>3 DEF l
    <3>2. i \in 1 .. Len(q) - 1
      BY <1>0, <3>1
    <3> QED BY <1>2, <1>3, <3>2 DEF Range
  <2> QED BY <2>1, <2>2, <2>3
<1> QED BY <1>1, <1>2, <1>4, <1>5 DEF r, l

LEMMA TailFacts ==
  ASSUME NEW T, NEW q \in Seq(T), q # << >>
  PROVE  /\ Tail(q) \in Seq(T) /\ Head(q) \in T
         /\ Len(q) > 0 /\ Len(Tail(q)) = Len(q) - 1
         /\ Head(q) \in Range(q)
         /\ Range(Tail(q)) \subseteq Range(q)
         /\ Range(q) = Range(Tail(q)) \cup {Head(q)}
         /\ IsInjective(q) => IsInjective(Tail(q)) /\ Head(q) \notin Range(Tail(q))
<1> DEFINE r == Tail(q)  h == Head(q)
<1>1. Len(q) \in Nat \ {0} /\ DOMAIN q = 1 .. Len(q)
  BY LenProperties, EmptySeq
<1>2. /\ r \in Seq(T) /\ Len(r) = Len(q) - 1 /\ h \in T
      /\ \A i \in 1 .. Len(q) - 1 : r[i] = q[i + 1]
      /\ h = q[1]
  BY <1>1, HeadTailProperties
<1>3. DOMAIN r = 1 .. Len(q) - 1
  BY <1>2, LenProperties
<1> HIDE DEF r, h
<1>4. h \in Range(q)
  BY <1>1, <1>2 DEF Range
<1>5. Range(r) \subseteq Range(q)
  <2> SUFFICES ASSUME NEW i \in 1 .. Len(q) - 1 PROVE r[i] \in Range(q)
    BY <1>3 DEF Range
  <2>1. i + 1 \in 1 .. Len(q)
    BY <1>1
  <2> QED BY <1>1, <1>2, <2>1 DEF Range
<1>6. ASSUME NEW x \in Range(q), x # h PROVE x \in Range(r)
  <2> PICK i \in 1 .. Len(q) : x = q[i]
    BY <1>1, <1>6 DEF Range
  <2>1. i # 1
    BY <1>2, <1>6
  <2>2. i - 1 \in 1 .. Len(q) - 1 /\ (i - 1) + 1 = i
    BY <1>1, <2>1
  <2>3. r[i - 1] = x
    BY <1>2, <2>2
  <2> QED BY <1>3, <2>2, <2>3 DEF Range
<1>7. ASSUME IsInjective(q) PROVE IsInjective(r) /\ h \notin Range(r)
  <2>1. \A i \in 1 .. Len(q) - 1 : i + 1 \in 1 .. Len(q) /\ i + 1 # 1
    BY <1>1
  <2>2. IsInjective(r)
    <3> SUFFICES ASSUME NEW i \in 1 .. Len(q) - 1, NEW j \in 1 .. Len(q) - 1, r[i] = r[j]
                 PROVE  i = j
      BY <1>3 DEF IsInjective
    <3>1. i + 1 = j + 1
      BY <1>1, <1>2, <1>7, <2>1 DEF IsInjective
    <3> QED BY <1>1, <3>1
  <2>3. \A i \in 1 .. Len(q) - 1 : r[i] # h
    <3> SUFFICES ASSUME NEW i \in 1 .. Len(q) - 1, r[i] = h PROVE FALSE
      OBVIOUS
    <3>1. 1 \in 1 .. Len(q) /\ q[i + 1] = q[1]
      BY <1>1, <1>2
    <3> QED BY <1>1, <1>7, <2>1, <3>1 DEF IsInjective
  <2> QED BY <1>3, <2>2, <2>3 DEF Range
<1> QED BY <1>1, <1>2, <1>4, <1>5, <1>6, <1>7 DEF r, h

(***************************************************************************)
(* A list that has each node once is as long as it has nodes.              *)
(***************************************************************************)
LEMMA LengthIsNumber ==
  ASSUME NEW T, NEW q \in Seq(T), IsInjective(q)
  PROVE  IsFiniteSet(Range(q)) /\ Cardinality(Range(q)) = Len(q) /\ Len(q) \in Nat
<1>1. Len(q) \in Nat /\ DOMAIN q = 1 .. Len(q) /\ q \in [1 .. Len(q) -> Range(q)]
  BY LenProperties DEF Range
<1>2. q \in Bijection(1 .. Len(q), Range(q))
  BY <1>1 DEF Bijection, Injection, Surjection, IsInjective, Range
<1>3. IsFiniteSet(1 .. Len(q)) /\ Cardinality(1 .. Len(q)) = Len(q)
  BY <1>1, FS_Interval
<1>4. ExistsBijection(1 .. Len(q), Range(q))
  BY <1>2 DEF ExistsBijection
<1>5. IsFiniteSet(Range(q)) /\ Cardinality(Range(q)) = Cardinality(1 .. Len(q))
  BY <1>3, <1>4, FS_Bijection
<1> QED BY <1>1, <1>3, <1>5
-----------------------------------------------------------------------------
(***************************************************************************)
(* Lists of numbers that go up, or down.                                   *)
(***************************************************************************)
Before(a, b, up) == IF up THEN a < b ELSE a > b

Sorted(q, up) == \A i, j \in 1 .. Len(q) : i < j => Before(q[i], q[j], up)

LEMMA SortedAppend ==
  ASSUME NEW T, NEW q \in Seq(T), NEW x \in T, NEW up, Sorted(q, up),
         \A r \in Range(q) : Before(r, x, up)
  PROVE  Sorted(Append(q, x), up)
<1> DEFINE r == Append(q, x)
<1>1. /\ Len(r) = Len(q) + 1 /\ Len(q) \in Nat /\ DOMAIN q = 1 .. Len(q)
      /\ \A i \in 1 .. Len(q) : r[i] = q[i]
      /\ r[Len(q) + 1] = x
  BY AppendProperties, LenProperties
<1> HIDE DEF r
<1> SUFFICES ASSUME NEW i \in 1 .. Len(r), NEW j \in 1 .. Len(r), i < j
             PROVE  Before(r[i], r[j], up)
  BY DEF Sorted, r
<1>2. i \in 1 .. Len(q) /\ (j \in 1 .. Len(q) \/ j = Len(q) + 1)
  BY <1>1
<1>3. q[i] \in Range(q)
  BY <1>1, <1>2 DEF Range
<1>4. CASE j \in 1 .. Len(q)
  BY <1>1, <1>2, <1>4 DEF Sorted
<1>5. CASE j = Len(q) + 1
  BY <1>1, <1>2, <1>3, <1>5
<1> QED BY <1>2, <1>4, <1>5

LEMMA SortedFront ==
  ASSUME NEW T, NEW q \in Seq(T), q # << >>, NEW up, Sorted(q, up)
  PROVE  LET front == SubSeq(q, 1, Len(q) - 1)
         IN  Sorted(front, up) /\ \A r \in Range(front) : Before(r, q[Len(q)], up)
<1> DEFINE r == SubSeq(q, 1, Len(q) - 1)
<1>1. Len(q) \in Nat \ {0}
  BY LenProperties, EmptySeq
<1>2. /\ r \in Seq(T) /\ Len(r) = Len(q) - 1
      /\ \A i \in 1 .. Len(q) - 1 : r[i] = q[i]
  BY <1>1, SubSeqProperties, ElementOfSeq
<1>3. DOMAIN r = 1 .. Len(q) - 1
  BY <1>2, LenProperties
<1>4. \A i \in 1 .. Len(q) - 1 : i \in 1 .. Len(q) /\ i < Len(q) /\ Len(q) \in 1 .. Len(q)
  BY <1>1
<1> HIDE DEF r
<1>5. Sorted(r, up)
  BY <1>2, <1>4 DEF Sorted
<1>6. \A x \in Range(r) : Before(x, q[Len(q)], up)
  BY <1>2, <1>3, <1>4 DEF Sorted, Range
<1> QED BY <1>5, <1>6 DEF r

LEMMA SortedTail ==
  ASSUME NEW T, NEW q \in Seq(T), q # << >>, NEW up, Sorted(q, up)
  PROVE  Sorted(Tail(q), up)
<1> DEFINE r == Tail(q)
<1>1. Len(q) \in Nat \ {0} /\ Len(r) = Len(q) - 1
      /\ \A i \in 1 .. Len(q) - 1 : r[i] = q[i + 1]
  BY LenProperties, EmptySeq, HeadTailProperties
<1>2. /\ \A i \in 1 .. Len(q) - 1 : i + 1 \in 1 .. Len(q)
      /\ \A i, j \in 1 .. Len(q) - 1 : i < j => i + 1 < j + 1
  BY <1>1
<1> HIDE DEF r
<1>3. Sorted(r, up)
  BY <1>1, <1>2 DEF Sorted
<1> QED BY <1>3 DEF r

LEMMA SortedWithout ==
  ASSUME NEW T, NEW q \in Seq(T), NEW S, NEW up, Sorted(q, up)
  PROVE  Sorted(Without(q, S), up)
<1> DEFINE r == Without(q, S)
<1>1. PICK f \in [1 .. Len(r) -> 1 .. Len(q)] :
        /\ \A k \in 1 .. Len(r) : r[k] = q[f[k]]
        /\ \A k, l \in 1 .. Len(r) : k < l => f[k] < f[l]
  BY WithoutFacts
<1> HIDE DEF r
<1>2. Sorted(r, up)
  BY <1>1 DEF Sorted
<1> QED BY <1>2 DEF r

LEMMA SortedConcat ==
  ASSUME NEW T, NEW p \in Seq(T), NEW q \in Seq(T), NEW up, Sorted(p, up), Sorted(q, up),
         \A x \in Range(p), y \in Range(q) : Before(x, y, up)
  PROVE  /\ Sorted(p \o q, up) /\ p \o q \in Seq(T)
         /\ Len(p \o q) = Len(p) + Len(q) /\ Range(p \o q) = Range(p) \cup Range(q)
<1> DEFINE r == p \o q  m == Len(p)  n == Len(q)
<1>1. /\ r \in Seq(T) /\ Len(r) = m + n /\ m \in Nat /\ n \in Nat
      /\ \A i \in 1 .. m + n : r[i] = IF i <= m THEN p[i] ELSE q[i - m]
      /\ DOMAIN p = 1 .. m /\ DOMAIN q = 1 .. n
  BY ConcatProperties, LenProperties
<1>2. DOMAIN r = 1 .. m + n
  BY <1>1, LenProperties
<1> HIDE DEF r, m, n
<1>3. /\ \A i \in 1 .. m : i \in 1 .. m + n /\ r[i] = p[i]
      /\ \A i \in 1 .. n : m + i \in 1 .. m + n /\ r[m + i] = q[i]
      /\ \A i \in 1 .. m + n : i \in 1 .. m \/ (i - m \in 1 .. n /\ m + (i - m) = i)
  BY <1>1
<1>4. Range(r) = Range(p) \cup Range(q)
  <2>1. \A x \in Range(r) : x \in Range(p) \cup Range(q)
    <3> SUFFICES ASSUME NEW i \in 1 .. m + n PROVE r[i] \in Range(p) \cup Range(q)
      BY <1>2 DEF Range
    <3>1. CASE i \in 1 .. m
      BY <1>1, <1>3, <3>1 DEF Range
    <3>2. CASE i - m \in 1 .. n /\ m + (i - m) = i
      <4>1. r[i] = q[i - m]
        BY <1>3, <3>2
      <4> QED BY <1>1, <3>2, <4>1 DEF Range
    <3> QED BY <1>3, <3>1, <3>2
  <2>2. \A x \in Range(p) \cup Range(q) : x \in Range(r)
    <3>1. \A i \in 1 .. m : p[i] \in Range(r)
      BY <1>2, <1>3 DEF Range
    <3>2. \A i \in 1 .. n : q[i] \in Range(r)
      <4> SUFFICES ASSUME NEW i \in 1 .. n PROVE q[i] \in Range(r)
        OBVIOUS
      <4>1. m + i \in 1 .. m + n /\ r[m + i] = q[i]
        BY <1>3
      <4> QED BY <1>2, <4>1 DEF Range
    <3> QED BY <1>1, <3>1, <3>2 DEF Range
  <2> QED BY <2>1, <2>2
<1>5. Sorted(r, up)
  <2> SUFFICES ASSUME NEW i \in 1 .. m + n, NEW j \in 1 .. m + n, i < j
               PROVE  Before(r[i], r[j], up)
    BY <1>1 DEF Sorted
  <2>1. CASE i \in 1 .. m /\ j \in 1 .. m
    <3>1. Before(p[i], p[j], up)
      BY <2>1 DEF Sorted, m
    <3> QED BY <1>3, <2>1, <3>1
  <2>2. CASE i \in 1 .. m /\ j - m \in 1 .. n /\ m + (j - m) = j
    <3>1. r[i] = p[i] /\ r[j] = q[j - m]
      BY <1>3, <2>2
    <3>2. p[i] \in Range(p) /\ q[j - m] \in Range(q)
      BY <1>1, <2>2 DEF Range
    <3> QED BY <3>1, <3>2
  <2>3. CASE i - m \in 1 .. n /\ j - m \in 1 .. n /\ m + (i - m) = i /\ m + (j - m) = j
    <3>1. r[i] = q[i - m] /\ r[j] = q[j - m]
      BY <1>3, <2>3
    <3>2. i - m < j - m
      BY <1>1
    <3>3. Before(q[i - m], q[j - m], up)
      BY <2>3, <3>2 DEF Sorted, n
    <3> QED BY <3>1, <3>3
  <2>4. ~(i - m \in 1 .. n /\ j \in 1 .. m)
    BY <1>1
  <2> QED BY <1>3, <2>1, <2>2, <2>3, <2>4
<1> QED BY <1>1, <1>4, <1>5 DEF r, m, n
-----------------------------------------------------------------------------
(***************************************************************************)
(* How many nodes of S a list has, and how that changes when one is added  *)
(* at its end or taken from its head.                                      *)
(***************************************************************************)
LEMMA PlacesFacts ==
  ASSUME NEW T, NEW q \in Seq(T), NEW S
  PROVE  /\ IsFiniteSet(Places(q, S)) /\ Cardinality(Places(q, S)) \in Nat
         /\ Cardinality(Places(q, S)) = 0 <=> Places(q, S) = {}
         /\ q = << >> => Places(q, S) = {}
<1>1. Len(q) \in Nat /\ (q = << >> => Len(q) = 0)
  BY LenProperties, EmptySeq
<1>2. IsFiniteSet(1 .. Len(q)) /\ Places(q, S) \in SUBSET (1 .. Len(q))
  BY <1>1, FS_Interval DEF Places
<1>3. IsFiniteSet(Places(q, S))
  BY <1>2, FS_Subset
<1>4. Cardinality(Places(q, S)) \in Nat /\ (Cardinality(Places(q, S)) = 0 <=> Places(q, S) = {})
  BY <1>3, FS_CardinalityType, FS_EmptySet
<1>5. q = << >> => Places(q, S) = {}
  BY <1>1 DEF Places
<1> QED BY <1>3, <1>4, <1>5

LEMMA PlacesAppend ==
  ASSUME NEW T, NEW q \in Seq(T), NEW x \in T, NEW S
  PROVE  Cardinality(Places(Append(q, x), S)) =
           Cardinality(Places(q, S)) + (IF x \in S THEN 1 ELSE 0)
<1> DEFINE r == Append(q, x)  n == Len(q)
<1>1. /\ n \in Nat /\ Len(r) = n + 1 /\ r[n + 1] = x
      /\ \A i \in 1 .. n : r[i] = q[i]
  BY AppendProperties, LenProperties
<1>2. IsFiniteSet(Places(q, S)) /\ Cardinality(Places(q, S)) \in Nat
  BY PlacesFacts
<1> HIDE DEF r
<1>3. Places(r, S) = Places(q, S) \cup (IF x \in S THEN {n + 1} ELSE {})
  <2>1. ASSUME NEW i \in 1 .. n + 1, i # n + 1 PROVE i \in 1 .. n
    BY <1>1, <2>1
  <2>2. n + 1 \in 1 .. n + 1 /\ n + 1 \notin 1 .. n /\ (1 .. n) \subseteq 1 .. n + 1
    BY <1>1
  <2> HIDE DEF n
  <2> QED BY <1>1, <2>1, <2>2 DEF Places, n
<1>4. n + 1 \notin Places(q, S)
  BY <1>1 DEF Places
<1>5. CASE x \in S
  <2>1. Cardinality(Places(q, S) \cup {n + 1}) = Cardinality(Places(q, S)) + 1
    BY <1>2, <1>4, FS_AddElement
  <2> QED BY <1>3, <1>5, <2>1 DEF r
<1>6. CASE x \notin S
  <2>1. Places(r, S) = Places(q, S)
    BY <1>3, <1>6
  <2> QED BY <1>2, <1>6, <2>1 DEF r
<1> QED BY <1>5, <1>6

LEMMA PlacesTail ==
  ASSUME NEW T, NEW q \in Seq(T), q # << >>, NEW S
  PROVE  Cardinality(Places(q, S)) =
           Cardinality(Places(Tail(q), S)) + (IF Head(q) \in S THEN 1 ELSE 0)
<1> DEFINE r == Tail(q)  n == Len(q)
           P == Places(q, S) \ {1}
           f == [i \in Places(r, S) |-> i + 1]
<1>1. n \in Nat \ {0} /\ DOMAIN q = 1 .. n
  BY LenProperties, EmptySeq
<1>2. /\ r \in Seq(T) /\ Len(r) = n - 1 /\ Head(q) = q[1]
      /\ \A i \in 1 .. n - 1 : r[i] = q[i + 1]
  BY <1>1, HeadTailProperties
<1>3. IsFiniteSet(Places(q, S)) /\ IsFiniteSet(Places(r, S))
      /\ Cardinality(Places(q, S)) \in Nat /\ Cardinality(Places(r, S)) \in Nat
  BY <1>2, PlacesFacts
<1> HIDE DEF r, n
<1>4. Cardinality(P) = Cardinality(Places(r, S))
  <2>1. \A i \in Places(r, S) : i \in Int /\ i + 1 \in P
    BY <1>1, <1>2 DEF Places, n
  <2>2. \A j \in P : j - 1 \in Places(r, S) /\ (j - 1) + 1 = j
    <3> SUFFICES ASSUME NEW j \in P PROVE j - 1 \in Places(r, S) /\ (j - 1) + 1 = j
      OBVIOUS
    <3>1. j \in 1 .. n /\ j # 1 /\ q[j] \in S
      BY DEF Places, n
    <3>2. j - 1 \in 1 .. n - 1 /\ (j - 1) + 1 = j
      BY <1>1, <3>1
    <3>3. r[j - 1] = q[j]
      BY <1>2, <3>2
    <3> QED BY <1>2, <3>1, <3>2, <3>3 DEF Places
  <2>3. f \in [Places(r, S) -> P]
    BY <2>1
  <2>4. \A i, j \in Places(r, S) : f[i] = f[j] => i = j
    BY <2>1
  <2>5. \A j \in P : \E i \in Places(r, S) : f[i] = j
    BY <2>2
  <2> HIDE DEF f, P
  <2>6. f \in Bijection(Places(r, S), P)
    BY <2>3, <2>4, <2>5 DEF Bijection, Injection, Surjection, IsInjective
  <2> QED BY <1>3, <2>6, FS_Bijection DEF ExistsBijection
<1>5. 1 \in Places(q, S) <=> Head(q) \in S
  BY <1>1, <1>2 DEF Places, n
<1>6. CASE Head(q) \in S
  <2>1. Cardinality(P) = Cardinality(Places(q, S)) - 1
    BY <1>3, <1>5, <1>6, FS_RemoveElement
  <2> HIDE DEF P
  <2>2. Cardinality(Places(q, S)) = Cardinality(Places(r, S)) + 1
    BY <1>3, <1>4, <2>1
  <2> QED BY <1>6, <2>2 DEF r
<1>7. CASE Head(q) \notin S
  <2>1. P = Places(q, S)
    BY <1>5, <1>7
  <2> HIDE DEF P
  <2>2. Cardinality(Places(q, S)) = Cardinality(Places(r, S)) + 0
    BY <1>3, <1>4, <2>1
  <2> QED BY <1>7, <2>2 DEF r
<1> QED BY <1>6, <1>7

(***************************************************************************)
(* The same for the lists of all W together.                               *)
(***************************************************************************)
LEMMA PlacesInMember ==
  ASSUME NEW W, NEW p, NEW S
  PROVE  \A x : x \in PlacesIn(p, W, S) <=>
                 \E w \in W : \E i \in Places(p[w], S) : x = <<w, i>>
BY DEF PlacesIn

LEMMA PlacesInFacts ==
  ASSUME NEW W, IsFiniteSet(W), NEW T, NEW p \in [W -> Seq(T)], NEW S
  PROVE  /\ IsFiniteSet(PlacesIn(p, W, S)) /\ Cardinality(PlacesIn(p, W, S)) \in Nat
         /\ Cardinality(PlacesIn(p, W, S)) = 0 <=> \A w \in W : Places(p[w], S) = {}
<1> DEFINE all == {{w} \X Places(p[w], S) : w \in W}
           f == [w \in W |-> {w} \X Places(p[w], S)]
<1>1. IsFiniteSet(all)
  <2>1. f \in Surjection(W, all)
    BY DEF Surjection
  <2> HIDE DEF f, all
  <2> QED BY <2>1, FS_Surjection
<1>2. \A A \in all : IsFiniteSet(A)
  <2> SUFFICES ASSUME NEW w \in W PROVE IsFiniteSet({w} \X Places(p[w], S))
    OBVIOUS
  <2>1. IsFiniteSet({w}) /\ IsFiniteSet(Places(p[w], S))
    BY FS_Singleton, PlacesFacts
  <2> QED BY <2>1, FS_Product
<1>3. IsFiniteSet(PlacesIn(p, W, S))
  <2> HIDE DEF all
  <2>1. IsFiniteSet(UNION all)
    BY <1>1, <1>2, FS_UNION
  <2> QED BY <2>1 DEF PlacesIn, all
<1>4. PlacesIn(p, W, S) = {} <=> \A w \in W : Places(p[w], S) = {}
  <2>1. ASSUME NEW w \in W, NEW i \in Places(p[w], S) PROVE <<w, i>> \in PlacesIn(p, W, S)
    BY PlacesInMember
  <2>2. ASSUME NEW x \in PlacesIn(p, W, S) PROVE \E w \in W : Places(p[w], S) # {}
    BY PlacesInMember
  <2> QED BY <2>1, <2>2
<1> QED BY <1>3, <1>4, FS_CardinalityType, FS_EmptySet

(***************************************************************************)
(* When the lists p become p2: one list changes; some grow by n together.  *)
(***************************************************************************)
OneChanges(p, p2, W, S, w) ==
  Cardinality(PlacesIn(p2, W, S)) + Cardinality(Places(p[w], S))
    = Cardinality(PlacesIn(p, W, S)) + Cardinality(Places(p2[w], S))

SomeGrow(p, p2, W, S, n) == Cardinality(PlacesIn(p2, W, S)) = Cardinality(PlacesIn(p, W, S)) + n

LEMMA PlacesInOne ==
  ASSUME NEW W, IsFiniteSet(W), NEW T, NEW p \in [W -> Seq(T)], NEW S,
         NEW w \in W, NEW p2, p2[w] \in Seq(T), \A v \in W \ {w} : p2[v] = p[v]
  PROVE  OneChanges(p, p2, W, S, w)
<1> DEFINE r == p2[w]
           rest == PlacesIn(p, W \ {w}, S)
           own(q) == {w} \X Places(q, S)
<1>1. PlacesIn(p, W, S) = rest \cup own(p[w])
  BY DEF PlacesIn
<1>2. PlacesIn(p2, W, S) = rest \cup own(r) /\ r \in Seq(T)
  BY DEF PlacesIn
<1>3. IsFiniteSet(rest)
  BY <1>1, PlacesInFacts, FS_Subset
<1>4. \A q \in Seq(T) : rest \cap own(q) = {}
  BY DEF PlacesIn
<1>5. ASSUME NEW q \in Seq(T)
      PROVE  Cardinality(rest \cup own(q)) = Cardinality(rest) + Cardinality(Places(q, S))
  <2>1. IsFiniteSet({w}) /\ Cardinality({w}) = 1
    BY FS_Singleton
  <2>2. IsFiniteSet(Places(q, S)) /\ Cardinality(Places(q, S)) \in Nat
    BY PlacesFacts
  <2>3. IsFiniteSet(own(q)) /\ Cardinality(own(q)) = 1 * Cardinality(Places(q, S))
    BY <2>1, <2>2, FS_Product
  <2>4. Cardinality(rest) \in Nat /\ rest \cap own(q) = {} /\ Cardinality({}) = 0
    BY <1>3, <1>4, FS_CardinalityType, FS_EmptySet
  <2> DEFINE b == Cardinality(rest)  c == Cardinality(Places(q, S))  d == Cardinality(own(q))
  <2>5. Cardinality(rest \cup own(q)) = b + d - Cardinality(rest \cap own(q))
    <3> HIDE DEF rest, own
    <3> QED BY <1>3, <2>3, FS_Union
  <2>6. Cardinality(rest \cup own(q)) = b + d - 0
    <3> HIDE DEF rest, own
    <3> QED BY <2>4, <2>5
  <2>7. d = c /\ b \in Nat /\ c \in Nat
    <3> HIDE DEF rest, own
    <3> QED BY <2>2, <2>3, <2>4
  <2> HIDE DEF b, c, d
  <2>8. b + d - 0 = b + c
    BY <2>7
  <2> QED BY <2>6, <2>8 DEF b, c
<1>6. /\ Cardinality(PlacesIn(p, W, S)) = Cardinality(rest) + Cardinality(Places(p[w], S))
      /\ Cardinality(PlacesIn(p2, W, S)) = Cardinality(rest) + Cardinality(Places(r, S))
  <2> HIDE DEF rest, own, r
  <2>1. p[w] \in Seq(T)
    OBVIOUS
  <2> QED BY <1>1, <1>2, <1>5, <2>1
<1>7. /\ Cardinality(rest) \in Nat /\ Cardinality(Places(r, S)) \in Nat
      /\ Cardinality(Places(p[w], S)) \in Nat
  BY <1>2, <1>3, FS_CardinalityType, PlacesFacts
<1> HIDE DEF rest
<1>8. Cardinality(PlacesIn(p2, W, S)) + Cardinality(Places(p[w], S))
        = Cardinality(PlacesIn(p, W, S)) + Cardinality(Places(r, S))
  <2> HIDE DEF r
  <2> QED BY <1>6, <1>7
<1> QED BY <1>8 DEF OneChanges

LEMMA PlacesInSome ==
  ASSUME NEW W, IsFiniteSet(W), NEW T, NEW p \in [W -> Seq(T)], NEW S,
         NEW G \in SUBSET W, NEW x \in T,
         NEW p2, \A w \in G : p2[w] = Append(p[w], x), \A w \in W \ G : p2[w] = p[w]
  PROVE  SomeGrow(p, p2, W, S, IF x \in S THEN Cardinality(G) ELSE 0)
<1>1. ASSUME NEW w \in W
      PROVE  /\ Len(p[w]) \in Nat
             /\ w \in G => /\ Len(p2[w]) = Len(p[w]) + 1
                           /\ p2[w][Len(p[w]) + 1] = x
                           /\ \A i \in 1 .. Len(p[w]) : p2[w][i] = p[w][i]
             /\ w \notin G => p2[w] = p[w]
  <2>1. p[w] \in Seq(T) /\ p2[w] = IF w \in G THEN Append(p[w], x) ELSE p[w]
    OBVIOUS
  <2> DEFINE q == p[w]  n == Len(p[w])
  <2>2. /\ n \in Nat /\ Len(Append(q, x)) = n + 1 /\ Append(q, x)[n + 1] = x
        /\ \A i \in 1 .. n : Append(q, x)[i] = q[i]
    <3> HIDE DEF q
    <3>1. q \in Seq(T)
      BY <2>1 DEF q
    <3> QED BY <3>1, AppendProperties, LenProperties DEF q
  <2> QED BY <2>1, <2>2
<1> DEFINE ends == {<<w, Len(p[w]) + 1>> : w \in G}
           f == [w \in G |-> <<w, Len(p[w]) + 1>>]
<1>2. ASSUME NEW w \in W
      PROVE  Places(p2[w], S) = Places(p[w], S) \cup
               (IF w \in G /\ x \in S THEN {Len(p[w]) + 1} ELSE {})
  <2>1. CASE w \in G
    <3> DEFINE n == Len(p[w])  q == p2[w]
    <3>1. n \in Nat /\ Len(q) = n + 1 /\ q[n + 1] = x /\ \A i \in 1 .. n : q[i] = p[w][i]
      BY <1>1, <2>1
    <3>2. \A i : i \in 1 .. n + 1 <=> i \in 1 .. n \/ i = n + 1
      BY <3>1
    <3>3. n + 1 \notin 1 .. n
      BY <3>1
    <3>4. Places(q, S) = Places(p[w], S) \cup (IF x \in S THEN {n + 1} ELSE {})
      <4>1. Places(q, S) = {i \in 1 .. n + 1 : q[i] \in S}
        BY <3>1 DEF Places
      <4>2. Places(p[w], S) = {i \in 1 .. n : p[w][i] \in S}
        BY DEF Places
      <4> HIDE DEF n, q
      <4> QED BY <3>1, <3>2, <3>3, <4>1, <4>2
    <3> QED BY <2>1, <3>4
  <2>2. CASE w \notin G
    BY <1>1, <2>2
  <2> QED BY <2>1, <2>2
<1>3. PlacesIn(p2, W, S) = PlacesIn(p, W, S) \cup (IF x \in S THEN ends ELSE {})
  <2>1. \A y : y \in ends <=> \E w \in G : y = <<w, Len(p[w]) + 1>>
    OBVIOUS
  <2>2. ASSUME NEW y, x \in S
        PROVE  y \in PlacesIn(p2, W, S) <=> y \in PlacesIn(p, W, S) \/ y \in ends
    <3> HIDE DEF ends
    <3>1. y \in PlacesIn(p2, W, S) => y \in PlacesIn(p, W, S) \/ y \in ends
      <4> SUFFICES ASSUME y \in PlacesIn(p2, W, S)
                   PROVE  y \in PlacesIn(p, W, S) \/ y \in ends
        OBVIOUS
      <4> PICK w \in W : \E i \in Places(p2[w], S) : y = <<w, i>>
        BY PlacesInMember
      <4> PICK i \in Places(p2[w], S) : y = <<w, i>>
        OBVIOUS
      <4>1. i \in Places(p[w], S) \/ (w \in G /\ i = Len(p[w]) + 1)
        BY <1>2
      <4> QED BY <2>1, <4>1, PlacesInMember
    <3>2. y \in PlacesIn(p, W, S) => y \in PlacesIn(p2, W, S)
      <4> SUFFICES ASSUME y \in PlacesIn(p, W, S) PROVE y \in PlacesIn(p2, W, S)
        OBVIOUS
      <4> PICK w \in W : \E i \in Places(p[w], S) : y = <<w, i>>
        BY PlacesInMember
      <4> PICK i \in Places(p[w], S) : y = <<w, i>>
        OBVIOUS
      <4>1. i \in Places(p2[w], S)
        BY <1>2
      <4> QED BY <4>1, PlacesInMember
    <3>3. y \in ends => y \in PlacesIn(p2, W, S)
      <4> SUFFICES ASSUME y \in ends PROVE y \in PlacesIn(p2, W, S)
        OBVIOUS
      <4> PICK w \in G : y = <<w, Len(p[w]) + 1>>
        BY <2>1
      <4>1. Len(p[w]) + 1 \in Places(p2[w], S) /\ w \in W
        BY <1>2, <2>2
      <4> QED BY <4>1, PlacesInMember
    <3> QED BY <3>1, <3>2, <3>3
  <2>3. ASSUME x \notin S PROVE PlacesIn(p2, W, S) = PlacesIn(p, W, S)
    BY <1>2, <2>3 DEF PlacesIn
  <2> HIDE DEF ends
  <2> QED BY <2>2, <2>3
<1>4. PlacesIn(p, W, S) \cap ends = {}
  <2>1. \A w \in W : Len(p[w]) + 1 \notin Places(p[w], S)
    BY <1>1 DEF Places
  <2> QED BY <2>1 DEF PlacesIn
<1>5. IsFiniteSet(G) /\ IsFiniteSet(ends) /\ Cardinality(ends) = Cardinality(G)
      /\ Cardinality(G) \in Nat
  <2>1. IsFiniteSet(G) /\ Cardinality(G) \in Nat
    BY FS_Subset, FS_CardinalityType
  <2>2. f \in Bijection(G, ends)
    BY DEF Bijection, Injection, Surjection, IsInjective
  <2> HIDE DEF f, ends
  <2> QED BY <2>1, <2>2, FS_Bijection DEF ExistsBijection
<1>6. IsFiniteSet(PlacesIn(p, W, S)) /\ Cardinality(PlacesIn(p, W, S)) \in Nat
  BY PlacesInFacts
<1> HIDE DEF ends
<1>7. CASE x \in S
  <2>1. Cardinality(PlacesIn(p, W, S) \cup ends) =
          Cardinality(PlacesIn(p, W, S)) + Cardinality(ends) - Cardinality({})
    <3> DEFINE P == PlacesIn(p, W, S)
    <3>1. IsFiniteSet(P) /\ IsFiniteSet(ends) /\ P \cap ends = {}
      BY <1>4, <1>5, <1>6
    <3> HIDE DEF P
    <3>2. Cardinality(P \cup ends) = Cardinality(P) + Cardinality(ends) - Cardinality(P \cap ends)
      BY <3>1, FS_Union
    <3> QED BY <3>1, <3>2 DEF P
  <2> DEFINE a == Cardinality(PlacesIn(p, W, S))  b == Cardinality(ends)
             c == Cardinality(G)
  <2>2. /\ a \in Nat /\ b = c /\ c \in Nat
        /\ Cardinality(PlacesIn(p2, W, S)) = a + b - 0
    BY <1>3, <1>5, <1>6, <1>7, <2>1, FS_EmptySet
  <2> HIDE DEF a, b, c
  <2>3. a + b - 0 = a + c
    BY <2>2
  <2> QED BY <1>7, <2>2, <2>3 DEF a, c, SomeGrow
<1>8. CASE x \notin S
  <2> DEFINE a == Cardinality(PlacesIn(p, W, S))
  <2>1. a \in Nat /\ Cardinality(PlacesIn(p2, W, S)) = a
    BY <1>3, <1>6, <1>8
  <2> HIDE DEF a
  <2>2. Cardinality(PlacesIn(p2, W, S)) = a + 0
    BY <2>1
  <2> QED BY <1>8, <2>2 DEF a, SomeGrow
<1> QED BY <1>7, <1>8
=============================================================================
