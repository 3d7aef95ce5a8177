---------------------------- MODULE KeyvalsProofs ----------------------------
(***************************************************************************)
(* Keyvals, for every set of communicators and every bound: whatever the   *)
(* callbacks do, keyvalVec, tupleMap and the list for MPI_Finalize agree,  *)
(* and every value is deleted once.                                        *)
(***************************************************************************)
EXTENDS Keyvals, TLAPS, FiniteSetTheorems, SequenceTheorems, WellFoundedInduction

USE Zenon

-----------------------------------------------------------------------------
(* Sequences, by their ranges.                                             *)

LEMMA InRange ==
  ASSUME NEW s, NEW x
  PROVE  x \in Range(s) <=> \E i \in DOMAIN s : s[i] = x
BY DEF Range

LEMMA Push ==
  ASSUME NEW S, NEW s \in Seq(S), NEW x \in S
  PROVE  /\ <<x>> \o s \in Seq(S)
         /\ Range(<<x>> \o s) = {x} \cup Range(s)
         /\ Len(<<x>> \o s) = Len(s) + 1
         /\ (<<x>> \o s)[1] = x
         /\ \A i \in DOMAIN s : (<<x>> \o s)[i + 1] = s[i]
<1>0. PICK t : t = <<x>> \o s
  OBVIOUS
<1>1. /\ t \in Seq(S) /\ Len(t) = Len(s) + 1 /\ t[1] = x /\ DOMAIN s = 1 .. Len(s)
      /\ \A i \in 1 .. Len(s) : t[i + 1] = s[i]
      /\ DOMAIN t = 1 .. Len(s) + 1 /\ Len(s) \in Nat
  BY <1>0, SMT
<1>2. ASSUME NEW i \in DOMAIN t  PROVE t[i] = x \/ \E j \in DOMAIN s : s[j] = t[i]
  <2>1. i = 1 \/ (i - 1 \in 1 .. Len(s) /\ (i - 1) + 1 = i)
    BY <1>1, SMT
  <2> QED  BY <1>1, <2>1
<1>3. ASSUME NEW j \in DOMAIN s  PROVE j + 1 \in DOMAIN t /\ t[j + 1] = s[j]
  BY <1>1, SMT
<1>4. 1 \in DOMAIN t
  BY <1>1, SMT
<1>5. Range(t) = {x} \cup Range(s)
  <2>1. \E i \in DOMAIN t : t[i] = x
    BY <1>1, <1>4
  <2>2. \A j \in DOMAIN s : \E i \in DOMAIN t : t[i] = s[j]
    BY <1>3
  <2> QED  BY <1>2, <2>1, <2>2, SMT DEF Range
<1> QED
  BY <1>0, <1>1, <1>5

LEMMA Pop ==
  ASSUME NEW S, NEW s \in Seq(S), s # <<>>
  PROVE  /\ Tail(s) \in Seq(S) /\ s[1] \in S /\ 1 \in DOMAIN s
         /\ \A i \in DOMAIN Tail(s) : i + 1 \in DOMAIN s /\ Tail(s)[i] = s[i + 1]
         /\ Range(s) = {s[1]} \cup Range(Tail(s))
<1>1. /\ Tail(s) \in Seq(S) /\ s[1] \in S /\ 1 \in DOMAIN s
      /\ \A i \in DOMAIN Tail(s) : i + 1 \in DOMAIN s /\ Tail(s)[i] = s[i + 1]
      /\ \A i \in DOMAIN s : i # 1 => i - 1 \in DOMAIN Tail(s) /\ Tail(s)[i - 1] = s[i]
  BY SMT
<1>2. Range(s) = {s[1]} \cup Range(Tail(s))
  <2>1. \A i \in DOMAIN s : s[i] = s[1] \/ \E j \in DOMAIN Tail(s) : Tail(s)[j] = s[i]
    BY <1>1
  <2>2. \E i \in DOMAIN s : s[i] = s[1]
    BY <1>1
  <2>3. \A j \in DOMAIN Tail(s) : \E i \in DOMAIN s : s[i] = Tail(s)[j]
    BY <1>1
  <2> QED  BY <2>1, <2>2, <2>3, SMT DEF Range
<1> QED
  BY <1>1, <1>2

LEMMA NestedPush ==
  ASSUME NEW s \in Seq(Frames), NEW f \in Frames, Nested(s),
         \A g \in Range(s) : Apart(f, g)
  PROVE  Nested(<<f>> \o s)
<1> DEFINE t == <<f>> \o s
<1>1. /\ \A i \in DOMAIN t : i \in Nat /\ (i = 1 \/ (i - 1 \in DOMAIN s /\ t[i] = s[i - 1]))
      /\ t[1] = f
  BY SMT
<1>2. \A i, j \in DOMAIN t : i < j => j # 1 /\ (i # 1 => i - 1 < j - 1)
  BY <1>1, SMT
<1> HIDE DEF t
<1>3. \A i \in DOMAIN s : Apart(f, s[i])
  BY InRange
<1>4. ASSUME NEW i \in DOMAIN t, NEW j \in DOMAIN t, i < j  PROVE Apart(t[i], t[j])
  <2>1. j - 1 \in DOMAIN s /\ t[j] = s[j - 1]
    BY <1>1, <1>2, <1>4
  <2>2. CASE i = 1
    BY <1>1, <1>3, <2>1, <2>2
  <2>3. CASE i # 1
    BY <1>1, <1>2, <1>4, <2>1, <2>3 DEF Nested
  <2> QED  BY <2>2, <2>3
<1> QED
  BY <1>4 DEF Nested, t

LEMMA NestedPop ==
  ASSUME NEW s \in Seq(Frames), s # <<>>, Nested(s)
  PROVE  Nested(Tail(s)) /\ \A g \in Range(Tail(s)) : Apart(s[1], g)
<1>1. /\ \A i \in DOMAIN Tail(s) : i + 1 \in DOMAIN s /\ Tail(s)[i] = s[i + 1] /\ 1 < i + 1
      /\ \A i, j \in DOMAIN Tail(s) : i < j => i + 1 < j + 1
      /\ 1 \in DOMAIN s
  BY SMT
<1>2. Nested(Tail(s))
  BY <1>1 DEF Nested
<1>3. ASSUME NEW g \in Range(Tail(s))  PROVE Apart(s[1], g)
  <2>1. PICK i \in DOMAIN Tail(s) : Tail(s)[i] = g
    BY InRange
  <2> QED  BY <1>1, <2>1 DEF Nested
<1> QED
  BY <1>2, <1>3

LEMMA AppendRange ==
  ASSUME NEW S, NEW s \in Seq(S), NEW x \in S
  PROVE  /\ Append(s, x) \in Seq(S)
         /\ Range(Append(s, x)) = {x} \cup Range(s)
         /\ IsInjective(s) /\ x \notin Range(s) => IsInjective(Append(s, x))
<1> DEFINE n == Len(s) + 1
<1>0. PICK t : t = Append(s, x)
  OBVIOUS
<1>1. /\ t \in Seq(S) /\ n \in DOMAIN t /\ t[n] = x
      /\ \A i \in DOMAIN t : i = n \/ (i \in DOMAIN s /\ t[i] = s[i])
      /\ \A i \in DOMAIN s : i \in DOMAIN t /\ t[i] = s[i]
  BY <1>0, SMT
<1> HIDE DEF n
<1>2. Range(t) = {x} \cup Range(s)
  BY <1>1, SMT DEF Range
<1>3. ASSUME IsInjective(s), x \notin Range(s)  PROVE IsInjective(t)
  <2>1. \A i \in DOMAIN s : s[i] # x
    BY <1>3, InRange
  <2> QED  BY <1>1, <1>3, <2>1 DEF IsInjective
<1> QED
  BY <1>0, <1>1, <1>2, <1>3

LEMMA ButLast ==
  ASSUME NEW S, NEW s \in Seq(S), s # <<>>
  PROVE  /\ SubSeq(s, 1, Len(s) - 1) \in Seq(S) /\ s[Len(s)] \in S
         /\ Range(s) = {s[Len(s)]} \cup Range(SubSeq(s, 1, Len(s) - 1))
         /\ IsInjective(s) => /\ IsInjective(SubSeq(s, 1, Len(s) - 1))
                              /\ s[Len(s)] \notin Range(SubSeq(s, 1, Len(s) - 1))
<1> DEFINE n == Len(s)
<1>0. PICK t : t = SubSeq(s, 1, n - 1)
  OBVIOUS
<1>1. /\ n \in DOMAIN s /\ t \in Seq(S) /\ s[n] \in S /\ DOMAIN t = 1 .. n - 1
      /\ \A i \in DOMAIN t : i \in DOMAIN s /\ t[i] = s[i] /\ i # n
      /\ \A i \in DOMAIN s : i = n \/ i \in DOMAIN t
  BY <1>0, SMT
<1> HIDE DEF n
<1>2. Range(s) = {s[n]} \cup Range(t)
  <2>1. \A i \in DOMAIN s : s[i] = s[n] \/ \E j \in DOMAIN t : t[j] = s[i]
    BY <1>1
  <2>2. \E i \in DOMAIN s : s[i] = s[n]
    BY <1>1
  <2>3. \A j \in DOMAIN t : \E i \in DOMAIN s : s[i] = t[j]
    BY <1>1
  <2> QED  BY <2>1, <2>2, <2>3, SMT DEF Range
<1>3. ASSUME IsInjective(s)  PROVE IsInjective(t) /\ s[n] \notin Range(t)
  BY <1>1, <1>3, InRange DEF IsInjective
<1> QED
  BY <1>0, <1>1, <1>2, <1>3 DEF n

-----------------------------------------------------------------------------
(* Induction over the numbers, with the property as a set.                 *)

LEMMA Least ==
  ASSUME NEW T, T \subseteq Nat, T # {}
  PROVE  \E m \in T : \A n \in T : m <= n
<1> DEFINE R == OpToRel(<, Nat)
<1>1. IsWellFoundedOn(R, Nat)
  BY NatLessThanWellFounded, Zenon
<1>2. \A x, y \in Nat : x < y => <<x, y>> \in R
  BY SMT DEF OpToRel
<1> HIDE DEF R
<1>3. PICK m \in T : \A n \in T : ~ (<<n, m>> \in R)
  BY <1>1, WFMin, Zenon
<1>4. ASSUME NEW n \in T PROVE m <= n
  <2>1. n \in Nat /\ m \in Nat
    OBVIOUS
  <2>2. ~(n < m)
    BY <1>2, <1>3, <2>1, Zenon
  <2> QED
    BY <2>1, <2>2, SMT
<1> QED
  BY <1>4, Zenon

LEMMA NatSetInduction ==
  ASSUME NEW P, 0 \in P, \A n \in Nat : n \in P => n + 1 \in P
  PROVE  Nat \subseteq P
<1> SUFFICES ASSUME NEW k \in Nat, k \notin P PROVE FALSE
  OBVIOUS
<1> DEFINE T == {n \in Nat : n \notin P}
<1>1. PICK m \in T : \A n \in T : m <= n
  <2> T \subseteq Nat /\ T # {}
    OBVIOUS
  <2> HIDE DEF T
  <2> QED BY Least, Zenon
<1>2. m # 0 /\ m \in Nat /\ m \notin P
  OBVIOUS
<1>3. m - 1 \in Nat /\ m - 1 + 1 = m /\ ~(m <= m - 1)
  BY <1>2, SMT
<1>4. m - 1 \in P
  BY <1>1, <1>3, Zenon
<1> QED
  BY <1>2, <1>3, <1>4

(* What std::remove leaves of a list: all but the keyval, in the order     *)
(* they had.                                                               *)
LEMMA WithoutKeyvalRange ==
  ASSUME NEW S, NEW s \in Seq(S), NEW k
  PROVE  /\ WithoutKeyval(s, k) \in Seq(S)
         /\ Range(WithoutKeyval(s, k)) = Range(s) \ {k}
         /\ IsInjective(s) => IsInjective(WithoutKeyval(s, k))
<1> DEFINE Step(f, i) == IF i = 0 THEN <<>> ELSE IF s[i] = k THEN f[i - 1] ELSE Append(f[i - 1], s[i])
           Is(f, n) == f = [i \in 0 .. n |-> Step(f, i)]
           N == Len(s)
           P == {n \in Nat : \E f : Is(f, n)}
<1>1. 0 \in P
  <2>1. PICK f : f = [i \in 0 .. 0 |-> <<>>]
    OBVIOUS
  <2>2. Is(f, 0) /\ 0 \in Nat
    BY <2>1, SMT
  <2> HIDE DEF Is
  <2> QED  BY <2>2
<1>2. ASSUME NEW n \in Nat, n \in P  PROVE n + 1 \in P
  <2>1. PICK f : Is(f, n)
    BY <1>2
  <2>2. PICK g : g = [i \in 0 .. n + 1 |-> IF i = n + 1 THEN Step(f, i) ELSE f[i]]
    OBVIOUS
  <2>3. ASSUME NEW i \in 0 .. n + 1  PROVE g[i] = Step(g, i)
    <3>1. i # n + 1 => i \in 0 .. n
      BY SMT
    <3>2. i # 0 => i - 1 \in 0 .. n /\ i - 1 \in 0 .. n + 1 /\ i - 1 # n + 1
      BY SMT
    <3>3. i # 0 => g[i - 1] = f[i - 1]
      BY <2>2, <3>2
    <3>4. Step(g, i) = Step(f, i)
      BY <3>3
    <3>5. i # n + 1 => f[i] = Step(f, i)
      BY <2>1, <3>1
    <3> QED  BY <2>2, <3>4, <3>5
  <2>4. Is(g, n + 1) /\ n + 1 \in Nat
    BY <2>2, <2>3, SMT
  <2> HIDE DEF Is
  <2> QED  BY <2>4
<1>3. N \in Nat
  BY SMT
<1>4. N \in P
  BY <1>1, <1>2, <1>3, NatSetInduction
<1>5. PICK kept : Is(kept, N) /\ WithoutKeyval(s, k) = kept[N]
  BY <1>4 DEF WithoutKeyval
<1> HIDE DEF N, P
<1>6. kept[0] = <<>>
  BY <1>3, <1>5, SMT
<1>7. ASSUME NEW n \in Nat, n + 1 <= N
      PROVE  kept[n + 1] = IF s[n + 1] = k THEN kept[n] ELSE Append(kept[n], s[n + 1])
  <2>1. n + 1 \in 0 .. N /\ n + 1 # 0 /\ (n + 1) - 1 = n
    BY <1>3, <1>7, SMT
  <2> QED  BY <1>5, <2>1
<1> HIDE DEF Is, Step
<1> DEFINE Good(t, n) == /\ t \in Seq(S) /\ Range(t) = {s[j] : j \in 1 .. n} \ {k}
                         /\ IsInjective(s) => IsInjective(t)
           Q == {n \in Nat : n <= N => Good(kept[n], n)}
<1>8. 0 \in Q
  <2>1. <<>> \in Seq(S) /\ Range(<<>>) = {} /\ {s[j] : j \in 1 .. 0} = {} /\ IsInjective(<<>>)
    BY SMT DEF Range, IsInjective
  <2> QED  BY <1>6, <2>1
<1>9. ASSUME NEW n \in Nat, n \in Q  PROVE n + 1 \in Q
  <2> SUFFICES ASSUME n + 1 <= N  PROVE Good(kept[n + 1], n + 1)
    BY SMT
  <2>1. Good(kept[n], n)
    BY <1>3, <1>9, SMT
  <2>2. {s[j] : j \in 1 .. n + 1} = {s[n + 1]} \cup {s[j] : j \in 1 .. n}
    BY SMT
  <2>3. s[n + 1] \in S /\ n + 1 \in DOMAIN s
    BY SMT DEF N
  <2>4. CASE s[n + 1] = k
    <3>1. kept[n + 1] = kept[n]
      BY <1>7, <2>4
    <3>2. {s[j] : j \in 1 .. n + 1} \ {k} = {s[j] : j \in 1 .. n} \ {k}
      BY <2>2, <2>4
    <3> QED  BY <2>1, <3>1, <3>2
  <2>5. CASE s[n + 1] # k
    <3>1. kept[n + 1] = Append(kept[n], s[n + 1])
      BY <1>7, <2>5
    <3>2. Range(kept[n + 1]) = {s[n + 1]} \cup Range(kept[n]) /\ kept[n + 1] \in Seq(S)
      <4>1. kept[n] \in Seq(S)
        BY <2>1
      <4>2. /\ Range(Append(kept[n], s[n + 1])) = {s[n + 1]} \cup Range(kept[n])
            /\ Append(kept[n], s[n + 1]) \in Seq(S)
        BY <2>3, <4>1, AppendRange
      <4> QED  BY <3>1, <4>2
    <3>3. Range(kept[n + 1]) = {s[j] : j \in 1 .. n + 1} \ {k}
      BY <2>1, <2>2, <2>5, <3>2
    <3>4. ASSUME IsInjective(s)  PROVE IsInjective(kept[n + 1])
      <4>1. \A j \in 1 .. n : j \in DOMAIN s /\ j # n + 1
        BY SMT DEF N
      <4>2. s[n + 1] \notin Range(kept[n])
        BY <2>1, <2>3, <3>4, <4>1 DEF IsInjective
      <4> QED  BY <2>1, <2>3, <3>1, <3>4, <4>2, AppendRange
    <3> QED  BY <3>2, <3>3, <3>4
  <2> QED  BY <2>4, <2>5
<1>10. N \in Q
  <2> HIDE DEF Q
  <2> QED  BY <1>3, <1>8, <1>9, NatSetInduction
<1>11. Range(s) = {s[j] : j \in 1 .. N}
  BY SMT DEF Range, N
<1>12. N <= N
  BY <1>3, SMT
<1> QED
  BY <1>5, <1>10, <1>11, <1>12

-----------------------------------------------------------------------------
(* The entries of tupleMap.                                                *)

LEMMA NumberFacts ==
  /\ Cardinality(PredefinedKeyvals) \in Nat
  /\ \A k \in Numbers : /\ k \in Nat /\ k + 1 \in Nat \ {0}
                         /\ k + 1 <= MaxKeyvals + Cardinality(PredefinedKeyvals)
  /\ \A k \in Nat : k + 1 <= MaxKeyvals + Cardinality(PredefinedKeyvals) => k \in Numbers
<1>1. Cardinality(PredefinedKeyvals) \in Nat
  BY FS_CardinalityType, KeyvalConstants
<1> QED
  BY <1>1, KeyvalConstants, SMT DEF Numbers

LEMMA NoTupleFacts ==
  /\ NoTuple \in Tuples /\ NoTuple.number = 0 /\ NoTuple.freed = FALSE
  /\ \A c \in Comms : NoTuple.attr[c] = 0
BY KeyvalConstants, SMT DEF NoTuple, Tuples

(* The map t is 'tuple', but for the value v of the attribute of k at c.   *)
AttrSet(t, k, c, v) ==
  /\ t \in [Numbers -> Tuples]
  /\ \A j \in Numbers :
       /\ t[j].number = tuple[j].number /\ t[j].freed = tuple[j].freed
       /\ \A d \in Comms : t[j].attr[d] = IF j = k /\ d = c THEN v ELSE tuple[j].attr[d]
       /\ j # k => t[j] = tuple[j]

LEMMA SetAttr ==
  ASSUME KeyvalTypes, NEW k \in Numbers, NEW c \in Comms, NEW v \in 0 .. MaxValues
  PROVE  AttrSet([tuple EXCEPT ![k].attr[c] = v], k, c, v)
<1>1. PICK t : t = [tuple EXCEPT ![k].attr[c] = v]
  OBVIOUS
<1>2. tuple \in [Numbers -> Tuples]
  BY DEF KeyvalTypes
<1>3. /\ t \in [Numbers -> Tuples]
      /\ \A j \in Numbers :
           /\ t[j].number = tuple[j].number /\ t[j].freed = tuple[j].freed
           /\ \A d \in Comms : t[j].attr[d] = IF j = k /\ d = c THEN v ELSE tuple[j].attr[d]
           /\ j # k => t[j] = tuple[j]
  BY <1>1, <1>2, SMT DEF Tuples
<1>4. AttrSet(t, k, c, v)
  BY <1>3 DEF AttrSet
<1> QED
  BY <1>1, <1>4

LEMMA Removed ==
  ASSUME NEW tp \in [Numbers -> Tuples], NEW k \in Numbers, RemoveIfUnused(tp, k)
  PROVE  /\ tuple' \in [Numbers -> Tuples]
         /\ \A j \in Numbers : j # k => tuple'[j] = tp[j]
         /\ \A c \in Comms : tuple'[k].attr[c] = tp[k].attr[c]
         /\ \/ /\ tuple'[k] = tp[k] /\ vec' = vec
               /\ tp[k].freed => \E c \in Comms : tp[k].attr[c] # 0
            \/ /\ tuple'[k] = NoTuple /\ vec' = [vec EXCEPT ![k + 1] = -1]
               /\ \A c \in Comms : tp[k].attr[c] = 0
<1>1. tp[k].attr = NoTuple.attr <=> \A c \in Comms : tp[k].attr[c] = 0
  <2>1. tp[k].attr \in [Comms -> 0 .. MaxValues] /\ NoTuple.attr = [c \in Comms |-> 0]
    BY SMT DEF Tuples, NoTuple
  <2> QED  BY <2>1, SMT
<1>2. CASE IsUnused(tp, k)
  <2>1. tuple' = [tp EXCEPT ![k] = NoTuple] /\ vec' = [vec EXCEPT ![k + 1] = -1]
    BY <1>2 DEF RemoveIfUnused
  <2>2. \A c \in Comms : tp[k].attr[c] = 0
    BY <1>1, <1>2 DEF IsUnused
  <2> QED  BY <2>1, <2>2, NoTupleFacts
<1>3. CASE ~IsUnused(tp, k)
  <2>1. tuple' = tp /\ vec' = vec
    BY <1>3 DEF RemoveIfUnused
  <2>2. tp[k].freed => \E c \in Comms : tp[k].attr[c] # 0
    BY <1>1, <1>3 DEF IsUnused
  <2> QED  BY <2>1, <2>2
<1> QED
  BY <1>2, <1>3

LEMMA TupleTypes ==
  ASSUME KeyvalTypes
  PROVE  \A k \in Numbers : /\ tuple[k].number \in Nat /\ tuple[k].freed \in BOOLEAN
                             /\ \A c \in Comms : tuple[k].attr[c] \in 0 .. MaxValues
BY SMT DEF KeyvalTypes, Tuples

LEMMA KeyvalNumber ==
  ASSUME VecInv
  PROVE  \A k \in Numbers :
           /\ k \in Keyvals <=> tuple[k].number # 0
           /\ \A c \in Comms : Has(k, c) => k \in Keyvals
BY NoTupleFacts DEF VecInv, Keyvals, Has

LEMMA KeyvalNumberNext ==
  ASSUME \A k \in Numbers : tuple'[k].number = 0 => tuple'[k] = NoTuple
  PROVE  \A k \in Numbers : k \in Keyvals' <=> tuple'[k].number # 0
BY NoTupleFacts DEF Keyvals

(* remove_keyval_if_unused, of a keyval.                                   *)
LEMMA RemovedInv ==
  ASSUME KeyvalTypes, VecInv, NEW tp \in [Numbers -> Tuples], NEW k \in Numbers, k \in Keyvals,
         \A j \in Numbers : tp[j].number = tuple[j].number /\ (j # k => tp[j] = tuple[j]),
         RemoveIfUnused(tp, k)
  PROVE  /\ vec' \in Seq(Int) /\ Len(vec') <= MaxKeyvals + Cardinality(PredefinedKeyvals)
         /\ VecInv'
<1>1. /\ tuple' \in [Numbers -> Tuples]
      /\ \A j \in Numbers : j # k => tuple'[j] = tp[j]
      /\ \A d \in Comms : tuple'[k].attr[d] = tp[k].attr[d]
      /\ \/ /\ tuple'[k] = tp[k] /\ vec' = vec
            /\ tp[k].freed => \E d \in Comms : tp[k].attr[d] # 0
         \/ /\ tuple'[k] = NoTuple /\ vec' = [vec EXCEPT ![k + 1] = -1]
            /\ \A d \in Comms : tp[k].attr[d] = 0
  BY Removed
<1>2. k \in Keyvals /\ tuple[k].number # 0 /\ k + 1 \in DOMAIN vec /\ vec[k + 1] = k
      /\ k \notin PredefinedKeyvals
  <2>1. k \in Keyvals /\ tuple[k].number # 0 /\ k < Len(vec) /\ vec[k + 1] = k
    BY KeyvalNumber DEF VecInv
  <2>2. k \in Nat
    BY NumberFacts
  <2>3. k + 1 \in DOMAIN vec /\ (k + 1) - 1 = k /\ k # -2
    BY <2>1, <2>2, SMT DEF KeyvalTypes
  <2> QED  BY <2>1, <2>3 DEF VecInv
<1>3. vec' \in Seq(Int) /\ Len(vec') <= MaxKeyvals + Cardinality(PredefinedKeyvals)
  <2>1. CASE vec' = vec
    BY <2>1 DEF KeyvalTypes
  <2>2. CASE vec' = [vec EXCEPT ![k + 1] = -1]
    <3>1. vec \in Seq(Int) /\ k + 1 \in 1 .. Len(vec) /\ -1 \in Int
          /\ Len(vec) <= MaxKeyvals + Cardinality(PredefinedKeyvals)
      BY <1>2, SMT DEF KeyvalTypes
    <3>2. vec' \in Seq(Int) /\ Len(vec') = Len(vec)
      BY <2>2, <3>1, SMT
    <3> QED  BY <3>1, <3>2
  <2> QED  BY <1>1, <2>1, <2>2
<1>4. VecInv'
  <2>1. CASE tuple'[k] = tp[k] /\ vec' = vec /\ (tp[k].freed => \E d \in Comms : tp[k].attr[d] # 0)
    <3>1. ASSUME NEW j \in Numbers  PROVE tuple'[j].number = tuple[j].number
      <4>1. tuple'[j] = tp[j]
        BY <1>1, <2>1
      <4> QED  BY <4>1
    <3>2. ASSUME NEW j \in Numbers, tuple'[j].number = 0  PROVE tuple'[j] = NoTuple
      <4>1. j # k
        BY <1>2, <3>1, <3>2
      <4> QED  BY <1>1, <3>1, <3>2, <4>1 DEF VecInv
    <3>3. ASSUME NEW j \in Numbers
          PROVE  j \in Keyvals' <=> j < Len(vec') /\ vec'[j + 1] = j
      <4>1. j \in Keyvals' <=> tuple'[j].number # 0
        BY <3>2, KeyvalNumberNext
      <4>2. j \in Keyvals <=> tuple[j].number # 0
        BY KeyvalNumber
      <4>3. j \in Keyvals <=> j < Len(vec) /\ vec[j + 1] = j
        BY DEF VecInv
      <4>4. j \in Keyvals' <=> j \in Keyvals
        BY <3>1, <4>1, <4>2
      <4> QED  BY <2>1, <4>3, <4>4
    <3>4. ASSUME NEW j \in Numbers, tuple'[j].freed  PROVE \E d \in Comms : Has(j, d)'
      <4>1. CASE j = k
        BY <2>1, <3>4, <4>1 DEF Has
      <4>2. CASE j # k
        <5>1. tuple'[j] = tuple[j]
          BY <1>1, <4>2
        <5>2. \E d \in Comms : tuple[j].attr[d] # 0
          BY <3>4, <5>1 DEF VecInv, Has
        <5> QED  BY <5>1, <5>2 DEF Has
      <4> QED  BY <4>1, <4>2
    <3> QED  BY <2>1, <3>2, <3>3, <3>4 DEF VecInv
  <2>2. CASE /\ tuple'[k] = NoTuple /\ vec' = [vec EXCEPT ![k + 1] = -1]
             /\ \A d \in Comms : tp[k].attr[d] = 0
    <3>1. \A j \in Numbers : j # k => tuple'[j] = tuple[j]
      BY <1>1
    <3>2. ASSUME NEW j \in Numbers, tuple'[j].number = 0  PROVE tuple'[j] = NoTuple
      BY <2>2, <3>1, <3>2 DEF VecInv
    <3>3. DOMAIN vec' = DOMAIN vec /\ vec'[k + 1] = -1 /\ Len(vec') = Len(vec)
          /\ \A i \in DOMAIN vec : i # k + 1 => vec'[i] = vec[i]
      BY <1>2, <2>2, SMT DEF KeyvalTypes
    <3>4. ASSUME NEW j \in Numbers, j # k
          PROVE  j + 1 # k + 1 /\ (j < Len(vec) => j + 1 \in DOMAIN vec)
      BY NumberFacts, <3>4, SMT DEF KeyvalTypes
    <3>5. ASSUME NEW j \in Numbers
          PROVE  j \in Keyvals' <=> j < Len(vec') /\ vec'[j + 1] = j
      <4>1. CASE j = k
        <5>1. -1 # k
          BY NumberFacts, SMT
        <5> QED  BY <2>2, <3>3, <4>1, <5>1 DEF Keyvals
      <4>2. CASE j # k
        BY <3>1, <3>3, <3>4, <4>2 DEF VecInv, Keyvals
      <4> QED  BY <4>1, <4>2
    <3>6. ASSUME NEW j \in Numbers, tuple'[j].freed  PROVE \E d \in Comms : Has(j, d)'
      <4>1. j # k
        BY <2>2, <3>6, NoTupleFacts
      <4>2. \E d \in Comms : tuple[j].attr[d] # 0
        BY <3>1, <3>6, <4>1 DEF VecInv, Has
      <4> QED  BY <3>1, <4>1, <4>2 DEF Has
    <3>7. ASSUME NEW i \in DOMAIN vec'
          PROVE  vec'[i] \in {-1, -2, i - 1} /\ (vec'[i] # -2 => i - 1 \notin PredefinedKeyvals)
      <4>1. CASE i = k + 1
        <5>1. i - 1 = k
          BY <4>1, NumberFacts, SMT
        <5> QED  BY <1>2, <3>3, <4>1, <5>1
      <4>2. CASE i # k + 1
        BY <3>3, <4>2 DEF VecInv
      <4> QED  BY <4>1, <4>2
    <3> QED  BY <3>2, <3>5, <3>6, <3>7 DEF VecInv
  <2> QED  BY <1>1, <2>1, <2>2
<1> QED
  BY <1>3, <1>4

(* The value at a communicator is a live one, of its keyval, and there only. *)
ValueAt(v, k, c) ==
  /\ v <= values /\ deletions[v] = 0 /\ owner[v] = tuple[k].number
  /\ \A j \in Numbers, d \in Comms : tuple[j].attr[d] = v => j = k /\ d = c

LEMMA ValueIs ==
  ASSUME ValueInv
  PROVE  \A k \in Numbers, c \in Comms : Has(k, c) => ValueAt(tuple[k].attr[c], k, c)
BY SMT DEF ValueInv, ValueAt

(* An attribute is deleted.                                                *)
LEMMA Detached ==
  ASSUME KeyvalTypes, VecInv, ValueInv, NEW k \in Numbers, NEW c \in Comms, Has(k, c),
         RemoveIfUnused(Without(k, c), k),
         deletions' = [deletions EXCEPT ![tuple[k].attr[c]] = @ + 1],
         UNCHANGED <<values, owner>>
  PROVE  /\ tuple' \in [Numbers -> Tuples] /\ deletions' \in [1 .. MaxValues -> Nat]
         /\ vec' \in Seq(Int) /\ Len(vec') <= MaxKeyvals + Cardinality(PredefinedKeyvals)
         /\ VecInv' /\ ValueInv'
         /\ \A j \in Numbers, d \in Comms : Has(j, d)' <=> Has(j, d) /\ ~(j = k /\ d = c)
<1> DEFINE v0 == tuple[k].attr[c]
<1>1. PICK tp : tp = Without(k, c)
  OBVIOUS
<1>2. /\ tp \in [Numbers -> Tuples]
      /\ \A j \in Numbers :
           /\ tp[j].number = tuple[j].number /\ tp[j].freed = tuple[j].freed
           /\ \A d \in Comms : tp[j].attr[d] = IF j = k /\ d = c THEN 0 ELSE tuple[j].attr[d]
           /\ j # k => tp[j] = tuple[j]
  <2>1. 0 \in 0 .. MaxValues
    BY KeyvalConstants, SMT
  <2>3. tp = [tuple EXCEPT ![k].attr[c] = 0]
    BY <1>1 DEF Without
  <2>4. AttrSet(tp, k, c, 0)
    BY <2>1, <2>3, SetAttr
  <2> QED  BY <2>4 DEF AttrSet
<1>3. RemoveIfUnused(tp, k)
  BY <1>1
<1>4. /\ tuple' \in [Numbers -> Tuples]
      /\ \A j \in Numbers : j # k => tuple'[j] = tp[j]
      /\ \A d \in Comms : tuple'[k].attr[d] = tp[k].attr[d]
      /\ \/ /\ tuple'[k] = tp[k] /\ vec' = vec
            /\ tp[k].freed => \E d \in Comms : tp[k].attr[d] # 0
         \/ /\ tuple'[k] = NoTuple /\ vec' = [vec EXCEPT ![k + 1] = -1]
            /\ \A d \in Comms : tp[k].attr[d] = 0
  BY <1>2, <1>3, Removed
<1>5. ASSUME NEW j \in Numbers, NEW d \in Comms
      PROVE  tuple'[j].attr[d] = IF j = k /\ d = c THEN 0 ELSE tuple[j].attr[d]
  <2>1. tuple'[j].attr[d] = tp[j].attr[d]
    <3>1. CASE j = k
      BY <1>4, <3>1
    <3>2. CASE j # k
      BY <1>4, <3>2
    <3> QED  BY <3>1, <3>2
  <2> QED  BY <1>2, <2>1
<1>6. \A j \in Numbers, d \in Comms : Has(j, d)' <=> Has(j, d) /\ ~(j = k /\ d = c)
  BY <1>5 DEF Has
<1>7. ASSUME NEW j \in Numbers, NEW d \in Comms, Has(j, d)'
      PROVE  tuple'[j].number = tuple[j].number
  <2>1. CASE j = k
    <3>1. tp[k].attr[d] # 0
      BY <1>4, <1>7, <2>1 DEF Has
    <3> QED  BY <1>2, <1>4, <2>1, <3>1
  <2>2. CASE j # k
    BY <1>2, <1>4, <2>2
  <2> QED  BY <2>1, <2>2
<1>8. k \in Keyvals
  BY KeyvalNumber
<1>9. /\ vec' \in Seq(Int) /\ Len(vec') <= MaxKeyvals + Cardinality(PredefinedKeyvals)
      /\ VecInv'
  BY <1>2, <1>3, <1>8, RemovedInv
<1>11. v0 \in 1 .. MaxValues /\ v0 <= values /\ deletions[v0] = 0
       /\ \A j \in Numbers, d \in Comms : tuple[j].attr[d] = v0 => j = k /\ d = c
  <2>1. v0 \in 0 .. MaxValues /\ v0 # 0
    BY TupleTypes DEF Has
  <2>2. v0 \in 1 .. MaxValues
    BY <2>1, KeyvalConstants, SMT
  <2> QED  BY <2>2, ValueIs DEF ValueAt
<1>12. deletions' \in [1 .. MaxValues -> Nat] /\ deletions'[v0] = 1
       /\ \A v \in 1 .. MaxValues : v # v0 => deletions'[v] = deletions[v]
  <2>1. deletions \in [1 .. MaxValues -> Nat]
    BY DEF KeyvalTypes
  <2> QED  BY <1>11, <2>1, SMT
<1>13. ValueInv'
  <2>1. ASSUME NEW j \in Numbers, NEW d \in Comms, Has(j, d)'
        PROVE  LET v == tuple'[j].attr[d] IN
               /\ v <= values' /\ deletions'[v] = 0 /\ owner'[v] = tuple'[j].number
               /\ \A i \in Numbers, e \in Comms : tuple'[i].attr[e] = v => i = j /\ e = d
    <3>1. Has(j, d) /\ ~(j = k /\ d = c) /\ tuple'[j].attr[d] = tuple[j].attr[d]
      BY <1>5, <1>6, <2>1
    <3>2. tuple[j].attr[d] # v0
      BY <1>11, <3>1
    <3>3. tuple[j].attr[d] \in 1 .. MaxValues
      <4>1. tuple[j].attr[d] \in 0 .. MaxValues /\ tuple[j].attr[d] # 0
        BY <3>1, TupleTypes DEF Has
      <4> QED  BY <4>1, KeyvalConstants, SMT
    <3>4. deletions'[tuple[j].attr[d]] = 0
      <4>1. deletions[tuple[j].attr[d]] = 0
        BY <3>1, ValueIs DEF ValueAt
      <4> QED  BY <1>12, <3>2, <3>3, <4>1
    <3>5. owner'[tuple[j].attr[d]] = tuple'[j].number
      BY <1>7, <2>1, <3>1, ValueIs DEF ValueAt
    <3>6. ASSUME NEW i \in Numbers, NEW e \in Comms, tuple'[i].attr[e] = tuple[j].attr[d]
          PROVE  i = j /\ e = d
      <4>1. tuple'[i].attr[e] # 0
        BY <3>1, <3>6 DEF Has
      <4>2. tuple[i].attr[e] = tuple[j].attr[d]
        BY <1>5, <3>6, <4>1
      <4>3. \A m \in Numbers, f \in Comms : tuple[m].attr[f] = tuple[j].attr[d] => m = j /\ f = d
        BY <3>1, ValueIs DEF ValueAt
      <4> QED  BY <4>2, <4>3
    <3>7. tuple[j].attr[d] <= values'
      BY <3>1, ValueIs DEF ValueAt
    <3> QED  BY <3>1, <3>4, <3>5, <3>6, <3>7
  <2>2. ASSUME NEW v \in 1 .. values
        PROVE  deletions'[v] = 1 \/ \E j \in Numbers, d \in Comms : tuple'[j].attr[d] = v
    <3>1. CASE v = v0
      BY <1>12, <3>1
    <3>2. CASE v # v0
      <4>1. v \in 1 .. MaxValues
        <5>1. values \in 0 .. MaxValues
          BY DEF KeyvalTypes
        <5> QED  BY <5>1, KeyvalConstants, SMT
      <4>2. CASE deletions[v] = 1
        BY <1>12, <3>2, <4>1, <4>2
      <4>3. CASE \E j \in Numbers, d \in Comms : tuple[j].attr[d] = v
        <5>1. PICK j \in Numbers, d \in Comms : tuple[j].attr[d] = v
          BY <4>3
        <5>2. tuple'[j].attr[d] = IF j = k /\ d = c THEN 0 ELSE tuple[j].attr[d]
          BY <1>5
        <5>3. ~(j = k /\ d = c)
          BY <3>2, <5>1
        <5> QED  BY <5>1, <5>2, <5>3
      <4> QED  BY <4>2, <4>3 DEF ValueInv
    <3> QED  BY <3>1, <3>2
  <2>3. ASSUME NEW v \in values + 1 .. MaxValues  PROVE deletions'[v] = 0
    <3>1. v \in 1 .. MaxValues /\ v # v0
      <4>1. values \in 0 .. MaxValues
        BY DEF KeyvalTypes
      <4> QED  BY <1>11, <4>1, KeyvalConstants, SMT
    <3> QED  BY <1>12, <3>1 DEF ValueInv
  <2> QED  BY <2>1, <2>2, <2>3 DEF ValueInv, Has
<1> QED
  BY <1>4, <1>6, <1>9, <1>12, <1>13

(* A value is set; the one that it takes the place of was deleted.         *)
LEMMA Attaching ==
  ASSUME KeyvalTypes, VecInv, ValueInv, NEW k \in Numbers, NEW c \in Comms,
         k \in Keyvals, Attach(k, c), UNCHANGED vec,
         \A v \in 1 .. MaxValues : v # tuple[k].attr[c] => deletions'[v] = deletions[v],
         Has(k, c) => deletions'[tuple[k].attr[c]] = 1
  PROVE  /\ tuple' \in [Numbers -> Tuples] /\ values' \in 0 .. MaxValues
         /\ owner' \in [1 .. MaxValues -> Nat]
         /\ VecInv' /\ ValueInv'
         /\ \A j \in Numbers, d \in Comms : Has(j, d)' <=> Has(j, d) \/ (j = k /\ d = c)
<1> DEFINE v0 == values + 1
           old == tuple[k].attr[c]
<1>1. /\ values \in 0 .. MaxValues /\ v0 \in 1 .. MaxValues /\ v0 \in 0 .. MaxValues /\ v0 # 0
      /\ values' = v0 /\ ~(v0 <= values) /\ MaxValues \in Nat
      /\ \A v \in 0 .. values : v <= v0 /\ v # v0
      /\ \A v \in 1 .. v0 : v # v0 => v \in 1 .. values
      /\ \A v \in 1 .. values : v \in 1 .. MaxValues
      /\ \A v \in v0 + 1 .. MaxValues :
           v \in values + 1 .. MaxValues /\ v \in 1 .. MaxValues /\ ~(v <= values)
      /\ v0 \in values + 1 .. MaxValues
      /\ \A v \in 0 .. MaxValues : v <= values => v \in 0 .. values
  <2>1. values < MaxValues /\ values' = values + 1 /\ values \in 0 .. MaxValues
    BY DEF Attach, KeyvalTypes
  <2> QED  BY <2>1, KeyvalConstants, SMT
<1> HIDE DEF v0
<1>2. owner' = [owner EXCEPT ![v0] = tuple[k].number]
      /\ tuple' = [tuple EXCEPT ![k].attr[c] = v0]
  BY DEF Attach, v0
<1>3. AttrSet(tuple', k, c, v0)
  BY <1>1, <1>2, SetAttr
<1>4. /\ tuple' \in [Numbers -> Tuples]
      /\ \A j \in Numbers :
           /\ tuple'[j].number = tuple[j].number /\ tuple'[j].freed = tuple[j].freed
           /\ \A d \in Comms :
                tuple'[j].attr[d] = IF j = k /\ d = c THEN v0 ELSE tuple[j].attr[d]
           /\ j # k => tuple'[j] = tuple[j]
  BY <1>3 DEF AttrSet
<1>5. owner' \in [1 .. MaxValues -> Nat] /\ owner'[v0] = tuple[k].number
      /\ \A v \in 1 .. MaxValues : v # v0 => owner'[v] = owner[v]
  <2>1. owner \in [1 .. MaxValues -> Nat] /\ tuple[k].number \in Nat
    BY TupleTypes DEF KeyvalTypes
  <2> QED  BY <1>1, <1>2, <2>1
<1>6. \A j \in Numbers, d \in Comms : Has(j, d)' <=> Has(j, d) \/ (j = k /\ d = c)
  BY <1>1, <1>4 DEF Has
<1>7. VecInv'
  <2>1. ASSUME NEW j \in Numbers, tuple'[j].number = 0  PROVE tuple'[j] = NoTuple
    <3>1. j # k
      BY <1>4, <2>1, KeyvalNumber
    <3> QED  BY <1>4, <2>1, <3>1 DEF VecInv
  <2>2. ASSUME NEW j \in Numbers  PROVE j \in Keyvals' <=> j \in Keyvals
    <3>1. j \in Keyvals' <=> tuple'[j].number # 0
      BY <2>1, KeyvalNumberNext
    <3> QED  BY <1>4, <3>1, KeyvalNumber
  <2>3. ASSUME NEW j \in Numbers, tuple'[j].freed  PROVE \E d \in Comms : Has(j, d)'
    BY <1>4, <1>6, <2>3 DEF VecInv
  <2> QED  BY <2>1, <2>2, <2>3 DEF VecInv
<1>8. \A j \in Numbers, d \in Comms : tuple[j].attr[d] # v0 /\ tuple[j].attr[d] \in 0 .. values
  <2> SUFFICES ASSUME NEW j \in Numbers, NEW d \in Comms
               PROVE  tuple[j].attr[d] \in 0 .. values
    BY <1>1
  <2>1. tuple[j].attr[d] \in 0 .. MaxValues
    BY TupleTypes
  <2>2. CASE tuple[j].attr[d] = 0
    BY <1>1, <2>2, SMT
  <2>3. CASE tuple[j].attr[d] # 0
    BY <1>1, <2>1, <2>3, ValueIs DEF ValueAt, Has
  <2> QED  BY <2>2, <2>3
<1>9. ASSUME NEW j \in Numbers, NEW d \in Comms, Has(j, d), ~(j = k /\ d = c)
      PROVE  tuple[j].attr[d] # old
  <2>1. \A m \in Numbers, f \in Comms : tuple[m].attr[f] = tuple[j].attr[d] => m = j /\ f = d
    <3>1. ValueAt(tuple[j].attr[d], j, d)
      BY <1>9, ValueIs
    <3> QED  BY <3>1 DEF ValueAt
  <2> QED  BY <1>9, <2>1
<1>10. old \in 0 .. values /\ (old # 0 => deletions'[old] = 1)
  BY <1>8 DEF Has
<1>11. v0 # old
  BY <1>8
<1> HIDE DEF old
<1>12. ValueInv'
  <2>1. ASSUME NEW j \in Numbers, NEW d \in Comms, Has(j, d)'
        PROVE  LET v == tuple'[j].attr[d] IN
               /\ v <= values' /\ deletions'[v] = 0 /\ owner'[v] = tuple'[j].number
               /\ \A i \in Numbers, e \in Comms : tuple'[i].attr[e] = v => i = j /\ e = d
    <3>1. CASE j = k /\ d = c
      <4>1. tuple'[j].attr[d] = v0
        BY <1>4, <3>1
      <4>2. v0 <= values'
        BY <1>1, SMT
      <4>3. deletions'[v0] = 0
        <5>1. deletions[v0] = 0
          BY <1>1 DEF ValueInv
        <5> QED  BY <1>1, <1>11, <5>1 DEF old
      <4>4. owner'[v0] = tuple'[j].number
        BY <1>4, <1>5, <3>1
      <4>5. ASSUME NEW i \in Numbers, NEW e \in Comms, tuple'[i].attr[e] = v0
            PROVE  i = k /\ e = c
        <5>1. tuple'[i].attr[e] # tuple[i].attr[e]
          BY <1>8, <4>5
        <5> QED  BY <1>4, <5>1
      <4> QED  BY <3>1, <4>1, <4>2, <4>3, <4>4, <4>5
    <3>2. CASE ~(j = k /\ d = c)
      <4>1. tuple'[j].attr[d] = tuple[j].attr[d] /\ Has(j, d)
        BY <1>4, <1>6, <2>1, <3>2
      <4>2. tuple[j].attr[d] \in 1 .. MaxValues
        <5>1. tuple[j].attr[d] \in 0 .. MaxValues /\ tuple[j].attr[d] # 0
          BY <4>1, TupleTypes DEF Has
        <5> QED  BY <5>1, KeyvalConstants, SMT
      <4>3. tuple[j].attr[d] <= values'
        BY <1>1, <1>8
      <4>4. deletions'[tuple[j].attr[d]] = 0
        <5>1. deletions[tuple[j].attr[d]] = 0
          BY <4>1, ValueIs DEF ValueAt
        <5>2. tuple[j].attr[d] # old
          BY <1>9, <3>2, <4>1
        <5> QED  BY <4>2, <5>1, <5>2 DEF old
      <4>5. owner'[tuple[j].attr[d]] = tuple'[j].number
        <5>1. owner[tuple[j].attr[d]] = tuple[j].number
          BY <4>1, ValueIs DEF ValueAt
        <5> QED  BY <1>4, <1>5, <1>8, <4>2, <5>1
      <4>6. ASSUME NEW i \in Numbers, NEW e \in Comms, tuple'[i].attr[e] = tuple[j].attr[d]
            PROVE  i = j /\ e = d
        <5>1. tuple[i].attr[e] = tuple[j].attr[d]
          <6>1. tuple'[i].attr[e] = IF i = k /\ e = c THEN v0 ELSE tuple[i].attr[e]
            BY <1>4
          <6>2. tuple[j].attr[d] # v0
            BY <1>8
          <6> QED  BY <4>6, <6>1, <6>2
        <5>2. \A m \in Numbers, f \in Comms : tuple[m].attr[f] = tuple[j].attr[d] => m = j /\ f = d
          <6>1. ValueAt(tuple[j].attr[d], j, d)
            BY <4>1, ValueIs
          <6> QED  BY <6>1 DEF ValueAt
        <5> QED  BY <5>1, <5>2
      <4>7. tuple'[j].attr[d] = tuple[j].attr[d]
        BY <4>1
      <4>8. \A i \in Numbers, e \in Comms : tuple'[i].attr[e] = tuple[j].attr[d] => i = j /\ e = d
        BY <4>6
      <4> QED  BY <4>3, <4>4, <4>5, <4>7, <4>8, SMT
    <3> QED  BY <3>1, <3>2
  <2>2. ASSUME NEW v \in 1 .. values'
        PROVE  deletions'[v] = 1 \/ \E j \in Numbers, d \in Comms : tuple'[j].attr[d] = v
    <3>1. CASE v = v0
      BY <1>4, <3>1
    <3>2. CASE v # v0 /\ v # old
      <4>1. v \in 1 .. values /\ v \in 1 .. MaxValues
        BY <1>1, <3>2
      <4>2. CASE deletions[v] = 1
        BY <3>2, <4>1, <4>2 DEF old
      <4>3. ASSUME NEW j \in Numbers, NEW d \in Comms, tuple[j].attr[d] = v
            PROVE  tuple'[j].attr[d] = v
        <5>1. ~(j = k /\ d = c)
          BY <3>2, <4>3 DEF old
        <5> QED  BY <1>4, <4>3, <5>1
      <4>4. deletions[v] = 1 \/ \E j \in Numbers, d \in Comms : tuple[j].attr[d] = v
        BY <4>1 DEF ValueInv
      <4> QED  BY <4>2, <4>3, <4>4
    <3>3. CASE v = old
      <4>1. v # 0
        BY SMT
      <4> QED  BY <1>10, <3>3, <4>1
    <3> QED  BY <3>1, <3>2, <3>3
  <2>3. ASSUME NEW v \in values' + 1 .. MaxValues  PROVE deletions'[v] = 0
    <3>1. v # old /\ v \in 1 .. MaxValues /\ v \in values + 1 .. MaxValues
      BY <1>1, <1>10, SMT
    <3>2. deletions[v] = 0
      BY <3>1 DEF ValueInv
    <3> QED  BY <3>1, <3>2 DEF old
  <2> QED  BY <2>1, <2>2, <2>3 DEF ValueInv, Has
<1> QED
  BY <1>1, <1>4, <1>5, <1>6, <1>7, <1>12

-----------------------------------------------------------------------------
(* The operations under way.                                               *)

LEMMA FrameTypes ==
  ASSUME NEW f \in Frames
  PROVE  /\ f.op \in {"set", "delete", "free", "undo", "dup", "finalize"}
         /\ f.comm \in Comms /\ f.keyval \in Numbers /\ f.todo \subseteq Numbers
         /\ f.new \in Comms \cup {NoComm}
BY SMT DEF Frames

LEMMA FramesOfStack ==
  ASSUME NEW s \in Seq(Frames)
  PROVE  Range(s) \subseteq Frames
BY SMT DEF Range

IsFrame(f, op, c, k) ==
  f \in Frames /\ f.op = op /\ f.comm = c /\ f.keyval = k /\ f.new = NoComm

LEMMA NewFrame ==
  ASSUME NEW op \in {"set", "delete", "free", "undo", "dup", "finalize"},
         NEW c \in Comms, NEW k \in Numbers
  PROVE  IsFrame(Frame(op, c, k), op, c, k)
BY SMT DEF IsFrame, Frame, Frames

(* A frame that stays on the stack.                                        *)
LEMMA FrameKept ==
  ASSUME NEW f \in Frames, FrameInv(f), Has(f.keyval, f.comm)',
         f.comm \in alive' <=> f.comm \in alive,
         f.op = "dup" => /\ f.new \notin alive'
                         /\ \A k \in Numbers : Has(k, f.new)' => Has(k, f.new),
         f.op \in {"free", "undo"} => \A k \in Numbers : Has(k, f.comm)' => Has(k, f.comm),
         f.op = "finalize" => f.keyval \notin Range(selfKeyvals')
  PROVE  FrameInv(f)'
<1>1. \A k \in f.todo \cup {f.keyval} : k \in Numbers
  BY FrameTypes
<1>2. f.comm \in alive' <=> f.op # "undo"
  BY DEF FrameInv
<1>3. f.op = "dup" =>
        f.new \in Comms \ alive' /\ \A k \in f.todo \cup {f.keyval} : ~Has(k, f.new)'
  BY <1>1 DEF FrameInv
<1>4. f.op # "dup" => f.new = NoComm
  BY DEF FrameInv
<1>5. f.op \in {"free", "undo"} =>
        /\ f.comm # Self
        /\ \A k \in Numbers : Has(k, f.comm)' => k \in f.todo \cup {f.keyval}
  BY DEF FrameInv
<1>6. f.op = "finalize" => f.comm = Self /\ f.keyval \notin Range(selfKeyvals')
  BY DEF FrameInv
<1> QED
  BY <1>2, <1>3, <1>4, <1>5, <1>6 DEF FrameInv

(* Nothing happens to the attributes.                                      *)
LEMMA SameValues ==
  ASSUME ValueInv, UNCHANGED <<values, owner, deletions>>,
         \A j \in Numbers, d \in Comms : tuple'[j].attr[d] = tuple[j].attr[d],
         \A j \in Numbers, d \in Comms : Has(j, d) => tuple'[j].number = tuple[j].number
  PROVE  ValueInv'
<1>1. ASSUME NEW j \in Numbers, NEW d \in Comms, Has(j, d)'
      PROVE  LET v == tuple'[j].attr[d] IN
             /\ v <= values' /\ deletions'[v] = 0 /\ owner'[v] = tuple'[j].number
             /\ \A i \in Numbers, e \in Comms : tuple'[i].attr[e] = v => i = j /\ e = d
  <2>1. PICK v : v = tuple[j].attr[d]
    OBVIOUS
  <2>2. Has(j, d)
    BY <1>1 DEF Has
  <2>3. /\ v <= values /\ deletions[v] = 0 /\ owner[v] = tuple[j].number
        /\ \A i \in Numbers, e \in Comms : tuple[i].attr[e] = v => i = j /\ e = d
    <3>1. ValueAt(tuple[j].attr[d], j, d)
      BY <2>2, ValueIs
    <3>2. ValueAt(v, j, d)
      BY <2>1, <3>1
    <3> QED  BY <3>2 DEF ValueAt
  <2>4. \A i \in Numbers, e \in Comms : tuple'[i].attr[e] = v => i = j /\ e = d
    BY <2>3, SMT
  <2>5. v <= values' /\ deletions'[v] = 0
    BY <2>3
  <2>6. owner'[v] = tuple'[j].number
    BY <2>2, <2>3
  <2>7. tuple'[j].attr[d] = v
    BY <2>1
  <2> QED  BY <2>4, <2>5, <2>6, <2>7
<1>2. ASSUME NEW v \in 1 .. values'
      PROVE  deletions'[v] = 1 \/ \E j \in Numbers, d \in Comms : tuple'[j].attr[d] = v
  <2>1. deletions[v] = 1 \/ \E j \in Numbers, d \in Comms : tuple[j].attr[d] = v
    BY DEF ValueInv
  <2> QED  BY <2>1
<1>3. \A v \in values' + 1 .. MaxValues : deletions'[v] = 0
  BY DEF ValueInv
<1> QED
  BY <1>1, <1>2, <1>3 DEF ValueInv, Has

LEMMA SameTuples ==
  ASSUME VecInv, ValueInv, UNCHANGED <<vec, tuple, values, owner, deletions>>
  PROVE  VecInv' /\ ValueInv'
<1>1. VecInv'
  BY DEF VecInv, Keyvals, Has
<1>2. ValueInv'
  BY SameValues
<1> QED
  BY <1>1, <1>2

LEMMA SameAttributes ==
  ASSUME KeyvalTypes, SelfInv, CommInv, StackInv,
         \A k \in Numbers, c \in Comms : Has(k, c)' <=> Has(k, c),
         UNCHANGED <<selfKeyvals, alive, stack, failedDup>>
  PROVE  SelfInv' /\ CommInv' /\ StackInv'
<1>1. SelfInv'
  BY KeyvalConstants DEF SelfInv, Finalizing
<1>2. CommInv'
  BY DEF CommInv, InUse
<1>3. ASSUME NEW f \in Range(stack)  PROVE FrameInv(f)'
  <2>1. f \in Frames
    BY FramesOfStack DEF KeyvalTypes
  <2>2. f.comm \in Comms /\ f.keyval \in Numbers /\ f.new \in Comms \cup {NoComm}
    BY <2>1, FrameTypes
  <2>3. FrameInv(f)
    BY DEF StackInv
  <2>4. Has(f.keyval, f.comm)'
    BY <2>2, <2>3 DEF FrameInv
  <2>5. f.op = "dup" => f.new \notin alive' /\ \A k \in Numbers : Has(k, f.new)' => Has(k, f.new)
    BY <2>3 DEF FrameInv
  <2>6. f.op = "finalize" => f.keyval \notin Range(selfKeyvals')
    BY <2>3 DEF FrameInv
  <2> QED  BY <2>1, <2>2, <2>3, <2>4, <2>5, <2>6, FrameKept
<1> QED
  BY <1>1, <1>2, <1>3 DEF StackInv

-----------------------------------------------------------------------------
(* Keyvals are made and freed.                                             *)

LEMMA MinOf ==
  ASSUME NEW T, T \subseteq Nat, T # {}
  PROVE  Min(T) \in T
<1>1. \E m \in T : \A n \in T : m <= n
  BY Least
<1> QED
  BY <1>1 DEF Min

LEMMA MaxOfTwo ==
  ASSUME NEW m \in Nat, NEW n \in Nat
  PROVE  Max({m, n}) = IF m >= n THEN m ELSE n
<1> DEFINE IsMax(x) == x \in {m, n} /\ \A y \in {m, n} : x >= y
           top == IF m >= n THEN m ELSE n
<1>1. IsMax(top)
  BY SMT
<1>2. \A x : IsMax(x) => x = top
  BY SMT
<1>3. Max({m, n}) = CHOOSE x \in {m, n} : \A y \in {m, n} : x >= y
  BY DEF Max
<1>4. IsMax(Max({m, n}))
  BY <1>1, <1>3
<1> HIDE DEF IsMax, top
<1>5. Max({m, n}) = top
  BY <1>2, <1>4
<1> QED
  BY <1>5 DEF top

(* What MPI_Comm_create_keyval does: a number that is not in use.          *)
LEMMA CreateForm ==
  ASSUME KeyvalInv, MPI_Comm_create_keyval
  PROVE  \E k \in Numbers :
           /\ k \notin PredefinedKeyvals
           /\ k < Len(vec) => vec[k + 1] = -1
           /\ vec' = [i \in 1 .. Max({Len(vec), k + 1}) |->
                        IF i = k + 1 THEN k ELSE IF i <= Len(vec) THEN vec[i] ELSE -2]
           /\ tuple' = [tuple EXCEPT ![k] =
                        [number |-> created + 1, freed |-> FALSE, attr |-> NoTuple.attr]]
<1> DEFINE unused == {i \in DOMAIN vec : vec[i] = -1}
           new == {j \in Numbers : j >= Len(vec) /\ Allowed(j)}
           k == IF unused # {} THEN Min(unused) - 1 ELSE Min(new)
<1>1. /\ unused # {} \/ new # {}
      /\ vec' = [i \in 1 .. Max({Len(vec), k + 1}) |->
                    IF i = k + 1 THEN k ELSE IF i <= Len(vec) THEN vec[i] ELSE -2]
      /\ tuple' = [tuple EXCEPT ![k] =
                        [number |-> created + 1, freed |-> FALSE, attr |-> NoTuple.attr]]
  BY DEF MPI_Comm_create_keyval
<1>2. vec \in Seq(Int) /\ Len(vec) <= MaxKeyvals + Cardinality(PredefinedKeyvals)
  BY DEF KeyvalInv, KeyvalTypes
<1>3. CASE unused # {}
  <2>1. unused \subseteq Nat
    BY <1>2, SMT
  <2>2. Min(unused) \in unused
    <3> HIDE DEF unused
    <3> QED  BY <1>3, <2>1, MinOf
  <2>3. PICK i \in DOMAIN vec : vec[i] = -1 /\ k = i - 1
    BY <1>3, <2>2
  <2>4. i \in Nat /\ k \in Nat /\ k + 1 = i /\ k + 1 <= Len(vec) /\ Len(vec) \in Nat
    <3> HIDE DEF k
    <3> QED  BY <1>2, <2>3, SMT
  <2>5. k + 1 <= MaxKeyvals + Cardinality(PredefinedKeyvals)
    <3> HIDE DEF k
    <3> QED  BY <1>2, <2>4, NumberFacts, KeyvalConstants, SMT
  <2>6. k \in Numbers
    <3> HIDE DEF k
    <3> QED  BY <2>4, <2>5, NumberFacts
  <2>7. k \notin PredefinedKeyvals
    <3>1. -1 # -2
      BY SMT
    <3> HIDE DEF k
    <3> QED  BY <2>3, <3>1 DEF KeyvalInv, VecInv
  <2> HIDE DEF k
  <2> QED  BY <1>1, <2>3, <2>4, <2>6, <2>7
<1>4. CASE unused = {}
  <2>1. new \subseteq Nat /\ new # {}
    BY <1>1, <1>4, NumberFacts
  <2>2. Min(new) \in new
    <3> HIDE DEF new
    <3> QED  BY <2>1, MinOf
  <2>3. k \in Numbers /\ k >= Len(vec) /\ k \notin PredefinedKeyvals
    BY <1>4, <2>2 DEF Allowed
  <2>4. ~(k < Len(vec))
    <3> HIDE DEF k
    <3> QED  BY <1>2, <2>3, NumberFacts, SMT
  <2> HIDE DEF k
  <2> QED  BY <1>1, <2>3, <2>4
<1> QED
  BY <1>3, <1>4

LEMMA CreateInv ==
  ASSUME KeyvalInv, MPI_Comm_create_keyval
  PROVE  KeyvalInv'
<1>1. PICK k \in Numbers :
        /\ k \notin PredefinedKeyvals
        /\ k < Len(vec) => vec[k + 1] = -1
        /\ vec' = [i \in 1 .. Max({Len(vec), k + 1}) |->
                     IF i = k + 1 THEN k ELSE IF i <= Len(vec) THEN vec[i] ELSE -2]
        /\ tuple' = [tuple EXCEPT ![k] =
                        [number |-> created + 1, freed |-> FALSE, attr |-> NoTuple.attr]]
  BY CreateForm
<1>2. KeyvalTypes /\ VecInv /\ SelfInv /\ ValueInv /\ CommInv /\ StackInv
  BY DEF KeyvalInv
<1>3. created' = created + 1 /\ UNCHANGED <<selfKeyvals, alive, stack, values, owner, deletions, failedDup>>
  BY DEF MPI_Comm_create_keyval
<1>4. PICK new : new = [number |-> created + 1, freed |-> FALSE, attr |-> NoTuple.attr]
  OBVIOUS
<1>5. new \in Tuples /\ new.number # 0 /\ new.freed = FALSE /\ \A c \in Comms : new.attr[c] = 0
  <2>1. created \in Nat
    BY <1>2 DEF KeyvalTypes
  <2>2. new = [number |-> created + 1, freed |-> FALSE, attr |-> [c \in Comms |-> 0]]
    <3>1. NoTuple.attr = [c \in Comms |-> 0]
      BY SMT DEF NoTuple
    <3> QED  BY <1>4, <3>1
  <2>3. created + 1 \in Nat /\ created + 1 # 0 /\ 0 \in 0 .. MaxValues
    BY <2>1, KeyvalConstants, SMT
  <2>4. new \in Tuples
    BY <2>2, <2>3, SMT DEF Tuples
  <2> QED  BY <2>2, <2>3, <2>4, SMT
<1>6. tuple \in [Numbers -> Tuples]
  BY <1>2 DEF KeyvalTypes
<1>7. /\ tuple' \in [Numbers -> Tuples] /\ tuple'[k] = new
      /\ \A j \in Numbers : j # k => tuple'[j] = tuple[j]
  BY <1>1, <1>4, <1>5, <1>6
<1>8. k \in Nat /\ -1 # k /\ Len(vec) \in Nat /\ vec \in Seq(Int) /\ k + 1 \in Nat
  BY <1>2, NumberFacts, SMT DEF KeyvalTypes
<1>9. k \notin Keyvals
  BY <1>1, <1>2, <1>8 DEF VecInv
<1>10. tuple[k] = NoTuple
  BY <1>9 DEF Keyvals
<1>11. \A j \in Numbers, d \in Comms : tuple'[j].attr[d] = tuple[j].attr[d]
  BY <1>5, <1>7, <1>10, NoTupleFacts
<1>12. \A j \in Numbers, d \in Comms : Has(j, d)' <=> Has(j, d)
  BY <1>11 DEF Has
<1>13. SelfInv' /\ CommInv' /\ StackInv'
  BY <1>2, <1>3, <1>12, SameAttributes
<1>14. /\ vec' \in Seq(Int) /\ Len(vec') <= MaxKeyvals + Cardinality(PredefinedKeyvals)
       /\ DOMAIN vec' = 1 .. Len(vec') /\ k < Len(vec') /\ vec'[k + 1] = k
       /\ \A i \in DOMAIN vec' : i # k + 1 =>
            \/ i \in DOMAIN vec /\ vec'[i] = vec[i]
            \/ vec'[i] = -2
       /\ \A j \in Numbers : j # k /\ j < Len(vec) =>
            j < Len(vec') /\ vec'[j + 1] = vec[j + 1]
       /\ \A j \in Numbers : j # k /\ ~(j < Len(vec)) /\ j < Len(vec') => vec'[j + 1] = -2
  <2>1. PICK top : top = Max({Len(vec), k + 1})
    OBVIOUS
  <2>2. top = IF Len(vec) >= k + 1 THEN Len(vec) ELSE k + 1
    BY <1>8, <2>1, MaxOfTwo
  <2>3. vec' = [i \in 1 .. top |-> IF i = k + 1 THEN k ELSE IF i <= Len(vec) THEN vec[i] ELSE -2]
    BY <1>1, <2>1
  <2>4. k + 1 <= MaxKeyvals + Cardinality(PredefinedKeyvals) /\ Cardinality(PredefinedKeyvals) \in Nat
        /\ Len(vec) <= MaxKeyvals + Cardinality(PredefinedKeyvals) /\ MaxKeyvals \in Nat
    BY <1>2, NumberFacts, KeyvalConstants DEF KeyvalTypes
  <2>5. top \in Nat /\ top <= MaxKeyvals + Cardinality(PredefinedKeyvals) /\ k + 1 \in 1 .. top
        /\ Len(vec) <= top
    BY <1>8, <2>2, <2>4, SMT
  <2>6. vec' \in Seq(Int) /\ Len(vec') = top /\ DOMAIN vec' = 1 .. top
    BY <1>8, <2>3, <2>5, SMT
  <2>7. vec'[k + 1] = k /\ k < top
    BY <1>8, <2>3, <2>5, SMT
  <2>8. ASSUME NEW i \in DOMAIN vec', i # k + 1
        PROVE  (i \in DOMAIN vec /\ vec'[i] = vec[i]) \/ vec'[i] = -2
    BY <1>8, <2>3, <2>5, <2>6, <2>8, SMT
  <2>9. ASSUME NEW j \in Numbers, j # k
        PROVE  /\ j < Len(vec) => j < top /\ vec'[j + 1] = vec[j + 1]
               /\ ~(j < Len(vec)) /\ j < top => vec'[j + 1] = -2
    <3>1. j \in Nat /\ j + 1 # k + 1 /\ (j < top <=> j + 1 \in 1 .. top)
          /\ (j < Len(vec) <=> j + 1 <= Len(vec))
      BY <1>8, <2>5, <2>9, NumberFacts, SMT
    <3>2. j < Len(vec) => j < top
      BY <1>8, <2>5, <3>1, SMT
    <3> QED  BY <2>3, <3>1, <3>2
  <2> QED  BY <2>5, <2>6, <2>7, <2>8, <2>9
<1>15. VecInv'
  <2>1. ASSUME NEW j \in Numbers, tuple'[j].number = 0  PROVE tuple'[j] = NoTuple
    BY <1>2, <1>5, <1>7, <2>1 DEF VecInv
  <2>2. ASSUME NEW j \in Numbers  PROVE j \in Keyvals' <=> j < Len(vec') /\ vec'[j + 1] = j
    <3>1. CASE j = k
      BY <1>5, <1>7, <1>14, <3>1, NoTupleFacts DEF Keyvals
    <3>2. CASE j # k /\ j < Len(vec)
      BY <1>2, <1>7, <1>14, <3>2 DEF Keyvals, VecInv
    <3>3. CASE j # k /\ ~(j < Len(vec))
      <4>1. -2 # j
        BY NumberFacts, SMT
      <4> QED  BY <1>2, <1>7, <1>14, <3>3, <4>1 DEF Keyvals, VecInv
    <3> QED  BY <3>1, <3>2, <3>3
  <2>3. ASSUME NEW j \in Numbers, tuple'[j].freed  PROVE \E d \in Comms : Has(j, d)'
    <3>1. j # k
      BY <1>5, <1>7, <2>3
    <3> QED  BY <1>2, <1>7, <1>12, <2>3, <3>1 DEF VecInv
  <2>4. ASSUME NEW i \in DOMAIN vec'
        PROVE  vec'[i] \in {-1, -2, i - 1} /\ (vec'[i] # -2 => i - 1 \notin PredefinedKeyvals)
    <3>1. CASE i = k + 1
      <4>1. i - 1 = k
        BY <1>8, <3>1, SMT
      <4> QED  BY <1>1, <1>14, <3>1, <4>1
    <3>2. CASE i # k + 1
      BY <1>2, <1>14, <3>2 DEF VecInv
    <3> QED  BY <3>1, <3>2
  <2> QED  BY <2>1, <2>2, <2>3, <2>4 DEF VecInv
<1>16. ValueInv'
  <2>1. \A j \in Numbers, d \in Comms : Has(j, d) => tuple'[j].number = tuple[j].number
    BY <1>2, <1>7, <1>9, KeyvalNumber
  <2> QED  BY <1>2, <1>3, <1>11, <2>1, SameValues
<1>17. KeyvalTypes'
  <2>1. created' \in Nat
    BY <1>2, <1>3, SMT DEF KeyvalTypes
  <2> QED  BY <1>2, <1>3, <1>7, <1>14, <2>1 DEF KeyvalTypes
<1> QED
  BY <1>13, <1>15, <1>16, <1>17 DEF KeyvalInv

LEMMA FreeKeyvalInv ==
  ASSUME KeyvalInv, NEW k \in Numbers, MPI_Comm_free_keyval(k)
  PROVE  KeyvalInv'
<1>1. KeyvalTypes /\ VecInv /\ SelfInv /\ ValueInv /\ CommInv /\ StackInv
  BY DEF KeyvalInv
<1>2. UNCHANGED <<selfKeyvals, alive, stack, created, values, owner, deletions, failedDup>>
      /\ k \in Keyvals
  BY DEF MPI_Comm_free_keyval
<1>3. PICK tp : tp = [tuple EXCEPT ![k].freed = TRUE]
  OBVIOUS
<1>4. RemoveIfUnused(tp, k)
  BY <1>3 DEF MPI_Comm_free_keyval
<1>5. /\ tp \in [Numbers -> Tuples]
      /\ \A j \in Numbers :
           /\ tp[j].number = tuple[j].number
           /\ \A d \in Comms : tp[j].attr[d] = tuple[j].attr[d]
           /\ j # k => tp[j] = tuple[j]
  <2>1. tuple \in [Numbers -> Tuples]
    BY <1>1 DEF KeyvalTypes
  <2>2. PICK u : u = [tuple[k] EXCEPT !.freed = TRUE]
    OBVIOUS
  <2>3. tuple[k] \in Tuples
    BY <2>1
  <2>4. u.number = tuple[k].number /\ u.attr = tuple[k].attr /\ u \in Tuples
    BY <2>2, <2>3 DEF Tuples
  <2>5. tp = [tuple EXCEPT ![k] = u]
    BY <1>3, <2>2
  <2>6. tp \in [Numbers -> Tuples] /\ tp[k] = u /\ \A j \in Numbers : j # k => tp[j] = tuple[j]
    BY <2>1, <2>4, <2>5
  <2> QED  BY <2>4, <2>6
<1>6. vec' \in Seq(Int) /\ Len(vec') <= MaxKeyvals + Cardinality(PredefinedKeyvals) /\ VecInv'
  BY <1>1, <1>2, <1>4, <1>5, RemovedInv
<1>7. /\ tuple' \in [Numbers -> Tuples]
      /\ \A j \in Numbers : j # k => tuple'[j] = tp[j]
      /\ \A c \in Comms : tuple'[k].attr[c] = tp[k].attr[c]
      /\ tuple'[k] = tp[k] \/ \A c \in Comms : tp[k].attr[c] = 0
  BY <1>4, <1>5, Removed
<1>8. ASSUME NEW j \in Numbers, NEW d \in Comms  PROVE tuple'[j].attr[d] = tuple[j].attr[d]
  <2>1. tuple'[j].attr[d] = tp[j].attr[d]
    <3>1. CASE j = k
      BY <1>7, <3>1
    <3>2. CASE j # k
      BY <1>7, <3>2
    <3> QED  BY <3>1, <3>2
  <2> QED  BY <1>5, <2>1
<1>9. ASSUME NEW j \in Numbers, NEW d \in Comms, Has(j, d)
      PROVE  tuple'[j].number = tuple[j].number
  <2>1. tp[j].attr[d] # 0
    BY <1>5, <1>9 DEF Has
  <2>2. tuple'[j] = tp[j]
    BY <1>7, <2>1
  <2> QED  BY <1>5, <2>2
<1>10. \A j \in Numbers, d \in Comms : Has(j, d)' <=> Has(j, d)
  BY <1>8 DEF Has
<1>11. ValueInv'
  BY <1>1, <1>2, <1>8, <1>9, SameValues
<1>12. SelfInv' /\ CommInv' /\ StackInv'
  BY <1>1, <1>2, <1>10, SameAttributes
<1>13. KeyvalTypes'
  BY <1>1, <1>2, <1>6, <1>7 DEF KeyvalTypes
<1> QED
  BY <1>6, <1>11, <1>12, <1>13 DEF KeyvalInv

-----------------------------------------------------------------------------
(* Operations begin.                                                       *)

LEMMA StackNext ==
  ASSUME NEW rest \in Seq(Frames), Nested(rest), \A g \in Range(rest) : FrameInv(g)',
         NEW f \in Frames, FrameInv(f)', \A g \in Range(rest) : Apart(f, g),
         stack' = <<f>> \o rest
  PROVE  StackInv' /\ stack' \in Seq(Frames) /\ Range(stack') = {f} \cup Range(rest)
<1>1. Range(<<f>> \o rest) = {f} \cup Range(rest) /\ <<f>> \o rest \in Seq(Frames)
  BY Push
<1>2. Nested(<<f>> \o rest)
  BY NestedPush
<1>3. ASSUME NEW g \in Range(stack')  PROVE FrameInv(g)'
  BY <1>1
<1> QED
  BY <1>1, <1>2, <1>3 DEF StackInv

(* A frame on top, with nothing else changed.                              *)
LEMMA Pushed ==
  ASSUME KeyvalTypes, SelfInv, CommInv, StackInv,
         NEW f \in Frames, FrameInv(f), f.op # "finalize",
         \A g \in Range(stack) : Apart(f, g), stack' = <<f>> \o stack,
         UNCHANGED <<tuple, selfKeyvals, alive, failedDup>>
  PROVE  SelfInv' /\ CommInv' /\ StackInv' /\ stack' \in Seq(Frames)
<1>1. stack \in Seq(Frames)
  BY DEF KeyvalTypes
<1>2. ASSUME NEW g, FrameInv(g)  PROVE FrameInv(g)'
  BY <1>2 DEF FrameInv, Has
<1>3. Nested(stack) /\ \A g \in Range(stack) : FrameInv(g)
  BY DEF StackInv
<1>4. StackInv' /\ stack' \in Seq(Frames) /\ Range(stack') = {f} \cup Range(stack)
  BY <1>1, <1>2, <1>3, StackNext
<1>5. SelfInv'
  <2>1. \A k : Finalizing(k)' <=> Finalizing(k)
    BY <1>4 DEF Finalizing
  <2> QED  BY <2>1 DEF SelfInv, Has
<1>6. CommInv'
  <2>1. \A c : InUse(c) => InUse(c)'
    BY <1>4 DEF InUse
  <2> QED  BY <2>1 DEF CommInv, Has
<1> QED
  BY <1>4, <1>5, <1>6

LEMMA DeleteAttrInv ==
  ASSUME KeyvalInv, NEW k \in Numbers, NEW c \in Comms, MPI_Comm_delete_attr(k, c)
  PROVE  KeyvalInv'
<1>1. KeyvalTypes /\ VecInv /\ SelfInv /\ ValueInv /\ CommInv /\ StackInv
  BY DEF KeyvalInv
<1>2. /\ c \in alive /\ ~Busy(k, c) /\ Has(k, c) /\ stack' = <<Frame("delete", c, k)>> \o stack
      /\ UNCHANGED <<vec, tuple, selfKeyvals, alive, created, values, owner, deletions, failedDup>>
  BY DEF MPI_Comm_delete_attr
<1>3. PICK f : f = Frame("delete", c, k)
  OBVIOUS
<1>4. f \in Frames /\ f.op = "delete" /\ f.comm = c /\ f.keyval = k /\ f.new = NoComm
  <2>1. "delete" \in {"set", "delete", "free", "undo", "dup", "finalize"}
    OBVIOUS
  <2>2. IsFrame(f, "delete", c, k)
    BY <1>3, <2>1, NewFrame
  <2> QED  BY <2>2 DEF IsFrame
<1>5. FrameInv(f)
  BY <1>2, <1>4 DEF FrameInv
<1>6. ASSUME NEW g \in Range(stack)  PROVE Apart(f, g)
  <2>1. ~(g.keyval = k /\ g.comm = c)
    BY <1>2 DEF Busy
  <2>2. g.op = "dup" => g.new # c
    BY <1>1, <1>2 DEF StackInv, FrameInv
  <2> QED  BY <1>4, <2>1, <2>2, SMT DEF Apart
<1>7. SelfInv' /\ CommInv' /\ StackInv' /\ stack' \in Seq(Frames)
  BY <1>1, <1>2, <1>3, <1>4, <1>5, <1>6, Pushed
<1>8. KeyvalTypes' /\ VecInv' /\ ValueInv'
  <2>1. KeyvalTypes'
    BY <1>1, <1>2, <1>7 DEF KeyvalTypes
  <2> QED  BY <1>1, <1>2, <2>1, SameTuples
<1> QED
  BY <1>7, <1>8 DEF KeyvalInv

LEMMA SetAttrInv ==
  ASSUME KeyvalInv, NEW k \in Numbers, NEW c \in Comms, MPI_Comm_set_attr(k, c)
  PROVE  KeyvalInv'
<1>1. KeyvalTypes /\ VecInv /\ SelfInv /\ ValueInv /\ CommInv /\ StackInv
  BY DEF KeyvalInv
<1>2. /\ k \in Keyvals /\ c \in alive /\ ~Busy(k, c) /\ ~BeingFreed(c)
      /\ UNCHANGED <<vec, alive, created, deletions, failedDup>>
  BY DEF MPI_Comm_set_attr
<1>3. CASE Has(k, c)
  <2>1. stack' = <<Frame("set", c, k)>> \o stack /\ UNCHANGED <<tuple, selfKeyvals, values, owner>>
    BY <1>3 DEF MPI_Comm_set_attr
  <2>2. PICK f : f = Frame("set", c, k)
    OBVIOUS
  <2>3. f \in Frames /\ f.op = "set" /\ f.comm = c /\ f.keyval = k /\ f.new = NoComm
    <3>1. "set" \in {"set", "delete", "free", "undo", "dup", "finalize"}
      OBVIOUS
    <3>2. IsFrame(f, "set", c, k)
      BY <2>2, <3>1, NewFrame
    <3> QED  BY <3>2 DEF IsFrame
  <2>4. FrameInv(f)
    BY <1>2, <1>3, <2>3 DEF FrameInv
  <2>5. ASSUME NEW g \in Range(stack)  PROVE Apart(f, g)
    <3>1. ~(g.keyval = k /\ g.comm = c)
      BY <1>2 DEF Busy
    <3>2. g.op = "dup" => g.new # c
      BY <1>1, <1>2 DEF StackInv, FrameInv
    <3>3. g.op \in {"free", "undo"} => g.comm # c
      BY <1>2 DEF BeingFreed
    <3> QED  BY <2>3, <3>1, <3>2, <3>3, SMT DEF Apart
  <2>6. SelfInv' /\ CommInv' /\ StackInv' /\ stack' \in Seq(Frames)
    BY <1>1, <1>2, <2>1, <2>2, <2>3, <2>4, <2>5, Pushed
  <2>7. KeyvalTypes'
    BY <1>1, <1>2, <2>1, <2>6 DEF KeyvalTypes
  <2>8. VecInv' /\ ValueInv'
    BY <1>1, <1>2, <2>1, SameTuples
  <2> QED  BY <2>6, <2>7, <2>8 DEF KeyvalInv
<1>4. CASE ~Has(k, c)
  <2>1. /\ Attach(k, c) /\ UNCHANGED stack
        /\ selfKeyvals' = IF c = Self THEN Append(selfKeyvals, k) ELSE selfKeyvals
    BY <1>4 DEF MPI_Comm_set_attr
  <2>2. /\ tuple' \in [Numbers -> Tuples] /\ values' \in 0 .. MaxValues
        /\ owner' \in [1 .. MaxValues -> Nat]
        /\ VecInv' /\ ValueInv'
        /\ \A j \in Numbers, d \in Comms : Has(j, d)' <=> Has(j, d) \/ (j = k /\ d = c)
    BY <1>1, <1>2, <1>4, <2>1, Attaching
  <2>3. selfKeyvals \in Seq(Numbers) /\ IsInjective(selfKeyvals)
    BY <1>1 DEF KeyvalTypes, SelfInv
  <2>4. c = Self => k \notin Range(selfKeyvals)
    BY <1>1, <1>4 DEF SelfInv
  <2>5. /\ Append(selfKeyvals, k) \in Seq(Numbers)
        /\ Range(Append(selfKeyvals, k)) = {k} \cup Range(selfKeyvals)
        /\ k \notin Range(selfKeyvals) => IsInjective(Append(selfKeyvals, k))
    BY <2>3, AppendRange
  <2>6. /\ selfKeyvals' \in Seq(Numbers) /\ IsInjective(selfKeyvals')
        /\ Range(selfKeyvals') = IF c = Self THEN {k} \cup Range(selfKeyvals) ELSE Range(selfKeyvals)
    BY <2>1, <2>3, <2>4, <2>5
  <2>7. SelfInv'
    <3>1. \A j : Finalizing(j)' <=> Finalizing(j)
      BY <2>1 DEF Finalizing
    <3>2. ASSUME NEW j \in Numbers
          PROVE  Has(j, Self)' <=> j \in Range(selfKeyvals') \/ Finalizing(j)'
      <4>1. Has(j, Self) <=> j \in Range(selfKeyvals) \/ Finalizing(j)
        BY <1>1 DEF SelfInv
      <4>2. Has(j, Self)' <=> Has(j, Self) \/ (j = k /\ Self = c)
        BY <2>2, KeyvalConstants
      <4> QED  BY <2>6, <3>1, <4>1, <4>2
    <3> QED  BY <1>1, <1>2, <2>6, <3>2 DEF SelfInv
  <2>8. CommInv'
    <3>1. \A d : InUse(d)' <=> InUse(d)
      BY <2>1 DEF InUse
    <3>2. ASSUME NEW d \in Comms \ (alive' \cup failedDup'), ~InUse(d)', NEW j \in Numbers
          PROVE  ~Has(j, d)'
      <4>1. d # c /\ ~Has(j, d)
        BY <1>1, <1>2, <3>1, <3>2 DEF CommInv
      <4> QED  BY <2>2, <4>1
    <3> QED  BY <3>2 DEF CommInv
  <2>9. StackInv'
    <3>1. ASSUME NEW f \in Range(stack)  PROVE FrameInv(f)'
      <4>1. f \in Frames
        BY <1>1, FramesOfStack DEF KeyvalTypes
      <4>2. f.comm \in Comms /\ f.keyval \in Numbers
        BY <4>1, FrameTypes
      <4>3. FrameInv(f)
        BY <1>1 DEF StackInv
      <4>4. Has(f.keyval, f.comm)'
        BY <2>2, <4>2, <4>3 DEF FrameInv
      <4>5. f.op = "dup" => f.new \notin alive' /\ \A j \in Numbers : Has(j, f.new)' => Has(j, f.new)
        BY <1>2, <2>2, <4>3 DEF FrameInv
      <4>6. f.op \in {"free", "undo"} => \A j \in Numbers : Has(j, f.comm)' => Has(j, f.comm)
        BY <1>2, <2>2, <4>2 DEF BeingFreed
      <4>7. f.op = "finalize" => f.keyval \notin Range(selfKeyvals')
        BY <1>4, <2>6, <4>3 DEF FrameInv
      <4> QED  BY <1>2, <4>1, <4>3, <4>4, <4>5, <4>6, <4>7, FrameKept
    <3> QED  BY <1>1, <2>1, <3>1 DEF StackInv
  <2>10. KeyvalTypes'
    BY <1>1, <1>2, <2>1, <2>2, <2>6 DEF KeyvalTypes
  <2> QED  BY <2>2, <2>7, <2>8, <2>9, <2>10 DEF KeyvalInv
<1> QED
  BY <1>3, <1>4

(* A loop over keyvals, which goes on with one that the communicator still *)
(* has or ends.                                                            *)
Continues(g, tp, op, c, todo, n) ==
  /\ g \in Frames /\ g.op = op /\ g.comm = c /\ g.new = n
  /\ g.keyval \in todo /\ tp[g.keyval].attr[c] # 0 /\ g.todo \subseteq todo \ {g.keyval}
  /\ \A k \in todo : tp[k].attr[c] # 0 => k \in g.todo \cup {g.keyval}

GoesOn(tp, op, c, todo, n, rest) ==
  \/ \E g : Continues(g, tp, op, c, todo, n) /\ stack' = <<g>> \o rest /\ alive' = alive
  \/ /\ \A k \in todo : tp[k].attr[c] = 0
     /\ stack' = rest
     /\ alive' = IF op = "dup" THEN alive \cup {n} ELSE alive \ {c}

LEMMA GoOnForm ==
  ASSUME NEW tp, NEW op \in {"set", "delete", "free", "undo", "dup", "finalize"},
         NEW c \in Comms, NEW todo \in SUBSET Numbers, NEW n \in Comms \cup {NoComm},
         NEW rest, GoOn(tp, op, c, todo, n, rest)
  PROVE  GoesOn(tp, op, c, todo, n, rest)
<1> DEFINE left == {k \in todo : tp[k].attr[c] # 0}
<1>1. CASE left # {}
  <2>1. alive' = alive
    BY <1>1 DEF GoOn
  <2>2. PICK k \in left, skipped \in SUBSET (todo \ left) :
          stack' = <<[op |-> op, comm |-> c, keyval |-> k,
                      todo |-> todo \ ({k} \cup skipped), new |-> n]>> \o rest
    BY <1>1 DEF GoOn
  <2>3. PICK more : more = todo \ ({k} \cup skipped)
    OBVIOUS
  <2>4. PICK g : g = [op |-> op, comm |-> c, keyval |-> k, todo |-> more, new |-> n]
    OBVIOUS
  <2>5. k \in Numbers /\ more \in SUBSET Numbers
    BY <2>3
  <2>6. g \in Frames /\ g.op = op /\ g.comm = c /\ g.new = n /\ g.keyval = k /\ g.todo = more
    <3> HIDE DEF left
    <3> QED  BY <2>4, <2>5, SMT DEF Frames
  <2>7. Continues(g, tp, op, c, todo, n)
    BY <2>3, <2>6 DEF Continues
  <2> QED  BY <2>1, <2>2, <2>3, <2>4, <2>7 DEF GoesOn
<1>2. CASE left = {}
  BY <1>2 DEF GoOn, GoesOn
<1> QED
  BY <1>1, <1>2

(* The innermost operation, and those that it was called in.               *)
LEMMA TopFrame ==
  ASSUME KeyvalTypes, StackInv, stack # <<>>
  PROVE  /\ F \in Frames /\ FrameInv(F) /\ Rest \in Seq(Frames) /\ Nested(Rest)
         /\ Range(stack) = {F} \cup Range(Rest)
         /\ \A g \in Range(Rest) : g \in Frames /\ FrameInv(g) /\ Apart(F, g)
<1>1. stack \in Seq(Frames) /\ Nested(stack) /\ \A g \in Range(stack) : FrameInv(g)
  BY DEF KeyvalTypes, StackInv
<1>2. Rest \in Seq(Frames) /\ F \in Frames /\ Range(stack) = {F} \cup Range(Rest)
  BY <1>1, Pop DEF F, Rest
<1>3. Nested(Rest) /\ \A g \in Range(Rest) : Apart(F, g)
  BY <1>1, NestedPop DEF F, Rest
<1> QED
  BY <1>1, <1>2, <1>3, FramesOfStack

(* A communicator that no operation is at comes or goes.                   *)
LEMMA CommChanges ==
  ASSUME KeyvalTypes, SelfInv, CommInv, StackInv,
         NEW c \in Comms, c # Self, ~InUse(c), \A k \in Numbers : ~Has(k, c),
         alive' = alive \cup {c} \/ alive' = alive \ {c},
         UNCHANGED <<tuple, selfKeyvals, stack, failedDup>>
  PROVE  SelfInv' /\ CommInv' /\ StackInv' /\ alive' \subseteq Comms
<1>1. \A d : d # c => (d \in alive' <=> d \in alive)
  OBVIOUS
<1>2. SelfInv'
  BY <1>1 DEF SelfInv, Finalizing, Has
<1>3. CommInv'
  <2>1. \A d : InUse(d)' <=> InUse(d)
    BY DEF InUse
  <2>2. ASSUME NEW d \in Comms \ (alive' \cup failedDup'), ~InUse(d)', NEW k \in Numbers
        PROVE  ~Has(k, d)
    BY <1>1, <2>1, <2>2 DEF CommInv
  <2> QED  BY <2>2 DEF CommInv, Has
<1>4. ASSUME NEW f \in Range(stack)  PROVE FrameInv(f)'
  <2>1. f \in Frames /\ FrameInv(f)
    BY FramesOfStack DEF KeyvalTypes, StackInv
  <2>2. f.comm # c /\ f.new # c
    BY DEF InUse
  <2>3. f.comm \in alive' <=> f.comm \in alive
    BY <1>1, <2>2
  <2>4. f.op = "dup" => f.new \notin alive'
    BY <1>1, <2>1, <2>2 DEF FrameInv
  <2> QED  BY <2>1, <2>3, <2>4 DEF FrameInv, Has
<1>5. StackInv'
  BY <1>4 DEF StackInv
<1>6. alive' \subseteq Comms
  BY DEF KeyvalTypes
<1> QED
  BY <1>2, <1>3, <1>5, <1>6

LEMMA CommFreeInv ==
  ASSUME KeyvalInv, NEW c \in Comms, Comm_free(c)
  PROVE  KeyvalInv'
<1>1. KeyvalTypes /\ VecInv /\ SelfInv /\ ValueInv /\ CommInv /\ StackInv
  BY DEF KeyvalInv
<1>2. /\ c \in alive /\ c # Self /\ ~InUse(c)
      /\ GoOn(tuple, "free", c, KeyvalsOf(c), NoComm, stack)
      /\ UNCHANGED <<vec, tuple, selfKeyvals, created, values, owner, deletions, failedDup>>
  BY DEF Comm_free
<1>3. VecInv' /\ ValueInv'
  BY <1>1, <1>2, SameTuples
<1>4. \A k \in Numbers : k \in KeyvalsOf(c) <=> tuple[k].attr[c] # 0
  BY DEF KeyvalsOf, Has
<1>5. \/ \E g : /\ Continues(g, tuple, "free", c, KeyvalsOf(c), NoComm)
               /\ stack' = <<g>> \o stack /\ alive' = alive
      \/ (\A k \in KeyvalsOf(c) : tuple[k].attr[c] = 0) /\ stack' = stack /\ alive' = alive \ {c}
  <2>1. /\ "free" \in {"set", "delete", "free", "undo", "dup", "finalize"}
        /\ NoComm \in Comms \cup {NoComm} /\ KeyvalsOf(c) \in SUBSET Numbers /\ "free" # "dup"
    BY DEF KeyvalsOf
  <2>2. GoesOn(tuple, "free", c, KeyvalsOf(c), NoComm, stack)
    BY <1>2, <2>1, GoOnForm
  <2> QED  BY <2>1, <2>2 DEF GoesOn
<1>6. SelfInv' /\ CommInv' /\ StackInv' /\ stack' \in Seq(Frames) /\ alive' \subseteq Comms
  <2>1. ASSUME NEW g, Continues(g, tuple, "free", c, KeyvalsOf(c), NoComm),
               stack' = <<g>> \o stack, alive' = alive
        PROVE  SelfInv' /\ CommInv' /\ StackInv' /\ stack' \in Seq(Frames)
    <3>1. /\ g \in Frames /\ g.op = "free" /\ g.comm = c /\ g.new = NoComm /\ g.keyval \in Numbers
          /\ Has(g.keyval, c) /\ \A k \in Numbers : Has(k, c) => k \in g.todo \cup {g.keyval}
      BY <1>4, <2>1, FrameTypes DEF Continues, Has
    <3>2. FrameInv(g)
      BY <1>2, <3>1 DEF FrameInv
    <3>3. ASSUME NEW h \in Range(stack)  PROVE Apart(g, h)
      <4>1. h.comm # c /\ h.new # c
        BY <1>2 DEF InUse
      <4> QED  BY <3>1, <4>1, SMT DEF Apart
    <3>4. g.op # "finalize"
      BY <3>1
    <3> QED  BY <1>1, <1>2, <2>1, <3>1, <3>2, <3>3, <3>4, Pushed
  <2>2. ASSUME \A k \in KeyvalsOf(c) : tuple[k].attr[c] = 0, stack' = stack, alive' = alive \ {c}
        PROVE  SelfInv' /\ CommInv' /\ StackInv' /\ alive' \subseteq Comms
    <3>1. \A k \in Numbers : ~Has(k, c)
      BY <1>4, <2>2 DEF Has
    <3> QED  BY <1>1, <1>2, <2>2, <3>1, CommChanges
  <2> QED  BY <1>1, <1>5, <2>1, <2>2 DEF KeyvalTypes
<1>7. KeyvalTypes'
  BY <1>1, <1>2, <1>6 DEF KeyvalTypes
<1> QED
  BY <1>3, <1>6, <1>7 DEF KeyvalInv

LEMMA DupInv ==
  ASSUME KeyvalInv, NEW c \in Comms, NEW n \in Comms, copy_comm_attributes(c, n)
  PROVE  KeyvalInv'
<1>1. KeyvalTypes /\ VecInv /\ SelfInv /\ ValueInv /\ CommInv /\ StackInv
  BY DEF KeyvalInv
<1>2. /\ c \in alive /\ ~BeingFreed(c) /\ n \notin alive \cup failedDup /\ ~InUse(n)
      /\ GoOn(tuple, "dup", c, KeyvalsOf(c), n, stack)
      /\ UNCHANGED <<vec, tuple, selfKeyvals, created, values, owner, deletions, failedDup>>
  BY DEF copy_comm_attributes
<1>3. VecInv' /\ ValueInv'
  BY <1>1, <1>2, SameTuples
<1>4. n # Self /\ \A k \in Numbers : ~Has(k, n)
  BY <1>1, <1>2 DEF CommInv, SelfInv
<1>5. \/ \E g : /\ Continues(g, tuple, "dup", c, KeyvalsOf(c), n)
               /\ stack' = <<g>> \o stack /\ alive' = alive
      \/ stack' = stack /\ alive' = alive \cup {n}
  <2>1. /\ "dup" \in {"set", "delete", "free", "undo", "dup", "finalize"}
        /\ n \in Comms \cup {NoComm} /\ KeyvalsOf(c) \in SUBSET Numbers
    BY DEF KeyvalsOf
  <2>2. GoesOn(tuple, "dup", c, KeyvalsOf(c), n, stack)
    BY <1>2, <2>1, GoOnForm
  <2> QED  BY <2>2 DEF GoesOn
<1>6. SelfInv' /\ CommInv' /\ StackInv' /\ stack' \in Seq(Frames) /\ alive' \subseteq Comms
  <2>1. ASSUME NEW g, Continues(g, tuple, "dup", c, KeyvalsOf(c), n),
               stack' = <<g>> \o stack, alive' = alive
        PROVE  SelfInv' /\ CommInv' /\ StackInv' /\ stack' \in Seq(Frames)
    <3>1. /\ g \in Frames /\ g.op = "dup" /\ g.comm = c /\ g.new = n
          /\ g.keyval \in Numbers /\ g.todo \subseteq Numbers \ {g.keyval} /\ Has(g.keyval, c)
      BY <2>1, FrameTypes DEF Continues, Has
    <3>2. FrameInv(g)
      BY <1>2, <1>4, <3>1 DEF FrameInv
    <3>3. ASSUME NEW h \in Range(stack)  PROVE Apart(g, h)
      <4>1. h.comm # n /\ h.new # n
        BY <1>2 DEF InUse
      <4>2. h.op \in {"free", "undo"} => h.comm # c
        BY <1>2 DEF BeingFreed
      <4>3. h.op = "dup" => h.new # c
        BY <1>1, <1>2 DEF StackInv, FrameInv
      <4> QED  BY <3>1, <4>1, <4>2, <4>3, SMT DEF Apart
    <3>4. g.op # "finalize"
      BY <3>1
    <3> QED  BY <1>1, <1>2, <2>1, <3>1, <3>2, <3>3, <3>4, Pushed
  <2>2. ASSUME stack' = stack, alive' = alive \cup {n}
        PROVE  SelfInv' /\ CommInv' /\ StackInv' /\ alive' \subseteq Comms
    BY <1>1, <1>2, <1>4, <2>2, CommChanges
  <2> QED  BY <1>1, <1>5, <2>1, <2>2 DEF KeyvalTypes
<1>7. KeyvalTypes'
  BY <1>1, <1>2, <1>6 DEF KeyvalTypes
<1> QED
  BY <1>3, <1>6, <1>7 DEF KeyvalInv

-----------------------------------------------------------------------------
(* A callback returns, and the innermost operation goes on or ends.        *)

(* What the others need of it.                                             *)
LEMMA RestFrames ==
  ASSUME KeyvalTypes, StackInv, stack # <<>>,
         \A k \in Numbers, c \in Comms : Has(k, c)' => Has(k, c) \/ c = F.new,
         \A k \in Numbers, c \in Comms : Has(k, c) /\ ~Has(k, c)' =>
           F.op # "dup" /\ k = F.keyval /\ c = F.comm,
         \A c \in Comms : (c \in alive' <=> c \in alive) \/ (F.op \in {"free", "undo"} /\ c = F.comm)
                                                       \/ (F.op = "dup" /\ c = F.new),
         Range(selfKeyvals') \subseteq Range(selfKeyvals)
  PROVE  \A g \in Range(Rest) : FrameInv(g)'
<1>1. /\ F \in Frames /\ FrameInv(F)
      /\ \A g \in Range(Rest) : g \in Frames /\ FrameInv(g) /\ Apart(F, g)
  BY TopFrame
<1>2. PICK f : f = F
  OBVIOUS
<1>3. f \in Frames /\ (f.op # "dup" => f.new \notin Comms)
  BY <1>1, <1>2, KeyvalConstants DEF FrameInv
<1> SUFFICES ASSUME NEW g \in Range(Rest)  PROVE FrameInv(g)'
  OBVIOUS
<1>4. g \in Frames /\ FrameInv(g) /\ Apart(f, g)
  BY <1>1, <1>2
<1>5. g.comm \in Comms /\ g.keyval \in Numbers
  BY <1>4, FrameTypes
<1>6. /\ f.op # "dup" => ~(f.keyval = g.keyval /\ f.comm = g.comm)
      /\ f.op \in {"free", "undo"} => f.comm # g.comm /\ f.comm # g.new
      /\ f.op = "dup" => f.new # g.comm /\ f.new # g.new
  BY <1>4 DEF Apart
<1>7. Has(g.keyval, g.comm)'
  <2>1. Has(g.keyval, g.comm)
    BY <1>4 DEF FrameInv
  <2> QED  BY <1>2, <1>5, <1>6, <2>1
<1>8. g.comm \in alive' <=> g.comm \in alive
  BY <1>2, <1>5, <1>6
<1>9. g.op = "dup" => g.new \in Comms /\ g.new \notin alive'
  BY <1>2, <1>4, <1>6 DEF FrameInv
<1>10. ASSUME NEW c \in Comms, c = g.comm \/ c = g.new, NEW k \in Numbers, Has(k, c)'
       PROVE  Has(k, c)
  BY <1>2, <1>3, <1>6, <1>10
<1>11. g.op = "finalize" => g.keyval \notin Range(selfKeyvals')
  BY <1>4 DEF FrameInv
<1> QED
  BY <1>4, <1>5, <1>7, <1>8, <1>9, <1>10, <1>11, FrameKept

LEMMA FinalizingSame ==
  ASSUME KeyvalTypes, StackInv, stack # <<>>, F.op # "finalize",
         \A f \in Range(Rest) : f \in Range(stack'),
         \A f \in Range(stack') : f \in Range(Rest) \/ f.op # "finalize"
  PROVE  \A k : Finalizing(k)' <=> Finalizing(k)
<1>1. Range(stack) = {F} \cup Range(Rest)
  BY TopFrame
<1>2. ASSUME NEW k, Finalizing(k)  PROVE Finalizing(k)'
  <2>1. PICK f \in Range(stack) : f.op = "finalize" /\ f.keyval = k
    BY <1>2 DEF Finalizing
  <2>2. f \in Range(Rest)
    BY <1>1, <2>1
  <2> QED  BY <2>1, <2>2 DEF Finalizing
<1>3. ASSUME NEW k, Finalizing(k)'  PROVE Finalizing(k)
  <2>1. PICK f \in Range(stack') : f.op = "finalize" /\ f.keyval = k
    BY <1>3 DEF Finalizing
  <2>2. f \in Range(stack)
    BY <1>1, <2>1
  <2> QED  BY <2>1, <2>2 DEF Finalizing
<1> QED
  BY <1>2, <1>3

LEMMA CommRest ==
  ASSUME KeyvalTypes, CommInv, StackInv, stack # <<>>, NEW f, f = F,
         \A g \in Range(Rest) : g \in Range(stack'),
         \A k \in Numbers, c \in Comms : Has(k, c)' => Has(k, c) \/ c = f.new,
         \A c \in Comms : c \in alive \cup failedDup /\ c # f.comm => c \in alive' \cup failedDup',
         \/ f.comm \in alive' \cup failedDup' \/ InUse(f.comm)'
         \/ \A k \in Numbers : ~Has(k, f.comm)',
         \/ f.op # "dup" \/ f.new \in alive' \cup failedDup' \/ InUse(f.new)'
         \/ \A k \in Numbers : ~Has(k, f.new)'
  PROVE  CommInv'
<1>1. /\ F \in Frames /\ FrameInv(F) /\ Range(stack) = {F} \cup Range(Rest)
  BY TopFrame
<1> SUFFICES ASSUME NEW c \in Comms, c \notin alive' \cup failedDup', ~InUse(c)', NEW k \in Numbers
             PROVE  ~Has(k, c)'
  BY DEF CommInv
<1>2. CASE c = f.comm
  BY <1>2
<1>3. CASE c = f.new
  <2>1. f.op = "dup"
    BY <1>1, <1>3, KeyvalConstants DEF FrameInv
  <2> QED  BY <1>3, <2>1
<1>4. CASE c # f.comm /\ c # f.new
  <2>1. ~InUse(c)
    BY <1>1, <1>4 DEF InUse
  <2>2. ~Has(k, c)
    BY <1>4, <2>1 DEF CommInv
  <2> QED  BY <1>4, <2>2
<1> QED
  BY <1>2, <1>3, <1>4

LEMMA SetReturnsInv ==
  ASSUME KeyvalInv, SetReturns
  PROVE  KeyvalInv'
<1>1. KeyvalTypes /\ VecInv /\ SelfInv /\ ValueInv /\ CommInv /\ StackInv
  BY DEF KeyvalInv
<1>2. PICK f : f = F
  OBVIOUS
<1>3. /\ stack # <<>> /\ f.op = "set" /\ Attach(f.keyval, f.comm) /\ stack' = Rest
      /\ deletions' = [deletions EXCEPT ![tuple[f.keyval].attr[f.comm]] = @ + 1]
      /\ UNCHANGED <<vec, selfKeyvals, alive, created, failedDup>>
  BY <1>2 DEF SetReturns, CountDeletion
<1>4. /\ f \in Frames /\ FrameInv(f) /\ Rest \in Seq(Frames) /\ Nested(Rest)
      /\ Range(stack) = {f} \cup Range(Rest)
  BY <1>1, <1>2, <1>3, TopFrame
<1>5. f.keyval \in Numbers /\ f.comm \in Comms /\ Has(f.keyval, f.comm) /\ f.comm \in alive
  BY <1>3, <1>4, FrameTypes DEF FrameInv
<1>6. f.keyval \in Keyvals
  BY <1>1, <1>5, KeyvalNumber
<1>7. /\ deletions' \in [1 .. MaxValues -> Nat] /\ deletions'[tuple[f.keyval].attr[f.comm]] = 1
      /\ \A v \in 1 .. MaxValues :
           v # tuple[f.keyval].attr[f.comm] => deletions'[v] = deletions[v]
  <2>1. PICK v0 : v0 = tuple[f.keyval].attr[f.comm]
    OBVIOUS
  <2>2. v0 \in 0 .. MaxValues /\ v0 # 0
    BY <1>1, <1>5, <2>1, TupleTypes DEF Has
  <2>3. v0 \in 1 .. MaxValues
    BY <2>2, KeyvalConstants, SMT
  <2>4. deletions[v0] = 0
    BY <1>1, <1>5, <2>1, ValueIs DEF ValueAt
  <2>5. deletions \in [1 .. MaxValues -> Nat]
    BY <1>1 DEF KeyvalTypes
  <2>6. deletions' = [deletions EXCEPT ![v0] = @ + 1]
    BY <1>3, <2>1
  <2>7. /\ deletions' \in [1 .. MaxValues -> Nat] /\ deletions'[v0] = 1
        /\ \A v \in 1 .. MaxValues : v # v0 => deletions'[v] = deletions[v]
    BY <2>3, <2>4, <2>5, <2>6, SMT
  <2> QED  BY <2>1, <2>7
<1>8. /\ tuple' \in [Numbers -> Tuples] /\ values' \in 0 .. MaxValues
      /\ owner' \in [1 .. MaxValues -> Nat]
      /\ VecInv' /\ ValueInv'
      /\ \A j \in Numbers, d \in Comms : Has(j, d)' <=> Has(j, d) \/ (j = f.keyval /\ d = f.comm)
  BY <1>1, <1>3, <1>5, <1>6, <1>7, Attaching
<1>9. \A j \in Numbers, d \in Comms : Has(j, d)' <=> Has(j, d)
  BY <1>5, <1>8
<1>10. \A g \in Range(Rest) : FrameInv(g)'
  BY <1>1, <1>3, <1>9, RestFrames
<1>11. StackInv'
  BY <1>3, <1>4, <1>10 DEF StackInv
<1>12. SelfInv'
  <2>1. F.op # "finalize"
    BY <1>2, <1>3
  <2>2. \A k : Finalizing(k)' <=> Finalizing(k)
    BY <1>1, <1>3, <2>1, FinalizingSame
  <2> QED  BY <1>1, <1>3, <1>9, <2>2, KeyvalConstants DEF SelfInv
<1>13. CommInv'
  BY <1>1, <1>2, <1>3, <1>5, <1>9, CommRest
<1>14. KeyvalTypes'
  BY <1>1, <1>3, <1>4, <1>7, <1>8 DEF KeyvalTypes
<1> QED
  BY <1>8, <1>11, <1>12, <1>13, <1>14 DEF KeyvalInv

LEMMA DeleteReturnsInv ==
  ASSUME KeyvalInv, DeleteReturns
  PROVE  KeyvalInv'
<1>1. KeyvalTypes /\ VecInv /\ SelfInv /\ ValueInv /\ CommInv /\ StackInv
  BY DEF KeyvalInv
<1>2. PICK f : f = F
  OBVIOUS
<1>3. /\ stack # <<>> /\ f.op = "delete" /\ RemoveIfUnused(Without(f.keyval, f.comm), f.keyval)
      /\ selfKeyvals' = IF f.comm = Self THEN WithoutKeyval(selfKeyvals, f.keyval) ELSE selfKeyvals
      /\ stack' = Rest
      /\ deletions' = [deletions EXCEPT ![tuple[f.keyval].attr[f.comm]] = @ + 1]
      /\ UNCHANGED <<alive, created, values, owner, failedDup>>
  BY <1>2 DEF DeleteReturns, CountDeletion
<1>4. /\ f \in Frames /\ FrameInv(f) /\ Rest \in Seq(Frames) /\ Nested(Rest)
      /\ Range(stack) = {f} \cup Range(Rest)
      /\ \A g \in Range(Rest) : g \in Frames /\ FrameInv(g) /\ Apart(f, g)
  BY <1>1, <1>2, <1>3, TopFrame
<1>5. f.keyval \in Numbers /\ f.comm \in Comms /\ Has(f.keyval, f.comm) /\ f.comm \in alive
  BY <1>3, <1>4, FrameTypes DEF FrameInv
<1>6. /\ tuple' \in [Numbers -> Tuples] /\ deletions' \in [1 .. MaxValues -> Nat]
      /\ vec' \in Seq(Int) /\ Len(vec') <= MaxKeyvals + Cardinality(PredefinedKeyvals)
      /\ VecInv' /\ ValueInv'
      /\ \A j \in Numbers, d \in Comms :
           Has(j, d)' <=> Has(j, d) /\ ~(j = f.keyval /\ d = f.comm)
  BY <1>1, <1>3, <1>5, Detached
<1>7. /\ selfKeyvals' \in Seq(Numbers) /\ IsInjective(selfKeyvals')
      /\ Range(selfKeyvals') =
           IF f.comm = Self THEN Range(selfKeyvals) \ {f.keyval} ELSE Range(selfKeyvals)
  <2>1. selfKeyvals \in Seq(Numbers) /\ IsInjective(selfKeyvals)
    BY <1>1 DEF KeyvalTypes, SelfInv
  <2>2. /\ WithoutKeyval(selfKeyvals, f.keyval) \in Seq(Numbers)
        /\ Range(WithoutKeyval(selfKeyvals, f.keyval)) = Range(selfKeyvals) \ {f.keyval}
        /\ IsInjective(WithoutKeyval(selfKeyvals, f.keyval))
    BY <2>1, WithoutKeyvalRange
  <2> QED  BY <1>3, <2>1, <2>2
<1>8. \A g \in Range(Rest) : FrameInv(g)'
  <2>1. F.op # "dup"
    BY <1>2, <1>3
  <2>2. Range(selfKeyvals') \subseteq Range(selfKeyvals)
    BY <1>7
  <2> QED  BY <1>1, <1>2, <1>3, <1>6, <2>1, <2>2, RestFrames
<1>9. StackInv'
  BY <1>3, <1>4, <1>8 DEF StackInv
<1>10. SelfInv'
  <2>1. F.op # "finalize"
    BY <1>2, <1>3
  <2>2. \A k : Finalizing(k)' <=> Finalizing(k)
    BY <1>1, <1>3, <2>1, FinalizingSame
  <2>3. f.comm = Self => ~Finalizing(f.keyval)
    <3>1. ASSUME NEW g \in Range(stack), g.op = "finalize", g.keyval = f.keyval, f.comm = Self
          PROVE  FALSE
      <4>1. g \in Range(Rest)
        BY <1>3, <1>4, <3>1
      <4>2. g.comm = Self
        BY <1>4, <3>1, <4>1 DEF FrameInv
      <4> QED  BY <1>3, <1>4, <3>1, <4>1, <4>2 DEF Apart
    <3> QED  BY <3>1 DEF Finalizing
  <2>4. ASSUME NEW j \in Numbers
        PROVE  Has(j, Self)' <=> j \in Range(selfKeyvals') \/ Finalizing(j)'
    <3>1. Has(j, Self)' <=> Has(j, Self) /\ ~(j = f.keyval /\ Self = f.comm)
      BY <1>6, KeyvalConstants
    <3>2. Has(j, Self) <=> j \in Range(selfKeyvals) \/ Finalizing(j)
      BY <1>1 DEF SelfInv
    <3>3. CASE f.comm = Self
      BY <1>7, <2>2, <2>3, <3>1, <3>2, <3>3
    <3>4. CASE f.comm # Self
      BY <1>7, <2>2, <3>1, <3>2, <3>4
    <3> QED  BY <3>3, <3>4
  <2> QED  BY <1>1, <1>3, <1>7, <2>4 DEF SelfInv
<1>11. CommInv'
  BY <1>1, <1>2, <1>3, <1>5, <1>6, CommRest
<1>12. KeyvalTypes'
  BY <1>1, <1>3, <1>4, <1>6, <1>7 DEF KeyvalTypes
<1> QED
  BY <1>6, <1>9, <1>10, <1>11, <1>12 DEF KeyvalInv

(* MPI_Comm_free goes on to the next attribute, or frees.                  *)
LEMMA FreeReturnsInv ==
  ASSUME KeyvalInv, FreeReturns
  PROVE  KeyvalInv'
<1>1. KeyvalTypes /\ VecInv /\ SelfInv /\ ValueInv /\ CommInv /\ StackInv
  BY DEF KeyvalInv
<1>2. PICK f : f = F
  OBVIOUS
<1>3. /\ stack # <<>> /\ f.op \in {"free", "undo"}
      /\ RemoveIfUnused(Without(f.keyval, f.comm), f.keyval)
      /\ GoOn(Without(f.keyval, f.comm), f.op, f.comm, f.todo, NoComm, Rest)
      /\ deletions' = [deletions EXCEPT ![tuple[f.keyval].attr[f.comm]] = @ + 1]
      /\ UNCHANGED <<selfKeyvals, created, values, owner, failedDup>>
  BY <1>2 DEF FreeReturns, CountDeletion
<1>4. /\ f \in Frames /\ FrameInv(f) /\ Rest \in Seq(Frames) /\ Nested(Rest)
      /\ Range(stack) = {f} \cup Range(Rest)
      /\ \A g \in Range(Rest) : g \in Frames /\ FrameInv(g) /\ Apart(f, g)
  BY <1>1, <1>2, <1>3, TopFrame
<1>5. /\ f.keyval \in Numbers /\ f.comm \in Comms /\ f.todo \in SUBSET Numbers
      /\ f.op \in {"set", "delete", "free", "undo", "dup", "finalize"} /\ f.op # "dup"
      /\ NoComm \in Comms \cup {NoComm}
  BY <1>3, <1>4, FrameTypes
<1>6. /\ Has(f.keyval, f.comm) /\ f.comm # Self /\ (f.comm \in alive <=> f.op # "undo")
      /\ \A k \in Numbers : Has(k, f.comm) => k \in f.todo \cup {f.keyval}
  BY <1>3, <1>4 DEF FrameInv
<1>7. /\ tuple' \in [Numbers -> Tuples] /\ deletions' \in [1 .. MaxValues -> Nat]
      /\ vec' \in Seq(Int) /\ Len(vec') <= MaxKeyvals + Cardinality(PredefinedKeyvals)
      /\ VecInv' /\ ValueInv'
      /\ \A j \in Numbers, d \in Comms :
           Has(j, d)' <=> Has(j, d) /\ ~(j = f.keyval /\ d = f.comm)
  BY <1>1, <1>3, <1>5, <1>6, Detached
<1>8. PICK tp : tp = Without(f.keyval, f.comm)
  OBVIOUS
<1>9. \A j \in Numbers : tp[j].attr[f.comm] # 0 <=> Has(j, f.comm)'
  <2>1. 0 \in 0 .. MaxValues
    BY KeyvalConstants, SMT
  <2>2. AttrSet(tp, f.keyval, f.comm, 0)
    BY <1>1, <1>5, <1>8, <2>1, SetAttr DEF Without
  <2>3. ASSUME NEW j \in Numbers
        PROVE  tp[j].attr[f.comm] # 0 <=> Has(j, f.comm) /\ j # f.keyval
    BY <1>5, <2>2 DEF AttrSet, Has
  <2> QED  BY <1>5, <1>7, <2>3
<1>10. \/ \E g : /\ Continues(g, tp, f.op, f.comm, f.todo, NoComm)
                /\ stack' = <<g>> \o Rest /\ alive' = alive
       \/ /\ \A k \in f.todo : tp[k].attr[f.comm] = 0
          /\ stack' = Rest /\ alive' = alive \ {f.comm}
  <2>1. GoOn(tp, f.op, f.comm, f.todo, NoComm, Rest)
    BY <1>3, <1>8
  <2>2. GoesOn(tp, f.op, f.comm, f.todo, NoComm, Rest)
    BY <1>5, <2>1, GoOnForm
  <2> QED  BY <1>5, <2>2 DEF GoesOn
<1>11. \A c \in Comms : c # f.comm => (c \in alive' <=> c \in alive)
  BY <1>10
<1>12. \A g \in Range(Rest) : FrameInv(g)'
  <2>1. \A c \in Comms : (c \in alive' <=> c \in alive) \/ (F.op \in {"free", "undo"} /\ c = F.comm)
    BY <1>2, <1>3, <1>11
  <2> QED  BY <1>1, <1>2, <1>3, <1>5, <1>7, <2>1, RestFrames
<1>13. ASSUME NEW g, Continues(g, tp, f.op, f.comm, f.todo, NoComm),
              stack' = <<g>> \o Rest, alive' = alive
       PROVE  /\ StackInv' /\ stack' \in Seq(Frames) /\ InUse(f.comm)'
              /\ \A h \in Range(Rest) : h \in Range(stack')
              /\ \A h \in Range(stack') : h \in Range(Rest) \/ h.op # "finalize"
  <2>1. /\ g \in Frames /\ g.op = f.op /\ g.comm = f.comm /\ g.new = NoComm
        /\ g.keyval \in Numbers /\ Has(g.keyval, f.comm)'
    BY <1>5, <1>9, <1>13 DEF Continues
  <2>2. ASSUME NEW k \in Numbers, Has(k, f.comm)'  PROVE k \in g.todo \cup {g.keyval}
    <3>1. k \in f.todo
      BY <1>5, <1>6, <1>7, <2>2
    <3> QED  BY <1>9, <1>13, <2>2, <3>1 DEF Continues
  <2>3. FrameInv(g)'
    BY <1>3, <1>5, <1>6, <1>13, <2>1, <2>2 DEF FrameInv
  <2>4. ASSUME NEW h \in Range(Rest)  PROVE Apart(g, h)
    <3>1. f.comm # h.comm /\ f.comm # h.new
      BY <1>3, <1>4 DEF Apart
    <3>2. g.op # "dup" /\ g.op # "finalize"
      BY <1>3, <2>1
    <3>3. /\ g.comm # h.comm /\ g.comm # h.new
          /\ <<g.keyval, g.comm>> # <<h.keyval, h.comm>>
      BY <2>1, <3>1
    <3> QED  BY <3>2, <3>3 DEF Apart
  <2>5. StackInv' /\ stack' \in Seq(Frames) /\ Range(stack') = {g} \cup Range(Rest)
    BY <1>4, <1>12, <1>13, <2>1, <2>3, <2>4, StackNext
  <2>6. InUse(f.comm)'
    BY <2>1, <2>5 DEF InUse
  <2>7. g.op # "finalize"
    BY <1>3, <2>1
  <2> QED  BY <2>5, <2>6, <2>7
<1>14. ASSUME \A k \in f.todo : tp[k].attr[f.comm] = 0, stack' = Rest, alive' = alive \ {f.comm}
       PROVE  /\ StackInv' /\ stack' \in Seq(Frames) /\ \A k \in Numbers : ~Has(k, f.comm)'
              /\ \A h \in Range(Rest) : h \in Range(stack')
              /\ \A h \in Range(stack') : h \in Range(Rest) \/ h.op # "finalize"
  <2>1. ASSUME NEW k \in Numbers, Has(k, f.comm)'  PROVE FALSE
    <3>1. k \in f.todo
      BY <1>5, <1>6, <1>7, <2>1
    <3> QED  BY <1>9, <1>14, <2>1, <3>1
  <2>2. StackInv'
    BY <1>4, <1>12, <1>14 DEF StackInv
  <2> QED  BY <1>4, <1>14, <2>1, <2>2
<1>15. /\ StackInv' /\ stack' \in Seq(Frames)
       /\ InUse(f.comm)' \/ \A k \in Numbers : ~Has(k, f.comm)'
       /\ \A h \in Range(Rest) : h \in Range(stack')
       /\ \A h \in Range(stack') : h \in Range(Rest) \/ h.op # "finalize"
  BY <1>10, <1>13, <1>14
<1>16. SelfInv'
  <2>1. F.op # "finalize"
    BY <1>2, <1>3
  <2>2. \A k : Finalizing(k)' <=> Finalizing(k)
    BY <1>1, <1>3, <1>15, <2>1, FinalizingSame
  <2>3. \A j \in Numbers : Has(j, Self)' <=> Has(j, Self)
    BY <1>6, <1>7, KeyvalConstants
  <2>4. Self \in alive'
    BY <1>1, <1>6, <1>11, KeyvalConstants DEF SelfInv
  <2> QED  BY <1>1, <1>3, <2>2, <2>3, <2>4 DEF SelfInv
<1>17. CommInv'
  <2>1. \A c \in Comms : c \in alive \cup failedDup /\ c # f.comm => c \in alive' \cup failedDup'
    BY <1>3, <1>11
  <2> QED  BY <1>1, <1>2, <1>3, <1>5, <1>7, <1>15, <2>1, CommRest
<1>18. alive' \subseteq Comms
  BY <1>1, <1>10 DEF KeyvalTypes
<1>19. KeyvalTypes'
  BY <1>1, <1>3, <1>7, <1>15, <1>18 DEF KeyvalTypes
<1> QED
  BY <1>7, <1>15, <1>16, <1>17, <1>19 DEF KeyvalInv

(* copy_comm_attributes goes on to the next attribute, or MPI_Comm_dup     *)
(* returns.                                                                *)
LEMMA CopyReturnsInv ==
  ASSUME KeyvalInv, NEW flag \in BOOLEAN, CopyReturns(flag)
  PROVE  KeyvalInv'
<1>1. KeyvalTypes /\ VecInv /\ SelfInv /\ ValueInv /\ CommInv /\ StackInv
  BY DEF KeyvalInv
<1>2. PICK f : f = F
  OBVIOUS
<1>3. /\ stack # <<>> /\ f.op = "dup"
      /\ IF flag THEN Attach(f.keyval, f.new) ELSE UNCHANGED <<tuple, values, owner>>
      /\ GoOn(tuple, "dup", f.comm, f.todo, f.new, Rest)
      /\ UNCHANGED <<vec, selfKeyvals, created, deletions, failedDup>>
  BY <1>2 DEF CopyReturns
<1>4. /\ f \in Frames /\ FrameInv(f) /\ Rest \in Seq(Frames) /\ Nested(Rest)
      /\ Range(stack) = {f} \cup Range(Rest)
      /\ \A g \in Range(Rest) : g \in Frames /\ FrameInv(g) /\ Apart(f, g)
  BY <1>1, <1>2, <1>3, TopFrame
<1>5. /\ f.keyval \in Numbers /\ f.comm \in Comms /\ f.todo \in SUBSET Numbers
      /\ "dup" \in {"set", "delete", "free", "undo", "dup", "finalize"}
  BY <1>4, FrameTypes
<1>6. /\ Has(f.keyval, f.comm) /\ f.comm \in alive
      /\ f.new \in Comms /\ f.new \notin alive /\ f.keyval \notin f.todo
      /\ \A k \in f.todo \cup {f.keyval} : ~Has(k, f.new)
  BY <1>3, <1>4 DEF FrameInv
<1>7. f.new # Self /\ f.new # f.comm
  BY <1>1, <1>6 DEF SelfInv
<1>8. /\ tuple' \in [Numbers -> Tuples] /\ values' \in 0 .. MaxValues
      /\ owner' \in [1 .. MaxValues -> Nat]
      /\ VecInv' /\ ValueInv'
      /\ \A j \in Numbers, d \in Comms : Has(j, d) => Has(j, d)'
      /\ \A j \in Numbers, d \in Comms :
           Has(j, d)' => Has(j, d) \/ (j = f.keyval /\ d = f.new)
  <2>1. CASE flag
    <3>1. f.keyval \in Keyvals
      BY <1>1, <1>5, <1>6, KeyvalNumber
    <3>2. \A v \in 1 .. MaxValues : deletions'[v] = deletions[v]
      BY <1>3
    <3>3. ~Has(f.keyval, f.new) /\ Attach(f.keyval, f.new) /\ UNCHANGED vec
      BY <1>3, <1>6, <2>1
    <3>4. /\ tuple' \in [Numbers -> Tuples] /\ values' \in 0 .. MaxValues
          /\ owner' \in [1 .. MaxValues -> Nat]
          /\ VecInv' /\ ValueInv'
          /\ \A j \in Numbers, d \in Comms :
               Has(j, d)' <=> Has(j, d) \/ (j = f.keyval /\ d = f.new)
      BY <1>1, <1>5, <1>6, <3>1, <3>2, <3>3, Attaching
    <3> QED  BY <3>4
  <2>2. CASE ~flag
    <3>1. UNCHANGED <<vec, tuple, values, owner, deletions>>
      BY <1>3, <2>2
    <3>2. VecInv' /\ ValueInv'
      BY <1>1, <3>1, SameTuples
    <3>3. \A j \in Numbers, d \in Comms : Has(j, d)' <=> Has(j, d)
      BY <3>1 DEF Has
    <3> QED  BY <1>1, <3>1, <3>2, <3>3 DEF KeyvalTypes
  <2> QED  BY <2>1, <2>2
<1>9. \/ \E g : /\ Continues(g, tuple, "dup", f.comm, f.todo, f.new)
               /\ stack' = <<g>> \o Rest /\ alive' = alive
      \/ stack' = Rest /\ alive' = alive \cup {f.new}
  <2>1. f.new \in Comms \cup {NoComm}
    BY <1>6
  <2>2. GoesOn(tuple, "dup", f.comm, f.todo, f.new, Rest)
    BY <1>3, <1>5, <2>1, GoOnForm
  <2> QED  BY <2>2 DEF GoesOn
<1>10. \A c \in Comms : c # f.new => (c \in alive' <=> c \in alive)
  BY <1>9
<1>11. \A g \in Range(Rest) : FrameInv(g)'
  <2>1. \A c \in Comms : (c \in alive' <=> c \in alive) \/ (F.op = "dup" /\ c = F.new)
    BY <1>2, <1>3, <1>10
  <2> QED  BY <1>1, <1>2, <1>3, <1>8, <2>1, RestFrames
<1>12. ASSUME NEW g, Continues(g, tuple, "dup", f.comm, f.todo, f.new),
              stack' = <<g>> \o Rest, alive' = alive
       PROVE  /\ StackInv' /\ stack' \in Seq(Frames) /\ InUse(f.new)'
              /\ \A h \in Range(Rest) : h \in Range(stack')
              /\ \A h \in Range(stack') : h \in Range(Rest) \/ h.op # "finalize"
  <2>1. /\ g \in Frames /\ g.op = "dup" /\ g.comm = f.comm /\ g.new = f.new
        /\ g.keyval \in Numbers /\ g.keyval \in f.todo /\ g.todo \subseteq f.todo
        /\ g.keyval \notin g.todo /\ Has(g.keyval, f.comm)
    BY <1>5, <1>12 DEF Continues, Has
  <2>2. ASSUME NEW k \in g.todo \cup {g.keyval}  PROVE ~Has(k, f.new)'
    <3>1. k \in f.todo /\ k \in Numbers /\ k # f.keyval
      BY <1>5, <1>6, <2>1
    <3> QED  BY <1>6, <1>8, <3>1
  <2>3. Has(g.keyval, f.comm)'
    BY <1>5, <1>8, <2>1
  <2>4. FrameInv(g)'
    BY <1>6, <1>12, <2>1, <2>2, <2>3 DEF FrameInv
  <2>5. ASSUME NEW h \in Range(Rest)  PROVE Apart(g, h)
    <3>1. Apart(f, h)
      BY <1>4
    <3> QED  BY <1>3, <2>1, <3>1, SMT DEF Apart
  <2>6. StackInv' /\ stack' \in Seq(Frames) /\ Range(stack') = {g} \cup Range(Rest)
    BY <1>4, <1>11, <1>12, <2>1, <2>4, <2>5, StackNext
  <2>7. InUse(f.new)'
    BY <2>1, <2>6 DEF InUse
  <2>8. g.op # "finalize"
    BY <2>1
  <2> QED  BY <2>6, <2>7, <2>8
<1>13. ASSUME stack' = Rest, alive' = alive \cup {f.new}
       PROVE  /\ StackInv' /\ stack' \in Seq(Frames) /\ f.new \in alive'
              /\ \A h \in Range(Rest) : h \in Range(stack')
              /\ \A h \in Range(stack') : h \in Range(Rest) \/ h.op # "finalize"
  <2>1. StackInv'
    BY <1>4, <1>11, <1>13 DEF StackInv
  <2> QED  BY <1>4, <1>13, <2>1
<1>14. /\ StackInv' /\ stack' \in Seq(Frames)
       /\ f.new \in alive' \cup failedDup' \/ InUse(f.new)'
       /\ \A h \in Range(Rest) : h \in Range(stack')
       /\ \A h \in Range(stack') : h \in Range(Rest) \/ h.op # "finalize"
  BY <1>9, <1>12, <1>13
<1>15. SelfInv'
  <2>1. F.op # "finalize"
    BY <1>2, <1>3
  <2>2. \A k : Finalizing(k)' <=> Finalizing(k)
    BY <1>1, <1>3, <1>14, <2>1, FinalizingSame
  <2>3. \A j \in Numbers : Has(j, Self)' <=> Has(j, Self)
    BY <1>7, <1>8, KeyvalConstants
  <2>4. Self \in alive'
    BY <1>1, <1>7, <1>10, KeyvalConstants DEF SelfInv
  <2> QED  BY <1>1, <1>3, <2>2, <2>3, <2>4 DEF SelfInv
<1>16. CommInv'
  <2>1. \A c \in Comms : c \in alive \cup failedDup => c \in alive' \cup failedDup'
    BY <1>3, <1>9
  <2>2. \A k \in Numbers, c \in Comms : Has(k, c)' => Has(k, c) \/ c = f.new
    BY <1>8
  <2>3. f.comm \in alive' \cup failedDup'
    BY <1>5, <1>6, <1>7, <1>10
  <2> QED  BY <1>1, <1>2, <1>3, <1>14, <2>1, <2>2, <2>3, CommRest
<1>17. alive' \subseteq Comms
  BY <1>1, <1>6, <1>9 DEF KeyvalTypes
<1>18. KeyvalTypes'
  BY <1>1, <1>3, <1>8, <1>14, <1>17 DEF KeyvalTypes
<1> QED
  BY <1>8, <1>14, <1>15, <1>16, <1>18 DEF KeyvalInv

(* The copy callback fails: what was copied is deleted.                    *)
LEMMA CopyFailsInv ==
  ASSUME KeyvalInv, CopyFails
  PROVE  KeyvalInv'
<1>1. KeyvalTypes /\ VecInv /\ SelfInv /\ ValueInv /\ CommInv /\ StackInv
  BY DEF KeyvalInv
<1>2. PICK f : f = F
  OBVIOUS
<1>3. /\ stack # <<>> /\ f.op = "dup"
      /\ GoOn(tuple, "undo", f.new, KeyvalsOf(f.new), NoComm, Rest)
      /\ UNCHANGED <<vec, tuple, selfKeyvals, created, values, owner, deletions, failedDup>>
  BY <1>2 DEF CopyFails
<1>4. /\ f \in Frames /\ FrameInv(f) /\ Rest \in Seq(Frames) /\ Nested(Rest)
      /\ Range(stack) = {f} \cup Range(Rest)
      /\ \A g \in Range(Rest) : g \in Frames /\ FrameInv(g) /\ Apart(f, g)
  BY <1>1, <1>2, <1>3, TopFrame
<1>5. /\ f.comm \in Comms /\ f.comm \in alive /\ f.new \in Comms /\ f.new \notin alive
      /\ f.new # Self
  BY <1>1, <1>3, <1>4, FrameTypes DEF FrameInv, SelfInv
<1>6. VecInv' /\ ValueInv'
  BY <1>1, <1>3, SameTuples
<1>7. \A j \in Numbers, d \in Comms : Has(j, d)' <=> Has(j, d)
  BY <1>3 DEF Has
<1>8. \A k \in Numbers : k \in KeyvalsOf(f.new) <=> tuple[k].attr[f.new] # 0
  BY DEF KeyvalsOf, Has
<1>9. \/ \E g : /\ Continues(g, tuple, "undo", f.new, KeyvalsOf(f.new), NoComm)
               /\ stack' = <<g>> \o Rest /\ alive' = alive
      \/ /\ \A k \in KeyvalsOf(f.new) : tuple[k].attr[f.new] = 0
         /\ stack' = Rest /\ alive' = alive \ {f.new}
  <2>1. /\ "undo" \in {"set", "delete", "free", "undo", "dup", "finalize"}
        /\ NoComm \in Comms \cup {NoComm} /\ KeyvalsOf(f.new) \in SUBSET Numbers /\ "undo" # "dup"
    BY DEF KeyvalsOf
  <2>2. GoesOn(tuple, "undo", f.new, KeyvalsOf(f.new), NoComm, Rest)
    BY <1>3, <1>5, <2>1, GoOnForm
  <2> QED  BY <2>1, <2>2 DEF GoesOn
<1>10. alive' = alive
  BY <1>5, <1>9
<1>11. \A g \in Range(Rest) : FrameInv(g)'
  BY <1>1, <1>2, <1>3, <1>7, <1>10, RestFrames
<1>12. ASSUME NEW g, Continues(g, tuple, "undo", f.new, KeyvalsOf(f.new), NoComm),
              stack' = <<g>> \o Rest
       PROVE  /\ StackInv' /\ stack' \in Seq(Frames) /\ InUse(f.new)'
              /\ \A h \in Range(Rest) : h \in Range(stack')
              /\ \A h \in Range(stack') : h \in Range(Rest) \/ h.op # "finalize"
  <2>1. /\ g \in Frames /\ g.op = "undo" /\ g.comm = f.new /\ g.new = NoComm
        /\ g.keyval \in Numbers /\ Has(g.keyval, f.new)
        /\ \A k \in Numbers : Has(k, f.new) => k \in g.todo \cup {g.keyval}
    BY <1>8, <1>12, FrameTypes DEF Continues, Has
  <2>2. /\ Has(g.keyval, f.new)'
        /\ \A k \in Numbers : Has(k, f.new)' => k \in g.todo \cup {g.keyval}
    BY <1>5, <1>7, <2>1
  <2>3. FrameInv(g)'
    BY <1>5, <1>10, <2>1, <2>2 DEF FrameInv
  <2>4. ASSUME NEW h \in Range(Rest)  PROVE Apart(g, h)
    <3>1. f.new # h.comm /\ f.new # h.new
      BY <1>3, <1>4 DEF Apart
    <3> QED  BY <2>1, <3>1, SMT DEF Apart
  <2>5. StackInv' /\ stack' \in Seq(Frames) /\ Range(stack') = {g} \cup Range(Rest)
    BY <1>4, <1>11, <1>12, <2>1, <2>3, <2>4, StackNext
  <2>6. InUse(f.new)'
    BY <2>1, <2>5 DEF InUse
  <2>7. g.op # "finalize"
    BY <2>1
  <2> QED  BY <2>5, <2>6, <2>7
<1>13. ASSUME \A k \in KeyvalsOf(f.new) : tuple[k].attr[f.new] = 0, stack' = Rest
       PROVE  /\ StackInv' /\ stack' \in Seq(Frames) /\ \A k \in Numbers : ~Has(k, f.new)'
              /\ \A h \in Range(Rest) : h \in Range(stack')
              /\ \A h \in Range(stack') : h \in Range(Rest) \/ h.op # "finalize"
  <2>1. \A k \in Numbers : ~Has(k, f.new)
    BY <1>8, <1>13 DEF Has
  <2>2. \A k \in Numbers : ~Has(k, f.new)'
    BY <1>5, <1>7, <2>1
  <2>3. StackInv'
    BY <1>4, <1>11, <1>13 DEF StackInv
  <2> QED  BY <1>4, <1>13, <2>2, <2>3
<1>14. /\ StackInv' /\ stack' \in Seq(Frames)
       /\ InUse(f.new)' \/ \A k \in Numbers : ~Has(k, f.new)'
       /\ \A h \in Range(Rest) : h \in Range(stack')
       /\ \A h \in Range(stack') : h \in Range(Rest) \/ h.op # "finalize"
  BY <1>9, <1>12, <1>13
<1>15. SelfInv'
  <2>1. F.op # "finalize"
    BY <1>2, <1>3
  <2>2. \A k : Finalizing(k)' <=> Finalizing(k)
    BY <1>1, <1>3, <1>14, <2>1, FinalizingSame
  <2> QED  BY <1>1, <1>3, <1>7, <1>10, <2>2, KeyvalConstants DEF SelfInv
<1>16. CommInv'
  BY <1>1, <1>2, <1>3, <1>5, <1>7, <1>10, <1>14, CommRest
<1>17. KeyvalTypes'
  BY <1>1, <1>3, <1>10, <1>14 DEF KeyvalTypes
<1> QED
  BY <1>6, <1>14, <1>15, <1>16, <1>17 DEF KeyvalInv

(* A callback fails, and the innermost operation with it.                  *)
LEMMA CallbackFailsInv ==
  ASSUME KeyvalInv, CallbackFails
  PROVE  KeyvalInv'
<1>1. KeyvalTypes /\ VecInv /\ SelfInv /\ ValueInv /\ CommInv /\ StackInv
  BY DEF KeyvalInv
<1>2. PICK f : f = F
  OBVIOUS
<1>3. /\ stack # <<>> /\ f.op # "dup" /\ stack' = Rest
      /\ selfKeyvals' = IF f.op = "finalize" THEN Append(selfKeyvals, f.keyval) ELSE selfKeyvals
      /\ failedDup' = IF f.op = "undo" THEN failedDup \cup {f.comm} ELSE failedDup
      /\ UNCHANGED <<vec, tuple, alive, created, values, owner, deletions>>
  BY <1>2 DEF CallbackFails
<1>4. /\ f \in Frames /\ FrameInv(f) /\ Rest \in Seq(Frames) /\ Nested(Rest)
      /\ Range(stack) = {f} \cup Range(Rest)
      /\ \A g \in Range(Rest) : g \in Frames /\ FrameInv(g) /\ Apart(f, g)
  BY <1>1, <1>2, <1>3, TopFrame
<1>5. f.comm \in Comms /\ f.keyval \in Numbers /\ (f.comm \in alive <=> f.op # "undo")
  BY <1>4, FrameTypes DEF FrameInv
<1>6. VecInv' /\ ValueInv'
  BY <1>1, <1>3, SameTuples
<1>7. \A j \in Numbers, d \in Comms : Has(j, d)' <=> Has(j, d)
  BY <1>3 DEF Has
<1>8. ASSUME f.op = "finalize"
      PROVE  SelfInv' /\ StackInv' /\ selfKeyvals' \in Seq(Numbers)
  <2>1. Range(Rest) = {}
    BY <1>4, <1>8 DEF Apart
  <2>2. StackInv'
    BY <1>3, <1>4, <2>1 DEF StackInv
  <2>3. f.keyval \notin Range(selfKeyvals) /\ selfKeyvals \in Seq(Numbers) /\ IsInjective(selfKeyvals)
    BY <1>1, <1>4, <1>8 DEF FrameInv, KeyvalTypes, SelfInv
  <2>4. /\ selfKeyvals' \in Seq(Numbers) /\ IsInjective(selfKeyvals')
        /\ Range(selfKeyvals') = {f.keyval} \cup Range(selfKeyvals)
    BY <1>3, <1>5, <1>8, <2>3, AppendRange
  <2>5. \A k : (Finalizing(k) <=> k = f.keyval) /\ ~Finalizing(k)'
    BY <1>3, <1>4, <1>8, <2>1 DEF Finalizing
  <2>6. ASSUME NEW j \in Numbers
        PROVE  Has(j, Self)' <=> j \in Range(selfKeyvals') \/ Finalizing(j)'
    <3>1. Has(j, Self)' <=> Has(j, Self)
      BY <1>7, KeyvalConstants
    <3>2. Has(j, Self) <=> j \in Range(selfKeyvals) \/ Finalizing(j)
      BY <1>1 DEF SelfInv
    <3> QED  BY <2>4, <2>5, <3>1, <3>2
  <2>7. Self \in alive'
    BY <1>1, <1>3 DEF SelfInv
  <2>8. SelfInv'
    BY <2>4, <2>6, <2>7 DEF SelfInv
  <2> QED  BY <2>2, <2>4, <2>8
<1>9. ASSUME f.op # "finalize"
      PROVE  SelfInv' /\ StackInv' /\ selfKeyvals' \in Seq(Numbers)
  <2>1. selfKeyvals' = selfKeyvals /\ F.op # "finalize"
    BY <1>2, <1>3, <1>9
  <2>2. \A g \in Range(Rest) : FrameInv(g)'
    BY <1>1, <1>3, <1>7, <2>1, RestFrames
  <2>3. StackInv'
    BY <1>3, <1>4, <2>2 DEF StackInv
  <2>4. \A k : Finalizing(k)' <=> Finalizing(k)
    BY <1>1, <1>3, <2>1, FinalizingSame
  <2>5. SelfInv'
    BY <1>1, <1>3, <1>7, <2>1, <2>4, KeyvalConstants DEF SelfInv
  <2> QED  BY <1>1, <2>1, <2>3, <2>5 DEF KeyvalTypes
<1>10. SelfInv' /\ StackInv' /\ selfKeyvals' \in Seq(Numbers)
  BY <1>8, <1>9
<1>11. CommInv'
  <2>1. \A c \in Comms : c \in alive \cup failedDup => c \in alive' \cup failedDup'
    BY <1>3
  <2>2. f.comm \in alive' \cup failedDup'
    BY <1>3, <1>5
  <2> QED  BY <1>1, <1>2, <1>3, <1>7, <2>1, <2>2, CommRest
<1>12. failedDup' \subseteq Comms
  BY <1>1, <1>3, <1>5 DEF KeyvalTypes
<1>13. KeyvalTypes'
  BY <1>1, <1>3, <1>4, <1>10, <1>12 DEF KeyvalTypes
<1> QED
  BY <1>6, <1>10, <1>11, <1>13 DEF KeyvalInv

(* delete_self_attributes takes the last of the list.                      *)
LEMMA NextSelfInv ==
  ASSUME NEW s \in Seq(Numbers), IsInjective(s),
         \A k \in Numbers : Has(k, Self)' <=> k \in Range(s), Self \in alive',
         NEW rest \in Seq(Frames), Nested(rest), Range(rest) = {}, NextSelf(s, rest)
  PROVE  SelfInv' /\ StackInv' /\ stack' \in Seq(Frames) /\ selfKeyvals' \in Seq(Numbers)
<1>1. CASE s = <<>>
  <2>1. stack' = rest /\ selfKeyvals' = s
    BY <1>1 DEF NextSelf
  <2>2. StackInv'
    BY <2>1 DEF StackInv
  <2>3. \A k : ~Finalizing(k)'
    BY <2>1 DEF Finalizing
  <2>4. SelfInv'
    BY <2>1, <2>3 DEF SelfInv
  <2> QED  BY <2>1, <2>2, <2>4
<1>2. CASE s # <<>>
  <2>1. PICK k, front : k = s[Len(s)] /\ front = SubSeq(s, 1, Len(s) - 1)
    OBVIOUS
  <2>2. /\ front \in Seq(Numbers) /\ k \in Numbers /\ Range(s) = {k} \cup Range(front)
        /\ IsInjective(front) /\ k \notin Range(front)
    BY <1>2, <2>1, ButLast
  <2>3. stack' = <<Frame("finalize", Self, k)>> \o rest /\ selfKeyvals' = front
    BY <1>2, <2>1 DEF NextSelf
  <2>4. PICK f : f = Frame("finalize", Self, k)
    OBVIOUS
  <2>5. IsFrame(f, "finalize", Self, k)
    <3>1. "finalize" \in {"set", "delete", "free", "undo", "dup", "finalize"}
      OBVIOUS
    <3> QED  BY <2>2, <2>4, <3>1, KeyvalConstants, NewFrame
  <2>6. f \in Frames /\ f.op = "finalize" /\ f.comm = Self /\ f.keyval = k /\ f.new = NoComm
    BY <2>5 DEF IsFrame
  <2>7. Has(k, Self)'
    BY <2>2
  <2>8. FrameInv(f)'
    BY <2>2, <2>3, <2>6, <2>7 DEF FrameInv
  <2>9. StackInv' /\ stack' \in Seq(Frames) /\ Range(stack') = {f}
    <3>1. stack' = <<f>> \o rest
      BY <2>3, <2>4
    <3>2. StackInv' /\ stack' \in Seq(Frames) /\ Range(stack') = {f} \cup Range(rest)
      BY <2>6, <2>8, <3>1, StackNext
    <3> QED  BY <3>2
  <2>10. \A j : Finalizing(j)' <=> j = k
    BY <2>6, <2>9 DEF Finalizing
  <2>11. SelfInv'
    BY <2>2, <2>3, <2>10 DEF SelfInv
  <2> QED  BY <2>2, <2>3, <2>9, <2>11
<1> QED
  BY <1>1, <1>2

LEMMA DeleteSelfInv ==
  ASSUME KeyvalInv, delete_self_attributes
  PROVE  KeyvalInv'
<1>1. KeyvalTypes /\ VecInv /\ SelfInv /\ ValueInv /\ CommInv /\ StackInv
  BY DEF KeyvalInv
<1>2. /\ stack = <<>> /\ NextSelf(selfKeyvals, stack)
      /\ UNCHANGED <<vec, tuple, alive, created, values, owner, deletions, failedDup>>
  BY DEF delete_self_attributes
<1>3. VecInv' /\ ValueInv'
  BY <1>1, <1>2, SameTuples
<1>4. \A j \in Numbers, d \in Comms : Has(j, d)' <=> Has(j, d)
  BY <1>2 DEF Has
<1>5. Range(stack) = {}
  BY <1>2, SMT DEF Range
<1>6. \A k : ~Finalizing(k)
  BY <1>5 DEF Finalizing
<1>7. \A k \in Numbers : Has(k, Self)' <=> k \in Range(selfKeyvals)
  BY <1>1, <1>4, <1>6, KeyvalConstants DEF SelfInv
<1>8. SelfInv' /\ StackInv' /\ stack' \in Seq(Frames) /\ selfKeyvals' \in Seq(Numbers)
  <2>1. /\ selfKeyvals \in Seq(Numbers) /\ IsInjective(selfKeyvals) /\ Self \in alive'
        /\ stack \in Seq(Frames) /\ Nested(stack)
    BY <1>1, <1>2 DEF KeyvalTypes, SelfInv, StackInv
  <2> QED  BY <1>2, <1>5, <1>7, <2>1, NextSelfInv
<1>9. CommInv'
  <2>1. \A c : ~InUse(c)
    BY <1>5 DEF InUse
  <2> QED  BY <1>1, <1>2, <1>4, <2>1 DEF CommInv
<1>10. KeyvalTypes'
  BY <1>1, <1>2, <1>8 DEF KeyvalTypes
<1> QED
  BY <1>3, <1>8, <1>9, <1>10 DEF KeyvalInv

LEMMA FinalizeReturnsInv ==
  ASSUME KeyvalInv, FinalizeReturns
  PROVE  KeyvalInv'
<1>1. KeyvalTypes /\ VecInv /\ SelfInv /\ ValueInv /\ CommInv /\ StackInv
  BY DEF KeyvalInv
<1>2. PICK f : f = F
  OBVIOUS
<1>3. /\ stack # <<>> /\ f.op = "finalize"
      /\ RemoveIfUnused(Without(f.keyval, Self), f.keyval)
      /\ NextSelf(WithoutKeyval(selfKeyvals, f.keyval), Rest)
      /\ deletions' = [deletions EXCEPT ![tuple[f.keyval].attr[f.comm]] = @ + 1]
      /\ UNCHANGED <<alive, created, values, owner, failedDup>>
  BY <1>2 DEF FinalizeReturns, CountDeletion
<1>4. /\ f \in Frames /\ FrameInv(f) /\ Rest \in Seq(Frames) /\ Nested(Rest)
      /\ Range(stack) = {f} \cup Range(Rest)
      /\ \A g \in Range(Rest) : g \in Frames /\ FrameInv(g) /\ Apart(f, g)
  BY <1>1, <1>2, <1>3, TopFrame
<1>5. /\ f.keyval \in Numbers /\ f.comm = Self /\ Has(f.keyval, Self)
      /\ f.keyval \notin Range(selfKeyvals) /\ Self \in Comms
  BY <1>3, <1>4, FrameTypes, KeyvalConstants DEF FrameInv
<1>6. Range(Rest) = {}
  BY <1>3, <1>4 DEF Apart
<1>7. /\ tuple' \in [Numbers -> Tuples] /\ deletions' \in [1 .. MaxValues -> Nat]
      /\ vec' \in Seq(Int) /\ Len(vec') <= MaxKeyvals + Cardinality(PredefinedKeyvals)
      /\ VecInv' /\ ValueInv'
      /\ \A j \in Numbers, d \in Comms :
           Has(j, d)' <=> Has(j, d) /\ ~(j = f.keyval /\ d = Self)
  BY <1>1, <1>3, <1>5, Detached
<1>8. PICK s : s = WithoutKeyval(selfKeyvals, f.keyval)
  OBVIOUS
<1>9. s \in Seq(Numbers) /\ IsInjective(s) /\ Range(s) = Range(selfKeyvals) \ {f.keyval}
  BY <1>1, <1>8, WithoutKeyvalRange DEF KeyvalTypes, SelfInv
<1>10. \A k \in Numbers : Has(k, Self)' <=> k \in Range(s)
  <2>1. \A k : Finalizing(k) <=> k = f.keyval
    BY <1>3, <1>4, <1>6 DEF Finalizing
  <2>2. \A k \in Numbers : Has(k, Self) <=> k \in Range(selfKeyvals) \/ k = f.keyval
    BY <1>1, <2>1 DEF SelfInv
  <2> QED  BY <1>5, <1>7, <1>9, <2>2
<1>11. SelfInv' /\ StackInv' /\ stack' \in Seq(Frames) /\ selfKeyvals' \in Seq(Numbers)
  <2>1. Self \in alive' /\ NextSelf(s, Rest)
    BY <1>1, <1>3, <1>8 DEF SelfInv
  <2> QED  BY <1>4, <1>6, <1>9, <1>10, <2>1, NextSelfInv
<1>12. CommInv'
  <2>1. f.comm \in alive'
    BY <1>1, <1>3, <1>5 DEF SelfInv
  <2> QED  BY <1>1, <1>2, <1>3, <1>6, <1>7, <2>1, CommRest
<1>13. KeyvalTypes'
  BY <1>1, <1>3, <1>7, <1>11 DEF KeyvalTypes
<1> QED
  BY <1>7, <1>11, <1>12, <1>13 DEF KeyvalInv

-----------------------------------------------------------------------------
(* The invariant, and what it says.                                        *)

LEMMA KeyvalsInitially ==
  ASSUME KeyvalsInit
  PROVE  KeyvalInv
<1>1. /\ vec = <<>> /\ tuple = [k \in Numbers |-> NoTuple] /\ selfKeyvals = <<>>
      /\ alive = {Self} /\ stack = <<>> /\ created = 0 /\ values = 0
      /\ owner = [v \in 1 .. MaxValues |-> 0] /\ deletions = [v \in 1 .. MaxValues |-> 0]
      /\ failedDup = {}
  BY DEF KeyvalsInit
<1>2. \A k \in Numbers, c \in Comms : ~Has(k, c)
  BY <1>1, NoTupleFacts DEF Has
<1>3. Range(stack) = {} /\ Range(selfKeyvals) = {} /\ IsInjective(selfKeyvals)
  BY <1>1, SMT DEF Range, IsInjective
<1>4. KeyvalTypes
  <2>1. Cardinality(PredefinedKeyvals) \in Nat
    BY KeyvalConstants, FS_CardinalityType
  <2>2. vec \in Seq(Int) /\ Len(vec) <= MaxKeyvals + Cardinality(PredefinedKeyvals)
    BY <1>1, <2>1, KeyvalConstants, SMT
  <2>3. tuple \in [Numbers -> Tuples]
    BY <1>1, NoTupleFacts
  <2>4. selfKeyvals \in Seq(Numbers) /\ stack \in Seq(Frames)
    BY <1>1, SMT
  <2>5. /\ created \in Nat /\ values \in 0 .. MaxValues
        /\ owner \in [1 .. MaxValues -> Nat] /\ deletions \in [1 .. MaxValues -> Nat]
    BY <1>1, KeyvalConstants, SMT
  <2>6. alive \subseteq Comms /\ failedDup \subseteq Comms
    BY <1>1, KeyvalConstants
  <2> QED  BY <2>2, <2>3, <2>4, <2>5, <2>6 DEF KeyvalTypes
<1>5. VecInv
  <2>1. \A i \in DOMAIN vec : FALSE
    BY <1>1, SMT
  <2>2. ASSUME NEW k \in Numbers
        PROVE  /\ k \notin Keyvals /\ ~(k < Len(vec))
               /\ tuple[k] = NoTuple /\ ~tuple[k].freed
    <3>1. tuple[k] = NoTuple
      BY <1>1
    <3>2. ~NoTuple.freed
      BY NoTupleFacts
    <3>3. ~(k < Len(vec))
      <4>1. k \in Nat
        BY NumberFacts
      <4> QED  BY <1>1, <4>1, SMT
    <3> QED  BY <3>1, <3>2, <3>3 DEF Keyvals
  <2> QED  BY <2>1, <2>2 DEF VecInv
<1>6. SelfInv
  <2>1. \A k : ~Finalizing(k)
    BY <1>3 DEF Finalizing
  <2> QED  BY <1>1, <1>2, <1>3, <2>1, KeyvalConstants DEF SelfInv
<1>7. ValueInv
  <2>1. \A v \in 1 .. values : FALSE
    BY <1>1, SMT
  <2>2. \A v \in values + 1 .. MaxValues : deletions[v] = 0
    BY <1>1, SMT
  <2> QED  BY <1>2, <2>1, <2>2 DEF ValueInv
<1>8. CommInv
  BY <1>2 DEF CommInv
<1>9. StackInv
  <2>1. Nested(stack)
    BY <1>1, SMT DEF Nested
  <2> QED  BY <1>3, <2>1 DEF StackInv
<1> QED
  BY <1>4, <1>5, <1>6, <1>7, <1>8, <1>9 DEF KeyvalInv

LEMMA KeyvalsStep ==
  ASSUME KeyvalInv, [KeyvalsNext]_keyvalVars
  PROVE  KeyvalInv'
<1>1. CASE MPI_Comm_create_keyval
  BY <1>1, CreateInv
<1>2. ASSUME NEW k \in Numbers, MPI_Comm_free_keyval(k)  PROVE KeyvalInv'
  BY <1>2, FreeKeyvalInv
<1>3. ASSUME NEW k \in Numbers, NEW c \in Comms, MPI_Comm_set_attr(k, c)  PROVE KeyvalInv'
  BY <1>3, SetAttrInv
<1>4. ASSUME NEW k \in Numbers, NEW c \in Comms, MPI_Comm_delete_attr(k, c)  PROVE KeyvalInv'
  BY <1>4, DeleteAttrInv
<1>5. ASSUME NEW c \in Comms, Comm_free(c)  PROVE KeyvalInv'
  BY <1>5, CommFreeInv
<1>6. ASSUME NEW c \in Comms, NEW n \in Comms, copy_comm_attributes(c, n)  PROVE KeyvalInv'
  BY <1>6, DupInv
<1>7. CASE delete_self_attributes
  BY <1>7, DeleteSelfInv
<1>8. CASE SetReturns
  BY <1>8, SetReturnsInv
<1>9. CASE DeleteReturns
  BY <1>9, DeleteReturnsInv
<1>10. CASE FreeReturns
  BY <1>10, FreeReturnsInv
<1>11. CASE FinalizeReturns
  BY <1>11, FinalizeReturnsInv
<1>12. CASE CallbackFails
  BY <1>12, CallbackFailsInv
<1>13. ASSUME NEW flag \in BOOLEAN, CopyReturns(flag)  PROVE KeyvalInv'
  BY <1>13, CopyReturnsInv
<1>14. CASE CopyFails
  BY <1>14, CopyFailsInv
<1>15. CASE UNCHANGED keyvalVars
  <2>1. UNCHANGED <<vec, tuple, selfKeyvals, alive, stack, created, values, owner, deletions, failedDup>>
    BY <1>15 DEF keyvalVars
  <2>2. KeyvalTypes /\ VecInv /\ SelfInv /\ ValueInv /\ CommInv /\ StackInv
    BY DEF KeyvalInv
  <2>3. VecInv' /\ ValueInv'
    BY <2>1, <2>2, SameTuples
  <2>4. \A k \in Numbers, c \in Comms : Has(k, c)' <=> Has(k, c)
    BY <2>1 DEF Has
  <2>5. SelfInv' /\ CommInv' /\ StackInv'
    BY <2>1, <2>2, <2>4, SameAttributes
  <2>6. KeyvalTypes'
    BY <2>1, <2>2 DEF KeyvalTypes
  <2> QED  BY <2>3, <2>5, <2>6 DEF KeyvalInv
<1> QED
  BY <1>1, <1>2, <1>3, <1>4, <1>5, <1>6, <1>7, <1>8, <1>9, <1>10, <1>11, <1>12, <1>13,
     <1>14, <1>15 DEF KeyvalsNext

LEMMA KeyvalsAgreeNow ==
  ASSUME KeyvalInv
  PROVE  KeyvalsAgree
<1>1. KeyvalTypes /\ VecInv /\ SelfInv
  BY DEF KeyvalInv
<1>2. ASSUME NEW k \in Numbers, k \in PredefinedKeyvals, k \in Keyvals  PROVE FALSE
  <2>1. k < Len(vec) /\ vec[k + 1] = k /\ k \in Nat /\ vec \in Seq(Int)
    BY <1>1, <1>2, NumberFacts DEF VecInv, KeyvalTypes
  <2>2. k + 1 \in DOMAIN vec /\ vec[k + 1] # -2 /\ (k + 1) - 1 = k
    BY <2>1, SMT
  <2>3. (k + 1) - 1 \notin PredefinedKeyvals
    BY <1>1, <2>2 DEF VecInv
  <2> QED  BY <1>2, <2>2, <2>3
<1> QED
  BY <1>1, <1>2 DEF KeyvalsAgree, VecInv, SelfInv

LEMMA DeletedOnceNow ==
  ASSUME KeyvalInv
  PROVE  DeletedOnce
<1>1. KeyvalTypes /\ ValueInv /\ CommInv
  BY DEF KeyvalInv
<1>2. ASSUME NEW v \in 1 .. values
      PROVE  /\ deletions[v] + Cardinality(Attached(v)) = 1
             /\ \A u \in Attached(v) : tuple[u[1]].number = owner[v]
  <2>1. v # 0 /\ v \in Nat
    BY <1>1, <1>2, KeyvalConstants, SMT DEF KeyvalTypes
  <2>2. ASSUME NEW u \in Attached(v)
        PROVE  /\ u[1] \in Numbers /\ u[2] \in Comms /\ u = <<u[1], u[2]>>
               /\ tuple[u[1]].attr[u[2]] = v /\ Has(u[1], u[2])
    BY <2>1, SMT DEF Attached, Has
  <2>3. ASSUME NEW u \in Attached(v)
        PROVE  deletions[v] = 0 /\ tuple[u[1]].number = owner[v] /\ Attached(v) = {u}
    <3>1. PICK k \in Numbers, c \in Comms : u = <<k, c>> /\ tuple[k].attr[c] = v /\ Has(k, c)
      BY <2>2
    <3>2. /\ deletions[v] = 0 /\ owner[v] = tuple[k].number
          /\ \A j \in Numbers, d \in Comms : tuple[j].attr[d] = v => j = k /\ d = c
      <4>1. LET v0 == tuple[k].attr[c] IN
            /\ deletions[v0] = 0 /\ owner[v0] = tuple[k].number
            /\ \A j \in Numbers, d \in Comms : tuple[j].attr[d] = v0 => j = k /\ d = c
        BY <1>1, <3>1, ValueIs DEF ValueAt
      <4> QED  BY <3>1, <4>1
    <3>3. ASSUME NEW w \in Attached(v)  PROVE w = u
      <4>1. w[1] \in Numbers /\ w[2] \in Comms /\ w = <<w[1], w[2]>> /\ tuple[w[1]].attr[w[2]] = v
        BY <2>2
      <4>2. w[1] = k /\ w[2] = c
        BY <3>2, <4>1
      <4> QED  BY <3>1, <4>1, <4>2
    <3>4. u[1] = k
      BY <3>1
    <3> QED  BY <3>2, <3>3, <3>4
  <2>4. CASE Attached(v) = {}
    <3>1. ASSUME NEW k \in Numbers, NEW c \in Comms, tuple[k].attr[c] = v  PROVE FALSE
      <4>1. <<k, c>> \in Attached(v)
        BY <3>1, SMT DEF Attached
      <4> QED  BY <2>4, <4>1
    <3>2. deletions[v] = 1
      <4>1. deletions[v] = 1 \/ \E k \in Numbers, c \in Comms : tuple[k].attr[c] = v
        BY <1>1 DEF ValueInv
      <4> QED  BY <3>1, <4>1
    <3>3. Cardinality(Attached(v)) = 0
      BY <2>4, FS_EmptySet
    <3>4. deletions[v] + Cardinality(Attached(v)) = 1
      BY <3>2, <3>3, SMT
    <3> QED  BY <2>4, <3>4
  <2>5. CASE Attached(v) # {}
    <3>1. PICK u : u \in Attached(v)
      BY <2>5
    <3>2. deletions[v] = 0 /\ Attached(v) = {u}
      BY <2>3, <3>1
    <3>3. Cardinality({u}) = 1
      BY FS_Singleton
    <3>4. deletions[v] + Cardinality(Attached(v)) = 1
      BY <3>2, <3>3, SMT
    <3> QED  BY <2>3, <3>4
  <2> QED  BY <2>4, <2>5
<1> QED
  BY <1>1, <1>2 DEF DeletedOnce, CommInv

(* The bookkeeping of keyvals, attributes and the list of MPI_COMM_SELF's  *)
(* is consistent, at any moment of any nesting of calls and callbacks: for *)
(* any set of communicators and of predefined keyvals, and with any number *)
(* of keyvals, of values and of calls within callbacks.                    *)
THEOREM KeyvalsAgreement == KeyvalsSpec => []KeyvalsAgree
<1>1. KeyvalsInit => KeyvalInv
  BY KeyvalsInitially
<1>2. KeyvalInv /\ [KeyvalsNext]_keyvalVars => KeyvalInv'
  BY KeyvalsStep
<1>3. KeyvalInv => KeyvalsAgree
  BY KeyvalsAgreeNow
<1> QED
  BY <1>1, <1>2, <1>3, PTL DEF KeyvalsSpec

(* Every attribute value that a program sets is deleted once, with its own *)
(* keyval's callback, or is still attached at one place; and a freed       *)
(* communicator leaves none behind.  For the same constants.               *)
THEOREM ValuesDeletedOnce == KeyvalsSpec => []DeletedOnce
<1>1. KeyvalsInit => KeyvalInv
  BY KeyvalsInitially
<1>2. KeyvalInv /\ [KeyvalsNext]_keyvalVars => KeyvalInv'
  BY KeyvalsStep
<1>3. KeyvalInv => DeletedOnce
  BY DeletedOnceNow
<1> QED
  BY <1>1, <1>2, <1>3, PTL DEF KeyvalsSpec
=============================================================================
