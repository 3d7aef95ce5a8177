-------------------------- MODULE DatatypesProofs --------------------------
(* Datatypes, for any number of datatypes, of requests, of members of a    *)
(* struct and of restarts: a datatype is kept as long as the program, a    *)
(* pending call or another datatype needs it, and no longer, and a restart *)
(* finds all it needs in an order in which it can be remade.               *)
EXTENDS Datatypes, TLAPS, FiniteSetTheorems, WellFoundedInduction

(* Zenon proves the leaves that name no prover; SMT those with arithmetic. *)
USE Zenon

-----------------------------------------------------------------------------
(* Induction over the numbers, with the property as a set.                 *)

LEMMA Least ==
  ASSUME NEW T, T \subseteq Nat, T # {}
  PROVE  \E m \in T : \A n \in T : m <= n
<1> DEFINE R == OpToRel(<, Nat)
<1>1. IsWellFoundedOn(R, Nat)
  BY NatLessThanWellFounded, Zenon
<1>2. \A x, y \in Nat : x < y => <<x, y>> \in R
  BY SMT DEF OpToRel
<1> HIDE DEF R
<1>3. PICK m \in T : \A n \in T : ~ (<<n, m>> \in R)
  BY <1>1, WFMin, Zenon
<1>4. ASSUME NEW n \in T PROVE m <= n
  <2>1. n \in Nat /\ m \in Nat
    OBVIOUS
  <2>2. ~(n < m)
    BY <1>2, <1>3, <2>1, Zenon
  <2> QED
    BY <2>1, <2>2, SMT
<1> QED
  BY <1>4, Zenon

LEMMA NatSetInduction ==
  ASSUME NEW P, 0 \in P, \A n \in Nat : n \in P => n + 1 \in P
  PROVE  Nat \subseteq P
<1> SUFFICES ASSUME NEW k \in Nat, k \notin P PROVE FALSE
  OBVIOUS
<1> DEFINE T == {n \in Nat : n \notin P}
<1>1. PICK m \in T : \A n \in T : m <= n
  <2> T \subseteq Nat /\ T # {}
    OBVIOUS
  <2> HIDE DEF T
  <2> QED BY Least, Zenon
<1>2. m # 0 /\ m \in Nat /\ m \notin P
  OBVIOUS
<1>3. m - 1 \in Nat /\ m - 1 + 1 = m /\ ~(m <= m - 1)
  BY <1>2, SMT
<1>4. m - 1 \in P
  BY <1>1, <1>3, Zenon
<1> QED
  BY <1>2, <1>3, <1>4

-----------------------------------------------------------------------------
(* Counting the uses of a datatype.                                        *)

(* The datatypes T have each at most MaxStruct old types.                  *)
Made(from, T) ==
  /\ from \in [Types -> Seq(0 .. MaxTypes)] /\ T \subseteq Types
  /\ \A u \in T : Len(from[u]) <= MaxStruct

Places(from, t, T) ==
  {p \in T \X (1 .. MaxStruct) : p[2] \in DOMAIN from[p[1]] /\ from[p[1]][p[2]] = t}

LEMMA UsesFinite ==
  ASSUME NEW from, NEW t, NEW T, T \subseteq Types
  PROVE  /\ IsFiniteSet(Places(from, t, T)) /\ UsesIn(from, t, T) \in Nat
         /\ UsesIn(from, t, T) = Cardinality(Places(from, t, T))
<1>1. UsesIn(from, t, T) = Cardinality(Places(from, t, T))
  BY DEF UsesIn, Places
<1>2. IsFiniteSet(T \X (1 .. MaxStruct))
  <2>1. 0 \in Int /\ 1 \in Int /\ MaxTypes \in Int /\ MaxStruct \in Int
    BY TypeConstants, SMT
  <2>2. IsFiniteSet(Types) /\ IsFiniteSet(1 .. MaxStruct)
    BY <2>1, FS_Interval DEF Types
  <2>3. IsFiniteSet(T)
    BY <2>2, FS_Subset
  <2> QED  BY <2>2, <2>3, FS_Product
<1>3. Places(from, t, T) \in SUBSET (T \X (1 .. MaxStruct))
  BY DEF Places
<1>4. IsFiniteSet(Places(from, t, T))
  BY <1>2, <1>3, FS_Subset
<1> QED
  BY <1>1, <1>4, FS_CardinalityType

LEMMA Disjoint ==
  ASSUME NEW S, NEW T, IsFiniteSet(S), IsFiniteSet(T), S \cap T = {}
  PROVE  Cardinality(S \cup T) = Cardinality(S) + Cardinality(T)
<1>1. Cardinality(S \cup T) = Cardinality(S) + Cardinality(T) - Cardinality(S \cap T)
  BY FS_Union
<1>2. Cardinality(S \cap T) = 0 /\ Cardinality(S) \in Nat /\ Cardinality(T) \in Nat
  BY FS_EmptySet, FS_CardinalityType
<1> QED
  BY <1>1, <1>2, SMT

AddUp(from, t, A, B) == UsesIn(from, t, A \cup B) = UsesIn(from, t, A) + UsesIn(from, t, B)
LEMMA UsesSplit ==
  ASSUME NEW from, NEW t, NEW A, NEW B, A \subseteq Types, B \subseteq Types, A \cap B = {}
  PROVE  AddUp(from, t, A, B)
<1>1. /\ IsFiniteSet(Places(from, t, A)) /\ UsesIn(from, t, A) = Cardinality(Places(from, t, A))
      /\ UsesIn(from, t, A) \in Nat
  BY UsesFinite
<1>2. /\ IsFiniteSet(Places(from, t, B)) /\ UsesIn(from, t, B) = Cardinality(Places(from, t, B))
      /\ UsesIn(from, t, B) \in Nat
  BY UsesFinite
<1>3. UsesIn(from, t, A \cup B) = Cardinality(Places(from, t, A \cup B))
  <2>1. A \cup B \subseteq Types
    OBVIOUS
  <2> QED  BY <2>1, UsesFinite
<1>4. Places(from, t, A \cup B) = Places(from, t, A) \cup Places(from, t, B)
  BY SMT DEF Places
<1>5. Places(from, t, A) \cap Places(from, t, B) = {}
  BY SMT DEF Places
<1>6. Cardinality(Places(from, t, A) \cup Places(from, t, B))
        = Cardinality(Places(from, t, A)) + Cardinality(Places(from, t, B))
  BY <1>1, <1>2, <1>5, Disjoint
<1> QED
  BY <1>1, <1>2, <1>3, <1>4, <1>6 DEF AddUp

(* The uses by one datatype.                                               *)
LEMMA UsesByOne ==
  ASSUME NEW from, NEW t, NEW w \in Types, Made(from, {w})
  PROVE  UsesIn(from, t, {w}) = Count(t, from[w]) /\ Count(t, from[w]) \in Nat
<1> DEFINE S == {i \in DOMAIN from[w] : from[w][i] = t}
           T == Places(from, t, {w})
<1>1. from[w] \in Seq(0 .. MaxTypes) /\ Len(from[w]) <= MaxStruct
  BY DEF Made
<1>2. DOMAIN from[w] = 1 .. Len(from[w]) /\ Len(from[w]) \in Nat
  BY <1>1, SMT
<1>3. \A i \in DOMAIN from[w] : i \in 1 .. MaxStruct
  BY <1>1, <1>2, TypeConstants, SMT
<1>4. PICK f : f = [i \in S |-> <<w, i>>]
  OBVIOUS
<1>5. f \in Bijection(S, T)
  <2>1. f \in [S -> T]
    BY <1>3, <1>4, SMT DEF Places
  <2>2. \A i, j \in S : f[i] = f[j] => i = j
    BY <1>4, SMT
  <2>3. \A p \in T : \E i \in S : f[i] = p
    BY <1>4, SMT DEF Places
  <2> QED  BY <2>1, <2>2, <2>3 DEF Bijection, Injection, Surjection, IsInjective
<1>6. IsFiniteSet(S)
  <2>1. 1 \in Int /\ Len(from[w]) \in Int
    BY <1>2, SMT
  <2>2. IsFiniteSet(DOMAIN from[w])
    BY <1>2, <2>1, FS_Interval
  <2> QED  BY <2>2, FS_Subset
<1>7. ExistsBijection(S, T)
  BY <1>5 DEF ExistsBijection
<1>8. Cardinality(T) = Cardinality(S) /\ Cardinality(S) \in Nat
  BY <1>6, <1>7, FS_Bijection, FS_CardinalityType
<1>9. UsesIn(from, t, {w}) = Cardinality(T)
  BY UsesFinite
<1> QED
  BY <1>8, <1>9 DEF Count

LEMMA UsesNone ==
  ASSUME NEW from, NEW t, NEW T, Made(from, T)
  PROVE  UsesIn(from, t, T) = 0 <=> \A u \in T : \A i \in DOMAIN from[u] : from[u][i] # t
<1>1. /\ IsFiniteSet(Places(from, t, T)) /\ UsesIn(from, t, T) = Cardinality(Places(from, t, T))
  BY UsesFinite DEF Made
<1>2. UsesIn(from, t, T) = 0 <=> Places(from, t, T) = {}
  BY <1>1, FS_EmptySet
<1>3. \A u \in T : \A i \in DOMAIN from[u] : i \in 1 .. MaxStruct
  BY TypeConstants, SMT DEF Made
<1>4. Places(from, t, T) = {} <=> \A u \in T : \A i \in DOMAIN from[u] : from[u][i] # t
  <2>1. ASSUME Places(from, t, T) = {}, NEW u \in T, NEW i \in DOMAIN from[u], from[u][i] = t
        PROVE  FALSE
    <3>1. i \in 1 .. MaxStruct
      BY <1>3
    <3>2. <<u, i>> \in Places(from, t, T)
      BY <2>1, <3>1, SMT DEF Places
    <3> QED  BY <2>1, <3>2
  <2>2. ASSUME \A u \in T : \A i \in DOMAIN from[u] : from[u][i] # t,
               NEW p \in Places(from, t, T)
        PROVE  FALSE
    <3>1. p[1] \in T /\ p[2] \in DOMAIN from[p[1]] /\ from[p[1]][p[2]] = t
      BY SMT DEF Places
    <3> QED  BY <2>2, <3>1
  <2> QED  BY <2>1, <2>2
<1> QED
  BY <1>2, <1>4

(* Another table in which the same datatypes are made in the same way.     *)
LEMMA UsesSame ==
  ASSUME NEW from, NEW to, NEW t, NEW T, \A u \in T : from[u] = to[u]
  PROVE  UsesIn(from, t, T) = UsesIn(to, t, T)
<1>1. Places(from, t, T) = Places(to, t, T)
  BY SMT DEF Places
<1> QED
  BY <1>1 DEF UsesIn, Places

-----------------------------------------------------------------------------
(* release_datatype.                                                       *)

In(x, S) == IF x \in S THEN 1 ELSE 0

(* A table in which the references are right, if H hold one each.          *)
Counted(H) ==
  /\ Made(olds, typeTable) /\ refs \in [Types -> Nat]
  /\ \A t \in typeTable : \A i \in DOMAIN olds[t] : olds[t][i] < t
  /\ \A t \in typeTable : refs[t] = UsesIn(olds, t, typeTable) + In(t, H)

(* The pass downwards has come to the datatype b: it has dropped all       *)
(* references to newer ones that are to be dropped, and knows those to     *)
(* the others.                                                             *)
ReleasedTo(s, b, gone, H) ==
  /\ s.refs \in [Types -> Nat] /\ s.drops \in [Types -> Nat] /\ s.table \subseteq typeTable
  /\ \A u \in typeTable : u <= b => u \in s.table
  /\ \A u \in Types : u <= b =>
       /\ s.refs[u] = refs[u]
       /\ s.drops[u] = In(u, gone) + UsesIn(olds, u, typeTable \ s.table)
  /\ \A u \in s.table : u > b => s.refs[u] = UsesIn(olds, u, s.table) + In(u, H \ gone)
  /\ \A u \in typeTable \ s.table : UsesIn(olds, u, s.table) = 0 /\ u \notin H \ gone

(* Before the step at t: what is left of its references.                   *)
Remain(s, t, S) ==
  /\ s.refs[t] \in Nat /\ s.drops[t] \in Nat /\ UsesIn(olds, t, s.table) \in Nat
  /\ In(t, S) \in {0, 1} /\ (In(t, S) = 0 <=> t \notin S)
  /\ s.refs[t] - s.drops[t] = UsesIn(olds, t, s.table) + In(t, S)
  /\ s.drops[t] <= s.refs[t]

LEMMA LeftOf ==
  ASSUME NEW H, NEW gone, Counted(H), gone \subseteq H, NEW t \in typeTable,
         NEW s, ReleasedTo(s, t, gone, H)
  PROVE  Remain(s, t, H \ gone)
<1>1. typeTable \subseteq Types /\ t \in Types
  BY DEF Counted, Made
<1>2. t \in Nat /\ t <= t
  BY <1>1, TypeConstants, SMT DEF Types
<1>3. PICK A, B : A = s.table /\ B = typeTable \ s.table
  OBVIOUS
<1>4. A \cup B = typeTable /\ A \cap B = {} /\ A \subseteq Types /\ B \subseteq Types
  BY <1>1, <1>3 DEF ReleasedTo
<1>5. UsesIn(olds, t, typeTable) = UsesIn(olds, t, A) + UsesIn(olds, t, B)
  <2>1. UsesIn(olds, t, A \cup B) = UsesIn(olds, t, A) + UsesIn(olds, t, B)
    <3>1. A \cap B = {} /\ A \subseteq Types /\ B \subseteq Types
      BY <1>4
    <3>2. AddUp(olds, t, A, B)
      BY <3>1, UsesSplit
    <3> QED  BY <3>2 DEF AddUp
  <2> QED  BY <1>4, <2>1
<1>6. UsesIn(olds, t, A) \in Nat /\ UsesIn(olds, t, B) \in Nat
  BY <1>4, UsesFinite
<1>7. /\ s.refs[t] = refs[t] /\ s.drops[t] = In(t, gone) + UsesIn(olds, t, B)
      /\ refs[t] = UsesIn(olds, t, typeTable) + In(t, H)
  BY <1>1, <1>2, <1>3 DEF ReleasedTo, Counted
<1>8. /\ In(t, gone) \in {0, 1} /\ In(t, H) \in {0, 1} /\ In(t, H \ gone) \in {0, 1}
      /\ In(t, H) = In(t, gone) + In(t, H \ gone)
      /\ (In(t, H \ gone) = 0 <=> t \notin H \ gone)
  BY SMT DEF In
<1>9. UsesIn(olds, t, s.table) = UsesIn(olds, t, A)
  BY <1>3
<1> QED
  BY <1>5, <1>6, <1>7, <1>8, <1>9, SMT DEF Remain

(* A datatype whose references go to zero leaves the table.                *)
LEMMA FreeStep ==
  ASSUME NEW H, NEW gone, Counted(H), gone \subseteq H, NEW t \in typeTable,
         NEW s, ReleasedTo(s, t, gone, H), t \in s.table, ~(s.refs[t] > s.drops[t])
  PROVE  ReleasedTo(FreeDatatype(s, t), t - 1, gone, H)
<1>1. typeTable \subseteq Types /\ t \in Types /\ Types \subseteq Nat
  BY TypeConstants, SMT DEF Counted, Made, Types
<1>2. PICK new : new = FreeDatatype(s, t)
  OBVIOUS
<1>3. /\ s.refs \in [Types -> Nat] /\ s.drops \in [Types -> Nat] /\ s.table \subseteq typeTable
      /\ \A u \in typeTable : u <= t => u \in s.table
      /\ \A u \in Types : u <= t =>
           /\ s.refs[u] = refs[u]
           /\ s.drops[u] = In(u, gone) + UsesIn(olds, u, typeTable \ s.table)
      /\ \A u \in s.table : u > t => s.refs[u] = UsesIn(olds, u, s.table) + In(u, H \ gone)
      /\ \A u \in typeTable \ s.table : UsesIn(olds, u, s.table) = 0 /\ u \notin H \ gone
  BY DEF ReleasedTo
<1>4. UsesIn(olds, t, s.table) = 0 /\ t \notin H \ gone
  <2>1. /\ s.refs[t] \in Nat /\ s.drops[t] \in Nat /\ UsesIn(olds, t, s.table) \in Nat
        /\ In(t, H \ gone) \in {0, 1} /\ (In(t, H \ gone) = 0 <=> t \notin H \ gone)
        /\ s.refs[t] - s.drops[t] = UsesIn(olds, t, s.table) + In(t, H \ gone)
        /\ s.drops[t] <= s.refs[t]
    BY LeftOf DEF Remain
  <2>2. UsesIn(olds, t, s.table) = 0 /\ In(t, H \ gone) = 0
    BY <2>1, SMT
  <2> QED  BY <2>1, <2>2
<1>5. Made(olds, {t}) /\ olds \in [Types -> Seq(0 .. MaxTypes)]
  BY <1>1 DEF Counted, Made
<1>6. \A u : UsesIn(olds, u, {t}) = Count(u, olds[t]) /\ Count(u, olds[t]) \in Nat
  BY <1>1, <1>5, UsesByOne
<1>7. /\ new.refs = [s.refs EXCEPT ![t] = 0] /\ new.table = s.table \ {t}
      /\ new.drops = [u \in Types |-> s.drops[u] + Count(u, olds[t])]
  BY <1>2 DEF FreeDatatype
<1>8. PICK A, B : A = s.table \ {t} /\ B = typeTable \ s.table
  OBVIOUS
<1>9. /\ s.table = A \cup {t} /\ A \cap {t} = {} /\ typeTable \ A = B \cup {t} /\ B \cap {t} = {}
      /\ A \subseteq Types /\ B \subseteq Types /\ {t} \subseteq Types
  BY <1>1, <1>3, <1>8
<1>10. ASSUME NEW u
       PROVE  /\ UsesIn(olds, u, s.table) = UsesIn(olds, u, A) + Count(u, olds[t])
              /\ UsesIn(olds, u, typeTable \ A) = UsesIn(olds, u, B) + Count(u, olds[t])
              /\ UsesIn(olds, u, A) \in Nat /\ UsesIn(olds, u, B) \in Nat
  <2>0. /\ A \cap {t} = {} /\ B \cap {t} = {}
        /\ A \subseteq Types /\ B \subseteq Types /\ {t} \subseteq Types
    BY <1>9
  <2>1. AddUp(olds, u, A, {t}) /\ AddUp(olds, u, B, {t})
    BY <2>0, UsesSplit
  <2>2. /\ UsesIn(olds, u, A \cup {t}) = UsesIn(olds, u, A) + UsesIn(olds, u, {t})
        /\ UsesIn(olds, u, B \cup {t}) = UsesIn(olds, u, B) + UsesIn(olds, u, {t})
    BY <2>1 DEF AddUp
  <2>3. UsesIn(olds, u, A) \in Nat /\ UsesIn(olds, u, B) \in Nat
    BY <1>9, UsesFinite
  <2> QED  BY <1>6, <1>9, <2>2, <2>3
<1>11. new.refs \in [Types -> Nat] /\ new.drops \in [Types -> Nat] /\ new.table \subseteq typeTable
  <2>1. 0 \in Nat
    BY SMT
  <2>2. \A u \in Types : s.drops[u] + Count(u, olds[t]) \in Nat
    <3>1. \A x, y \in Nat : x + y \in Nat
      BY SMT
    <3> QED  BY <1>3, <1>6, <3>1
  <2>3. new.refs \in [Types -> Nat]
    BY <1>3, <1>7, <2>1
  <2>4. new.drops \in [Types -> Nat]
    BY <1>7, <2>2
  <2> QED  BY <1>3, <1>7, <2>3, <2>4
<1>12. ASSUME NEW u \in typeTable, u <= t - 1  PROVE u \in new.table
  <2>1. u <= t /\ u # t
    BY <1>1, <1>12, SMT
  <2> QED  BY <1>3, <1>7, <2>1
<1>13. ASSUME NEW u \in Types, u <= t - 1
       PROVE  /\ new.refs[u] = refs[u]
              /\ new.drops[u] = In(u, gone) + UsesIn(olds, u, typeTable \ new.table)
  <2>1. u <= t /\ u # t
    BY <1>1, <1>13, SMT
  <2>2. new.refs[u] = refs[u]
    BY <1>3, <1>7, <2>1
  <2>3. /\ s.drops[u] = In(u, gone) + UsesIn(olds, u, B)
        /\ new.drops[u] = s.drops[u] + Count(u, olds[t])
    BY <1>3, <1>7, <1>8, <2>1
  <2>4. In(u, gone) \in Nat
    BY SMT DEF In
  <2>5. Count(u, olds[t]) \in Nat
    BY <1>6
  <2>6. new.drops[u] = In(u, gone) + UsesIn(olds, u, typeTable \ A)
    <3>1. /\ UsesIn(olds, u, typeTable \ A) = UsesIn(olds, u, B) + Count(u, olds[t])
          /\ UsesIn(olds, u, B) \in Nat
      BY <1>10
    <3> QED  BY <2>3, <2>4, <2>5, <3>1, SMT
  <2> QED  BY <1>7, <1>8, <2>2, <2>6
<1>14. ASSUME NEW u \in new.table, u > t - 1
       PROVE  new.refs[u] = UsesIn(olds, u, new.table) + In(u, H \ gone)
  <2>1. u \in s.table /\ u # t /\ u \in Types
    BY <1>1, <1>3, <1>7
  <2>2. u > t
    BY <1>1, <1>14, <2>1, SMT
  <2>3. new.refs[u] = UsesIn(olds, u, s.table) + In(u, H \ gone)
    BY <1>3, <1>7, <2>1, <2>2
  <2>4. Count(u, olds[t]) = 0
    <3>1. \A i \in DOMAIN olds[t] : olds[t][i] # u
      <4>1. ASSUME NEW i \in DOMAIN olds[t]  PROVE olds[t][i] # u
        <5>1. olds[t][i] < t
          BY DEF Counted
        <5>2. olds[t][i] \in Nat
          <6>1. olds[t] \in Seq(0 .. MaxTypes)
            BY <1>1, <1>5
          <6> QED  BY <6>1, TypeConstants, SMT
        <5> QED  BY <1>1, <2>1, <2>2, <5>1, <5>2, SMT
      <4> QED  BY <4>1
    <3>2. UsesIn(olds, u, {t}) = 0
      BY <1>5, <3>1, UsesNone
    <3> QED  BY <1>6, <3>2
  <2>5. UsesIn(olds, u, s.table) = UsesIn(olds, u, A)
    BY <1>10, <2>4, SMT
  <2> QED  BY <1>7, <1>8, <2>3, <2>5
<1>15. ASSUME NEW u \in typeTable \ new.table
       PROVE  UsesIn(olds, u, new.table) = 0 /\ u \notin H \ gone
  <2>1. UsesIn(olds, u, s.table) = 0 /\ u \notin H \ gone
    BY <1>3, <1>4, <1>7
  <2>2. Count(u, olds[t]) \in Nat
    BY <1>6
  <2>3. UsesIn(olds, u, A) = 0
    BY <1>10, <2>1, <2>2, SMT
  <2> QED  BY <1>7, <1>8, <2>1, <2>3
<1>16. ReleasedTo(new, t - 1, gone, H)
  BY <1>11, <1>12, <1>13, <1>14, <1>15 DEF ReleasedTo
<1> QED
  BY <1>2, <1>16

(* The step at t.                                                          *)
LEMMA ReleaseOne ==
  ASSUME NEW H, NEW gone, Counted(H), gone \subseteq H, NEW t \in Types,
         NEW s, ReleasedTo(s, t, gone, H)
  PROVE  ReleasedTo(ReleaseStep(s, t), t - 1, gone, H)
<1>1. typeTable \subseteq Types /\ Types \subseteq Nat
  BY TypeConstants, SMT DEF Counted, Made, Types
<1>2. /\ s.refs \in [Types -> Nat] /\ s.drops \in [Types -> Nat] /\ s.table \subseteq typeTable
      /\ \A u \in typeTable : u <= t => u \in s.table
      /\ \A u \in Types : u <= t =>
           /\ s.refs[u] = refs[u]
           /\ s.drops[u] = In(u, gone) + UsesIn(olds, u, typeTable \ s.table)
      /\ \A u \in s.table : u > t => s.refs[u] = UsesIn(olds, u, s.table) + In(u, H \ gone)
      /\ \A u \in typeTable \ s.table : UsesIn(olds, u, s.table) = 0 /\ u \notin H \ gone
  BY DEF ReleasedTo
<1>3. \A u \in Types : /\ (u <= t - 1) => (u <= t /\ u # t)
                       /\ (u > t - 1) => (u > t \/ u = t)
  BY <1>1, SMT
<1>4. CASE t \notin s.table
  <2>1. ReleaseStep(s, t) = s
    BY <1>4 DEF ReleaseStep
  <2>2. \A u \in s.table : u > t - 1 => u > t
    BY <1>1, <1>2, <1>3, <1>4
  <2>3. ReleasedTo(s, t - 1, gone, H)
    BY <1>1, <1>2, <1>3, <2>2 DEF ReleasedTo
  <2> QED  BY <2>1, <2>3
<1>5. CASE t \in s.table /\ s.drops[t] = 0
  <2>1. ReleaseStep(s, t) = s
    BY <1>5 DEF ReleaseStep
  <2>2. /\ s.refs[t] \in Nat /\ UsesIn(olds, t, s.table) \in Nat /\ In(t, H \ gone) \in {0, 1}
        /\ s.refs[t] - s.drops[t] = UsesIn(olds, t, s.table) + In(t, H \ gone)
    <3>1. t \in typeTable
      BY <1>2, <1>5
    <3>2. Remain(s, t, H \ gone)
      BY <3>1, LeftOf
    <3> QED  BY <3>2 DEF Remain
  <2>3. s.refs[t] = UsesIn(olds, t, s.table) + In(t, H \ gone)
    BY <1>5, <2>2, SMT
  <2>4. \A u \in s.table : u > t - 1 => s.refs[u] = UsesIn(olds, u, s.table) + In(u, H \ gone)
    BY <1>1, <1>2, <1>3, <2>3
  <2>5. ReleasedTo(s, t - 1, gone, H)
    BY <1>1, <1>2, <1>3, <2>4 DEF ReleasedTo
  <2> QED  BY <2>1, <2>5
<1>6. CASE t \in s.table /\ s.drops[t] # 0 /\ s.refs[t] > s.drops[t]
  <2>1. PICK new : new = ReleaseStep(s, t)
    OBVIOUS
  <2>2. /\ new.refs = [s.refs EXCEPT ![t] = s.refs[t] - s.drops[t]]
        /\ new.table = s.table /\ new.drops = s.drops
    BY <1>6, <2>1 DEF ReleaseStep
  <2>3. /\ s.refs[t] \in Nat /\ s.drops[t] \in Nat /\ s.drops[t] <= s.refs[t]
        /\ s.refs[t] - s.drops[t] = UsesIn(olds, t, s.table) + In(t, H \ gone)
    <3>1. t \in typeTable
      BY <1>2, <1>6
    <3>2. Remain(s, t, H \ gone)
      BY <3>1, LeftOf
    <3> QED  BY <3>2 DEF Remain
  <2>4. s.refs[t] - s.drops[t] \in Nat
    BY <2>3, SMT
  <2>5. new.refs \in [Types -> Nat] /\ new.refs[t] = UsesIn(olds, t, s.table) + In(t, H \ gone)
    BY <1>2, <2>2, <2>3, <2>4
  <2>6. \A u \in Types : u # t => new.refs[u] = s.refs[u]
    BY <1>2, <2>2
  <2>7. \A u \in new.table : u > t - 1 =>
          new.refs[u] = UsesIn(olds, u, new.table) + In(u, H \ gone)
    <3>1. ASSUME NEW u \in s.table, u > t - 1, u # t
          PROVE  new.refs[u] = UsesIn(olds, u, s.table) + In(u, H \ gone)
      BY <1>1, <1>2, <1>3, <2>6, <3>1
    <3> QED  BY <2>2, <2>5, <3>1
  <2>8. \A u \in Types : u <= t - 1 =>
          /\ new.refs[u] = refs[u]
          /\ new.drops[u] = In(u, gone) + UsesIn(olds, u, typeTable \ new.table)
    BY <1>2, <1>3, <2>2, <2>6
  <2>9. ReleasedTo(new, t - 1, gone, H)
    BY <1>1, <1>2, <1>3, <2>2, <2>5, <2>7, <2>8 DEF ReleasedTo
  <2> QED  BY <2>1, <2>9
<1>7. CASE t \in s.table /\ s.drops[t] # 0 /\ ~(s.refs[t] > s.drops[t])
  <2>1. ReleaseStep(s, t) = FreeDatatype(s, t)
    BY <1>7 DEF ReleaseStep
  <2>2. t \in typeTable
    BY <1>2, <1>7
  <2>3. ReleasedTo(FreeDatatype(s, t), t - 1, gone, H)
    BY <1>7, <2>2, FreeStep
  <2> QED  BY <2>1, <2>3
<1> QED
  BY <1>4, <1>5, <1>6, <1>7

LEMMA ReleaseAll ==
  ASSUME NEW H, NEW gone, Counted(H), gone \subseteq H
  PROVE  ReleasedTo(ReleaseTypes(gone), 0, gone, H)
<1> DEFINE first == [refs |-> refs, table |-> typeTable,
                     drops |-> [u \in Types |-> IF u \in gone THEN 1 ELSE 0]]
           Step(f, n) == IF n = 0 THEN first ELSE ReleaseStep(f[n - 1], MaxTypes + 1 - n)
           Is(f, n) == f = [i \in 0 .. n |-> Step(f, i)]
           P == {n \in Nat : \E f : Is(f, n)}
<1> HIDE DEF first
<1>1. 0 \in P
  <2>1. PICK f : f = [i \in 0 .. 0 |-> first]
    OBVIOUS
  <2>2. Is(f, 0) /\ 0 \in Nat
    BY <2>1, SMT
  <2> HIDE DEF Is
  <2> QED  BY <2>2
<1>2. ASSUME NEW n \in Nat, n \in P  PROVE n + 1 \in P
  <2>1. PICK f : Is(f, n)
    BY <1>2
  <2>2. PICK g : g = [i \in 0 .. n + 1 |-> IF i = n + 1 THEN Step(f, i) ELSE f[i]]
    OBVIOUS
  <2>3. ASSUME NEW i \in 0 .. n + 1  PROVE g[i] = Step(g, i)
    <3>1. i # n + 1 => i \in 0 .. n
      BY SMT
    <3>2. i # 0 => i - 1 \in 0 .. n /\ i - 1 \in 0 .. n + 1 /\ i - 1 # n + 1
      BY SMT
    <3>3. i # 0 => g[i - 1] = f[i - 1]
      BY <2>2, <3>2
    <3>4. Step(g, i) = Step(f, i)
      BY <3>3
    <3>5. i # n + 1 => f[i] = Step(f, i)
      BY <2>1, <3>1
    <3> QED  BY <2>2, <3>4, <3>5
  <2>4. g = [i \in 0 .. n + 1 |-> Step(g, i)]
    <3> HIDE DEF Step
    <3> QED  BY <2>2, <2>3
  <2>5. n + 1 \in Nat
    BY SMT
  <2> QED  BY <2>4, <2>5
<1>3. MaxTypes \in P
  BY <1>1, <1>2, NatSetInduction, TypeConstants
<1>4. PICK after : Is(after, MaxTypes) /\ ReleaseTypes(gone) = after[MaxTypes]
  BY <1>3 DEF ReleaseTypes, first
<1> HIDE DEF P
<1>5. after[0] = first
  BY <1>4, TypeConstants, SMT
<1>6. ASSUME NEW n \in Nat, n + 1 <= MaxTypes
      PROVE  after[n + 1] = ReleaseStep(after[n], MaxTypes - n)
  <2>1. n + 1 \in 0 .. MaxTypes /\ n + 1 # 0 /\ (n + 1) - 1 = n /\ MaxTypes + 1 - (n + 1) = MaxTypes - n
    BY <1>6, TypeConstants, SMT
  <2> QED  BY <1>4, <2>1
<1> HIDE DEF Is, Step
<1> DEFINE Q == {n \in Nat : n <= MaxTypes => ReleasedTo(after[n], MaxTypes - n, gone, H)}
<1>7. 0 \in Q
  <2>1. first.refs = refs /\ first.table = typeTable /\ first.drops = [u \in Types |-> In(u, gone)]
    BY DEF first, In
  <2>2. /\ refs \in [Types -> Nat] /\ olds \in [Types -> Seq(0 .. MaxTypes)]
        /\ typeTable \subseteq Types /\ Types \subseteq Nat
    BY TypeConstants, SMT DEF Counted, Made, Types
  <2>3. \A u : In(u, gone) \in Nat
    BY SMT DEF In
  <2>4. first.drops \in [Types -> Nat]
    BY <2>1, <2>3
  <2>5. ASSUME NEW u \in Types
        PROVE  /\ ~(u > MaxTypes)
               /\ first.drops[u] = In(u, gone) + UsesIn(olds, u, typeTable \ first.table)
    <3>1. ~(u > MaxTypes)
      BY TypeConstants, SMT DEF Types
    <3>2. Made(olds, {})
      BY <2>2 DEF Made
    <3>3. UsesIn(olds, u, {}) = 0
      BY <3>2, UsesNone
    <3>4. typeTable \ first.table = {}
      BY <2>1
    <3>5. In(u, gone) + 0 = In(u, gone)
      BY <2>3, SMT
    <3> QED  BY <2>1, <3>1, <3>3, <3>4, <3>5
  <2>6. ReleasedTo(first, MaxTypes, gone, H)
    BY <2>1, <2>2, <2>4, <2>5 DEF ReleasedTo
  <2>7. MaxTypes - 0 = MaxTypes /\ 0 \in Nat
    BY TypeConstants, SMT
  <2> QED  BY <1>5, <2>6, <2>7
<1>8. ASSUME NEW n \in Nat, n \in Q  PROVE n + 1 \in Q
  <2> SUFFICES ASSUME n + 1 <= MaxTypes
               PROVE  ReleasedTo(after[n + 1], MaxTypes - (n + 1), gone, H)
    BY SMT
  <2>1. /\ n <= MaxTypes /\ MaxTypes - n \in Types /\ MaxTypes - (n + 1) = MaxTypes - n - 1
    BY TypeConstants, SMT DEF Types
  <2>2. ReleasedTo(after[n], MaxTypes - n, gone, H)
    BY <1>8, <2>1
  <2>3. PICK t, a : t = MaxTypes - n /\ a = after[n]
    OBVIOUS
  <2>4. ReleasedTo(ReleaseStep(a, t), t - 1, gone, H)
    BY <2>1, <2>2, <2>3, ReleaseOne
  <2> QED  BY <1>6, <2>1, <2>3, <2>4
<1>9. MaxTypes \in Q
  <2> HIDE DEF Q
  <2> QED  BY <1>7, <1>8, NatSetInduction, TypeConstants
<1>10. MaxTypes <= MaxTypes /\ MaxTypes - MaxTypes = 0
  BY TypeConstants, SMT
<1> QED
  BY <1>4, <1>9, <1>10

(* What is left: exactly the datatypes that are still needed.              *)
Kept(done, H) ==
  /\ done.refs \in [Types -> Nat] /\ done.table \subseteq typeTable
  /\ \A u \in done.table : done.refs[u] = UsesIn(olds, u, done.table) + In(u, H)
  /\ \A u \in typeTable : u \in H => u \in done.table
  /\ \A u \in done.table : \A i \in DOMAIN olds[u] :
       olds[u][i] \in typeTable => olds[u][i] \in done.table

LEMMA Released ==
  ASSUME NEW H, NEW gone, Counted(H), gone \subseteq H
  PROVE  Kept(ReleaseTypes(gone), H \ gone)
<1>1. PICK s : s = ReleaseTypes(gone)
  OBVIOUS
<1>2. ReleasedTo(s, 0, gone, H)
  BY <1>1, ReleaseAll
<1>3. /\ s.refs \in [Types -> Nat] /\ s.table \subseteq typeTable
      /\ \A u \in s.table : u > 0 => s.refs[u] = UsesIn(olds, u, s.table) + In(u, H \ gone)
      /\ \A u \in typeTable \ s.table : UsesIn(olds, u, s.table) = 0 /\ u \notin H \ gone
  BY <1>2 DEF ReleasedTo
<1>4. \A u \in s.table : u > 0
  <2>1. \A u \in Types : u > 0
    BY TypeConstants, SMT DEF Types
  <2> QED  BY <1>3, <2>1 DEF Counted, Made
<1>5. Made(olds, s.table)
  BY <1>3 DEF Counted, Made
<1>6. ASSUME NEW u \in s.table, NEW i \in DOMAIN olds[u], olds[u][i] \in typeTable
      PROVE  olds[u][i] \in s.table
  <2>1. PICK t : t = olds[u][i]
    OBVIOUS
  <2>2. UsesIn(olds, t, s.table) = 0 => FALSE
    BY <1>5, <2>1, UsesNone
  <2> QED  BY <1>3, <1>6, <2>1, <2>2
<1>7. Kept(s, H \ gone)
  BY <1>3, <1>4, <1>6 DEF Kept
<1> QED
  BY <1>1, <1>7

-----------------------------------------------------------------------------
(* What each action keeps.                                                 *)

LEMMA CountedNow ==
  ASSUME DatatypeInv
  PROVE  /\ Counted(held \cup freed) /\ typeTable \subseteq Types
         /\ held \subseteq Types /\ freed \subseteq Types
<1>1. typeTable \subseteq Types
  BY TypeConstants, SMT DEF DatatypeInv, DatatypeTypes, Types
<1>2. Made(olds, typeTable)
  BY <1>1 DEF DatatypeInv, DatatypeTypes, OldsInv, Made
<1>3. \A t \in typeTable : refs[t] = UsesIn(olds, t, typeTable) + In(t, held \cup freed)
  BY DEF DatatypeInv, RefsRight, In
<1>4. Counted(held \cup freed)
  BY <1>2, <1>3 DEF DatatypeInv, DatatypeTypes, OldsInv, Counted
<1> QED
  BY <1>1, <1>4 DEF DatatypeInv, HeldInv

(* release_freed_datatypes, after the program has freed 'list' \ freed and *)
(* has the requests 'reqs': no pending call among them is new.             *)
LEMMA FreedInv ==
  ASSUME DatatypeInv, NEW list, NEW reqs, ReleaseFreed(list, reqs), request' = reqs,
         held' \cup list = held \cup freed, held' \cap list = {},
         reqs \in [Requests -> RequestRecords],
         \A q \in Requests : reqs[q].state = "pending" => reqs[q] = request[q],
         typesMade' = typesMade, typePhase' = typePhase
  PROVE  DatatypeInv'
<1> DEFINE H == held \cup freed
           gone == {t \in list : ~Uses(t, reqs)}
           left == {t \in list : Uses(t, reqs)}
<1>1. PICK done : done = ReleaseTypes(gone)
  OBVIOUS
<1>2. /\ freed' = left /\ refs' = done.refs /\ typeTable' = done.table
      /\ committed' = committed \cap done.table
      /\ olds' = [t \in Types |-> IF t \in done.table THEN olds[t] ELSE <<>>]
      /\ real' = [t \in Types |-> IF t \in done.table THEN real[t] ELSE "none"]
  BY <1>1 DEF ReleaseFreed
<1>3. Counted(H) /\ typeTable \subseteq Types /\ gone \subseteq H
  BY CountedNow
<1>4. H \ gone = held' \cup freed' /\ held' \cap freed' = {}
  BY <1>2
<1>5. Kept(done, held' \cup freed')
  <2> HIDE DEF H, gone
  <2>1. Kept(ReleaseTypes(gone), H \ gone)
    BY <1>3, Released
  <2> QED  BY <1>1, <1>4, <2>1
<1>6. /\ done.refs \in [Types -> Nat] /\ done.table \subseteq typeTable
      /\ \A u \in done.table :
           done.refs[u] = UsesIn(olds, u, done.table) + In(u, held' \cup freed')
      /\ \A u \in typeTable : u \in held' \cup freed' => u \in done.table
      /\ \A u \in done.table : \A i \in DOMAIN olds[u] :
           olds[u][i] \in typeTable => olds[u][i] \in done.table
  BY <1>5 DEF Kept
<1>7. \A u \in done.table : olds'[u] = olds[u] /\ real'[u] = real[u]
  BY <1>2, <1>3, <1>6
<1>8. HeldInv'
  BY <1>2, <1>4, <1>6 DEF DatatypeInv, HeldInv
<1>9. OldsInv'
  <2> SUFFICES ASSUME NEW t \in done.table
               PROVE  /\ Len(olds'[t]) <= MaxStruct
                      /\ \A i \in DOMAIN olds'[t] :
                           olds'[t][i] < t /\ olds'[t][i] \in typeTable' \cup {Predefined}
    BY <1>2 DEF OldsInv
  <2>1. olds'[t] = olds[t] /\ t \in typeTable
    BY <1>6, <1>7
  <2>2. /\ Len(olds[t]) <= MaxStruct
        /\ \A i \in DOMAIN olds[t] : olds[t][i] < t /\ olds[t][i] \in typeTable \cup {Predefined}
    BY <2>1 DEF DatatypeInv, OldsInv
  <2>3. \A i \in DOMAIN olds[t] : olds[t][i] \in typeTable' \cup {Predefined}
    BY <1>2, <1>6, <2>2
  <2> QED  BY <2>1, <2>2, <2>3
<1>10. PendingInv'
  <2> SUFFICES ASSUME NEW q \in Requests, reqs[q].state = "pending"
               PROVE  reqs[q].type \in (held' \cup freed') \cap committed'
    BY DEF PendingInv
  <2>1. reqs[q] = request[q]
    OBVIOUS
  <2>2. reqs[q].type \in (held \cup freed) \cap committed
    BY <2>1 DEF DatatypeInv, PendingInv
  <2>3. Uses(reqs[q].type, reqs)
    BY DEF Uses
  <2>4. reqs[q].type \in held' \cup freed' /\ reqs[q].type \in typeTable
    BY <1>2, <2>2, <2>3 DEF DatatypeInv, HeldInv
  <2> QED  BY <1>2, <1>6, <2>2, <2>4
<1>11. RemadeInv'
  <2> SUFFICES ASSUME NEW t \in done.table
               PROVE  /\ typePhase' = "run" => real'[t] # "none"
                      /\ t \in committed' /\ real'[t] # "none" => real'[t] = "committed"
    BY <1>2 DEF RemadeInv
  <2>1. t \in typeTable /\ real'[t] = real[t] /\ (t \in committed' => t \in committed)
    BY <1>2, <1>6, <1>7
  <2>2. /\ typePhase = "run" => real[t] # "none"
        /\ t \in committed /\ real[t] # "none" => real[t] = "committed"
    BY <2>1 DEF DatatypeInv, RemadeInv
  <2> QED  BY <2>1, <2>2
<1>12. RefsRight'
  <2>1. ASSUME NEW t \in done.table
        PROVE  refs'[t] = UsesIn(olds', t, typeTable') + IF t \in held' \cup freed' THEN 1 ELSE 0
    <3>1. PICK T, from, to : T = done.table /\ from = olds /\ to = olds'
      OBVIOUS
    <3>3. \A u \in T : from[u] = to[u]
      BY <1>7, <3>1
    <3>2. UsesIn(from, t, T) = UsesIn(to, t, T)
      BY <3>3, UsesSame, SMT
    <3> QED  BY <1>2, <1>6, <3>1, <3>2 DEF In
  <2>2. ASSUME NEW t \in freed'
        PROVE  \E q \in Requests : reqs[q].state # "none" /\ reqs[q].type = t
    <3>1. Uses(t, reqs)
      BY <1>2
    <3> QED  BY <3>1 DEF Uses
  <2> QED  BY <1>2, <2>1, <2>2 DEF RefsRight, UsesIn
<1>13. DatatypeTypes'
  <2>1. olds' \in [Types -> Seq(0 .. MaxTypes)]
    <3>1. <<>> \in Seq(0 .. MaxTypes)
      BY SMT
    <3> QED  BY <1>2, <3>1 DEF DatatypeInv, DatatypeTypes
  <2>2. real' \in [Types -> {"none", "made", "committed"}]
    BY <1>2 DEF DatatypeInv, DatatypeTypes
  <2> QED  BY <1>2, <1>4, <1>6, <2>1, <2>2 DEF DatatypeInv, DatatypeTypes
<1> QED
  BY <1>8, <1>9, <1>10, <1>11, <1>12, <1>13 DEF DatatypeInv

LEMMA FreeInv ==
  ASSUME DatatypeInv, NEW t \in Types, MPI_Type_free(t)
  PROVE  DatatypeInv'
<1>1. /\ held' = held \ {t} /\ t \in held /\ ReleaseFreed(freed \cup {t}, request)
      /\ request' = request /\ typesMade' = typesMade /\ typePhase' = typePhase
  BY DEF MPI_Type_free
<1>2. held \cap freed = {} /\ request \in [Requests -> RequestRecords]
  BY DEF DatatypeInv, DatatypeTypes
<1>3. PICK list : list = freed \cup {t}
  OBVIOUS
<1>4. held' \cup list = held \cup freed /\ held' \cap list = {}
  BY <1>1, <1>2, <1>3
<1> QED
  BY <1>1, <1>2, <1>3, <1>4, FreedInv

LEMMA WaitInv ==
  ASSUME DatatypeInv, NEW q \in Requests, MPI_Wait(q)
  PROVE  DatatypeInv'
<1>1. PICK reqs : reqs = [request EXCEPT ![q] = NoRequest]
  OBVIOUS
<1>2. /\ held' = held /\ ReleaseFreed(freed, reqs)
      /\ request' = reqs /\ typesMade' = typesMade /\ typePhase' = typePhase
  BY <1>1 DEF MPI_Wait, Cleared, LinkedAtRelease
<1>3. held \cap freed = {} /\ request \in [Requests -> RequestRecords]
  BY DEF DatatypeInv, DatatypeTypes
<1>4. NoRequest \in RequestRecords /\ NoRequest.state # "pending"
  BY TypeConstants, SMT DEF NoRequest, RequestRecords, Predefined
<1>5. /\ reqs \in [Requests -> RequestRecords]
      /\ \A p \in Requests : reqs[p].state = "pending" => reqs[p] = request[p]
  BY <1>1, <1>3, <1>4
<1>6. held' \cup freed = held \cup freed /\ held' \cap freed = {}
  BY <1>2, <1>3
<1> QED
  BY <1>2, <1>5, <1>6, FreedInv

LEMMA StartInv ==
  ASSUME DatatypeInv, NEW q \in Requests, NEW t \in Types, StartCall(q, t)
  PROVE  DatatypeInv'
<1>1. /\ request[q] = NoRequest /\ t \in held \cap committed
      /\ request' = [request EXCEPT ![q] = [state |-> "pending", type |-> t]]
      /\ UNCHANGED <<typesMade, olds, refs, typeTable, held, committed, freed, real, typePhase>>
  BY DEF StartCall
<1>2. /\ request \in [Requests -> RequestRecords]
      /\ [state |-> "pending", type |-> t] \in RequestRecords
  BY TypeConstants, SMT DEF DatatypeInv, DatatypeTypes, RequestRecords, Types
<1>3. /\ request' \in [Requests -> RequestRecords] /\ request'[q].type = t
      /\ request'[q].state = "pending" /\ \A p \in Requests : p # q => request'[p] = request[p]
  BY <1>1, <1>2
<1>4. request[q].state = "none"
  BY <1>1, SMT DEF NoRequest
<1>5. PendingInv'
  BY <1>1, <1>3 DEF DatatypeInv, PendingInv
<1>6. RefsRight'
  <2>1. \A u \in freed : \E p \in Requests : request'[p].state # "none" /\ request'[p].type = u
    <3> SUFFICES ASSUME NEW u \in freed
                 PROVE  \E p \in Requests : request'[p].state # "none" /\ request'[p].type = u
      OBVIOUS
    <3>1. PICK p \in Requests : request[p].state # "none" /\ request[p].type = u
      BY DEF DatatypeInv, RefsRight
    <3> QED  BY <1>3, <1>4, <3>1
  <2> QED  BY <1>1, <2>1, SMT DEF DatatypeInv, RefsRight, UsesIn
<1>7. DatatypeTypes' /\ OldsInv' /\ HeldInv' /\ RemadeInv'
  BY <1>1, <1>3 DEF DatatypeInv, DatatypeTypes, OldsInv, HeldInv, RemadeInv
<1> QED
  BY <1>5, <1>6, <1>7 DEF DatatypeInv

LEMMA DrainInv ==
  ASSUME DatatypeInv, NEW q \in Requests, DrainCompletes(q)
  PROVE  DatatypeInv'
<1>1. /\ request[q].state = "pending"
      /\ request' = [request EXCEPT ![q] = [state |-> "completed", type |-> request[q].type]]
      /\ UNCHANGED <<typesMade, olds, refs, typeTable, held, committed, freed, real, typePhase>>
  BY DEF DrainCompletes
<1>2. /\ request \in [Requests -> RequestRecords]
      /\ [state |-> "completed", type |-> request[q].type] \in RequestRecords
  BY SMT DEF DatatypeInv, DatatypeTypes, RequestRecords
<1>3. /\ request' \in [Requests -> RequestRecords] /\ request'[q].type = request[q].type
      /\ request'[q].state = "completed" /\ \A p \in Requests : p # q => request'[p] = request[p]
  BY <1>1, <1>2
<1>4. PendingInv'
  BY <1>1, <1>3 DEF DatatypeInv, PendingInv
<1>5. RefsRight'
  <2>1. \A u \in freed : \E p \in Requests : request'[p].state # "none" /\ request'[p].type = u
    <3> SUFFICES ASSUME NEW u \in freed
                 PROVE  \E p \in Requests : request'[p].state # "none" /\ request'[p].type = u
      OBVIOUS
    <3>1. PICK p \in Requests : request[p].state # "none" /\ request[p].type = u
      BY DEF DatatypeInv, RefsRight
    <3> QED  BY <1>3, <3>1
  <2> QED  BY <1>1, <2>1, SMT DEF DatatypeInv, RefsRight, UsesIn
<1>6. DatatypeTypes' /\ OldsInv' /\ HeldInv' /\ RemadeInv'
  BY <1>1, <1>3 DEF DatatypeInv, DatatypeTypes, OldsInv, HeldInv, RemadeInv
<1> QED
  BY <1>4, <1>5, <1>6 DEF DatatypeInv

(* The actions that only change what the lower half has, or the phase.     *)
LEMMA RealInv ==
  ASSUME DatatypeInv, real' \in [Types -> {"none", "made", "committed"}], RemadeInv',
         typePhase' \in {"run", "restart"},
         UNCHANGED <<typesMade, olds, refs, typeTable, held, committed, freed, request>>
  PROVE  DatatypeInv'
<1>1. DatatypeTypes' /\ OldsInv' /\ HeldInv' /\ PendingInv'
  BY DEF DatatypeInv, DatatypeTypes, OldsInv, HeldInv, PendingInv
<1>2. RefsRight'
  BY SMT DEF DatatypeInv, RefsRight, UsesIn
<1> QED
  BY <1>1, <1>2 DEF DatatypeInv

LEMMA RestartInv ==
  ASSUME DatatypeInv, RestartTypes
  PROVE  DatatypeInv'
<1>1. /\ real' = [t \in Types |-> "none"] /\ typePhase' = "restart"
      /\ UNCHANGED <<typesMade, olds, refs, typeTable, held, committed, freed, request>>
  BY DEF RestartTypes
<1>2. RemadeInv'
  BY <1>1, CountedNow DEF RemadeInv
<1> QED
  BY <1>1, <1>2, RealInv

LEMMA ReconstructInv ==
  ASSUME DatatypeInv, NEW t \in Types, ReconstructDatatype(t)
  PROVE  DatatypeInv'
<1>1. /\ real' = [real EXCEPT ![t] = IF t \in committed THEN "committed" ELSE "made"]
      /\ typePhase = "restart" /\ typePhase' = "restart"
      /\ UNCHANGED <<typesMade, olds, refs, typeTable, held, committed, freed, request>>
  BY DEF ReconstructDatatype
<1>2. real \in [Types -> {"none", "made", "committed"}]
  BY DEF DatatypeInv, DatatypeTypes
<1>3. /\ real' \in [Types -> {"none", "made", "committed"}]
      /\ real'[t] = IF t \in committed THEN "committed" ELSE "made"
      /\ \A u \in Types : u # t => real'[u] = real[u]
  BY <1>1, <1>2
<1>4. RemadeInv'
  BY <1>1, <1>3, CountedNow DEF DatatypeInv, RemadeInv
<1> QED
  BY <1>1, <1>3, <1>4, RealInv

LEMMA ReplayInv ==
  ASSUME DatatypeInv, ReplayP2p
  PROVE  DatatypeInv'
<1>1. /\ ToRemake = {} /\ typePhase' = "run"
      /\ UNCHANGED <<typesMade, olds, refs, typeTable, held, committed, freed, request, real>>
  BY DEF ReplayP2p
<1>2. RemadeInv'
  BY <1>1 DEF DatatypeInv, RemadeInv, ToRemake
<1>3. real' \in [Types -> {"none", "made", "committed"}]
  BY <1>1 DEF DatatypeInv, DatatypeTypes
<1> QED
  BY <1>1, <1>2, <1>3, RealInv

LEMMA SeqMember ==
  ASSUME NEW S, NEW seq \in Seq(S), NEW i \in DOMAIN seq
  PROVE  seq[i] \in S
BY SMT

(* What a constructor is given.                                            *)
LEMMA NewFacts ==
  ASSUME DatatypeInv, NEW new \in NewTypes
  PROVE  /\ new \in Seq(0 .. MaxTypes) /\ Len(new) <= MaxStruct
         /\ \A i \in DOMAIN new : new[i] \in held \cup {Predefined} /\ new[i] < typesMade + 1
<1>1. PICK n \in 0 .. MaxStruct : new \in [1 .. n -> held \cup {Predefined}]
  BY DEF NewTypes
<1>2. held \cup {Predefined} \subseteq 0 .. typesMade /\ typesMade \in 0 .. MaxTypes
  <2>1. typesMade \in 0 .. MaxTypes /\ typeTable \subseteq 1 .. typesMade /\ held \subseteq typeTable
    BY DEF DatatypeInv, DatatypeTypes, HeldInv
  <2> QED  BY <2>1, TypeConstants, SMT DEF Predefined
<1>3. \A x \in 0 .. typesMade : x < typesMade + 1 /\ x \in 0 .. MaxTypes
  BY <1>2, TypeConstants, SMT
<1>4. n \in Nat /\ n <= MaxStruct
  BY <1>1, TypeConstants, SMT
<1>5. new \in [1 .. n -> 0 .. MaxTypes]
  BY <1>1, <1>2, <1>3
<1>6. new \in Seq(0 .. MaxTypes) /\ Len(new) = n
  <2>1. PICK S : S = 0 .. MaxTypes
    OBVIOUS
  <2>2. new \in [1 .. n -> S]
    BY <1>5, <2>1
  <2>3. new \in Seq(S) /\ Len(new) = n
    BY <1>4, <2>2, SMT
  <2> QED  BY <2>1, <2>3
<1>7. \A i \in DOMAIN new : new[i] \in held \cup {Predefined}
  BY <1>1
<1> QED
  BY <1>2, <1>3, <1>4, <1>6, <1>7

(* The references after a constructor.                                     *)
LEMMA NewRefs ==
  ASSUME DatatypeInv, NEW new \in NewTypes, NewVirtDatatype(new), NEW t \in typeTable'
  PROVE  refs'[t] = UsesIn(olds', t, typeTable') + IF t \in held' \cup freed' THEN 1 ELSE 0
<1> DEFINE t0 == typesMade + 1
<1>1. /\ olds' = [olds EXCEPT ![t0] = new] /\ typeTable' = typeTable \cup {t0}
      /\ refs' = [u \in Types |-> IF u = t0 THEN 1
                    ELSE IF u \in typeTable THEN refs[u] + EachUse(u, new) ELSE refs[u]]
      /\ held' = held \cup {t0} /\ freed' = freed
  BY DEF NewVirtDatatype
<1>2. /\ t0 \in Types /\ t0 \notin typeTable /\ \A u \in typeTable : u < t0 /\ u \in Nat
      /\ t0 \in Nat
  BY TypeConstants, SMT DEF DatatypeInv, DatatypeTypes, NewVirtDatatype, Types
<1>3. typeTable \subseteq Types /\ Counted(held \cup freed)
  BY CountedNow
<1> HIDE DEF t0
<1>4. PICK to, T : to = olds' /\ T = typeTable'
  OBVIOUS
<1>5. /\ to \in [Types -> Seq(0 .. MaxTypes)] /\ to[t0] = new
      /\ \A u \in typeTable : to[u] = olds[u]
  BY <1>1, <1>2, <1>3, <1>4, NewFacts DEF DatatypeInv, DatatypeTypes
<1>6. T = typeTable \cup {t0} /\ T \subseteq Types
  BY <1>1, <1>2, <1>3, <1>4
<1>7. Made(to, T) /\ Made(to, {t0})
  BY <1>2, <1>3, <1>5, <1>6, NewFacts DEF Made, Counted
<1>8. CASE t = t0
  <2>1. \A u \in T : \A i \in DOMAIN to[u] : to[u][i] # t0
    <3> SUFFICES ASSUME NEW u \in T, NEW i \in DOMAIN to[u]  PROVE to[u][i] # t0
      OBVIOUS
    <3>1. CASE u = t0
      <4>1. new[i] < t0
        BY <1>5, <3>1, NewFacts DEF t0
      <4> QED  BY <1>2, <1>5, <3>1, <4>1, SMT
    <3>2. CASE u \in typeTable
      <4>1. to[u] = olds[u] /\ olds[u][i] < u /\ u < t0 /\ u \in Nat
        BY <1>2, <1>3, <1>5, <3>2 DEF Counted
      <4>2. olds[u][i] \in 0 .. MaxTypes
        <5>1. olds[u] \in Seq(0 .. MaxTypes) /\ i \in DOMAIN olds[u]
          BY <1>3, <3>2, <4>1 DEF DatatypeInv, DatatypeTypes
        <5> QED  BY <5>1, SeqMember
      <4> QED  BY <1>2, <4>1, <4>2, SMT
    <3> QED  BY <1>6, <3>1, <3>2
  <2>2. UsesIn(to, t0, T) = 0
    BY <1>7, <2>1, UsesNone
  <2>3. refs'[t0] = 1
    BY <1>1, <1>2
  <2>4. 1 = 0 + 1 /\ t0 \in held' \cup freed'
    BY <1>1, SMT
  <2> QED  BY <1>4, <1>8, <2>2, <2>3, <2>4
<1>9. CASE t \in typeTable
  <2>1. t # t0 /\ t \in Types
    BY <1>2, <1>3, <1>9
  <2>2. AddUp(to, t, typeTable, {t0})
    <3>1. PICK A, B : A = typeTable /\ B = {t0}
      OBVIOUS
    <3>2. A \subseteq Types /\ B \subseteq Types /\ A \cap B = {}
      BY <1>2, <1>3, <3>1
    <3> QED  BY <3>1, <3>2, UsesSplit
  <2>3. UsesIn(to, t, {t0}) = Count(t, new) /\ Count(t, new) \in Nat
    BY <1>2, <1>5, <1>7, UsesByOne
  <2>4. UsesIn(olds, t, typeTable) = UsesIn(to, t, typeTable)
    <3>1. PICK A, from : A = typeTable /\ from = olds
      OBVIOUS
    <3>2. \A u \in A : from[u] = to[u]
      BY <1>5, <3>1
    <3>3. UsesIn(from, t, A) = UsesIn(to, t, A)
      BY <3>2, UsesSame, SMT
    <3> QED  BY <3>1, <3>3
  <2>5. refs'[t] = refs[t] + Count(t, new)
    BY <1>1, <1>9, <2>1 DEF EachUse
  <2>6. refs[t] = UsesIn(olds, t, typeTable) + In(t, held \cup freed)
    BY <1>3, <1>9 DEF Counted
  <2>7. In(t, held \cup freed) = IF t \in held' \cup freed' THEN 1 ELSE 0
    BY <1>1, <2>1 DEF In
  <2>8. UsesIn(to, t, T) = UsesIn(to, t, typeTable) + UsesIn(to, t, {t0})
    BY <1>6, <2>2 DEF AddUp
  <2>9. UsesIn(olds, t, typeTable) \in Nat /\ In(t, held \cup freed) \in Nat
    <3>1. In(t, held \cup freed) \in Nat
      BY SMT DEF In
    <3> QED  BY <1>3, <3>1, UsesFinite
  <2>10. PICK x, y, z : /\ x = UsesIn(olds, t, typeTable) /\ y = Count(t, new)
                        /\ z = In(t, held \cup freed)
    OBVIOUS
  <2>11. (x + z) + y = (x + y) + z
    BY <2>3, <2>9, <2>10, SMT
  <2> QED  BY <1>4, <2>3, <2>4, <2>5, <2>6, <2>7, <2>8, <2>10, <2>11
<1> QED
  BY <1>1, <1>8, <1>9

LEMMA NewInv ==
  ASSUME DatatypeInv, NEW new \in NewTypes, NewVirtDatatype(new)
  PROVE  DatatypeInv'
<1> DEFINE t0 == typesMade + 1
<1>1. /\ typePhase = "run" /\ typesMade' = t0
      /\ olds' = [olds EXCEPT ![t0] = new] /\ typeTable' = typeTable \cup {t0}
      /\ refs' = [u \in Types |-> IF u = t0 THEN 1
                    ELSE IF u \in typeTable THEN refs[u] + EachUse(u, new) ELSE refs[u]]
      /\ held' = held \cup {t0} /\ real' = [real EXCEPT ![t0] = "made"]
      /\ UNCHANGED <<committed, freed, request, typePhase>>
  BY DEF NewVirtDatatype
<1>2. /\ t0 \in Types /\ t0 \notin typeTable /\ t0 \in 0 .. MaxTypes
      /\ typeTable \cup {t0} \subseteq 1 .. t0
  BY TypeConstants, SMT DEF DatatypeInv, DatatypeTypes, NewVirtDatatype, Types
<1>3. /\ typeTable \subseteq Types /\ held \cup freed \cup committed \subseteq typeTable
      /\ held \cap freed = {} /\ refs \in [Types -> Nat]
      /\ olds \in [Types -> Seq(0 .. MaxTypes)]
      /\ real \in [Types -> {"none", "made", "committed"}]
  BY CountedNow DEF DatatypeInv, HeldInv, DatatypeTypes
<1>4. /\ new \in Seq(0 .. MaxTypes) /\ Len(new) <= MaxStruct
      /\ \A i \in DOMAIN new : new[i] \in held \cup {Predefined} /\ new[i] < t0
  BY NewFacts
<1> HIDE DEF t0
<1>5. /\ olds' \in [Types -> Seq(0 .. MaxTypes)] /\ olds'[t0] = new
      /\ \A u \in typeTable : olds'[u] = olds[u]
  BY <1>1, <1>2, <1>3, <1>4
<1>6. /\ real' \in [Types -> {"none", "made", "committed"}] /\ real'[t0] = "made"
      /\ \A u \in typeTable : real'[u] = real[u]
  BY <1>1, <1>2, <1>3
<1>7. refs' \in [Types -> Nat]
  <2>1. \A u \in typeTable : EachUse(u, new) \in Nat
    <3> SUFFICES ASSUME NEW u \in typeTable  PROVE EachUse(u, new) \in Nat
      OBVIOUS
    <3>1. PICK from : from = [v \in Types |-> IF v = t0 THEN new ELSE <<>>]
      OBVIOUS
    <3>2. <<>> \in Seq(0 .. MaxTypes)
      BY SMT
    <3>3. Made(from, {t0}) /\ from[t0] = new
      BY <1>2, <1>4, <3>1, <3>2 DEF Made
    <3>4. Count(u, from[t0]) \in Nat
      BY <1>2, <3>3, UsesByOne
    <3> QED  BY <3>3, <3>4 DEF EachUse
  <2>2. \A m, n \in Nat : m + n \in Nat /\ 1 \in Nat
    BY SMT
  <2>3. \A u \in Types : refs[u] \in Nat
    BY <1>3
  <2>4. ASSUME NEW u \in Types
        PROVE  (IF u = t0 THEN 1
                ELSE IF u \in typeTable THEN refs[u] + EachUse(u, new) ELSE refs[u]) \in Nat
    BY <2>1, <2>2, <2>3
  <2> QED  BY <1>1, <2>4
<1>8. DatatypeTypes'
  <2>1. held' \cap freed' = {}
    BY <1>1, <1>2, <1>3
  <2>2. typeTable' \subseteq 1 .. typesMade' /\ typesMade' \in 0 .. MaxTypes
    BY <1>1, <1>2
  <2>3. typePhase' \in {"run", "restart"} /\ request' \in [Requests -> RequestRecords]
    BY <1>1 DEF DatatypeInv, DatatypeTypes
  <2> QED  BY <1>5, <1>6, <1>7, <2>1, <2>2, <2>3 DEF DatatypeTypes
<1>9. OldsInv'
  <2>1. ASSUME NEW t \in typeTable
        PROVE  /\ Len(olds'[t]) <= MaxStruct
               /\ \A i \in DOMAIN olds'[t] :
                    olds'[t][i] < t /\ olds'[t][i] \in typeTable' \cup {Predefined}
    <3>1. olds'[t] = olds[t]
      BY <1>5
    <3>2. /\ Len(olds[t]) <= MaxStruct
          /\ \A i \in DOMAIN olds[t] : olds[t][i] < t /\ olds[t][i] \in typeTable \cup {Predefined}
      BY DEF DatatypeInv, OldsInv
    <3>3. \A i \in DOMAIN olds[t] : olds[t][i] \in typeTable' \cup {Predefined}
      BY <1>1, <3>2
    <3> QED  BY <3>1, <3>2, <3>3
  <2>2. /\ Len(olds'[t0]) <= MaxStruct
        /\ \A i \in DOMAIN olds'[t0] :
             olds'[t0][i] < t0 /\ olds'[t0][i] \in typeTable' \cup {Predefined}
    <3>1. \A i \in DOMAIN new : new[i] \in typeTable' \cup {Predefined}
      BY <1>1, <1>3, <1>4
    <3> QED  BY <1>4, <1>5, <3>1
  <2> QED  BY <1>1, <2>1, <2>2 DEF OldsInv
<1>10. HeldInv' /\ PendingInv'
  BY <1>1, <1>3 DEF DatatypeInv, HeldInv, PendingInv
<1>11. RemadeInv'
  BY <1>1, <1>2, <1>3, <1>6 DEF DatatypeInv, RemadeInv
<1>12. RefsRight'
  <2>1. \A t \in typeTable' :
          refs'[t] = UsesIn(olds', t, typeTable') + IF t \in held' \cup freed' THEN 1 ELSE 0
    BY NewRefs
  <2>2. \A t \in freed' : \E q \in Requests : request'[q].state # "none" /\ request'[q].type = t
    BY <1>1 DEF DatatypeInv, RefsRight
  <2> QED  BY <2>1, <2>2 DEF RefsRight, UsesIn
<1> QED
  BY <1>8, <1>9, <1>10, <1>11, <1>12 DEF DatatypeInv

LEMMA CommitInv ==
  ASSUME DatatypeInv, NEW t \in Types, MPI_Type_commit(t)
  PROVE  DatatypeInv'
<1>1. /\ t \in held /\ committed' = committed \cup {t} /\ real' = [real EXCEPT ![t] = "committed"]
      /\ UNCHANGED <<typesMade, olds, refs, typeTable, held, freed, request, typePhase>>
  BY DEF MPI_Type_commit
<1>2. /\ real \in [Types -> {"none", "made", "committed"}] /\ typeTable \subseteq Types
  BY CountedNow DEF DatatypeInv, DatatypeTypes
<1>3. /\ real' \in [Types -> {"none", "made", "committed"}] /\ real'[t] = "committed"
      /\ \A u \in Types : u # t => real'[u] = real[u]
  BY <1>1, <1>2
<1>4. RemadeInv'
  BY <1>1, <1>2, <1>3 DEF DatatypeInv, RemadeInv
<1>5. HeldInv' /\ PendingInv'
  BY <1>1 DEF DatatypeInv, HeldInv, PendingInv
<1>6. DatatypeTypes' /\ OldsInv'
  BY <1>1, <1>3 DEF DatatypeInv, DatatypeTypes, OldsInv
<1>7. RefsRight'
  BY <1>1, SMT DEF DatatypeInv, RefsRight, UsesIn
<1> QED
  BY <1>4, <1>5, <1>6, <1>7 DEF DatatypeInv

LEMMA DatatypesStart ==
  ASSUME DatatypesInit
  PROVE  DatatypeInv
<1>1. typesMade \in 0 .. MaxTypes /\ typeTable \subseteq 1 .. typesMade
  BY TypeConstants, SMT DEF DatatypesInit
<1>2. olds \in [Types -> Seq(0 .. MaxTypes)]
  <2>1. <<>> \in Seq(0 .. MaxTypes)
    BY SMT
  <2> QED  BY <2>1 DEF DatatypesInit
<1>3. refs \in [Types -> Nat]
  <2>1. 0 \in Nat
    BY SMT
  <2> QED  BY <2>1 DEF DatatypesInit
<1>4. NoRequest \in RequestRecords /\ NoRequest.state # "pending"
  BY TypeConstants, SMT DEF NoRequest, RequestRecords, Predefined
<1>5. /\ request \in [Requests -> RequestRecords]
      /\ \A q \in Requests : request[q].state # "pending"
  BY <1>4 DEF DatatypesInit
<1>6. real \in [Types -> {"none", "made", "committed"}]
  BY DEF DatatypesInit
<1>7. DatatypeTypes
  BY <1>1, <1>2, <1>3, <1>5, <1>6 DEF DatatypesInit, DatatypeTypes
<1>8. OldsInv /\ HeldInv /\ PendingInv /\ RemadeInv /\ RefsRight
  BY <1>5 DEF DatatypesInit, OldsInv, HeldInv, PendingInv, RemadeInv, RefsRight
<1> QED
  BY <1>7, <1>8 DEF DatatypeInv

LEMMA DatatypesStep ==
  ASSUME DatatypeInv, [DatatypesNext]_typeVars
  PROVE  DatatypeInv'
<1>1. ASSUME NEW new \in NewTypes, NewVirtDatatype(new)  PROVE DatatypeInv'
  BY <1>1, NewInv
<1>2. ASSUME NEW t \in Types, MPI_Type_commit(t)  PROVE DatatypeInv'
  BY <1>2, CommitInv
<1>3. ASSUME NEW t \in Types, MPI_Type_free(t)  PROVE DatatypeInv'
  BY <1>3, FreeInv
<1>4. ASSUME NEW t \in Types, ReconstructDatatype(t)  PROVE DatatypeInv'
  BY <1>4, ReconstructInv
<1>5. ASSUME NEW q \in Requests, NEW t \in Types, StartCall(q, t)  PROVE DatatypeInv'
  BY <1>5, StartInv
<1>6. ASSUME NEW q \in Requests, MPI_Wait(q)  PROVE DatatypeInv'
  BY <1>6, WaitInv
<1>7. ASSUME NEW q \in Requests, DrainCompletes(q)  PROVE DatatypeInv'
  BY <1>7, DrainInv
<1>8. CASE RestartTypes
  BY <1>8, RestartInv
<1>9. CASE ReplayP2p
  BY <1>9, ReplayInv
<1>10. CASE UNCHANGED typeVars
  <2>1. real' \in [Types -> {"none", "made", "committed"}] /\ RemadeInv'
        /\ typePhase' \in {"run", "restart"}
        /\ UNCHANGED <<typesMade, olds, refs, typeTable, held, committed, freed, request>>
    BY <1>10 DEF typeVars, DatatypeInv, DatatypeTypes, RemadeInv
  <2> QED  BY <2>1, RealInv
<1>11. CASE Finished
  BY <1>10, <1>11 DEF Finished
<1> QED
  BY <1>1, <1>2, <1>3, <1>4, <1>5, <1>6, <1>7, <1>8, <1>9, <1>10, <1>11 DEF DatatypesNext

(* Why a restart is in order: old types have smaller numbers.              *)
LEMMA InOrder ==
  ASSUME DatatypeInv
  PROVE  RestartInOrder
<1>1. \A t \in typeTable : \A i \in DOMAIN olds[t] : olds[t][i] \in typeTable \cup {Predefined}
  BY DEF DatatypeInv, OldsInv
<1>2. \A q \in Requests : request[q].state = "pending" =>
        request[q].type \in typeTable /\ request[q].type \in committed
  BY DEF DatatypeInv, PendingInv, HeldInv
<1>3. ASSUME NEW t \in ToRemake, IsNext(t)  PROVE OldsRemade(t)
  <2> SUFFICES ASSUME NEW i \in DOMAIN olds[t], olds[t][i] # Predefined, real[olds[t][i]] = "none"
               PROVE  FALSE
    BY DEF OldsRemade
  <2>1. t \in typeTable /\ olds[t][i] < t /\ olds[t][i] \in typeTable
    BY <1>1 DEF DatatypeInv, OldsInv, ToRemake
  <2>2. t <= olds[t][i]
    BY <1>3, <2>1 DEF ToRemake, IsNext
  <2>3. t \in Types /\ olds[t][i] \in Types
    BY <2>1, CountedNow
  <2> QED  BY <2>1, <2>2, <2>3, TypeConstants, SMT DEF Types
<1>4. ASSUME typePhase = "run", NEW q \in Requests, request[q].state = "pending"
      PROVE  real[request[q].type] = "committed"
  BY <1>2, <1>4 DEF DatatypeInv, RemadeInv
<1> QED
  BY <1>1, <1>2, <1>3, <1>4 DEF RestartInOrder

(* For any number of datatypes, requests and restarts, and structs of any  *)
(* size: release_datatype and release_freed_datatypes leave exactly the    *)
(* datatypes that the program, a pending call or another datatype still    *)
(* needs, each with one reference for each of those needs.                 *)
THEOREM ReferencesRight == DatatypesSpec => []RefsRight
<1>1. DatatypesInit => DatatypeInv
  BY DatatypesStart
<1>2. DatatypeInv /\ [DatatypesNext]_typeVars => DatatypeInv'
  BY DatatypesStep
<1>3. DatatypeInv => RefsRight
  BY DEF DatatypeInv
<1> QED
  BY <1>1, <1>2, <1>3, PTL DEF DatatypesSpec

(* For any number of datatypes, requests and restarts: whenever a          *)
(* checkpoint is taken, reconstruct_descriptors meets the old types of a   *)
(* datatype before the datatype, and the pending receives find theirs in   *)
(* the table and, after the restart, committed.                            *)
THEOREM RestartsInOrder == DatatypesSpec => []RestartInOrder
<1>1. DatatypesInit => DatatypeInv
  BY DatatypesStart
<1>2. DatatypeInv /\ [DatatypesNext]_typeVars => DatatypeInv'
  BY DatatypesStep
<1>3. DatatypeInv => RestartInOrder
  BY InOrder
<1> QED
  BY <1>1, <1>2, <1>3, PTL DEF DatatypesSpec
=============================================================================
