--------------------------- MODULE WrappersProofs ----------------------------
(***************************************************************************)
(* The wrappers (Wrappers), for any number of objects and checkpoints.     *)
(* First their forms: the steps of each wrapper lead from mode to mode     *)
(* into the lower half and out again.  Then what a mode says of the state: *)
(* that, with what the table always has, is inductive.  CommitsOutside,    *)
(* CallsUseLiveObjects and NothingLost follow.                             *)
(***************************************************************************)
EXTENDS Wrappers, TLAPS, SequenceTheorems

(* Zenon proves the leaves that name no prover; SMT those with arithmetic. *)
USE Zenon

-----------------------------------------------------------------------------
(* Where a wrapper is: the depth d of the guard, whether the call is in a  *)
(* critical section (c), the stage s in the lower half, the kind k of the  *)
(* object that it frees, and what is yet to be done with the newest        *)
(* communicator (n): nothing, something if there is one, its MPI_Comm_free.*)
ObjectKinds == {"comm", "group", "op", "datatype", "request", "file"}
Stages == {"out", "zero", "in", "one", "made", "keyed", "gone", "rest", "ended"}
Modes == [d : 0 .. 2, c : BOOLEAN, s : Stages, k : ObjectKinds \cup {"none"},
          n : {"no", "may", "need"}]
M(d, c, s, k, n) == [d |-> d, c |-> c, s |-> s, k |-> k, n |-> n]
Ops ==
  {"commit_begin", "commit_finish", "LOWER_HALF_DISABLE_CKPT", "LOWER_HALF_ENABLE_CKPT",
   "get_real_id", "get_newest", "call", "make", "unmake", "new_virt_id",
   "new_virt_id_always", "free_virt_id", "new_key", "set_key", "erase_key",
   "delete_callbacks", "copy_comm_attributes", "initialized", "end"}
Steps == [op : Ops, kind : ObjectKinds \cup {"none"}]

(* The step e may be the next one in the mode p, and leads to the mode q.  *)
Begins(p, e, q) ==
  \/ e.op = "commit_begin" /\ p.s = "out" /\ ~p.c /\ q = M(0, TRUE, "out", "none", p.n)
  \/ e.op = "commit_finish" /\ p.s = "out" /\ p.c /\ q = M(0, FALSE, "out", "none", p.n)
  \/ e.op = "LOWER_HALF_DISABLE_CKPT" /\ p.s \in {"out", "zero"} /\ p.d < 2
     /\ \E s \in {"zero", "in"} : q = M(p.d + 1, p.c, s, "none", p.n)
  \/ e.op = "LOWER_HALF_ENABLE_CKPT" /\ p.d = 1 /\ p.s \in {"zero", "in", "rest"}
     /\ q = M(0, p.c, "out", "none", p.n)
  \/ e.op = "LOWER_HALF_ENABLE_CKPT" /\ p.d = 2 /\ p.s = "made"
     /\ q = M(1, p.c, "made", "none", p.n)
Looks(p, e, q) ==
  \/ e.op = "get_real_id" /\ e.kind \in ObjectKinds /\ p.s = "in"
     /\ q = M(p.d, p.c, "in", "none", p.n)
  \/ e.op = "get_real_id" /\ e.kind \in ObjectKinds /\ p.s = "zero"
     /\ q = M(p.d, p.c, "one", e.kind, p.n)
  \/ e.op = "get_newest" /\ e.kind = "comm" /\ p.s = "in" /\ p.n = "need"
     /\ q = M(p.d, p.c, "in", "none", "no")
  \/ e.op = "call" /\ p.s = "in" /\ q = M(p.d, p.c, "in", "none", p.n)
Makes(p, e, q) ==
  \/ e.op = "make" /\ p.s = "in" /\ q = M(p.d, p.c, "made", "none", p.n)
  \/ e.op = "new_key" /\ e.kind \in ObjectKinds /\ p.s = "made"
     /\ q = M(p.d, p.c, "keyed", "none", p.n)
  \/ e.op = "new_virt_id" /\ p.n = "no" /\ e.kind \in ObjectKinds
     /\ \/ p.s = "made" /\ e.kind # "file" /\ q = M(p.d, p.c, "rest", "none", "no")
        \/ p.s = "made" /\ e.kind = "comm" /\ q = M(p.d, p.c, "rest", "none", "may")
        \/ p.s = "keyed" /\ e.kind = "file" /\ q = M(p.d, p.c, "rest", "none", "no")
  \/ e.op = "new_virt_id_always" /\ p.n = "no" /\ e.kind = "group" /\ p.s = "made"
     /\ q = M(p.d, p.c, "rest", "none", "no")
Frees(p, e, q) ==
  \/ e.op = "unmake" /\ p.s = "one" /\ p.n = "no" /\ e.kind = p.k
     /\ e.kind \in {"op", "datatype", "file"} /\ q = M(p.d, p.c, "gone", p.k, p.n)
  \/ e.op = "free_virt_id" /\ p.n = "no" /\ e.kind \in ObjectKinds
     /\ (p.s = "in" \/ (p.s = "gone" /\ e.kind = p.k))
     /\ q = M(p.d, p.c, "rest", "none", p.n)
  \/ e.op = "set_key" /\ e.kind = "file" /\ p.s = "in" /\ q = M(p.d, p.c, "rest", "none", p.n)
  \/ e.op = "erase_key" /\ p.s = "gone" /\ e.kind = p.k /\ q = M(p.d, p.c, "rest", "none", p.n)
Others(p, e, q) ==
  \/ e.op = "delete_callbacks" /\ p.s = "out" /\ ~p.c /\ q = M(0, FALSE, "out", "none", p.n)
  \/ e.op = "copy_comm_attributes" /\ p.s = "out" /\ ~p.c /\ p.n = "may"
     /\ q = M(0, FALSE, "out", "none", "no")
  \/ e.op = "initialized" /\ p.s = "out" /\ q = M(0, p.c, "out", "none", p.n)
  \/ e.op = "end" /\ p.s = "in" /\ q = M(p.d, p.c, "ended", "none", p.n)
Allowed(p, e, q) ==
  \/ Begins(p, e, q) \/ Looks(p, e, q) \/ Makes(p, e, q) \/ Frees(p, e, q) \/ Others(p, e, q)

(* The steps w lead from the mode p to the mode z; those left of a call    *)
(* lead out of the lower half, or MPI has ended.                           *)
Leads(w, p, z) ==
  /\ w \in Seq(Steps) /\ p \in Modes /\ z \in Modes
  /\ \E g \in [1 .. Len(w) + 1 -> Modes] :
       /\ g[1] = p /\ g[Len(w) + 1] = z
       /\ \A i \in 1 .. Len(w) : Allowed(g[i], w[i], g[i + 1])
Finals == {z \in Modes : z = M(0, FALSE, "out", "none", "no") \/ z.s = "ended"}
Good(w, p) == \E z \in Finals : Leads(w, p, z)

-----------------------------------------------------------------------------
(* Putting steps together, and taking the first one.                       *)

LEMMA LeadsNowhere ==
  ASSUME NEW p \in Modes
  PROVE  Leads(<<>>, p, p)
<1>1. <<>> \in Seq(Steps) /\ Len(<<>>) = 0
  BY SMT
<1>2. PICK g : g = [i \in 1 .. 1 |-> p]
  OBVIOUS
<1>3. g \in [1 .. 1 -> Modes] /\ g[1] = p
  BY <1>2, SMT
<1>4. 1 .. 0 = {} /\ 0 + 1 = 1
  BY SMT
<1> QED
  BY <1>1, <1>3, <1>4 DEF Leads

LEMMA LeadsOne ==
  ASSUME NEW p \in Modes, NEW q \in Modes, NEW e \in Steps, Allowed(p, e, q)
  PROVE  Leads(<<e>>, p, q)
<1> DEFINE S == Steps  T == Modes
<1> HIDE DEF S, T
<1>1. ASSUME e \in S, p \in T, q \in T
      PROVE  /\ <<e>> \in Seq(S) /\ Len(<<e>>) = 1 /\ <<e>>[1] = e
             /\ [i \in 1 .. 2 |-> IF i = 1 THEN p ELSE q] \in [1 .. 2 -> T]
             /\ [i \in 1 .. 2 |-> IF i = 1 THEN p ELSE q][1] = p
             /\ [i \in 1 .. 2 |-> IF i = 1 THEN p ELSE q][2] = q
             /\ \A i \in 1 .. 1 : i = 1
             /\ 1 + 1 = 2
  BY <1>1, SMT
<1>2. PICK g : g = [i \in 1 .. 2 |-> IF i = 1 THEN p ELSE q]
  OBVIOUS
<1>3. g \in [1 .. 2 -> Modes] /\ g[1] = p /\ g[2] = q
  BY <1>1, <1>2 DEF S, T
<1>4. <<e>> \in Seq(Steps) /\ Len(<<e>>) = 1 /\ <<e>>[1] = e
  BY <1>1 DEF S, T
<1>5. \A i \in 1 .. 1 : Allowed(g[i], <<e>>[i], g[i + 1])
  BY <1>1, <1>3, <1>4 DEF S, T
<1> QED
  BY <1>1, <1>3, <1>4, <1>5 DEF Leads, S, T

LEMMA LeadsOn ==
  ASSUME NEW v, NEW w, NEW p, NEW q, NEW z, Leads(v, p, q), Leads(w, q, z)
  PROVE  Leads(v \o w, p, z)
<1> DEFINE S == Steps  T == Modes
<1>1. PICK g \in [1 .. Len(v) + 1 -> Modes] :
        /\ g[1] = p /\ g[Len(v) + 1] = q
        /\ \A i \in 1 .. Len(v) : Allowed(g[i], v[i], g[i + 1])
  BY DEF Leads
<1>2. PICK h \in [1 .. Len(w) + 1 -> Modes] :
        /\ h[1] = q /\ h[Len(w) + 1] = z
        /\ \A i \in 1 .. Len(w) : Allowed(h[i], w[i], h[i + 1])
  BY DEF Leads
<1>3. v \in Seq(S) /\ w \in Seq(S) /\ p \in T /\ z \in T
  BY DEF Leads
<1>4. g \in [1 .. Len(v) + 1 -> T] /\ h \in [1 .. Len(w) + 1 -> T]
  OBVIOUS
<1> HIDE DEF S, T
<1>5. /\ v \o w \in Seq(S) /\ Len(v) \in Nat /\ Len(w) \in Nat /\ Len(v \o w) = Len(v) + Len(w)
      /\ \A i \in 1 .. Len(v) : (v \o w)[i] = v[i]
      /\ \A i \in 1 .. Len(w) : (v \o w)[Len(v) + i] = w[i]
  BY <1>3, SMT
<1>6. PICK f : f = [i \in 1 .. Len(v \o w) + 1 |-> IF i <= Len(v) THEN g[i] ELSE h[i - Len(v)]]
  OBVIOUS
<1>7. f \in [1 .. Len(v \o w) + 1 -> T]
  BY <1>4, <1>5, <1>6, SMT
<1>8. /\ \A i \in 1 .. Len(v) : f[i] = g[i]
      /\ \A i \in 1 .. Len(w) + 1 : f[Len(v) + i] = h[i]
  BY <1>5, <1>6, SMT
<1>9. \A i \in 1 .. Len(v) + 1 : f[i] = g[i]
  <2>1. f[Len(v) + 1] = q
    BY <1>2, <1>5, <1>8, SMT
  <2>2. g[Len(v) + 1] = q
    BY <1>1
  <2>3. \A i \in 1 .. Len(v) + 1 : i \in 1 .. Len(v) \/ i = Len(v) + 1
    BY <1>5, SMT
  <2> QED
    BY <1>8, <2>1, <2>2, <2>3
<1>10. f[1] = p /\ f[Len(v \o w) + 1] = z
  BY <1>1, <1>2, <1>5, <1>8, <1>9, SMT
<1>11. ASSUME NEW i \in 1 .. Len(v \o w)
       PROVE  Allowed(f[i], (v \o w)[i], f[i + 1])
  <2>1. CASE i \in 1 .. Len(v)
    <3>1. f[i] = g[i] /\ f[i + 1] = g[i + 1] /\ (v \o w)[i] = v[i]
      BY <1>5, <1>9, <2>1, SMT
    <3> QED
      BY <1>1, <2>1, <3>1
  <2>2. CASE i \notin 1 .. Len(v)
    <3>1. PICK j \in 1 .. Len(w) : i = Len(v) + j
      <4>1. i - Len(v) \in 1 .. Len(w) /\ i = Len(v) + (i - Len(v))
        BY <1>5, <2>2, SMT
      <4> QED
        BY <4>1
    <3>2. j + 1 \in 1 .. Len(w) + 1 /\ i + 1 = Len(v) + (j + 1) /\ j \in 1 .. Len(w) + 1
      BY <1>5, <3>1, SMT
    <3>3. f[i] = h[j] /\ f[i + 1] = h[j + 1] /\ (v \o w)[i] = w[j]
      BY <1>5, <1>8, <3>1, <3>2
    <3> QED
      BY <1>2, <3>1, <3>3
  <2> QED
    BY <2>1, <2>2
<1> QED
  BY <1>3, <1>5, <1>7, <1>10, <1>11 DEF Leads, S, T

(* The first step of a call that is under way.                             *)
LEMMA GoodStep ==
  ASSUME NEW w, NEW p, Good(w, p), w # <<>>
  PROVE  \E q \in Modes : /\ Allowed(p, Head(w), q) /\ Good(Tail(w), q)
                          /\ Head(w) \in Steps /\ p \in Modes
<1> DEFINE S == Steps  T == Modes
<1>1. PICK z \in Finals : Leads(w, p, z)
  BY DEF Good
<1>2. PICK g \in [1 .. Len(w) + 1 -> Modes] :
        /\ g[1] = p /\ g[Len(w) + 1] = z
        /\ \A i \in 1 .. Len(w) : Allowed(g[i], w[i], g[i + 1])
  BY <1>1 DEF Leads
<1>3. w \in Seq(S) /\ g \in [1 .. Len(w) + 1 -> T] /\ z \in T /\ p \in T
  BY <1>1 DEF Leads
<1> HIDE DEF S, T
<1>4. /\ Len(w) \in Nat /\ Len(w) >= 1 /\ Head(w) = w[1] /\ w[1] \in S
      /\ Tail(w) \in Seq(S) /\ Len(Tail(w)) = Len(w) - 1 /\ Len(w) - 1 \in Nat
      /\ \A i \in 1 .. Len(w) - 1 : Tail(w)[i] = w[i + 1]
  BY <1>3, SMT
<1>5. PICK f : f = [i \in 1 .. Len(Tail(w)) + 1 |-> g[i + 1]]
  OBVIOUS
<1>6. /\ f \in [1 .. Len(Tail(w)) + 1 -> T]
      /\ \A i \in 1 .. Len(w) : f[i] = g[i + 1]
  BY <1>3, <1>4, <1>5, SMT
<1>7. f[1] = g[2] /\ f[Len(Tail(w)) + 1] = z /\ g[2] \in T /\ Allowed(g[1], w[1], g[2])
  <2>1. /\ f[1] = g[1 + 1] /\ 1 + 1 = 2 /\ f[Len(w)] = g[Len(w) + 1] /\ Len(Tail(w)) + 1 = Len(w)
        /\ 1 \in 1 .. Len(w) /\ 2 \in 1 .. Len(w) + 1
    BY <1>4, <1>6, SMT
  <2> QED
    BY <1>2, <1>3, <2>1
<1>8. ASSUME NEW i \in 1 .. Len(Tail(w))
      PROVE  Allowed(f[i], Tail(w)[i], f[i + 1])
  <2>1. /\ i \in 1 .. Len(w) /\ i + 1 \in 1 .. Len(w) /\ i \in 1 .. Len(w) - 1
    BY <1>4, SMT
  <2>2. f[i] = g[i + 1] /\ f[i + 1] = g[(i + 1) + 1] /\ Tail(w)[i] = w[i + 1]
    BY <1>4, <1>6, <2>1
  <2> QED
    BY <1>2, <2>1, <2>2
<1>9. Leads(Tail(w), g[2], z)
  BY <1>3, <1>4, <1>6, <1>7, <1>8 DEF Leads, S, T
<1> QED
  BY <1>1, <1>2, <1>3, <1>4, <1>7, <1>9 DEF Good, S, T

LEMMA GoodEnd ==
  ASSUME NEW p, Good(<<>>, p)
  PROVE  p \in Finals
<1>1. PICK z \in Finals : Leads(<<>>, p, z)
  BY DEF Good
<1>2. Len(<<>>) + 1 = 1
  BY SMT
<1> QED
  BY <1>1, <1>2 DEF Leads

-----------------------------------------------------------------------------
(* Every wrapper leads out of the lower half again.                        *)
Outside(c, n) == M(0, c, "out", "none", n)
Within(c, s, k, n) == M(1, c, s, k, n)
Progress == {"no", "may", "need"}

LEMMA ModesAre ==
  ASSUME NEW d \in 0 .. 2, NEW c \in BOOLEAN, NEW s \in Stages,
         NEW k \in ObjectKinds \cup {"none"}, NEW n \in Progress
  PROVE  /\ M(d, c, s, k, n) \in Modes
         /\ M(d, c, s, k, n).d = d /\ M(d, c, s, k, n).c = c /\ M(d, c, s, k, n).s = s
         /\ M(d, c, s, k, n).k = k /\ M(d, c, s, k, n).n = n
  BY DEF M, Modes, Progress

LEMMA KindsAre ==
  /\ "none" \in ObjectKinds \cup {"none"} /\ ObjectKinds \subseteq ObjectKinds \cup {"none"}
  /\ "out" \in Stages /\ "zero" \in Stages /\ "in" \in Stages /\ "one" \in Stages
  /\ "made" \in Stages /\ "keyed" \in Stages /\ "gone" \in Stages /\ "rest" \in Stages
  /\ "ended" \in Stages
  /\ 0 \in 0 .. 2 /\ 1 \in 0 .. 2 /\ 2 \in 0 .. 2
  /\ "no" \in Progress /\ "may" \in Progress /\ "need" \in Progress
  BY SMT DEF ObjectKinds, Stages, Progress

LEMMA DoAre ==
  ASSUME NEW o \in Ops
  PROVE  Do(o) \in Steps /\ Do(o).op = o /\ Do(o).kind = "none"
  BY DEF Do, Steps
LEMMA OfAre ==
  ASSUME NEW o \in Ops, NEW k \in ObjectKinds
  PROVE  Of(o, k) \in Steps /\ Of(o, k).op = o /\ Of(o, k).kind = k
  BY DEF Of, Steps

LEMMA LeadsByDo ==
  ASSUME NEW o \in Ops, NEW p \in Modes, NEW q \in Modes,
         Allowed(p, Do(o), q)
  PROVE  Leads(<<Do(o)>>, p, q)
  BY DoAre, LeadsOne
LEMMA LeadsByOf ==
  ASSUME NEW o \in Ops, NEW k \in ObjectKinds, NEW p \in Modes, NEW q \in Modes,
         Allowed(p, Of(o, k), q)
  PROVE  Leads(<<Of(o, k)>>, p, q)
  BY OfAre, LeadsOne

LEMMA LeadsByLooks ==
  ASSUME NEW kinds \in Seq(ObjectKinds), NEW d \in 1 .. 2, NEW c \in BOOLEAN, NEW n \in Progress
  PROVE  Leads(Look(kinds), M(d, c, "in", "none", n), M(d, c, "in", "none", n))
<1> DEFINE p == M(d, c, "in", "none", n)
<1>1. p \in Modes /\ p.s = "in" /\ p.d = d /\ p.c = c /\ p.n = n
  <2>1. d \in 0 .. 2
    BY SMT
  <2> QED
    BY <2>1, SMT DEF Modes, M, Stages, ObjectKinds, Progress
<1> HIDE DEF p
<1>2. Len(kinds) \in Nat /\ DOMAIN kinds = 1 .. Len(kinds)
  BY SMT
<1>3. "get_real_id" \in Ops
  BY DEF Ops
<1>4. \A i \in 1 .. Len(kinds) : kinds[i] \in ObjectKinds
  BY SMT
<1>5. ASSUME NEW i \in 1 .. Len(kinds)
      PROVE  /\ Of("get_real_id", kinds[i]) \in Steps
             /\ Allowed(p, Of("get_real_id", kinds[i]), p)
  <2>1. /\ Of("get_real_id", kinds[i]) \in Steps
        /\ Of("get_real_id", kinds[i]).op = "get_real_id"
        /\ Of("get_real_id", kinds[i]).kind \in ObjectKinds
    BY <1>3, <1>4, OfAre
  <2>2. p = M(p.d, p.c, "in", "none", p.n)
    BY <1>1 DEF p
  <2> QED
    BY <1>1, <2>1, <2>2 DEF Allowed, Looks
<1>6. PICK w : w = Look(kinds)
  OBVIOUS
<1>7. w = [i \in 1 .. Len(kinds) |-> Of("get_real_id", kinds[i])]
  BY <1>2, <1>6 DEF Look
<1>8. w \in Seq(Steps) /\ Len(w) = Len(kinds)
  <2> DEFINE S == Steps
  <2>1. \A i \in 1 .. Len(kinds) : Of("get_real_id", kinds[i]) \in S
    BY <1>5
  <2> HIDE DEF S
  <2>2. w \in Seq(S) /\ Len(w) = Len(kinds)
    BY <1>2, <1>7, <2>1, SMT
  <2> QED
    BY <2>2 DEF S
<1>9. PICK g : g = [i \in 1 .. Len(w) + 1 |-> p]
  OBVIOUS
<1>10. \A i \in 1 .. Len(w) : i + 1 \in 1 .. Len(w) + 1 /\ i \in 1 .. Len(w) + 1
  BY <1>2, <1>8, SMT
<1>11. 1 \in 1 .. Len(w) + 1 /\ Len(w) + 1 \in 1 .. Len(w) + 1
  BY <1>2, <1>8, SMT
<1>12. \A i \in 1 .. Len(w) : w[i] = Of("get_real_id", kinds[i]) /\ Allowed(p, w[i], p)
  BY <1>5, <1>7, <1>8
<1>13. g \in [1 .. Len(w) + 1 -> Modes]
  BY <1>1, <1>9
<1>14. \A i \in 1 .. Len(w) : Allowed(g[i], w[i], g[i + 1])
  BY <1>9, <1>10, <1>12
<1>15. Leads(w, p, p)
  BY <1>1, <1>8, <1>9, <1>11, <1>13, <1>14 DEF Leads
<1> QED
  BY <1>6, <1>15 DEF p

LEMMA Entering ==
  ASSUME NEW c \in BOOLEAN, NEW n \in Progress, NEW s \in {"zero", "in"}
  PROVE  Leads(<<Do("LOWER_HALF_DISABLE_CKPT")>>, Outside(c, n), Within(c, s, "none", n))
<1>1. Outside(c, n) \in Modes /\ Within(c, s, "none", n) \in Modes
  BY SMT DEF Outside, Within, M, Modes, Stages, ObjectKinds, Progress
<1>2. Allowed(Outside(c, n), Do("LOWER_HALF_DISABLE_CKPT"), Within(c, s, "none", n))
  BY SMT DEF Outside, Within, M, Allowed, Begins, Do
<1>3. "LOWER_HALF_DISABLE_CKPT" \in Ops
  BY DEF Ops
<1> QED
  BY <1>1, <1>2, <1>3, LeadsByDo

LEMMA Leaving ==
  ASSUME NEW c \in BOOLEAN, NEW n \in Progress, NEW s \in {"zero", "in", "rest"}
  PROVE  Leads(<<Do("LOWER_HALF_ENABLE_CKPT")>>, Within(c, s, "none", n), Outside(c, n))
<1>1. Outside(c, n) \in Modes /\ Within(c, s, "none", n) \in Modes
  BY SMT DEF Outside, Within, M, Modes, Stages, ObjectKinds, Progress
<1>2. Allowed(Within(c, s, "none", n), Do("LOWER_HALF_ENABLE_CKPT"), Outside(c, n))
  BY SMT DEF Outside, Within, M, Allowed, Begins, Do
<1>3. "LOWER_HALF_ENABLE_CKPT" \in Ops
  BY DEF Ops
<1> QED
  BY <1>1, <1>2, <1>3, LeadsByDo

LEMMA GuardedLeads ==
  ASSUME NEW w, NEW c \in BOOLEAN, NEW n \in Progress, NEW o \in Progress,
         NEW s \in {"zero", "in"}, NEW u \in {"zero", "in", "rest"},
         Leads(w, Within(c, s, "none", n), Within(c, u, "none", o))
  PROVE  Leads(Guarded(w), Outside(c, n), Outside(c, o))
<1>1. Leads(<<Do("LOWER_HALF_DISABLE_CKPT")>> \o w, Outside(c, n), Within(c, u, "none", o))
  BY Entering, LeadsOn
<1>2. Leads(<<Do("LOWER_HALF_ENABLE_CKPT")>>, Within(c, u, "none", o), Outside(c, o))
  BY Leaving
<1> QED
  BY <1>1, <1>2, LeadsOn DEF Guarded

LEMMA CommittedLeads ==
  ASSUME NEW w, NEW n \in Progress, NEW o \in Progress,
         Leads(w, Outside(TRUE, n), Outside(TRUE, o))
  PROVE  Leads(Committed(w), Outside(FALSE, n), Outside(FALSE, o))
<1>1. /\ Outside(FALSE, n) \in Modes /\ Outside(TRUE, n) \in Modes
      /\ Outside(FALSE, o) \in Modes /\ Outside(TRUE, o) \in Modes
  BY SMT DEF Outside, M, Modes, Stages, ObjectKinds, Progress
<1>2. /\ Allowed(Outside(FALSE, n), Do("commit_begin"), Outside(TRUE, n))
      /\ Allowed(Outside(TRUE, o), Do("commit_finish"), Outside(FALSE, o))
  BY SMT DEF Outside, M, Allowed, Begins, Do
<1>3. "commit_begin" \in Ops /\ "commit_finish" \in Ops
  BY DEF Ops
<1>4. /\ Leads(<<Do("commit_begin")>>, Outside(FALSE, n), Outside(TRUE, n))
      /\ Leads(<<Do("commit_finish")>>, Outside(TRUE, o), Outside(FALSE, o))
  BY <1>1, <1>2, <1>3, LeadsByDo
<1>5. Leads(<<Do("commit_begin")>> \o w, Outside(FALSE, n), Outside(TRUE, o))
  BY <1>4, LeadsOn
<1> QED
  BY <1>4, <1>5, LeadsOn DEF Committed

LEMMA Looking ==
  ASSUME NEW kinds \in Seq(ObjectKinds), NEW c \in BOOLEAN, NEW n \in Progress
  PROVE  Leads(Look(kinds), Within(c, "in", "none", n), Within(c, "in", "none", n))
<1>1. 1 \in 1 .. 2
  BY SMT
<1> QED
  BY <1>1, LeadsByLooks DEF Within

LEMMA Calling ==
  ASSUME NEW c \in BOOLEAN, NEW n \in Progress
  PROVE  Leads(<<Do("call")>>, Within(c, "in", "none", n), Within(c, "in", "none", n))
<1>1. Within(c, "in", "none", n) \in Modes
  BY SMT DEF Within, M, Modes, Stages, ObjectKinds, Progress
<1>2. Allowed(Within(c, "in", "none", n), Do("call"), Within(c, "in", "none", n))
  BY SMT DEF Within, M, Allowed, Looks, Do
<1>3. "call" \in Ops
  BY DEF Ops
<1> QED
  BY <1>1, <1>2, <1>3, LeadsByDo

LEMMA MakingLeads ==
  ASSUME NEW c \in BOOLEAN, NEW k \in ObjectKinds
  PROVE  /\ Leads(<<Of("make", k)>>, Within(c, "in", "none", "no"), Within(c, "made", "none", "no"))
         /\ k # "file" => Leads(<<Of("new_virt_id", k)>>, Within(c, "made", "none", "no"),
                                Within(c, "rest", "none", "no"))
         /\ k = "comm" => Leads(<<Of("new_virt_id", k)>>, Within(c, "made", "none", "no"),
                                Within(c, "rest", "none", "may"))
<1>1. /\ Within(c, "in", "none", "no") \in Modes /\ Within(c, "made", "none", "no") \in Modes
      /\ Within(c, "rest", "none", "no") \in Modes /\ Within(c, "rest", "none", "may") \in Modes
  BY SMT DEF Within, M, Modes, Stages, ObjectKinds
<1>2. /\ Allowed(Within(c, "in", "none", "no"), Of("make", k), Within(c, "made", "none", "no"))
      /\ k # "file" => Allowed(Within(c, "made", "none", "no"), Of("new_virt_id", k),
                               Within(c, "rest", "none", "no"))
      /\ k = "comm" => Allowed(Within(c, "made", "none", "no"), Of("new_virt_id", k),
                               Within(c, "rest", "none", "may"))
  BY SMT DEF Within, M, Allowed, Makes, Of
<1>3. "make" \in Ops /\ "new_virt_id" \in Ops
  BY DEF Ops
<1> QED
  BY <1>1, <1>2, <1>3, LeadsByOf

LEMMA OneMore ==
  ASSUME NEW S, NEW s \in Seq(S), NEW t \in Seq(S), NEW r \in Seq(S), Len(t) = 1,
         Len(r) = Len(s) + 1, r[Len(s) + 1] = t[1], \A i \in 1 .. Len(s) : r[i] = s[i]
  PROVE  r = s \o t
<1>1. /\ s \o t \in Seq(S) /\ Len(s \o t) = Len(s) + Len(t)
      /\ \A i \in 1 .. Len(s) + Len(t) :
           (s \o t)[i] = IF i <= Len(s) THEN s[i] ELSE t[i - Len(s)]
  BY ConcatProperties
<1>2. Len(s) \in Nat
  BY SMT
<1>3. ASSUME NEW i \in 1 .. Len(r)
      PROVE  r[i] = (s \o t)[i]
  <2>1. CASE i = Len(s) + 1
    <3>1. (s \o t)[i] = t[i - Len(s)] /\ i - Len(s) = 1
      BY <1>1, <1>2, <2>1, SMT
    <3> QED
      BY <2>1, <3>1
  <2>2. CASE i # Len(s) + 1
    BY <1>1, <1>2, <2>2, SMT
  <2> QED
    BY <2>1, <2>2
<1>4. Len(r) = Len(s \o t)
  BY <1>1
<1> QED
  BY <1>1, <1>3, <1>4, SeqEqual

LEMMA TupleSteps ==
  ASSUME NEW x \in Steps, NEW y \in Steps, NEW z \in Steps
  PROVE  <<x, y>> = <<x>> \o <<y>> /\ <<x, y, z>> = <<x, y>> \o <<z>>
<1> DEFINE S == Steps
<1>1. x \in S /\ y \in S /\ z \in S
  OBVIOUS
<1> HIDE DEF S
<1>2. /\ <<x>> \in Seq(S) /\ Len(<<x>>) = 1 /\ <<x>>[1] = x
      /\ <<y>> \in Seq(S) /\ Len(<<y>>) = 1 /\ <<y>>[1] = y
      /\ <<z>> \in Seq(S) /\ Len(<<z>>) = 1 /\ <<z>>[1] = z
      /\ <<x, y>> \in Seq(S) /\ Len(<<x, y>>) = 2 /\ <<x, y>>[1] = x /\ <<x, y>>[2] = y
      /\ <<x, y, z>> \in Seq(S) /\ Len(<<x, y, z>>) = 3
      /\ <<x, y, z>>[1] = x /\ <<x, y, z>>[2] = y /\ <<x, y, z>>[3] = z
  BY <1>1, SMT
<1>4. <<x, y>> = <<x>> \o <<y>>
  <2>1. Len(<<x, y>>) = Len(<<x>>) + 1 /\ <<x, y>>[Len(<<x>>) + 1] = <<y>>[1]
        /\ \A i \in 1 .. Len(<<x>>) : <<x, y>>[i] = <<x>>[i]
    BY <1>2, SMT
  <2> QED
    BY <1>2, <2>1, OneMore
<1>5. <<x, y, z>> = <<x, y>> \o <<z>>
  <2>1. Len(<<x, y, z>>) = Len(<<x, y>>) + 1 /\ <<x, y, z>>[Len(<<x, y>>) + 1] = <<z>>[1]
        /\ \A i \in 1 .. Len(<<x, y>>) : <<x, y, z>>[i] = <<x, y>>[i]
    BY <1>2, SMT
  <2> QED
    BY <1>2, <2>1, OneMore
<1> QED
  BY <1>4, <1>5

-----------------------------------------------------------------------------
(* The two common forms, outside a critical section and in one.            *)
LEMMA OnObjectsLeads ==
  ASSUME NEW kinds \in Seq(ObjectKinds), NEW c \in BOOLEAN, NEW n \in Progress
  PROVE  Leads(OnObjects(kinds), Outside(c, n), Outside(c, n))
<1>1. Leads(Look(kinds) \o <<Do("call")>>, Within(c, "in", "none", n), Within(c, "in", "none", n))
  BY Looking, Calling, LeadsOn
<1> QED
  BY <1>1, GuardedLeads DEF OnObjects

LEMMA ObjectMakingLeads ==
  ASSUME NEW kinds \in Seq(ObjectKinds), NEW k \in ObjectKinds, NEW c \in BOOLEAN
  PROVE  /\ k # "file" => Leads(Making(kinds, k), Outside(c, "no"), Outside(c, "no"))
         /\ k = "comm" => Leads(Making(kinds, k), Outside(c, "no"), Outside(c, "may"))
<1>1. Of("make", k) \in Steps /\ Of("new_virt_id", k) \in Steps
  <2>1. "make" \in Ops /\ "new_virt_id" \in Ops
    BY DEF Ops
  <2> QED
    BY <2>1, OfAre
<1>2. <<Of("make", k), Of("new_virt_id", k)>> = <<Of("make", k)>> \o <<Of("new_virt_id", k)>>
  BY <1>1, TupleSteps
<1>3. "no" \in Progress /\ "may" \in Progress
  BY DEF Progress
<1>4. ASSUME NEW o \in Progress,
             Leads(<<Of("new_virt_id", k)>>, Within(c, "made", "none", "no"), Within(c, "rest", "none", o))
      PROVE  Leads(Making(kinds, k), Outside(c, "no"), Outside(c, o))
  <2>1. Leads(<<Of("make", k), Of("new_virt_id", k)>>, Within(c, "in", "none", "no"),
              Within(c, "rest", "none", o))
    BY <1>2, <1>4, MakingLeads, LeadsOn
  <2>2. Leads(Look(kinds) \o <<Of("make", k), Of("new_virt_id", k)>>,
              Within(c, "in", "none", "no"), Within(c, "rest", "none", o))
    BY <1>3, <2>1, Looking, LeadsOn
  <2> QED
    BY <1>3, <2>2, GuardedLeads DEF Making
<1> QED
  BY <1>3, <1>4, MakingLeads

-----------------------------------------------------------------------------
(* The wrappers that have a form of their own.                             *)
LEMMA KindNames ==
  /\ "comm" \in ObjectKinds /\ "group" \in ObjectKinds /\ "op" \in ObjectKinds
  /\ "datatype" \in ObjectKinds /\ "request" \in ObjectKinds /\ "file" \in ObjectKinds
  BY DEF ObjectKinds

LEMMA KindSeqs ==
  ASSUME NEW x \in ObjectKinds, NEW y \in ObjectKinds, NEW z \in ObjectKinds
  PROVE  /\ <<>> \in Seq(ObjectKinds) /\ <<x>> \in Seq(ObjectKinds)
         /\ <<x, y>> \in Seq(ObjectKinds) /\ <<x, y, z>> \in Seq(ObjectKinds)
<1> DEFINE S == ObjectKinds
<1>1. x \in S /\ y \in S /\ z \in S
  OBVIOUS
<1> HIDE DEF S
<1>2. <<>> \in Seq(S) /\ <<x>> \in Seq(S) /\ <<x, y>> \in Seq(S) /\ <<x, y, z>> \in Seq(S)
  BY <1>1, SMT
<1> QED
  BY <1>2 DEF S

LEMMA LookOne ==
  ASSUME NEW k \in ObjectKinds
  PROVE  Look(<<k>>) = <<Of("get_real_id", k)>>
  BY SMT DEF Look

(* Steps that are not part of the common forms.                            *)
LEMMA FreeSteps ==
  ASSUME NEW c \in BOOLEAN, NEW k \in ObjectKinds
  PROVE  /\ Leads(<<Of("get_real_id", k)>>, Within(c, "zero", "none", "no"), Within(c, "one", k, "no"))
         /\ k \in {"op", "datatype", "file"} =>
              Leads(<<Of("unmake", k)>>, Within(c, "one", k, "no"), Within(c, "gone", k, "no"))
         /\ Leads(<<Of("free_virt_id", k)>>, Within(c, "gone", k, "no"), Within(c, "rest", "none", "no"))
         /\ Leads(<<Of("free_virt_id", k)>>, Within(c, "in", "none", "no"), Within(c, "rest", "none", "no"))
         /\ Leads(<<Of("erase_key", k)>>, Within(c, "gone", k, "no"), Within(c, "rest", "none", "no"))
         /\ k = "file" =>
              Leads(<<Of("set_key", k)>>, Within(c, "in", "none", "no"), Within(c, "rest", "none", "no"))
<1>1. /\ Within(c, "zero", "none", "no") \in Modes /\ Within(c, "one", k, "no") \in Modes
      /\ Within(c, "gone", k, "no") \in Modes /\ Within(c, "rest", "none", "no") \in Modes
      /\ Within(c, "in", "none", "no") \in Modes
  BY SMT DEF Within, M, Modes, Stages, ObjectKinds
<1>2. /\ Allowed(Within(c, "zero", "none", "no"), Of("get_real_id", k), Within(c, "one", k, "no"))
      /\ k \in {"op", "datatype", "file"} =>
           Allowed(Within(c, "one", k, "no"), Of("unmake", k), Within(c, "gone", k, "no"))
      /\ Allowed(Within(c, "gone", k, "no"), Of("free_virt_id", k), Within(c, "rest", "none", "no"))
      /\ Allowed(Within(c, "in", "none", "no"), Of("free_virt_id", k), Within(c, "rest", "none", "no"))
      /\ Allowed(Within(c, "gone", k, "no"), Of("erase_key", k), Within(c, "rest", "none", "no"))
      /\ k = "file" =>
           Allowed(Within(c, "in", "none", "no"), Of("set_key", k), Within(c, "rest", "none", "no"))
  <2>1. Allowed(Within(c, "zero", "none", "no"), Of("get_real_id", k), Within(c, "one", k, "no"))
    BY SMT DEF Within, M, Allowed, Looks, Of
  <2>2. k \in {"op", "datatype", "file"} =>
          Allowed(Within(c, "one", k, "no"), Of("unmake", k), Within(c, "gone", k, "no"))
    BY SMT DEF Within, M, Allowed, Frees, Of
  <2>3. /\ Allowed(Within(c, "gone", k, "no"), Of("free_virt_id", k), Within(c, "rest", "none", "no"))
        /\ Allowed(Within(c, "in", "none", "no"), Of("free_virt_id", k), Within(c, "rest", "none", "no"))
    BY SMT DEF Within, M, Allowed, Frees, Of
  <2>4. /\ Allowed(Within(c, "gone", k, "no"), Of("erase_key", k), Within(c, "rest", "none", "no"))
        /\ k = "file" =>
             Allowed(Within(c, "in", "none", "no"), Of("set_key", k), Within(c, "rest", "none", "no"))
    BY SMT DEF Within, M, Allowed, Frees, Of
  <2> QED
    BY <2>1, <2>2, <2>3, <2>4
<1>3. /\ "get_real_id" \in Ops /\ "unmake" \in Ops /\ "free_virt_id" \in Ops
      /\ "erase_key" \in Ops /\ "set_key" \in Ops
  BY DEF Ops
<1> QED
  BY <1>1, <1>2, <1>3, LeadsByOf

LEMMA OfSteps ==
  ASSUME NEW k \in ObjectKinds
  PROVE  /\ Of("get_real_id", k) \in Steps /\ Of("get_newest", k) \in Steps
         /\ Of("make", k) \in Steps /\ Of("unmake", k) \in Steps
         /\ Of("new_virt_id", k) \in Steps /\ Of("new_virt_id_always", k) \in Steps
         /\ Of("free_virt_id", k) \in Steps /\ Of("new_key", k) \in Steps
         /\ Of("set_key", k) \in Steps /\ Of("erase_key", k) \in Steps
         /\ Do("call") \in Steps
<1>1. /\ "get_real_id" \in Ops /\ "unmake" \in Ops /\ "free_virt_id" \in Ops
      /\ "erase_key" \in Ops /\ "set_key" \in Ops /\ "get_newest" \in Ops /\ "make" \in Ops
      /\ "new_virt_id" \in Ops /\ "new_virt_id_always" \in Ops /\ "new_key" \in Ops
      /\ "call" \in Ops
  BY DEF Ops
<1> QED
  BY <1>1, OfAre, DoAre

LEMMA NoInProgress == "no" \in Progress /\ "may" \in Progress /\ "need" \in Progress
  BY DEF Progress

LEMMA FreeingLeads ==
  ASSUME NEW k \in {"op", "datatype"}
  PROVE  Leads(Freeing(k), Outside(FALSE, "no"), Outside(FALSE, "no"))
<1>1. k \in ObjectKinds /\ k \in {"op", "datatype", "file"}
  BY DEF ObjectKinds
<1>2. Leads(<<Of("unmake", k), Of("free_virt_id", k)>>, Within(FALSE, "one", k, "no"),
            Within(FALSE, "rest", "none", "no"))
  <2>1. <<Of("unmake", k), Of("free_virt_id", k)>> = <<Of("unmake", k)>> \o <<Of("free_virt_id", k)>>
    BY <1>1, OfSteps, TupleSteps
  <2>2. /\ Leads(<<Of("unmake", k)>>, Within(FALSE, "one", k, "no"), Within(FALSE, "gone", k, "no"))
        /\ Leads(<<Of("free_virt_id", k)>>, Within(FALSE, "gone", k, "no"),
                 Within(FALSE, "rest", "none", "no"))
    BY <1>1, FreeSteps
  <2> QED
    BY <2>1, <2>2, LeadsOn
<1>3. Leads(Look(<<k>>), Within(FALSE, "zero", "none", "no"), Within(FALSE, "one", k, "no"))
  BY <1>1, LookOne, FreeSteps
<1>4. Leads(Look(<<k>>) \o <<Of("unmake", k), Of("free_virt_id", k)>>,
            Within(FALSE, "zero", "none", "no"), Within(FALSE, "rest", "none", "no"))
  BY <1>2, <1>3, LeadsOn
<1> QED
  BY <1>4, GuardedLeads, NoInProgress DEF Freeing

LEMMA FileCloseLeads == Leads(MPI_File_close, Outside(FALSE, "no"), Outside(FALSE, "no"))
<1> DEFINE k == "file"
<1>1. k \in ObjectKinds /\ k \in {"op", "datatype", "file"}
  BY DEF ObjectKinds
<1>2. Leads(<<Of("unmake", k), Of("erase_key", k)>>, Within(FALSE, "one", k, "no"),
            Within(FALSE, "rest", "none", "no"))
  <2>1. <<Of("unmake", k), Of("erase_key", k)>> = <<Of("unmake", k)>> \o <<Of("erase_key", k)>>
    BY <1>1, OfSteps, TupleSteps
  <2>2. /\ Leads(<<Of("unmake", k)>>, Within(FALSE, "one", k, "no"), Within(FALSE, "gone", k, "no"))
        /\ Leads(<<Of("erase_key", k)>>, Within(FALSE, "gone", k, "no"),
                 Within(FALSE, "rest", "none", "no"))
    BY <1>1, FreeSteps
  <2> QED
    BY <2>1, <2>2, LeadsOn
<1>3. Leads(Look(<<k>>), Within(FALSE, "zero", "none", "no"), Within(FALSE, "one", k, "no"))
  BY <1>1, LookOne, FreeSteps
<1>4. Leads(Look(<<k>>) \o <<Of("unmake", k), Of("erase_key", k)>>,
            Within(FALSE, "zero", "none", "no"), Within(FALSE, "rest", "none", "no"))
  BY <1>2, <1>3, LeadsOn
<1> QED
  BY <1>4, GuardedLeads, NoInProgress DEF MPI_File_close

LEMMA FileOpenLeads == Leads(MPI_File_open, Outside(FALSE, "no"), Outside(FALSE, "no"))
<1> DEFINE k == "file"
<1>1. k \in ObjectKinds /\ "comm" \in ObjectKinds
  BY DEF ObjectKinds
<1>2. /\ Leads(<<Of("new_key", k)>>, Within(FALSE, "made", "none", "no"), Within(FALSE, "keyed", "none", "no"))
      /\ Leads(<<Of("new_virt_id", k)>>, Within(FALSE, "keyed", "none", "no"),
               Within(FALSE, "rest", "none", "no"))
  <2>1. /\ Within(FALSE, "made", "none", "no") \in Modes /\ Within(FALSE, "keyed", "none", "no") \in Modes
        /\ Within(FALSE, "rest", "none", "no") \in Modes
    BY SMT DEF Within, M, Modes, Stages, ObjectKinds
  <2>2. /\ Allowed(Within(FALSE, "made", "none", "no"), Of("new_key", k), Within(FALSE, "keyed", "none", "no"))
        /\ Allowed(Within(FALSE, "keyed", "none", "no"), Of("new_virt_id", k),
                   Within(FALSE, "rest", "none", "no"))
    BY SMT DEF Within, M, Allowed, Makes, Of, ObjectKinds
  <2>3. "new_key" \in Ops /\ "new_virt_id" \in Ops
    BY DEF Ops
  <2> QED
    BY <1>1, <2>1, <2>2, <2>3, LeadsByOf
<1>3. Leads(<<Of("make", k)>>, Within(FALSE, "in", "none", "no"), Within(FALSE, "made", "none", "no"))
  BY <1>1, MakingLeads
<1>4. /\ <<Of("make", k), Of("new_key", k)>> = <<Of("make", k)>> \o <<Of("new_key", k)>>
      /\ <<Of("make", k), Of("new_key", k), Of("new_virt_id", k)>>
           = <<Of("make", k), Of("new_key", k)>> \o <<Of("new_virt_id", k)>>
  <2>1. Of("make", k) \in Steps /\ Of("new_key", k) \in Steps /\ Of("new_virt_id", k) \in Steps
    BY <1>1, OfSteps
  <2> QED
    BY <2>1, TupleSteps
<1>5. Leads(<<Of("make", k), Of("new_key", k), Of("new_virt_id", k)>>,
            Within(FALSE, "in", "none", "no"), Within(FALSE, "rest", "none", "no"))
  BY <1>2, <1>3, <1>4, LeadsOn
<1>6. Leads(Look(<<"comm">>), Within(FALSE, "in", "none", "no"), Within(FALSE, "in", "none", "no"))
  BY <1>1, KindSeqs, Looking, NoInProgress
<1>7. Leads(Look(<<"comm">>) \o <<Of("make", k), Of("new_key", k), Of("new_virt_id", k)>>,
            Within(FALSE, "in", "none", "no"), Within(FALSE, "rest", "none", "no"))
  BY <1>5, <1>6, LeadsOn
<1> QED
  BY <1>7, GuardedLeads, NoInProgress DEF MPI_File_open

LEMMA FileSetViewLeads == Leads(MPI_File_set_view, Outside(FALSE, "no"), Outside(FALSE, "no"))
<1> DEFINE k == "file"
<1>1. k \in ObjectKinds /\ "datatype" \in ObjectKinds
  BY DEF ObjectKinds
<1>2. <<Do("call"), Of("set_key", k)>> = <<Do("call")>> \o <<Of("set_key", k)>>
  BY <1>1, OfSteps, TupleSteps
<1>3. Leads(<<Do("call"), Of("set_key", k)>>, Within(FALSE, "in", "none", "no"),
            Within(FALSE, "rest", "none", "no"))
  BY <1>1, <1>2, Calling, FreeSteps, LeadsOn, NoInProgress
<1>4. Leads(Look(<<k, "datatype", "datatype">>), Within(FALSE, "in", "none", "no"),
            Within(FALSE, "in", "none", "no"))
  BY <1>1, KindSeqs, Looking, NoInProgress
<1>5. Leads(Look(<<k, "datatype", "datatype">>) \o <<Do("call"), Of("set_key", k)>>,
            Within(FALSE, "in", "none", "no"), Within(FALSE, "rest", "none", "no"))
  BY <1>3, <1>4, LeadsOn
<1> QED
  BY <1>5, GuardedLeads, NoInProgress DEF MPI_File_set_view

LEMMA CallbacksLead ==
  ASSUME NEW n \in Progress
  PROVE  Leads(<<Do("delete_callbacks")>>, Outside(FALSE, n), Outside(FALSE, n))
<1>1. Outside(FALSE, n) \in Modes
  BY SMT DEF Outside, M, Modes, Stages, ObjectKinds, Progress
<1>2. Allowed(Outside(FALSE, n), Do("delete_callbacks"), Outside(FALSE, n))
  BY SMT DEF Outside, M, Allowed, Others, Do
<1>3. "delete_callbacks" \in Ops
  BY DEF Ops
<1> QED
  BY <1>1, <1>2, <1>3, LeadsByDo

LEMMA FreeOfLeads ==
  ASSUME NEW v \in {"get_real_id", "get_newest"}, NEW n \in Progress,
         Leads(<<Of(v, "comm")>>, Within(TRUE, "in", "none", n), Within(TRUE, "in", "none", "no"))
  PROVE  Leads(FreeOf(v), Outside(FALSE, n), Outside(FALSE, "no"))
<1> DEFINE x == Of(v, "comm")
           y == Do("call")
           z == Of("free_virt_id", "comm")
<1>1. x \in Steps /\ y \in Steps /\ z \in Steps
  BY OfSteps, KindNames
<1>2. /\ Leads(<<y>>, Within(TRUE, "in", "none", "no"), Within(TRUE, "in", "none", "no"))
      /\ Leads(<<z>>, Within(TRUE, "in", "none", "no"), Within(TRUE, "rest", "none", "no"))
  BY Calling, FreeSteps, KindNames, NoInProgress
<1>3. <<x, y>> = <<x>> \o <<y>> /\ <<x, y, z>> = <<x, y>> \o <<z>>
  <2> HIDE DEF x, y, z
  <2> QED
    BY <1>1, TupleSteps
<1>4. Leads(<<x, y>>, Within(TRUE, "in", "none", n), Within(TRUE, "in", "none", "no"))
  BY <1>2, <1>3, LeadsOn
<1>5. Leads(<<x, y, z>>, Within(TRUE, "in", "none", n), Within(TRUE, "rest", "none", "no"))
  BY <1>2, <1>3, <1>4, LeadsOn
<1>6. Leads(Guarded(<<x, y, z>>), Outside(TRUE, n), Outside(TRUE, "no"))
  BY <1>5, GuardedLeads, NoInProgress
<1>7. Leads(Committed(Guarded(<<x, y, z>>)), Outside(FALSE, n), Outside(FALSE, "no"))
  BY <1>6, CommittedLeads, NoInProgress
<1> QED
  BY <1>7, CallbacksLead, LeadsOn DEF FreeOf

LEMMA CommFreeLeads == Leads(FreeOf("get_real_id"), Outside(FALSE, "no"), Outside(FALSE, "no"))
<1>1. Leads(Look(<<"comm">>), Within(TRUE, "in", "none", "no"), Within(TRUE, "in", "none", "no"))
  BY KindSeqs, KindNames, Looking, NoInProgress
<1>2. Leads(<<Of("get_real_id", "comm")>>, Within(TRUE, "in", "none", "no"), Within(TRUE, "in", "none", "no"))
  BY <1>1, LookOne, KindNames
<1> QED
  BY <1>2, FreeOfLeads, NoInProgress

LEMMA NewestFreeLeads == Leads(FreeOf("get_newest"), Outside(FALSE, "need"), Outside(FALSE, "no"))
<1>1. Within(TRUE, "in", "none", "need") \in Modes /\ Within(TRUE, "in", "none", "no") \in Modes
  BY SMT DEF Within, M, Modes, Stages, ObjectKinds
<1>2. Allowed(Within(TRUE, "in", "none", "need"), Of("get_newest", "comm"), Within(TRUE, "in", "none", "no"))
  BY SMT DEF Within, M, Allowed, Looks, Of
<1>3. "get_newest" \in Ops
  BY DEF Ops
<1>4. Leads(<<Of("get_newest", "comm")>>, Within(TRUE, "in", "none", "need"), Within(TRUE, "in", "none", "no"))
  BY <1>1, <1>2, <1>3, LeadsByOf, KindNames
<1> QED
  BY <1>4, FreeOfLeads, NoInProgress

LEMMA CommDupLeads == Leads(MPI_Comm_dup, Outside(FALSE, "no"), Outside(FALSE, "no"))
<1>1. Leads(Making(<<"comm">>, "comm"), Outside(TRUE, "no"), Outside(TRUE, "may"))
  BY ObjectMakingLeads, KindSeqs, KindNames
<1>2. Leads(Committed(Making(<<"comm">>, "comm")), Outside(FALSE, "no"), Outside(FALSE, "may"))
  BY <1>1, CommittedLeads, NoInProgress
<1>3. Outside(FALSE, "may") \in Modes /\ Outside(FALSE, "no") \in Modes
  BY SMT DEF Outside, M, Modes, Stages, ObjectKinds
<1>4. Allowed(Outside(FALSE, "may"), Do("copy_comm_attributes"), Outside(FALSE, "no"))
  BY SMT DEF Outside, M, Allowed, Others, Do
<1>5. "copy_comm_attributes" \in Ops
  BY DEF Ops
<1>6. Leads(<<Do("copy_comm_attributes")>>, Outside(FALSE, "may"), Outside(FALSE, "no"))
  BY <1>3, <1>4, <1>5, LeadsByDo
<1> QED
  BY <1>2, <1>6, LeadsOn DEF MPI_Comm_dup

LEMMA CommGroupLeads == Leads(MPI_Comm_group, Outside(FALSE, "no"), Outside(FALSE, "no"))
<1> DEFINE x == Of("make", "group")
           y == Of("new_virt_id_always", "group")
<1>1. Within(FALSE, "made", "none", "no") \in Modes /\ Within(FALSE, "rest", "none", "no") \in Modes
  BY SMT DEF Within, M, Modes, Stages, ObjectKinds
<1>2. Allowed(Within(FALSE, "made", "none", "no"), y, Within(FALSE, "rest", "none", "no"))
  BY SMT DEF Within, M, Allowed, Makes, Of
<1>3. "new_virt_id_always" \in Ops
  BY DEF Ops
<1>4. Leads(<<y>>, Within(FALSE, "made", "none", "no"), Within(FALSE, "rest", "none", "no"))
  BY <1>1, <1>2, <1>3, LeadsByOf, KindNames
<1>5. Leads(<<x>>, Within(FALSE, "in", "none", "no"), Within(FALSE, "made", "none", "no"))
  BY MakingLeads, KindNames
<1>6. <<x, y>> = <<x>> \o <<y>>
  BY OfSteps, KindNames, TupleSteps
<1>7. Leads(Look(<<"comm">>), Within(FALSE, "in", "none", "no"), Within(FALSE, "in", "none", "no"))
  BY KindSeqs, KindNames, Looking, NoInProgress
<1>8. Leads(Look(<<"comm">>) \o <<x, y>>, Within(FALSE, "in", "none", "no"), Within(FALSE, "rest", "none", "no"))
  BY <1>4, <1>5, <1>6, <1>7, LeadsOn
<1> QED
  BY <1>8, GuardedLeads, NoInProgress DEF MPI_Comm_group

LEMMA GroupFreeLeads == Leads(MPI_Group_free, Outside(FALSE, "no"), Outside(FALSE, "no"))
  BY FreeSteps, KindNames, GuardedLeads, NoInProgress DEF MPI_Group_free

LEMMA InitLeads == Leads(MPI_Init, Outside(FALSE, "no"), Outside(FALSE, "no"))
<1> DEFINE x == Of("make", "comm")
           y == Of("new_virt_id", "comm")
<1>1. <<x, y>> = <<x>> \o <<y>>
  BY OfSteps, KindNames, TupleSteps
<1>2. Leads(<<x, y>>, Within(FALSE, "in", "none", "no"), Within(FALSE, "rest", "none", "no"))
  BY <1>1, MakingLeads, KindNames, LeadsOn
<1>3. Leads(Guarded(<<x, y>>), Outside(FALSE, "no"), Outside(FALSE, "no"))
  BY <1>2, GuardedLeads, NoInProgress
<1>4. Outside(FALSE, "no") \in Modes
  BY SMT DEF Outside, M, Modes, Stages, ObjectKinds
<1>5. Allowed(Outside(FALSE, "no"), Do("initialized"), Outside(FALSE, "no"))
  BY SMT DEF Outside, M, Allowed, Others, Do
<1>6. "initialized" \in Ops
  BY DEF Ops
<1>7. Leads(<<Do("initialized")>>, Outside(FALSE, "no"), Outside(FALSE, "no"))
  BY <1>4, <1>5, <1>6, LeadsByDo
<1> QED
  BY <1>3, <1>7, LeadsOn DEF MPI_Init

LEMMA FinalizeLeads == Leads(MPI_Finalize, Outside(FALSE, "no"), Within(FALSE, "ended", "none", "no"))
<1> DEFINE x == Do("delete_callbacks")
           y == Do("LOWER_HALF_DISABLE_CKPT")
           z == Do("call")
           e == Do("end")
<1>1. Within(FALSE, "ended", "none", "no") \in Modes /\ Within(FALSE, "in", "none", "no") \in Modes
  BY SMT DEF Within, M, Modes, Stages, ObjectKinds
<1>2. Allowed(Within(FALSE, "in", "none", "no"), e, Within(FALSE, "ended", "none", "no"))
  BY SMT DEF Within, M, Allowed, Others, Do
<1>3. "end" \in Ops /\ "delete_callbacks" \in Ops /\ "call" \in Ops /\ "LOWER_HALF_DISABLE_CKPT" \in Ops
  BY DEF Ops
<1>4. Leads(<<e>>, Within(FALSE, "in", "none", "no"), Within(FALSE, "ended", "none", "no"))
  BY <1>1, <1>2, <1>3, LeadsByDo
<1>5. /\ Leads(<<x>>, Outside(FALSE, "no"), Outside(FALSE, "no"))
      /\ Leads(<<y>>, Outside(FALSE, "no"), Within(FALSE, "in", "none", "no"))
      /\ Leads(<<z>>, Within(FALSE, "in", "none", "no"), Within(FALSE, "in", "none", "no"))
  BY CallbacksLead, Entering, Calling, NoInProgress
<1>6. x \in Steps /\ y \in Steps /\ z \in Steps /\ e \in Steps
  BY <1>3, DoAre
<1> HIDE DEF x, y, z, e
<1>7. <<x, y>> = <<x>> \o <<y>> /\ <<x, y, z>> = <<x, y>> \o <<z>>
  <2> DEFINE Joined(a, b, c) == <<a, b>> = <<a>> \o <<b>> /\ <<a, b, c>> = <<a, b>> \o <<c>>
  <2>1. \A a, b, c \in Steps : Joined(a, b, c)
    BY TupleSteps
  <2> HIDE DEF Joined
  <2>2. Joined(x, y, z)
    BY <1>6, <2>1
  <2> QED
    BY <2>2 DEF Joined
<1>8. <<x, y, z, e>> = <<x, y, z>> \o <<e>>
  <2> DEFINE S == Steps
  <2>1. x \in S /\ y \in S /\ z \in S /\ e \in S
    BY <1>6
  <2> HIDE DEF S
  <2>2. /\ <<x, y, z, e>> \in Seq(S) /\ <<x, y, z>> \in Seq(S) /\ <<e>> \in Seq(S)
        /\ Len(<<e>>) = 1 /\ Len(<<x, y, z, e>>) = Len(<<x, y, z>>) + 1
        /\ <<x, y, z, e>>[Len(<<x, y, z>>) + 1] = <<e>>[1]
        /\ \A i \in 1 .. Len(<<x, y, z>>) : <<x, y, z, e>>[i] = <<x, y, z>>[i]
    BY <2>1, SMT
  <2> QED
    BY <2>2, OneMore
<1>9. Leads(<<x, y, z>>, Outside(FALSE, "no"), Within(FALSE, "in", "none", "no"))
  BY <1>5, <1>7, LeadsOn
<1>10. Leads(<<x, y, z, e>>, Outside(FALSE, "no"), Within(FALSE, "ended", "none", "no"))
  BY <1>4, <1>8, <1>9, LeadsOn
<1> QED
  BY <1>10 DEF MPI_Finalize, x, y, z, e

(* MPI_Comm_create_group goes into the lower half twice.                   *)
LEMMA CreateGroupLeads == Leads(MPI_Comm_create_group, Outside(FALSE, "no"), Outside(FALSE, "no"))
<1> DEFINE two == M(2, TRUE, "in", "none", "no")
           twoMade == M(2, TRUE, "made", "none", "no")
           x == Of("make", "comm")
<1>1. /\ two \in Modes /\ twoMade \in Modes
      /\ Within(TRUE, "zero", "none", "no") \in Modes /\ Within(TRUE, "made", "none", "no") \in Modes
  BY SMT DEF Within, M, Modes, Stages, ObjectKinds
<1>2. /\ Allowed(Within(TRUE, "zero", "none", "no"), Do("LOWER_HALF_DISABLE_CKPT"), two)
      /\ Allowed(twoMade, Do("LOWER_HALF_ENABLE_CKPT"), Within(TRUE, "made", "none", "no"))
  BY SMT DEF Within, M, Allowed, Begins, Do
<1>3. Allowed(two, x, twoMade)
  BY SMT DEF M, Allowed, Makes, Of
<1>4. "LOWER_HALF_DISABLE_CKPT" \in Ops /\ "LOWER_HALF_ENABLE_CKPT" \in Ops /\ "make" \in Ops
  BY DEF Ops
<1>5. /\ Leads(<<Do("LOWER_HALF_DISABLE_CKPT")>>, Within(TRUE, "zero", "none", "no"), two)
      /\ Leads(<<x>>, two, twoMade)
      /\ Leads(<<Do("LOWER_HALF_ENABLE_CKPT")>>, twoMade, Within(TRUE, "made", "none", "no"))
  BY <1>1, <1>2, <1>3, <1>4, LeadsByDo, LeadsByOf, KindNames
<1>6. Leads(Look(<<"comm", "group">>), two, two)
  <2>1. 2 \in 1 .. 2
    BY SMT
  <2> QED
    BY <2>1, LeadsByLooks, KindSeqs, KindNames, NoInProgress
<1> HIDE DEF two, twoMade, x
<1>7. Leads(Look(<<"comm", "group">>) \o <<x>>, two, twoMade)
  BY <1>5, <1>6, LeadsOn
<1>8. Leads(Guarded(Look(<<"comm", "group">>) \o <<x>>), Within(TRUE, "zero", "none", "no"),
            Within(TRUE, "made", "none", "no"))
  <2>1. Leads(<<Do("LOWER_HALF_DISABLE_CKPT")>> \o (Look(<<"comm", "group">>) \o <<x>>),
              Within(TRUE, "zero", "none", "no"), twoMade)
    BY <1>5, <1>7, LeadsOn
  <2> QED
    BY <1>5, <2>1, LeadsOn DEF Guarded
<1>9. Leads(MPI_Comm_create_group_internal, Within(TRUE, "zero", "none", "no"),
            Within(TRUE, "made", "none", "no"))
  BY <1>8 DEF MPI_Comm_create_group_internal, x
<1>10. Leads(<<Of("new_virt_id", "comm")>>, Within(TRUE, "made", "none", "no"),
             Within(TRUE, "rest", "none", "no"))
  BY MakingLeads, KindNames
<1>11. Leads(MPI_Comm_create_group_internal \o <<Of("new_virt_id", "comm")>>,
             Within(TRUE, "zero", "none", "no"), Within(TRUE, "rest", "none", "no"))
  BY <1>9, <1>10, LeadsOn
<1>12. Leads(Guarded(MPI_Comm_create_group_internal \o <<Of("new_virt_id", "comm")>>),
             Outside(TRUE, "no"), Outside(TRUE, "no"))
  BY <1>11, GuardedLeads, NoInProgress
<1> QED
  BY <1>12, CommittedLeads, NoInProgress DEF MPI_Comm_create_group

-----------------------------------------------------------------------------
(* All of them.                                                            *)
Sound(w) == Leads(w, Outside(FALSE, "no"), Outside(FALSE, "no"))

LEMMA Forms ==
  ASSUME NEW x \in ObjectKinds, NEW y \in ObjectKinds, NEW z \in ObjectKinds,
         NEW k \in ObjectKinds \ {"file"}
  PROVE  /\ Sound(OnObjects(<<x>>)) /\ Sound(OnObjects(<<x, y>>))
         /\ Sound(Committed(OnObjects(<<x>>))) /\ Sound(Committed(OnObjects(<<x, y>>)))
         /\ Sound(Committed(OnObjects(<<x, y, z>>)))
         /\ Sound(Making(<<>>, k)) /\ Sound(Making(<<x>>, k)) /\ Sound(Making(<<x, y>>, k))
         /\ Sound(Committed(Making(<<x>>, k))) /\ Sound(Committed(Making(<<x, y>>, k)))
         /\ Sound(Committed(Making(<<x, y, z>>, k)))
<1>1. /\ <<>> \in Seq(ObjectKinds) /\ <<x>> \in Seq(ObjectKinds)
      /\ <<x, y>> \in Seq(ObjectKinds) /\ <<x, y, z>> \in Seq(ObjectKinds)
  BY KindSeqs
<1>2. ASSUME NEW s \in Seq(ObjectKinds)
      PROVE  /\ Sound(OnObjects(s)) /\ Sound(Committed(OnObjects(s)))
             /\ Sound(Making(s, k)) /\ Sound(Committed(Making(s, k)))
  <2>1. /\ Leads(OnObjects(s), Outside(FALSE, "no"), Outside(FALSE, "no"))
        /\ Leads(OnObjects(s), Outside(TRUE, "no"), Outside(TRUE, "no"))
    BY OnObjectsLeads, NoInProgress
  <2>2. /\ Leads(Making(s, k), Outside(FALSE, "no"), Outside(FALSE, "no"))
        /\ Leads(Making(s, k), Outside(TRUE, "no"), Outside(TRUE, "no"))
    BY ObjectMakingLeads
  <2> QED
    BY <2>1, <2>2, CommittedLeads, NoInProgress DEF Sound
<1> QED
  BY <1>1, <1>2

LEMMA NoObjects == Sound(OnObjects(<<>>))
<1>1. <<>> \in Seq(ObjectKinds)
  BY KindSeqs, KindNames
<1> QED
  BY <1>1, OnObjectsLeads, NoInProgress DEF Sound

LEMMA NoFile == {"comm", "group", "op", "datatype", "request"} \subseteq ObjectKinds \ {"file"}
  BY DEF ObjectKinds

LEMMA CollectiveCallsSound == \A w \in CollectiveCalls : Sound(w)
<1>1. Sound(Committed(OnObjects(<<"comm", "datatype">>)))
  BY Forms, KindNames, NoFile
<1>2. Sound(Committed(OnObjects(<<"comm">>)))
  BY Forms, KindNames, NoFile
<1>3. Sound(Committed(OnObjects(<<"comm", "datatype", "op">>)))
  BY Forms, KindNames, NoFile
<1>4. Sound(Committed(OnObjects(<<"comm", "datatype", "datatype">>)))
  BY Forms, KindNames, NoFile
<1>5. Sound(Committed(Making(<<"comm", "datatype">>, "request")))
  BY Forms, KindNames, NoFile
<1>6. Sound(Committed(Making(<<"comm">>, "request")))
  BY Forms, KindNames, NoFile
<1>7. Sound(Committed(Making(<<"comm", "datatype", "op">>, "request")))
  BY Forms, KindNames, NoFile
<1>8. Sound(Committed(Making(<<"comm", "datatype", "datatype">>, "request")))
  BY Forms, KindNames, NoFile
<1>9. Sound(OnObjects(<<"request">>))
  BY Forms, KindNames, NoFile
<1>10. Sound(MPI_Bcast)
  BY <1>1 DEF MPI_Bcast
<1>11. Sound(MPI_Barrier)
  BY <1>2 DEF MPI_Barrier
<1>12. Sound(MPI_Allreduce) /\ Sound(MPI_Reduce) /\ Sound(MPI_Reduce_scatter) /\
      Sound(MPI_Scan)
  BY <1>3 DEF MPI_Allreduce, MPI_Reduce, MPI_Reduce_scatter, MPI_Scan
<1>13. Sound(MPI_Alltoall) /\ Sound(MPI_Alltoallv) /\ Sound(MPI_Gather) /\
      Sound(MPI_Gatherv) /\ Sound(MPI_Scatter) /\ Sound(MPI_Scatterv) /\
      Sound(MPI_Allgather) /\ Sound(MPI_Allgatherv)
  BY <1>4 DEF MPI_Alltoall, MPI_Alltoall_internal, MPI_Alltoallv, MPI_Gather, MPI_Gatherv,
    MPI_Scatter, MPI_Scatterv, MPI_Allgather, MPI_Allgatherv
<1>14. Sound(MPI_Ibcast)
  BY <1>5 DEF MPI_Ibcast
<1>15. Sound(MPI_Ibarrier)
  BY <1>6 DEF MPI_Ibarrier
<1>16. Sound(MPI_Ireduce) /\ Sound(MPI_Iallreduce) /\ Sound(MPI_Ireduce_scatter) /\
      Sound(MPI_Iscan)
  BY <1>7 DEF MPI_Ireduce, MPI_Iallreduce, MPI_Ireduce_scatter, MPI_Iscan
<1>17. Sound(MPI_Ialltoall) /\ Sound(MPI_Ialltoallv) /\ Sound(MPI_Iallgather) /\
      Sound(MPI_Iallgatherv) /\ Sound(MPI_Igather) /\ Sound(MPI_Igatherv) /\
      Sound(MPI_Iscatter) /\ Sound(MPI_Iscatterv)
  BY <1>8 DEF MPI_Ialltoall, MPI_Ialltoallv, MPI_Iallgather, MPI_Iallgatherv, MPI_Igather,
    MPI_Igatherv, MPI_Iscatter, MPI_Iscatterv
<1>18. Sound(MPI_Request_get_status)
  BY <1>9 DEF MPI_Request_get_status
<1> QED
  BY <1>10, <1>11, <1>12, <1>13, <1>14, <1>15, <1>16, <1>17, <1>18 DEF CollectiveCalls

LEMMA CommCallsSound == \A w \in CommCalls : Sound(w)
<1>1. Sound(Committed(Making(<<"comm">>, "comm")))
  BY Forms, KindNames, NoFile
<1>2. Sound(Committed(Making(<<"comm", "group">>, "comm")))
  BY Forms, KindNames, NoFile
<1>3. Sound(OnObjects(<<"comm">>))
  BY Forms, KindNames, NoFile
<1>4. Sound(OnObjects(<<"comm", "comm">>))
  BY Forms, KindNames, NoFile
<1>5. Sound(OnObjects(<<>>))
  BY NoObjects
<1>6. Sound(Making(<<"group">>, "group"))
  BY Forms, KindNames, NoFile
<1>7. Sound(OnObjects(<<"group">>))
  BY Forms, KindNames, NoFile
<1>8. Sound(OnObjects(<<"group", "group">>))
  BY Forms, KindNames, NoFile
<1>9. Sound(MPI_Comm_free)
  BY CommFreeLeads DEF Sound, MPI_Comm_free
<1>10. Sound(MPI_Comm_dup)
  BY CommDupLeads DEF Sound
<1>11. Sound(MPI_Comm_create_group)
  BY CreateGroupLeads DEF Sound
<1>12. Sound(MPI_Comm_group)
  BY CommGroupLeads DEF Sound
<1>13. Sound(MPI_Group_free)
  BY GroupFreeLeads DEF Sound
<1>14. Sound(MPI_Comm_split) /\ Sound(MPI_Comm_split_type) /\ Sound(MPI_Cart_create) /\
      Sound(MPI_Cart_sub)
  BY <1>1 DEF MPI_Comm_split, MPI_Comm_split_type, MPI_Cart_create, MPI_Cart_sub
<1>15. Sound(MPI_Comm_create)
  BY <1>2 DEF MPI_Comm_create
<1>16. Sound(MPI_Comm_size) /\ Sound(MPI_Comm_rank) /\ Sound(MPI_Abort) /\
      Sound(MPI_Comm_set_errhandler) /\ Sound(MPI_Topo_test) /\ Sound(MPI_Cart_coords) /\
      Sound(MPI_Cart_get) /\ Sound(MPI_Cart_map) /\ Sound(MPI_Cart_rank) /\
      Sound(MPI_Cart_shift) /\ Sound(MPI_Cartdim_get)
  BY <1>3 DEF MPI_Comm_size, MPI_Comm_rank, MPI_Abort, MPI_Comm_set_errhandler, MPI_Topo_test,
    MPI_Cart_coords, MPI_Cart_get, MPI_Cart_map, MPI_Cart_rank, MPI_Cart_shift,
    MPI_Cartdim_get
<1>17. Sound(MPI_Comm_compare)
  BY <1>4 DEF MPI_Comm_compare
<1>18. Sound(MPI_Dims_create)
  BY <1>5 DEF MPI_Dims_create
<1>19. Sound(MPI_Group_incl)
  BY <1>6 DEF MPI_Group_incl
<1>20. Sound(MPI_Group_size) /\ Sound(MPI_Group_rank)
  BY <1>7 DEF MPI_Group_size, MPI_Group_rank
<1>21. Sound(MPI_Group_compare) /\ Sound(MPI_Group_translate_ranks)
  BY <1>8 DEF MPI_Group_compare, MPI_Group_translate_ranks
<1> QED
  BY <1>9, <1>10, <1>11, <1>12, <1>13, <1>14, <1>15, <1>16, <1>17, <1>18, <1>19, <1>20, <1>21 DEF CommCalls

LEMMA TypeCallsSound == \A w \in TypeCalls : Sound(w)
<1>1. Sound(Making(<<>>, "op"))
  BY Forms, KindNames, NoFile
<1>2. Sound(OnObjects(<<"datatype", "op">>))
  BY Forms, KindNames, NoFile
<1>3. Sound(Making(<<"datatype">>, "datatype"))
  BY Forms, KindNames, NoFile
<1>4. Sound(Making(<<"datatype", "datatype">>, "datatype"))
  BY Forms, KindNames, NoFile
<1>5. Sound(OnObjects(<<"datatype">>))
  BY Forms, KindNames, NoFile
<1>6. Sound(OnObjects(<<"datatype", "comm">>))
  BY Forms, KindNames, NoFile
<1>7. Sound(MPI_Op_free)
  BY FreeingLeads DEF Sound, MPI_Op_free
<1>8. Sound(MPI_Type_free)
  BY FreeingLeads DEF Sound, MPI_Type_free
<1>9. Sound(MPI_Op_create)
  BY <1>1 DEF MPI_Op_create
<1>10. Sound(MPI_Reduce_local)
  BY <1>2 DEF MPI_Reduce_local
<1>11. Sound(MPI_Type_contiguous) /\ Sound(MPI_Type_hvector) /\ Sound(MPI_Type_vector) /\
      Sound(MPI_Type_create_hindexed) /\ Sound(MPI_Type_create_hindexed_block) /\
      Sound(MPI_Type_hindexed_block) /\ Sound(MPI_Type_indexed) /\ Sound(MPI_Type_dup) /\
      Sound(MPI_Type_create_resized)
  BY <1>3 DEF MPI_Type_contiguous, MPI_Type_hvector, MPI_Type_vector, MPI_Type_create_hindexed,
    MPI_Type_create_hindexed_block, MPI_Type_hindexed_block, MPI_Type_indexed, MPI_Type_dup,
    MPI_Type_create_resized
<1>12. Sound(MPI_Type_create_struct) /\ Sound(MPI_Type_struct)
  BY <1>4 DEF MPI_Type_create_struct, MPI_Type_struct
<1>13. Sound(MPI_Type_commit) /\ Sound(MPI_Type_size) /\ Sound(MPI_Type_get_extent) /\
      Sound(MPI_Type_get_name) /\ Sound(MPI_Type_size_x) /\ Sound(MPI_Get_count)
  BY <1>5 DEF MPI_Type_commit, MPI_Type_size, MPI_Type_get_extent, MPI_Type_get_name,
    MPI_Type_size_x, MPI_Get_count
<1>14. Sound(MPI_Pack_size) /\ Sound(MPI_Pack)
  BY <1>6 DEF MPI_Pack_size, MPI_Pack
<1> QED
  BY <1>7, <1>8, <1>9, <1>10, <1>11, <1>12, <1>13, <1>14 DEF TypeCalls

LEMMA OtherCallsSound == \A w \in OtherCalls : w = MPI_Finalize \/ Sound(w)
<1>1. Sound(OnObjects(<<>>))
  BY NoObjects
<1>2. Sound(MPI_Initialized) /\ Sound(MPI_Finalized) /\ Sound(MPI_Get_processor_name) /\
      Sound(MPI_Get_library_version) /\ Sound(MPI_Get_address) /\ Sound(MPI_MANA_Internal)
      /\ Sound(MPI_Error_class) /\ Sound(MPI_Error_string)
  BY <1>1 DEF MPI_Initialized, MPI_Finalized, MPI_Get_processor_name, MPI_Get_library_version,
    MPI_Get_address, MPI_MANA_Internal, MPI_Error_class, MPI_Error_string
<1> QED
  BY <1>2 DEF OtherCalls

LEMMA FileCallsSound == \A w \in FileCalls : Sound(w)
<1>1. Sound(OnObjects(<<>>))
  BY NoObjects
<1>2. Sound(OnObjects(<<"file">>))
  BY Forms, KindNames, NoFile
<1>3. Sound(OnObjects(<<"file", "datatype">>))
  BY Forms, KindNames, NoFile
<1>4. Sound(MPI_File_open)
  BY FileOpenLeads DEF Sound
<1>5. Sound(MPI_File_close)
  BY FileCloseLeads DEF Sound
<1>6. Sound(MPI_File_set_view)
  BY FileSetViewLeads DEF Sound
<1>7. Sound(MPI_File_get_view)
  <2>1. Outside(FALSE, "no") \in Modes
    BY SMT DEF Outside, M, Modes, Stages, ObjectKinds
  <2> QED
    BY <2>1, LeadsNowhere DEF Sound, MPI_File_get_view
<1>8. Sound(MPI_File_delete)
  BY <1>1 DEF MPI_File_delete
<1>9. Sound(MPI_File_get_atomicity) /\ Sound(MPI_File_set_atomicity) /\
      Sound(MPI_File_set_size) /\ Sound(MPI_File_get_size) /\ Sound(MPI_File_sync) /\
      Sound(MPI_File_get_position) /\ Sound(MPI_File_seek) /\
      Sound(MPI_File_set_errhandler) /\ Sound(MPI_File_get_errhandler)
  BY <1>2 DEF MPI_File_get_atomicity, MPI_File_set_atomicity, MPI_File_set_size, MPI_File_get_size,
    MPI_File_sync, MPI_File_get_position, MPI_File_seek, MPI_File_set_errhandler,
    MPI_File_get_errhandler
<1>10. Sound(MPI_File_read) /\ Sound(MPI_File_read_at) /\ Sound(MPI_File_read_at_all) /\
      Sound(MPI_File_read_all) /\ Sound(MPI_File_write) /\ Sound(MPI_File_write_at) /\
      Sound(MPI_File_write_at_all) /\ Sound(MPI_File_write_all)
  BY <1>3 DEF MPI_File_read, MPI_File_read_at, MPI_File_read_at_all, MPI_File_read_all,
    MPI_File_write, MPI_File_write_at, MPI_File_write_at_all, MPI_File_write_all
<1> QED
  BY <1>4, <1>5, <1>6, <1>7, <1>8, <1>9, <1>10 DEF FileCalls

LEMMA OutsideIsFinal == Outside(FALSE, "no") \in Finals /\ Within(FALSE, "ended", "none", "no") \in Finals
<1>1. Outside(FALSE, "no") \in Modes /\ Within(FALSE, "ended", "none", "no") \in Modes
  BY SMT DEF Outside, Within, M, Modes, Stages, ObjectKinds
<1>2. Within(FALSE, "ended", "none", "no").s = "ended"
  BY DEF Within, M
<1> QED
  BY <1>1, <1>2 DEF Finals, Outside

LEMMA SoundIsGood ==
  ASSUME NEW w, Sound(w)
  PROVE  Good(w, Outside(FALSE, "no"))
  BY OutsideIsFinal DEF Sound, Good

(* Every call that the application may make, but for those that hand over  *)
(* the program's own handles, which "all" and "files" leave out.           *)
LEMMA CallsAreGood ==
  ASSUME Workload \in {"all", "files"}, NEW w \in Calls
  PROVE  Good(w, Outside(FALSE, "no"))
<1>1. \/ w \in CollectiveCalls \/ w \in CommCalls \/ w \in TypeCalls
      \/ w \in OtherCalls \/ w \in FileCalls
  <2>1. CASE Workload = "all"
    BY <2>1, SMT DEF Calls
  <2>2. CASE Workload = "files"
    BY <2>2, SMT DEF Calls
  <2> QED
    BY <2>1, <2>2
<1>2. w = MPI_Finalize \/ Sound(w)
  BY <1>1, CollectiveCallsSound, CommCallsSound, TypeCallsSound, OtherCallsSound, FileCallsSound
<1>3. Good(MPI_Finalize, Outside(FALSE, "no"))
  BY FinalizeLeads, OutsideIsFinal DEF Good
<1> QED
  BY <1>2, <1>3, SoundIsGood

(* A call that a callback makes, before what is left of the call.          *)
LEMMA CallbackIsGood ==
  ASSUME NEW w, NEW n \in Progress, Good(w, Outside(FALSE, n))
  PROVE  Good(MPI_Allreduce \o w, Outside(FALSE, n))
<1>1. <<"comm", "datatype", "op">> \in Seq(ObjectKinds)
  BY KindSeqs, KindNames
<1>2. Leads(OnObjects(<<"comm", "datatype", "op">>), Outside(TRUE, n), Outside(TRUE, n))
  BY <1>1, OnObjectsLeads
<1>3. Leads(MPI_Allreduce, Outside(FALSE, n), Outside(FALSE, n))
  BY <1>2, CommittedLeads DEF MPI_Allreduce
<1>4. PICK z \in Finals : Leads(w, Outside(FALSE, n), z)
  BY DEF Good
<1> QED
  BY <1>3, <1>4, LeadsOn DEF Good



-----------------------------------------------------------------------------
(* The inductive invariant.  The table has its objects' numbers, two of    *)
(* the program's handles never the same object, and g_params_map keeps a   *)
(* key while the program has a file: the one of the handle that            *)
(* MPI_File_open made first and gave nobody.                               *)
Live(r) == r \in objects \cup {RequestNull}
Names == {Garbage, RequestNull} \cup ((0 .. life) \X (1 .. next - 1))
KeyLeft == \E x \in params : x # 0 /\ \A g \in held : g.handle # x

TableInv ==
  /\ next \in Nat /\ next > 0 /\ life \in Nat /\ ok \in BOOLEAN
  /\ table \in [DOMAIN table -> [kind : ObjectKinds, real : Names]]
  /\ DOMAIN table \subseteq 1 .. next - 1
  /\ objects \subseteq {life} \X (0 .. next - 1) /\ <<life, 0>> \in objects
  /\ params \subseteq 0 .. next - 1
  /\ held \subseteq [kind : ObjectKinds, handle : DOMAIN table]
  /\ \A g \in held : table[g.handle].kind = g.kind
  /\ checkpoint \in {"closed", "saved", "invalid handle"} => depth = 0
  /\ checkpoint \in {"closed", "saved"} =>
       \A x \in DOMAIN table : table[x].kind = "request" => table[x].real = RequestNull
  /\ (\E g \in held : g.kind = "file") => KeyLeft
  /\ checkpoint # "invalid handle" =>
       \A g, h \in held : table[g.handle].real = table[h.handle].real =>
                            g = h \/ table[g.handle].real = RequestNull

(* What a mode says of the state.                                          *)
LiveBut(S) ==
  checkpoint # "invalid handle" =>
    \A g \in held : g.handle \notin S => Live(table[g.handle].real)
LookedLive ==
  \A l \in looked :
    /\ Live(l.real)
    /\ l.handle # 0 /\ l.kind \in {"op", "datatype", "file"} =>
         \E g \in held : g.handle = l.handle /\ g.kind = l.kind /\ table[g.handle].real = l.real
Gone(k) ==
  \E l : /\ looked = {l} /\ l.kind = k /\ l.handle # 0
         /\ \E g \in held : g.handle = l.handle
         /\ LiveBut({l.handle})
NewestLive ==
  /\ result \in DOMAIN table /\ table[result].kind = "comm"
  /\ checkpoint # "invalid handle" => table[result].real \in objects
Unnamed ==
  /\ made \in objects /\ made # <<life, 0>>
  /\ \A g \in held : table[g.handle].real # made

Match(m) ==
  /\ depth = m.d /\ critical = m.c /\ (m.d = 0 <=> m.s = "out")
  /\ m.s = "ended" => ended
  /\ m.s \in {"out", "zero"} => looked = {}
  /\ m.s \in {"in", "one"} => LookedLive
  /\ m.s = "one" => \E l : looked = {l} /\ l.kind = m.k
  /\ (m.s = "gone" /\ ok) => Gone(m.k)
  /\ ~(m.s = "gone" /\ ok) => LiveBut({})
  /\ m.s \notin {"made", "keyed"} => made = None
  /\ made # None => Unnamed
  /\ (m.s = "keyed" /\ made # None) => KeyLeft
  /\ (m.n = "may" /\ result # 0) => NewestLive
  /\ m.n = "need" => result # 0 /\ NewestLive

WrapperInv == TableInv /\ \E m \in Modes : Good(call, m) /\ Match(m)

-----------------------------------------------------------------------------
(* Which of the rules a step follows is said by its operation.            *)
LEMMA OpOf ==
  ASSUME NEW p, NEW e, NEW q
  PROVE  /\ Begins(p, e, q) => e.op \in {"commit_begin", "commit_finish",
                                        "LOWER_HALF_DISABLE_CKPT", "LOWER_HALF_ENABLE_CKPT"}
         /\ Looks(p, e, q) => e.op \in {"get_real_id", "get_newest", "call"}
         /\ Makes(p, e, q) => e.op \in {"make", "new_key", "new_virt_id", "new_virt_id_always"}
         /\ Frees(p, e, q) => e.op \in {"unmake", "free_virt_id", "set_key", "erase_key"}
         /\ Others(p, e, q) => e.op \in {"delete_callbacks", "copy_comm_attributes",
                                        "initialized", "end"}
<1>1. Begins(p, e, q) => e.op \in {"commit_begin", "commit_finish",
                                  "LOWER_HALF_DISABLE_CKPT", "LOWER_HALF_ENABLE_CKPT"}
  BY DEF Begins
<1>2. Looks(p, e, q) => e.op \in {"get_real_id", "get_newest", "call"}
  BY DEF Looks
<1>3. Makes(p, e, q) => e.op \in {"make", "new_key", "new_virt_id", "new_virt_id_always"}
  BY DEF Makes
<1>4. Frees(p, e, q) => e.op \in {"unmake", "free_virt_id", "set_key", "erase_key"}
  BY DEF Frees
<1>5. Others(p, e, q) => e.op \in {"delete_callbacks", "copy_comm_attributes",
                                  "initialized", "end"}
  BY DEF Others
<1> QED
  BY <1>1, <1>2, <1>3, <1>4, <1>5

(* What a step says of the modes before and after it.                      *)
LEMMA Begun ==
  ASSUME NEW p \in Modes, NEW q \in Modes, NEW e \in Steps, Allowed(p, e, q)
  PROVE  /\ e.op = "commit_begin" => p.s = "out" /\ ~p.c /\ q = M(0, TRUE, "out", "none", p.n)
         /\ e.op = "commit_finish" => p.s = "out" /\ p.c /\ q = M(0, FALSE, "out", "none", p.n)
         /\ e.op = "LOWER_HALF_DISABLE_CKPT" =>
              p.s \in {"out", "zero"} /\ \E s \in {"zero", "in"} : q = M(p.d + 1, p.c, s, "none", p.n)
         /\ e.op = "LOWER_HALF_ENABLE_CKPT" =>
              \/ p.d = 1 /\ p.s \in {"zero", "in", "rest"} /\ q = M(0, p.c, "out", "none", p.n)
              \/ p.d = 2 /\ p.s = "made" /\ q = M(1, p.c, "made", "none", p.n)
<1>0. e.op \in {"commit_begin", "commit_finish", "LOWER_HALF_DISABLE_CKPT", "LOWER_HALF_ENABLE_CKPT"} =>
        Begins(p, e, q)
  BY OpOf, SMT DEF Allowed
<1>1. e.op = "commit_begin" => p.s = "out" /\ ~p.c /\ q = M(0, TRUE, "out", "none", p.n)
  BY <1>0, SMT DEF Begins
<1>2. e.op = "commit_finish" => p.s = "out" /\ p.c /\ q = M(0, FALSE, "out", "none", p.n)
  BY <1>0, SMT DEF Begins
<1>3. e.op = "LOWER_HALF_DISABLE_CKPT" =>
        p.s \in {"out", "zero"} /\ \E s \in {"zero", "in"} : q = M(p.d + 1, p.c, s, "none", p.n)
  BY <1>0, SMT DEF Begins
<1>4. e.op = "LOWER_HALF_ENABLE_CKPT" =>
        \/ p.d = 1 /\ p.s \in {"zero", "in", "rest"} /\ q = M(0, p.c, "out", "none", p.n)
        \/ p.d = 2 /\ p.s = "made" /\ q = M(1, p.c, "made", "none", p.n)
  BY <1>0, SMT DEF Begins
<1> QED
  BY <1>1, <1>2, <1>3, <1>4

LEMMA LookedUp ==
  ASSUME NEW p \in Modes, NEW q \in Modes, NEW e \in Steps, Allowed(p, e, q)
  PROVE  /\ e.op = "get_real_id" =>
              \/ p.s = "in" /\ q = M(p.d, p.c, "in", "none", p.n)
              \/ p.s = "zero" /\ q = M(p.d, p.c, "one", e.kind, p.n)
         /\ e.op = "get_newest" =>
              e.kind = "comm" /\ p.s = "in" /\ p.n = "need" /\ q = M(p.d, p.c, "in", "none", "no")
         /\ e.op = "call" => p.s = "in" /\ q = M(p.d, p.c, "in", "none", p.n)
<1>0. e.op \in {"get_real_id", "get_newest", "call"} =>
        Looks(p, e, q)
  BY OpOf, SMT DEF Allowed
<1>1. e.op = "get_real_id" =>
              \/ p.s = "in" /\ q = M(p.d, p.c, "in", "none", p.n)
              \/ p.s = "zero" /\ q = M(p.d, p.c, "one", e.kind, p.n)
  BY <1>0, SMT DEF Looks
<1>2. e.op = "get_newest" =>
        e.kind = "comm" /\ p.s = "in" /\ p.n = "need" /\ q = M(p.d, p.c, "in", "none", "no")
  BY <1>0, SMT DEF Looks
<1>3. e.op = "call" => p.s = "in" /\ q = M(p.d, p.c, "in", "none", p.n)
  BY <1>0, SMT DEF Looks
<1> QED
  BY <1>1, <1>2, <1>3

LEMMA MadeOne ==
  ASSUME NEW p \in Modes, NEW q \in Modes, NEW e \in Steps, Allowed(p, e, q)
  PROVE  /\ e.op = "make" => p.s = "in" /\ q = M(p.d, p.c, "made", "none", p.n)
         /\ e.op = "new_key" =>
              e.kind \in ObjectKinds /\ p.s = "made" /\ q = M(p.d, p.c, "keyed", "none", p.n)
         /\ e.op = "new_virt_id" =>
              /\ p.n = "no" /\ e.kind \in ObjectKinds
              /\ \/ p.s = "made" /\ e.kind # "file" /\ q = M(p.d, p.c, "rest", "none", "no")
                 \/ p.s = "made" /\ e.kind = "comm" /\ q = M(p.d, p.c, "rest", "none", "may")
                 \/ p.s = "keyed" /\ e.kind = "file" /\ q = M(p.d, p.c, "rest", "none", "no")
         /\ e.op = "new_virt_id_always" =>
              p.n = "no" /\ e.kind = "group" /\ p.s = "made" /\ q = M(p.d, p.c, "rest", "none", "no")
<1>0. e.op \in {"make", "new_key", "new_virt_id", "new_virt_id_always"} =>
        Makes(p, e, q)
  BY OpOf, SMT DEF Allowed
<1>1. e.op = "make" => p.s = "in" /\ q = M(p.d, p.c, "made", "none", p.n)
  BY <1>0, SMT DEF Makes
<1>2. e.op = "new_key" =>
              e.kind \in ObjectKinds /\ p.s = "made" /\ q = M(p.d, p.c, "keyed", "none", p.n)
  BY <1>0, SMT DEF Makes
<1>3. e.op = "new_virt_id" =>
              /\ p.n = "no" /\ e.kind \in ObjectKinds
              /\ \/ p.s = "made" /\ e.kind # "file" /\ q = M(p.d, p.c, "rest", "none", "no")
                 \/ p.s = "made" /\ e.kind = "comm" /\ q = M(p.d, p.c, "rest", "none", "may")
                 \/ p.s = "keyed" /\ e.kind = "file" /\ q = M(p.d, p.c, "rest", "none", "no")
  BY <1>0, SMT DEF Makes
<1>4. e.op = "new_virt_id_always" =>
              p.n = "no" /\ e.kind = "group" /\ p.s = "made" /\ q = M(p.d, p.c, "rest", "none", "no")
  BY <1>0, SMT DEF Makes
<1> QED
  BY <1>1, <1>2, <1>3, <1>4

LEMMA Freed ==
  ASSUME NEW p \in Modes, NEW q \in Modes, NEW e \in Steps, Allowed(p, e, q)
  PROVE  /\ e.op = "unmake" =>
              /\ p.s = "one" /\ p.n = "no" /\ e.kind = p.k /\ e.kind \in {"op", "datatype", "file"}
              /\ q = M(p.d, p.c, "gone", p.k, p.n)
         /\ e.op = "free_virt_id" =>
              /\ p.n = "no" /\ (p.s = "in" \/ (p.s = "gone" /\ e.kind = p.k))
              /\ q = M(p.d, p.c, "rest", "none", p.n)
         /\ e.op = "set_key" => e.kind = "file" /\ p.s = "in" /\ q = M(p.d, p.c, "rest", "none", p.n)
         /\ e.op = "erase_key" => p.s = "gone" /\ e.kind = p.k /\ q = M(p.d, p.c, "rest", "none", p.n)
<1>0. e.op \in {"unmake", "free_virt_id", "set_key", "erase_key"} =>
        Frees(p, e, q)
  BY OpOf, SMT DEF Allowed
<1>1. e.op = "unmake" =>
              /\ p.s = "one" /\ p.n = "no" /\ e.kind = p.k /\ e.kind \in {"op", "datatype", "file"}
              /\ q = M(p.d, p.c, "gone", p.k, p.n)
  BY <1>0, SMT DEF Frees
<1>2. e.op = "free_virt_id" =>
              /\ p.n = "no" /\ (p.s = "in" \/ (p.s = "gone" /\ e.kind = p.k))
              /\ q = M(p.d, p.c, "rest", "none", p.n)
  BY <1>0, SMT DEF Frees
<1>3. e.op = "set_key" => e.kind = "file" /\ p.s = "in" /\ q = M(p.d, p.c, "rest", "none", p.n)
  BY <1>0, SMT DEF Frees
<1>4. e.op = "erase_key" => p.s = "gone" /\ e.kind = p.k /\ q = M(p.d, p.c, "rest", "none", p.n)
  BY <1>0, SMT DEF Frees
<1> QED
  BY <1>1, <1>2, <1>3, <1>4

LEMMA Otherwise ==
  ASSUME NEW p \in Modes, NEW q \in Modes, NEW e \in Steps, Allowed(p, e, q)
  PROVE  /\ e.op = "delete_callbacks" => p.s = "out" /\ ~p.c /\ q = M(0, FALSE, "out", "none", p.n)
         /\ e.op = "copy_comm_attributes" =>
              p.s = "out" /\ ~p.c /\ p.n = "may" /\ q = M(0, FALSE, "out", "none", "no")
         /\ e.op = "initialized" => p.s = "out" /\ q = M(0, p.c, "out", "none", p.n)
         /\ e.op = "end" => p.s = "in" /\ q = M(p.d, p.c, "ended", "none", p.n)
         /\ e.op # "untranslated"
<1>0. e.op \in {"delete_callbacks", "copy_comm_attributes", "initialized", "end"} =>
        Others(p, e, q)
  BY OpOf, SMT DEF Allowed
<1>1. e.op = "delete_callbacks" => p.s = "out" /\ ~p.c /\ q = M(0, FALSE, "out", "none", p.n)
  BY <1>0, SMT DEF Others
<1>2. e.op = "copy_comm_attributes" =>
              p.s = "out" /\ ~p.c /\ p.n = "may" /\ q = M(0, FALSE, "out", "none", "no")
  BY <1>0, SMT DEF Others
<1>3. e.op = "initialized" => p.s = "out" /\ q = M(0, p.c, "out", "none", p.n)
  BY <1>0, SMT DEF Others
<1>4. e.op = "end" => p.s = "in" /\ q = M(p.d, p.c, "ended", "none", p.n)
  BY <1>0, SMT DEF Others
<1>5. e.op # "untranslated"
  <2>1. e.op \in Ops
    BY DEF Steps
  <2> QED
    BY <2>1, SMT DEF Ops
<1> QED
  BY <1>1, <1>2, <1>3, <1>4, <1>5

-----------------------------------------------------------------------------
(* Steps that leave the table, the objects and what was looked up alone.   *)
objects_and_table == <<table, held, params, next, life, objects>>

LEMMA TableKept ==
  ASSUME TableInv, UNCHANGED objects_and_table, ok' \in BOOLEAN,
         UNCHANGED checkpoint, checkpoint \in {"closed", "saved", "invalid handle"} => depth' = 0
  PROVE  TableInv'
<1>1. /\ table' = table /\ held' = held /\ params' = params /\ next' = next
      /\ life' = life /\ objects' = objects /\ checkpoint' = checkpoint
  BY DEF objects_and_table
<1> QED
  BY <1>1 DEF TableInv, KeyLeft, Names, Garbage, RequestNull

LEMMA ClaimsKept ==
  ASSUME UNCHANGED objects_and_table, UNCHANGED checkpoint
  PROVE  /\ KeyLeft => KeyLeft'
         /\ \A S : LiveBut(S) => LiveBut(S)'
         /\ looked' = looked /\ LookedLive => LookedLive'
         /\ \A k : looked' = looked /\ Gone(k) => Gone(k)'
         /\ made' = made /\ Unnamed => Unnamed'
         /\ result' = result /\ NewestLive => NewestLive'
<1>1. /\ table' = table /\ held' = held /\ params' = params /\ next' = next
      /\ life' = life /\ objects' = objects /\ checkpoint' = checkpoint
  BY DEF objects_and_table
<1>2. \A S : LiveBut(S) => LiveBut(S)'
  BY <1>1 DEF LiveBut, Live, RequestNull
<1>3. KeyLeft => KeyLeft'
  BY <1>1 DEF KeyLeft
<1>4. looked' = looked /\ LookedLive => LookedLive'
  BY <1>1 DEF LookedLive, Live, RequestNull
<1>5. \A k : looked' = looked /\ Gone(k) => Gone(k)'
  BY <1>1, <1>2 DEF Gone
<1>6. made' = made /\ Unnamed => Unnamed'
  BY <1>1 DEF Unnamed
<1>7. result' = result /\ NewestLive => NewestLive'
  BY <1>1 DEF NewestLive
<1> QED
  BY <1>2, <1>3, <1>4, <1>5, <1>6, <1>7

(* The next step of a call under way, with the modes around it.            *)
Here(m, q) ==
  /\ m \in Modes /\ q \in Modes /\ Match(m) /\ Head(call) \in Steps
  /\ Allowed(m, Head(call), q) /\ Good(Tail(call), q)

LEMMA NextStep ==
  ASSUME WrapperInv, call # <<>>
  PROVE  \E m, q : Here(m, q)
<1>1. PICK m \in Modes : Good(call, m) /\ Match(m)
  BY DEF WrapperInv
<1>2. PICK q \in Modes : /\ Allowed(m, Head(call), q) /\ Good(Tail(call), q)
                         /\ Head(call) \in Steps
  BY <1>1, GoodStep
<1> QED
  BY <1>1, <1>2 DEF Here

LEMMA CommitBeginKeeps ==
  ASSUME WrapperInv, CommitBegin
  PROVE  WrapperInv'
<1>1. PICK m, q : Here(m, q)
  BY NextStep DEF CommitBegin, At
<1>2. m.s = "out" /\ ~m.c /\ q = M(0, TRUE, "out", "none", m.n)
  BY <1>1, Begun DEF Here, CommitBegin, At
<1>3. q.d = 0 /\ q.c = TRUE /\ q.s = "out" /\ q.n = m.n
  BY <1>2, SMT DEF M
<1>4. /\ UNCHANGED objects_and_table /\ UNCHANGED checkpoint /\ looked' = looked
      /\ made' = made /\ result' = result /\ depth' = depth /\ ok' = ok /\ ended' = ended
      /\ critical' = TRUE /\ call' = Tail(call)
  BY DEF CommitBegin, Done, objectVars, ckptVars, objects_and_table
<1>5. TableInv'
  BY <1>4, TableKept DEF WrapperInv, TableInv
<1>6. Match(q)'
  BY <1>1, <1>2, <1>3, <1>4, ClaimsKept DEF Match, Here
<1> QED
  BY <1>1, <1>4, <1>5, <1>6 DEF WrapperInv, Here
(* A call that has nothing left has nothing left to do with its result.    *)
LEMMA NothingLeft ==
  ASSUME NEW q, Good(<<>>, q), q.s # "ended"
  PROVE  q.n = "no"
<1>1. q = M(0, FALSE, "out", "none", "no")
  BY GoodEnd DEF Finals
<1> QED
  BY <1>1, SMT DEF M

LEMMA CommitFinishKeeps ==
  ASSUME WrapperInv, CommitFinish
  PROVE  WrapperInv'
<1>1. PICK m, q : Here(m, q)
  BY NextStep DEF CommitFinish, At
<1>2. m.s = "out" /\ m.c /\ q = M(0, FALSE, "out", "none", m.n)
  BY <1>1, Begun DEF Here, CommitFinish, At
<1>3. q.d = 0 /\ q.c = FALSE /\ q.s = "out" /\ q.n = m.n
  BY <1>2, SMT DEF M
<1>4. /\ UNCHANGED objects_and_table /\ UNCHANGED checkpoint /\ looked' = looked
      /\ made' = made /\ depth' = depth /\ ok' = ok /\ ended' = ended
      /\ critical' = FALSE /\ call' = Tail(call)
      /\ result' = IF Tail(call) = <<>> THEN 0 ELSE result
  BY DEF CommitFinish, Done, objectVars, ckptVars, objects_and_table
<1>5. TableInv'
  BY <1>4, TableKept DEF WrapperInv, TableInv
<1>6. Tail(call) = <<>> => q.n = "no"
  BY <1>1, <1>3, NothingLeft DEF Here
<1>7. (q.n = "may" \/ q.n = "need") => result' = result
  BY <1>4, <1>6, SMT
<1>8. Match(q)'
  BY <1>1, <1>2, <1>3, <1>4, <1>7, ClaimsKept DEF Match, Here
<1> QED
  BY <1>1, <1>4, <1>5, <1>8 DEF WrapperInv, Here

LEMMA DisableCkptKeeps ==
  ASSUME WrapperInv, DisableCkpt
  PROVE  WrapperInv'
<1>1. PICK m, q : Here(m, q)
  BY NextStep DEF DisableCkpt, At
<1>2. m.s \in {"out", "zero"} /\ \E s \in {"zero", "in"} : q = M(m.d + 1, m.c, s, "none", m.n)
  BY <1>1, Begun DEF Here, DisableCkpt, At
<1>3. q.d = m.d + 1 /\ q.c = m.c /\ q.s \in {"zero", "in"} /\ q.n = m.n
  BY <1>2, SMT DEF M
<1>4. /\ UNCHANGED objects_and_table /\ UNCHANGED checkpoint /\ looked' = looked
      /\ made' = made /\ depth' = depth + 1 /\ ok' = ok /\ ended' = ended
      /\ critical' = critical /\ call' = Tail(call) /\ result' = result
      /\ (depth > 0 \/ checkpoint \in {"running", "drain"})
  BY DEF DisableCkpt, Done, objectVars, ckptVars, objects_and_table
<1>5. TableInv'
  <2>1. checkpoint \in {"closed", "saved", "invalid handle"} => depth' = 0
    <3>1. checkpoint \in {"closed", "saved", "invalid handle"} => depth = 0
      BY DEF WrapperInv, TableInv
    <3>2. ~(0 > 0)
      BY SMT
    <3>3. ~(checkpoint \in {"running", "drain"} /\ checkpoint \in {"closed", "saved", "invalid handle"})
      OBVIOUS
    <3> QED
      BY <1>4, <3>1, <3>2, <3>3
  <2> QED
    BY <1>4, <2>1, TableKept DEF WrapperInv, TableInv
<1>6. depth' = q.d /\ q.d # 0 /\ q.s # "out" /\ q.s # "ended" /\ q.s # "one" /\ q.s # "gone"
      /\ q.s # "made" /\ q.s # "keyed" /\ looked = {}
      /\ m.s # "gone" /\ m.s # "made" /\ m.s # "keyed"
  BY <1>1, <1>2, <1>3, <1>4, SMT DEF Match, Here, Modes
<1>7. LookedLive'
  BY <1>4, <1>6 DEF LookedLive
<1>8. Match(q)'
  BY <1>1, <1>3, <1>4, <1>6, <1>7, ClaimsKept DEF Match, Here
<1> QED
  BY <1>1, <1>4, <1>5, <1>8 DEF WrapperInv, Here

LEMMA EnableCkptKeeps ==
  ASSUME WrapperInv, EnableCkpt
  PROVE  WrapperInv'
<1>1. PICK m, q : Here(m, q)
  BY NextStep DEF EnableCkpt, At
<1>2. \/ m.d = 1 /\ m.s \in {"zero", "in", "rest"} /\ q = M(0, m.c, "out", "none", m.n)
      \/ m.d = 2 /\ m.s = "made" /\ q = M(1, m.c, "made", "none", m.n)
  BY <1>1, Begun DEF Here, EnableCkpt, At
<1>3. q.d = m.d - 1 /\ q.c = m.c /\ q.n = m.n
      /\ \/ m.d = 1 /\ q.d = 0 /\ q.s = "out" /\ m.s \in {"zero", "in", "rest"}
         \/ m.d = 2 /\ q.d = 1 /\ q.s = "made" /\ m.s = "made"
  BY <1>2, SMT DEF M
<1>4. /\ UNCHANGED objects_and_table /\ UNCHANGED checkpoint
      /\ looked' = IF depth = 1 THEN {} ELSE looked
      /\ made' = made /\ depth' = depth - 1 /\ ok' = (depth = 1 \/ ok) /\ ended' = ended
      /\ critical' = critical /\ call' = Tail(call)
      /\ result' = IF Tail(call) = <<>> THEN 0 ELSE result
  BY DEF EnableCkpt, Done, objectVars, ckptVars, objects_and_table
<1>5. depth = m.d /\ depth' = q.d /\ (m.d = 1 => looked' = {}) /\ (m.d = 1 \/ m.d = 2)
  BY <1>1, <1>3, <1>4, SMT DEF Match, Here
<1>6. TableInv'
  <2>1. ok' \in BOOLEAN
    BY <1>4
  <2>2. checkpoint \in {"closed", "saved", "invalid handle"} => depth' = 0
    <3>1. checkpoint \in {"closed", "saved", "invalid handle"} => depth = 0
      BY DEF WrapperInv, TableInv
    <3>2. 1 # 0 /\ 2 # 0
      BY SMT
    <3> QED
      BY <1>5, <3>1, <3>2
  <2> QED
    BY <1>4, <2>1, <2>2, TableKept DEF WrapperInv
<1>7. Tail(call) = <<>> => q.n = "no"
  BY <1>1, <1>3, NothingLeft DEF Here
<1>8. (q.n = "may" \/ q.n = "need") => result' = result
  BY <1>4, <1>7, SMT
<1>9. (m.s # "gone" /\ q.s # "gone" /\ q.s # "one" /\ q.s # "in" /\ q.s # "zero" /\ q.s # "ended"
       /\ q.s # "keyed") /\ (q.s = "out" => m.s # "made" /\ m.s # "keyed")
      /\ (q.d = 0 <=> q.s = "out") /\ (q.s = "out" => looked' = {})
  BY <1>3, <1>5, SMT
<1>10. Match(q)'
  BY <1>1, <1>3, <1>4, <1>5, <1>8, <1>9, ClaimsKept DEF Match, Here
<1> QED
  BY <1>1, <1>4, <1>6, <1>10 DEF WrapperInv, Here

LEMMA CallLibraryKeeps ==
  ASSUME WrapperInv, CallLibrary
  PROVE  WrapperInv'
<1>1. PICK m, q : Here(m, q)
  BY NextStep DEF CallLibrary, At
<1>2. m.s = "in" /\ q = M(m.d, m.c, "in", "none", m.n)
  BY <1>1, LookedUp DEF Here, CallLibrary, At
<1>3. q.d = m.d /\ q.c = m.c /\ q.s = "in" /\ q.n = m.n
  BY <1>2, SMT DEF M
<1>4. /\ UNCHANGED objects_and_table /\ UNCHANGED checkpoint /\ looked' = looked
      /\ made' = made /\ result' = result /\ depth' = depth /\ ok' \in BOOLEAN /\ ended' = ended
      /\ critical' = critical /\ call' = Tail(call)
  BY DEF CallLibrary, Done, objectVars, ckptVars, objects_and_table
<1>5. TableInv'
  BY <1>4, TableKept DEF WrapperInv, TableInv
<1>6. Match(q)'
  BY <1>1, <1>2, <1>3, <1>4, ClaimsKept DEF Match, Here
<1> QED
  BY <1>1, <1>4, <1>5, <1>6 DEF WrapperInv, Here

LEMMA InitializedKeeps ==
  ASSUME WrapperInv, Initialized
  PROVE  WrapperInv'
<1>1. PICK m, q : Here(m, q)
  BY NextStep DEF Initialized, At
<1>2. m.s = "out" /\ q = M(0, m.c, "out", "none", m.n)
  BY <1>1, Otherwise DEF Here, Initialized, At
<1>3. q.d = 0 /\ q.c = m.c /\ q.s = "out" /\ q.n = m.n
  BY <1>2, SMT DEF M
<1>4. /\ UNCHANGED objects_and_table /\ UNCHANGED checkpoint /\ looked' = looked
      /\ made' = made /\ result' = result /\ depth' = depth /\ ok' = ok /\ ended' = ended
      /\ critical' = critical /\ call' = Tail(call)
  BY DEF Initialized, Done, objectVars, ckptVars, objects_and_table
<1>5. TableInv'
  BY <1>4, TableKept DEF WrapperInv, TableInv
<1>6. Match(q)'
  BY <1>1, <1>2, <1>3, <1>4, ClaimsKept DEF Match, Here
<1> QED
  BY <1>1, <1>4, <1>5, <1>6 DEF WrapperInv, Here

LEMMA EndKeeps ==
  ASSUME WrapperInv, End
  PROVE  WrapperInv'
<1>1. PICK m, q : Here(m, q)
  BY NextStep DEF End, At
<1>2. m.s = "in" /\ q = M(m.d, m.c, "ended", "none", m.n)
  BY <1>1, Otherwise DEF Here, End, At
<1>3. q.d = m.d /\ q.c = m.c /\ q.s = "ended" /\ q.n = m.n
  BY <1>2, SMT DEF M
<1>4. /\ UNCHANGED objects_and_table /\ UNCHANGED checkpoint /\ looked' = looked
      /\ made' = made /\ result' = result /\ depth' = depth /\ ok' = ok /\ ended' = TRUE
      /\ critical' = critical /\ call' = Tail(call)
  BY DEF End, Done, objectVars, ckptVars, objects_and_table
<1>5. TableInv'
  BY <1>4, TableKept DEF WrapperInv, TableInv
<1>6. Match(q)'
  BY <1>1, <1>2, <1>3, <1>4, ClaimsKept DEF Match, Here
<1> QED
  BY <1>1, <1>4, <1>5, <1>6 DEF WrapperInv, Here

LEMMA OutsideModes ==
  ASSUME NEW c \in BOOLEAN, NEW n \in Progress
  PROVE  Outside(c, n) \in Modes
  BY SMT DEF Outside, M, Modes, Stages, ObjectKinds, Progress

LEMMA MakeCallKeeps ==
  ASSUME WrapperInv, Workload \in {"all", "files"}, MakeCall
  PROVE  WrapperInv'
<1>1. PICK m \in Modes : Good(call, m) /\ Match(m)
  BY DEF WrapperInv
<1>2. PICK w \in Calls : call' = w
  BY DEF MakeCall
<1>3. /\ UNCHANGED objects_and_table /\ UNCHANGED checkpoint /\ looked' = looked
      /\ made' = made /\ result' = 0 /\ depth' = depth /\ ok' = ok /\ ended' = ended
      /\ critical' = critical /\ call = <<>> /\ ~ended
  BY DEF MakeCall, objectVars, ckptVars, objects_and_table
<1>4. m = Outside(FALSE, "no")
  <2>1. m \in Finals
    BY <1>1, <1>3, GoodEnd
  <2>2. m.s # "ended"
    BY <1>1, <1>3 DEF Match
  <2> QED
    BY <2>1, <2>2 DEF Finals, Outside
<1>5. TableInv'
  BY <1>3, TableKept DEF WrapperInv, TableInv
<1>6. m.d = 0 /\ m.c = FALSE /\ m.s = "out" /\ m.n = "no"
  BY <1>4, SMT DEF Outside, M
<1>7. Match(m)'
  BY <1>1, <1>3, <1>6, ClaimsKept DEF Match
<1>8. Good(call', m)
  BY <1>2, <1>4, CallsAreGood
<1> QED
  BY <1>1, <1>5, <1>7, <1>8 DEF WrapperInv

LEMMA DeleteCallbacksKeeps ==
  ASSUME WrapperInv, DeleteCallbacks
  PROVE  WrapperInv'
<1>1. PICK m, q : Here(m, q)
  BY NextStep DEF DeleteCallbacks, At
<1>2. m.s = "out" /\ ~m.c /\ q = M(0, FALSE, "out", "none", m.n)
  BY <1>1, Otherwise DEF Here, DeleteCallbacks, At
<1>3. q.d = 0 /\ q.c = FALSE /\ q.s = "out" /\ q.n = m.n /\ q = Outside(FALSE, m.n)
      /\ m.c = FALSE
  <2>1. q.d = 0 /\ q.c = FALSE /\ q.s = "out" /\ q.n = m.n /\ q = Outside(FALSE, m.n)
    BY <1>2, SMT DEF Outside, M
  <2>2. m.c = FALSE
    BY <1>1, <1>2 DEF Here, Modes
  <2> QED
    BY <2>1, <2>2
<1>4. /\ UNCHANGED objects_and_table /\ UNCHANGED checkpoint /\ looked' = looked
      /\ made' = made /\ result' = result /\ depth' = depth /\ ok' = ok /\ ended' = ended
      /\ critical' = critical
      /\ (call' = Tail(call) \/ call' = MPI_Allreduce \o Tail(call) \/ call' = <<>>)
  BY DEF DeleteCallbacks, objectVars, ckptVars, objects_and_table
<1>5. TableInv'
  BY <1>4, TableKept DEF WrapperInv, TableInv
<1>6. Match(q)'
  BY <1>1, <1>2, <1>3, <1>4, ClaimsKept DEF Match, Here
<1>7. CASE call' = Tail(call)
  BY <1>1, <1>5, <1>6, <1>7 DEF WrapperInv, Here
<1>8. CASE call' = MPI_Allreduce \o Tail(call)
  <2>1. m.n \in Progress
    BY <1>1 DEF Here, Modes, Progress
  <2>2. Good(call', q)
    BY <1>1, <1>3, <1>8, <2>1, CallbackIsGood DEF Here
  <2> QED
    BY <1>1, <1>5, <1>6, <2>2 DEF WrapperInv, Here
<1>9. CASE call' = <<>>
  <2> DEFINE z == Outside(FALSE, "no")
  <2>1. z.d = 0 /\ z.c = FALSE /\ z.s = "out" /\ z.n = "no" /\ z \in Modes
    <3>1. z.d = 0 /\ z.c = FALSE /\ z.s = "out" /\ z.n = "no"
      BY SMT DEF Outside, M
    <3> QED
      BY <3>1, OutsideModes, NoInProgress
  <2> HIDE DEF z
  <2>2. Good(<<>>, z)
    <3>1. Sound(<<>>)
      BY <2>1, LeadsNowhere DEF Sound, z
    <3> QED
      BY <3>1, SoundIsGood DEF z
  <2>3. Match(z)'
    BY <1>1, <1>2, <1>3, <1>4, <2>1, ClaimsKept DEF Match, Here
  <2> QED
    BY <1>5, <1>9, <2>1, <2>2, <2>3 DEF WrapperInv
<1> QED
  BY <1>4, <1>7, <1>8, <1>9

(* The program loses some of its handles.                                  *)
LEMMA HeldShrinks ==
  ASSUME TableInv, held' \subseteq held, UNCHANGED <<table, params, next, life, objects>>,
         UNCHANGED <<checkpoint, depth, ok>>
  PROVE  /\ TableInv' /\ (KeyLeft => KeyLeft') /\ (LiveBut({}) => LiveBut({})')
         /\ (made' = made /\ Unnamed => Unnamed') /\ (result' = result /\ NewestLive => NewestLive')
<1>1. /\ table' = table /\ params' = params /\ next' = next /\ life' = life
      /\ objects' = objects /\ checkpoint' = checkpoint /\ depth' = depth /\ ok' = ok
  OBVIOUS
<1>2. KeyLeft => KeyLeft'
  BY <1>1 DEF KeyLeft
<1>3. (LiveBut({}) => LiveBut({})') /\ (made' = made /\ Unnamed => Unnamed')
      /\ (result' = result /\ NewestLive => NewestLive')
  BY <1>1 DEF LiveBut, Live, Unnamed, NewestLive, RequestNull
<1>4. /\ next' \in Nat /\ next' > 0 /\ life' \in Nat /\ ok' \in BOOLEAN
      /\ table' \in [DOMAIN table' -> [kind : ObjectKinds, real : Names']]
      /\ DOMAIN table' \subseteq 1 .. next' - 1
      /\ objects' \subseteq {life'} \X (0 .. next' - 1) /\ <<life', 0>> \in objects'
      /\ params' \subseteq 0 .. next' - 1
      /\ checkpoint' \in {"closed", "saved", "invalid handle"} => depth' = 0
      /\ checkpoint' \in {"closed", "saved"} =>
           \A x \in DOMAIN table' : table'[x].kind = "request" => table'[x].real = RequestNull
  BY <1>1 DEF TableInv, Names, RequestNull, Garbage
<1>5. held' \subseteq [kind : ObjectKinds, handle : DOMAIN table']
  BY <1>1 DEF TableInv
<1>6. \A g \in held' : table'[g.handle].kind = g.kind
  BY <1>1 DEF TableInv
<1>7. (\E g \in held' : g.kind = "file") => KeyLeft'
  BY <1>2 DEF TableInv
<1>8. checkpoint' # "invalid handle" =>
       \A g, h \in held' : table'[g.handle].real = table'[h.handle].real =>
                             g = h \/ table'[g.handle].real = RequestNull
  BY <1>1 DEF TableInv
<1>9. RequestNull' = RequestNull
  BY DEF RequestNull
<1>10. TableInv'
  BY <1>4, <1>5, <1>6, <1>7, <1>8, <1>9 DEF TableInv
<1> QED
  BY <1>2, <1>3, <1>10

LEMMA CopyCommAttributesKeeps ==
  ASSUME WrapperInv, CopyCommAttributes
  PROVE  WrapperInv'
<1>1. PICK m, q : Here(m, q)
  BY NextStep DEF CopyCommAttributes, At
<1>2. m.s = "out" /\ ~m.c /\ m.n = "may" /\ q = M(0, FALSE, "out", "none", "no")
  BY <1>1, Otherwise DEF Here, CopyCommAttributes, At
<1>3. q.d = 0 /\ q.c = FALSE /\ q.s = "out" /\ q.n = "no" /\ q = Outside(FALSE, "no")
      /\ m.c = FALSE
  <2>1. q.d = 0 /\ q.c = FALSE /\ q.s = "out" /\ q.n = "no" /\ q = Outside(FALSE, "no")
    BY <1>2, SMT DEF Outside, M
  <2>2. m.c = FALSE
    BY <1>1, <1>2 DEF Here, Modes
  <2> QED
    BY <2>1, <2>2
<1>4. /\ UNCHANGED <<table, params, next, life, objects>> /\ UNCHANGED <<checkpoint, depth, ok>>
      /\ looked' = looked /\ made' = made /\ result' = result /\ ended' = ended
      /\ critical' = critical
      /\ \/ (call' = Tail(call) \/ call' = MPI_Allreduce \o Tail(call)) /\ held' = held
         \/ /\ result # 0 /\ call' = FreeOf("get_newest")
            /\ held' = {h \in held : h.handle # result}
  BY DEF CopyCommAttributes, ckptVars
<1>5. held' \subseteq held
  BY <1>4
<1>6. /\ TableInv' /\ LiveBut({})' /\ (made # None => Unnamed') /\ (NewestLive => NewestLive')
  BY <1>1, <1>2, <1>4, <1>5, HeldShrinks DEF WrapperInv, Match, Here
<1>7. /\ depth' = depth /\ checkpoint' = checkpoint
  BY <1>4
<1>8. None' = None
  BY DEF None
<1>9. CASE held' = held /\ (call' = Tail(call) \/ call' = MPI_Allreduce \o Tail(call))
  <2>1. Match(q)'
    BY <1>1, <1>2, <1>3, <1>4, <1>6, <1>7, <1>8 DEF Match, Here
  <2>2. Good(call', q)
    BY <1>1, <1>3, <1>9, CallbackIsGood, NoInProgress DEF Here
  <2> QED
    BY <1>1, <1>6, <2>1, <2>2 DEF WrapperInv, Here
<1>10. CASE result # 0 /\ call' = FreeOf("get_newest")
  <2> DEFINE z == Outside(FALSE, "need")
  <2>1. z.d = 0 /\ z.c = FALSE /\ z.s = "out" /\ z.n = "need" /\ z \in Modes
    <3>1. z.d = 0 /\ z.c = FALSE /\ z.s = "out" /\ z.n = "need"
      BY SMT DEF Outside, M
    <3> QED
      BY <3>1, OutsideModes, NoInProgress
  <2>2. Good(call', z)
    BY <1>10, NewestFreeLeads, OutsideIsFinal DEF Good
  <2> HIDE DEF z
  <2>3. NewestLive'
    BY <1>1, <1>2, <1>6, <1>10 DEF Match, Here
  <2>4. result' # 0
    BY <1>4, <1>10
  <2>5. Match(z)'
    BY <1>1, <1>2, <1>3, <1>4, <1>6, <1>7, <1>8, <2>1, <2>3, <2>4 DEF Match, Here
  <2> QED
    BY <1>6, <2>1, <2>2, <2>5 DEF WrapperInv
<1> QED
  BY <1>4, <1>9, <1>10

-----------------------------------------------------------------------------
(* In the lower half: no checkpoint is closed there.                       *)
LEMMA InsideRuns ==
  ASSUME TableInv, NEW m \in Modes, Match(m), m.s # "out"
  PROVE  depth # 0 /\ checkpoint # "invalid handle" /\ checkpoint \notin {"closed", "saved"}
  BY DEF TableInv, Match

LEMMA GetRealIdKeeps ==
  ASSUME WrapperInv, GetRealId
  PROVE  WrapperInv'
<1>1. PICK m, q : Here(m, q)
  BY NextStep DEF GetRealId, At
<1>2. \/ m.s = "in" /\ q = M(m.d, m.c, "in", "none", m.n)
      \/ m.s = "zero" /\ q = M(m.d, m.c, "one", Kind, m.n)
  BY <1>1, LookedUp DEF Here, GetRealId, At, Kind
<1>3. /\ q.d = m.d /\ q.c = m.c /\ q.n = m.n
      /\ \/ m.s = "in" /\ q.s = "in"
         \/ m.s = "zero" /\ q.s = "one" /\ q.k = Kind
  BY <1>2, SMT DEF M
<1>4. /\ UNCHANGED objects_and_table /\ UNCHANGED checkpoint
      /\ made' = made /\ result' = result /\ depth' = depth /\ ok' = ok /\ ended' = ended
      /\ critical' = critical /\ call' = Tail(call)
  BY DEF GetRealId, Done, objectVars, ckptVars, objects_and_table
<1>5. TableInv'
  BY <1>4, TableKept DEF WrapperInv, TableInv
<1>6. checkpoint # "invalid handle"
  BY <1>1, <1>3, InsideRuns DEF WrapperInv, Here
<1>7. TableInv /\ LiveBut({}) /\ LookedLive
  BY <1>1, <1>3 DEF WrapperInv, Here, Match, LookedLive
<1>8. PICK l : /\ looked' = looked \cup {l} /\ l.kind = Kind /\ Live(l.real)
               /\ l.handle # 0 => \E g \in held : /\ g.handle = l.handle /\ g.kind = l.kind
                                                  /\ table[g.handle].real = l.real
  <2>1. CASE looked' = looked \cup {[kind |-> Kind, handle |-> 0, real |-> Predefined(life)]}
    <3> DEFINE l == [kind |-> Kind, handle |-> 0, real |-> Predefined(life)]
    <3>1. l.kind = Kind /\ l.handle = 0 /\ l.real = <<life, 0>>
      BY DEF Predefined
    <3>2. Live(l.real)
      BY <1>7, <3>1 DEF TableInv, Live
    <3> HIDE DEF l
    <3> QED
      BY <2>1, <3>1, <3>2 DEF l
  <2>2. ASSUME NEW g \in held, g.kind = Kind,
               looked' = looked \cup {[kind |-> Kind, handle |-> g.handle,
                                       real |-> table[g.handle].real]}
        PROVE  \E l : /\ looked' = looked \cup {l} /\ l.kind = Kind /\ Live(l.real)
                      /\ l.handle # 0 => \E h \in held : /\ h.handle = l.handle /\ h.kind = l.kind
                                                         /\ table[h.handle].real = l.real
    <3> DEFINE l == [kind |-> Kind, handle |-> g.handle, real |-> table[g.handle].real]
    <3>1. l.kind = Kind /\ l.handle = g.handle /\ l.real = table[g.handle].real
      OBVIOUS
    <3>2. Live(l.real)
      BY <1>6, <1>7, <3>1 DEF LiveBut
    <3>3. looked' = looked \cup {l}
      BY <2>2
    <3> HIDE DEF l
    <3> QED
      BY <2>2, <3>1, <3>2, <3>3
  <2> QED
    BY <2>1, <2>2 DEF GetRealId
<1>9. LookedLive'
  <2>1. table' = table /\ held' = held /\ objects' = objects
    BY <1>4 DEF objects_and_table
  <2>2. \A r : Live(r)' <=> Live(r)
    BY <2>1 DEF Live, RequestNull
  <2>3. ASSUME NEW x \in looked'
        PROVE  /\ Live(x.real)'
               /\ x.handle # 0 /\ x.kind \in {"op", "datatype", "file"} =>
                    \E g \in held' : /\ g.handle = x.handle /\ g.kind = x.kind
                                     /\ table'[g.handle].real = x.real
    <3>1. CASE x \in looked
      BY <1>7, <2>1, <2>2, <3>1 DEF LookedLive
    <3>2. CASE x = l
      BY <1>8, <2>1, <2>2, <3>2
    <3> QED
      BY <1>8, <3>1, <3>2
  <2> QED
    BY <2>3 DEF LookedLive
<1>10. q.s = "one" => \E x : looked' = {x} /\ x.kind = q.k
  <2>1. q.s = "one" => looked = {} /\ q.k = Kind
    BY <1>1, <1>3 DEF Match, Here
  <2> QED
    BY <1>8, <2>1
<1>11. /\ q.s # "out" /\ q.s # "ended" /\ q.s # "gone" /\ q.s # "made" /\ q.s # "keyed" /\ q.s # "zero"
       /\ m.s # "gone" /\ m.s # "made" /\ m.s # "keyed" /\ m.s # "out"
  BY <1>3, SMT
<1>12. Match(q)'
  BY <1>1, <1>3, <1>4, <1>9, <1>10, <1>11, ClaimsKept DEF Match, Here
<1> QED
  BY <1>1, <1>4, <1>5, <1>12 DEF WrapperInv, Here

LEMMA GetRealIdOfNewestKeeps ==
  ASSUME WrapperInv, GetRealIdOfNewest
  PROVE  WrapperInv'
<1>1. PICK m, q : Here(m, q)
  BY NextStep DEF GetRealIdOfNewest, At
<1>2. Kind = "comm" /\ m.s = "in" /\ m.n = "need" /\ q = M(m.d, m.c, "in", "none", "no")
  BY <1>1, LookedUp DEF Here, GetRealIdOfNewest, At, Kind
<1>3. q.d = m.d /\ q.c = m.c /\ q.n = "no" /\ q.s = "in"
  BY <1>2, SMT DEF M
<1>4. /\ UNCHANGED objects_and_table /\ UNCHANGED checkpoint
      /\ made' = made /\ result' = result /\ depth' = depth /\ ok' = ok /\ ended' = ended
      /\ critical' = critical /\ call' = Tail(call)
      /\ looked' = looked \cup {[kind |-> Kind, handle |-> result, real |-> table[result].real]}
  BY DEF GetRealIdOfNewest, Done, objectVars, ckptVars, objects_and_table
<1>5. TableInv'
  BY <1>4, TableKept DEF WrapperInv, TableInv
<1>6. checkpoint # "invalid handle"
  BY <1>1, <1>2, InsideRuns DEF WrapperInv, Here
<1>7. LookedLive /\ NewestLive
  BY <1>1, <1>2 DEF WrapperInv, Here, Match
<1>8. PICK l : /\ looked' = looked \cup {l} /\ l.kind = "comm" /\ Live(l.real)
  <2> DEFINE l == [kind |-> Kind, handle |-> result, real |-> table[result].real]
  <2>1. l.kind = "comm" /\ l.real = table[result].real
    BY <1>2
  <2>2. Live(l.real)
    BY <1>6, <1>7, <2>1 DEF NewestLive, Live
  <2>3. looked' = looked \cup {l}
    BY <1>4
  <2> HIDE DEF l
  <2> QED
    BY <2>1, <2>2, <2>3
<1>9. LookedLive'
  <2>1. table' = table /\ held' = held /\ objects' = objects
    BY <1>4 DEF objects_and_table
  <2>2. "comm" \notin {"op", "datatype", "file"}
    BY SMT
  <2> QED
    BY <1>7, <1>8, <2>1, <2>2 DEF LookedLive, Live, RequestNull
<1>10. Match(q)'
  BY <1>1, <1>2, <1>3, <1>4, <1>9, ClaimsKept DEF Match, Here
<1> QED
  BY <1>1, <1>4, <1>5, <1>10 DEF WrapperInv, Here

(* Names and objects, when the next number goes up.                        *)
LEMMA NamesGrow ==
  ASSUME next \in Nat, next > 0, life \in Nat, next' = next + 1, life' = life
  PROVE  /\ Names \subseteq Names' /\ 1 .. next - 1 \subseteq 1 .. next' - 1
         /\ 0 .. next - 1 \subseteq 0 .. next' - 1 /\ next \in 1 .. next' - 1 /\ next \in 0 .. next' - 1
         /\ next' \in Nat /\ next' > 0
         /\ <<life, next>> \notin Names /\ <<life, next>> \in Names' /\ <<life, next>> # <<life, 0>>
<1>1. /\ 1 .. next - 1 \subseteq 1 .. next' - 1
      /\ 0 .. next - 1 \subseteq 0 .. next' - 1 /\ next \in 1 .. next' - 1 /\ next \in 0 .. next' - 1
      /\ next' \in Nat /\ next' > 0 /\ life \in 0 .. life /\ next \notin 1 .. next - 1 /\ next # 0
  BY SMT
<1>2. Names \subseteq Names'
  BY <1>1 DEF Names, Garbage, RequestNull
<1>3. <<life, next>> # <<>> /\ <<life, next>> # <<0>>
  BY SMT
<1>4. <<life, next>> \notin (0 .. life) \X (1 .. next - 1)
  BY <1>1
<1>5. <<life, next>> \in Names'
  BY <1>1 DEF Names
<1> QED
  BY <1>1, <1>2, <1>3, <1>4, <1>5 DEF Names, Garbage, RequestNull

LEMMA MakeKeeps ==
  ASSUME WrapperInv, Make
  PROVE  WrapperInv'
<1>1. PICK m, q : Here(m, q)
  BY NextStep DEF Make, At
<1>2. m.s = "in" /\ q = M(m.d, m.c, "made", "none", m.n)
  BY <1>1, MadeOne DEF Here, Make, At
<1>3. q.d = m.d /\ q.c = m.c /\ q.n = m.n /\ q.s = "made"
  BY <1>2, SMT DEF M
<1>4. /\ table' = table /\ held' = held /\ params' = params /\ life' = life
      /\ checkpoint' = checkpoint /\ looked' = looked /\ result' = result /\ depth' = depth
      /\ ended' = ended /\ critical' = critical /\ call' = Tail(call) /\ ok' \in BOOLEAN
  BY DEF Make, Done, ckptVars
<1>5. TableInv /\ made = None /\ LiveBut({}) /\ None' = None
  BY <1>1, <1>2 DEF WrapperInv, Here, Match, None
<1>6. CASE made' = made /\ next' = next /\ objects' = objects
  <2>1. UNCHANGED objects_and_table /\ UNCHANGED checkpoint
    BY <1>4, <1>6 DEF objects_and_table
  <2>2. TableInv'
    BY <1>4, <1>5, <2>1, TableKept DEF TableInv
  <2>3. Match(q)'
    BY <1>1, <1>2, <1>3, <1>4, <1>5, <1>6, <2>1, ClaimsKept DEF Match, Here
  <2> QED
    BY <1>1, <1>4, <2>2, <2>3 DEF WrapperInv, Here
<1>7. CASE /\ made' = <<life, next>> /\ next' = next + 1
           /\ objects' = objects \cup {<<life, next>>}
  <2>1. /\ Names \subseteq Names' /\ 1 .. next - 1 \subseteq 1 .. next' - 1
        /\ 0 .. next - 1 \subseteq 0 .. next' - 1 /\ next \in 1 .. next' - 1 /\ next \in 0 .. next' - 1
        /\ next' \in Nat /\ next' > 0
        /\ <<life, next>> \notin Names /\ <<life, next>> \in Names' /\ <<life, next>> # <<life, 0>>
    BY <1>4, <1>5, <1>7, NamesGrow DEF TableInv
  <2>2. /\ objects' \subseteq {life'} \X (0 .. next' - 1) /\ <<life', 0>> \in objects'
    <3>1. objects \subseteq {life} \X (0 .. next - 1) /\ <<life, 0>> \in objects
      BY <1>5 DEF TableInv
    <3>2. {life} \X (0 .. next - 1) \subseteq {life} \X (0 .. next' - 1)
      BY <2>1
    <3>3. <<life, next>> \in {life} \X (0 .. next' - 1)
      BY <2>1
    <3> QED
      BY <1>4, <1>7, <3>1, <3>2, <3>3
  <2>3. table' \in [DOMAIN table' -> [kind : ObjectKinds, real : Names']]
    <3>1. \A x \in DOMAIN table : table[x] \in [kind : ObjectKinds, real : Names]
      BY <1>5 DEF TableInv
    <3>2. [kind : ObjectKinds, real : Names] \subseteq [kind : ObjectKinds, real : Names']
      BY <2>1
    <3>3. table \in [DOMAIN table -> [kind : ObjectKinds, real : Names]]
      BY <1>5 DEF TableInv
    <3> QED
      BY <1>4, <3>2, <3>3
  <2>4. DOMAIN table' \subseteq 1 .. next' - 1 /\ params' \subseteq 0 .. next' - 1
    BY <1>4, <1>5, <2>1 DEF TableInv
  <2>5. KeyLeft => KeyLeft'
    BY <1>4 DEF KeyLeft
  <2>6. TableInv'
    BY <1>4, <1>5, <2>1, <2>2, <2>3, <2>4, <2>5 DEF TableInv, RequestNull
  <2>7. LiveBut({})'
    BY <1>4, <1>5, <1>7 DEF LiveBut, Live, RequestNull
  <2>8. \A g \in held : table[g.handle].real \in Names
    BY <1>5 DEF TableInv
  <2>9. Unnamed'
    BY <1>4, <1>7, <2>1, <2>8 DEF Unnamed
  <2>10. NewestLive => NewestLive'
    BY <1>4, <1>7 DEF NewestLive
  <2>11. Match(q)'
    BY <1>1, <1>2, <1>3, <1>4, <2>7, <2>9, <2>10 DEF Match, Here
  <2> QED
    BY <1>1, <1>4, <2>6, <2>11 DEF WrapperInv, Here
<1> QED
  BY <1>6, <1>7 DEF Make

LEMMA UnmakeKeeps ==
  ASSUME WrapperInv, Unmake
  PROVE  WrapperInv'
<1>1. PICK m, q : Here(m, q)
  BY NextStep DEF Unmake, At
<1>2. /\ m.s = "one" /\ m.n = "no" /\ Kind = m.k /\ Kind \in {"op", "datatype", "file"}
      /\ q = M(m.d, m.c, "gone", m.k, m.n)
  BY <1>1, Freed DEF Here, Unmake, At, Kind
<1>3. q.d = m.d /\ q.c = m.c /\ q.n = "no" /\ q.s = "gone" /\ q.k = Kind
  BY <1>2, SMT DEF M
<1>4. /\ table' = table /\ held' = held /\ params' = params /\ life' = life /\ next' = next
      /\ checkpoint' = checkpoint /\ looked' = looked /\ result' = result /\ depth' = depth
      /\ made' = made /\ ended' = ended /\ critical' = critical /\ call' = Tail(call)
  BY DEF Unmake, Done, ckptVars
<1>5. TableInv /\ made = None /\ LiveBut({}) /\ LookedLive /\ None' = None
  BY <1>1, <1>2 DEF WrapperInv, Here, Match, None
<1>6. checkpoint # "invalid handle"
  BY <1>1, <1>2, InsideRuns DEF WrapperInv, Here
<1>7. PICK x : looked = {x} /\ x.kind = Kind
  BY <1>1, <1>2 DEF Here, Match
<1>8. CASE ok' = FALSE /\ objects' = objects
  <2>1. UNCHANGED objects_and_table /\ UNCHANGED checkpoint
    BY <1>4, <1>8 DEF objects_and_table
  <2>2. TableInv'
    BY <1>4, <1>5, <1>8, <2>1, TableKept DEF TableInv
  <2>3. Match(q)'
    BY <1>1, <1>2, <1>3, <1>4, <1>5, <1>8, <2>1, ClaimsKept DEF Match, Here
  <2> QED
    BY <1>1, <1>4, <2>2, <2>3 DEF WrapperInv, Here
<1>9. ASSUME NEW l \in looked, l.kind = Kind, l.handle # 0, ok' = TRUE,
             objects' = objects \ {l.real}
      PROVE  WrapperInv'
  <2>1. PICK g \in held : g.handle = l.handle /\ g.kind = l.kind /\ table[g.handle].real = l.real
    BY <1>2, <1>5, <1>9 DEF LookedLive
  <2>2. l.real \in Names
    BY <1>5, <2>1 DEF TableInv
  <2>3. <<life, 0>> \notin Names
    <3>1. <<life, 0>> # <<>> /\ <<life, 0>> # <<0>>
      BY SMT
    <3>2. 0 \notin 1 .. next - 1
      <4>1. next \in Nat
        BY <1>5 DEF TableInv
      <4> QED
        BY <4>1, SMT
    <3> QED
      BY <3>1, <3>2 DEF Names, Garbage, RequestNull
  <2>4. <<life, 0>> \in objects' /\ objects' \subseteq {life'} \X (0 .. next' - 1)
    BY <1>4, <1>5, <1>9, <2>2, <2>3 DEF TableInv
  <2>5. Names' = Names /\ (KeyLeft => KeyLeft')
    BY <1>4 DEF Names, KeyLeft, Garbage, RequestNull
  <2>6. TableInv'
    BY <1>4, <1>5, <1>9, <2>4, <2>5 DEF TableInv, RequestNull
  <2>7. LiveBut({l.handle})'
    <3>1. ASSUME NEW h \in held, h.handle # l.handle
          PROVE  table[h.handle].real \in objects' \cup {RequestNull}
      <4>1. Live(table[h.handle].real)
        BY <1>5, <1>6 DEF LiveBut
      <4>2. table[h.handle].real = l.real => table[h.handle].real = RequestNull
        BY <1>5, <1>6, <2>1, <3>1 DEF TableInv
      <4> QED
        BY <1>9, <4>1, <4>2 DEF Live
    <3> QED
      BY <1>4, <3>1 DEF LiveBut, Live, RequestNull
  <2>8. Gone(q.k)'
    <3>1. looked' = {l}
      BY <1>4, <1>7
    <3>2. \E h \in held' : h.handle = l.handle
      BY <1>4, <2>1
    <3> QED
      BY <1>3, <1>9, <2>7, <3>1, <3>2 DEF Gone
  <2>9. Match(q)'
    BY <1>1, <1>2, <1>3, <1>4, <1>5, <1>9, <2>8 DEF Match, Here
  <2> QED
    BY <1>1, <1>4, <2>6, <2>9 DEF WrapperInv, Here
<1> QED
  BY <1>8, <1>9 DEF Unmake

-----------------------------------------------------------------------------
(* A new handle, for the real id r.                                        *)
LEMMA NotNext ==
  ASSUME NEW j \in Nat, NEW x \in 0 .. j - 1
  PROVE  x # j
  BY SMT

LEMMA NamedTable ==
  ASSUME TableInv, NEW r, Named(next, r), Kind \in ObjectKinds, r \in Names',
         next' = next + 1, life' = life
  PROVE  /\ table' \in [DOMAIN table' -> [kind : ObjectKinds, real : Names']]
         /\ DOMAIN table' = DOMAIN table \cup {next} /\ next \notin DOMAIN table
         /\ DOMAIN table' \subseteq 1 .. next' - 1
         /\ \A x \in DOMAIN table : table'[x] = table[x]
         /\ table'[next].kind = Kind /\ table'[next].real = r
<1>1. /\ next \in Nat /\ next > 0 /\ life \in Nat /\ DOMAIN table \subseteq 1 .. next - 1
      /\ table \in [DOMAIN table -> [kind : ObjectKinds, real : Names]]
  BY DEF TableInv
<1>2. /\ Names \subseteq Names' /\ 1 .. next - 1 \subseteq 1 .. next' - 1 /\ next \in 1 .. next' - 1
  BY <1>1, NamesGrow
<1>3. next \notin 1 .. next - 1
  BY <1>1, SMT
<1>4. table' = [g \in DOMAIN table \cup {next} |->
                  IF g = next THEN [kind |-> Kind, real |-> r] ELSE table[g]]
  BY DEF Named
<1>5. DOMAIN table' = DOMAIN table \cup {next} /\ next \notin DOMAIN table
  BY <1>1, <1>3, <1>4
<1>6. \A x \in DOMAIN table : table'[x] = table[x]
  BY <1>4, <1>5
<1>7. table'[next] = [kind |-> Kind, real |-> r]
  BY <1>4
<1>8. ASSUME NEW x \in DOMAIN table'
      PROVE  table'[x] \in [kind : ObjectKinds, real : Names']
  <2>1. [kind : ObjectKinds, real : Names] \subseteq [kind : ObjectKinds, real : Names']
    BY <1>2
  <2>2. [kind |-> Kind, real |-> r] \in [kind : ObjectKinds, real : Names']
    OBVIOUS
  <2> QED
    BY <1>1, <1>5, <1>6, <1>7, <2>1, <2>2
<1>9. table' \in [DOMAIN table' -> [kind : ObjectKinds, real : Names']]
  <2>1. table' = [x \in DOMAIN table' |-> table'[x]]
    BY <1>4, <1>5
  <2> QED
    BY <1>8, <2>1
<1>10. table'[next].kind = Kind /\ table'[next].real = r
  BY <1>7, SMT
<1>11. DOMAIN table' \subseteq 1 .. next' - 1
  BY <1>1, <1>2, <1>5
<1> QED
  BY <1>5, <1>6, <1>9, <1>10, <1>11

(* The program has it or nobody has.                                       *)
LEMMA NamedKeeps ==
  ASSUME TableInv, NEW r, Named(next, r), Kind \in ObjectKinds, r \in Names',
         next' = next + 1, life' = life, objects' = objects, checkpoint' = checkpoint,
         depth' = depth, ok' = ok, checkpoint \notin {"closed", "saved"}, checkpoint # "invalid handle",
         params' \subseteq params \cup {next}, params \subseteq params',
         \/ held' = held
         \/ /\ held' = held \cup {[kind |-> Kind, handle |-> next]}
            /\ Live(r) /\ \A g \in held : table[g.handle].real # r
            /\ Kind = "file" => KeyLeft
  PROVE  TableInv' /\ (LiveBut({}) => LiveBut({})') /\ (KeyLeft => KeyLeft')
         /\ (held' = held => \A g \in held : table'[g.handle] = table[g.handle])
<1>1. /\ table' \in [DOMAIN table' -> [kind : ObjectKinds, real : Names']]
      /\ DOMAIN table' = DOMAIN table \cup {next} /\ next \notin DOMAIN table
      /\ DOMAIN table' \subseteq 1 .. next' - 1
      /\ \A x \in DOMAIN table : table'[x] = table[x]
      /\ table'[next].kind = Kind /\ table'[next].real = r
  BY NamedTable
<1>2. /\ next \in Nat /\ next > 0 /\ life \in Nat /\ ok \in BOOLEAN
      /\ objects \subseteq {life} \X (0 .. next - 1) /\ <<life, 0>> \in objects
      /\ params \subseteq 0 .. next - 1
      /\ held \subseteq [kind : ObjectKinds, handle : DOMAIN table]
      /\ \A g \in held : table[g.handle].kind = g.kind
      /\ (\E g \in held : g.kind = "file") => KeyLeft
      /\ \A g, h \in held : table[g.handle].real = table[h.handle].real =>
                              g = h \/ table[g.handle].real = RequestNull
  BY DEF TableInv
<1>3. /\ 0 .. next - 1 \subseteq 0 .. next' - 1 /\ next \in 0 .. next' - 1
      /\ next' \in Nat /\ next' > 0
  BY <1>2, NamesGrow
<1>4. \A g \in held : g.handle \in DOMAIN table /\ g.kind \in ObjectKinds
  BY <1>2
<1> DEFINE n == [kind |-> Kind, handle |-> next]
<1>5. n.kind = Kind /\ n.handle = next /\ n \in [kind : ObjectKinds, handle : DOMAIN table']
  BY <1>1
<1> HIDE DEF n
<1>6. held \subseteq held' /\ \A g \in held' : g \in held \/ g = n
  BY DEF n
<1>7. held' \subseteq [kind : ObjectKinds, handle : DOMAIN table']
  <2>1. held \subseteq [kind : ObjectKinds, handle : DOMAIN table']
    BY <1>1, <1>2
  <2> QED
    BY <1>5, <1>6, <2>1
<1>8. \A g \in held' : table'[g.handle].kind = g.kind
  BY <1>1, <1>2, <1>4, <1>5, <1>6
<1>9. KeyLeft => KeyLeft'
  <2>1. ASSUME NEW x \in params, x # 0, \A g \in held : g.handle # x
        PROVE  KeyLeft'
    <3>1. x # next
      <4>1. x \in 0 .. next - 1
        BY <1>2
      <4>2. next \in Nat
        BY <1>2
      <4> QED
        BY <4>1, <4>2, NotNext
    <3>2. \A g \in held' : g.handle # x
      BY <1>5, <1>6, <2>1, <3>1
    <3> QED
      BY <2>1, <3>2 DEF KeyLeft
  <2> QED
    BY <2>1 DEF KeyLeft
<1>10. (\E g \in held' : g.kind = "file") => KeyLeft'
  <2>1. ASSUME NEW g \in held', g.kind = "file"
        PROVE  KeyLeft
    <3>1. CASE g \in held
      BY <1>2, <2>1, <3>1
    <3>2. CASE g \notin held
      BY <1>5, <1>6, <2>1, <3>2 DEF n
    <3> QED
      BY <3>1, <3>2
  <2> QED
    BY <1>9, <2>1
<1>11. ASSUME NEW g \in held', NEW h \in held', table'[g.handle].real = table'[h.handle].real
       PROVE  g = h \/ table'[g.handle].real = RequestNull
  <2>1. CASE g \in held /\ h \in held
    <3>1. table'[g.handle] = table[g.handle] /\ table'[h.handle] = table[h.handle]
      BY <1>1, <1>4, <2>1
    <3>2. table[g.handle].real = table[h.handle].real
      BY <1>11, <3>1
    <3> QED
      BY <1>2, <2>1, <3>1, <3>2
  <2>2. CASE g \in held /\ h \notin held
    <3>1. h = n /\ table'[h.handle].real = r /\ table'[g.handle].real = table[g.handle].real
      BY <1>1, <1>4, <1>5, <1>6, <2>2
    <3> QED
      BY <1>11, <2>2, <3>1
  <2>3. CASE g \notin held /\ h \in held
    <3>1. g = n /\ table'[g.handle].real = r /\ table'[h.handle].real = table[h.handle].real
      BY <1>1, <1>4, <1>5, <1>6, <2>3
    <3> QED
      BY <1>11, <2>3, <3>1
  <2>4. CASE g \notin held /\ h \notin held
    BY <1>6, <2>4
  <2> QED
    BY <2>1, <2>2, <2>3, <2>4
<1>12. objects' \subseteq {life'} \X (0 .. next' - 1)
  <2>1. {life} \X (0 .. next - 1) \subseteq {life} \X (0 .. next' - 1)
    BY <1>3
  <2> QED
    BY <1>2, <2>1
<1>13. params' \subseteq 0 .. next' - 1
  BY <1>2, <1>3
<1>14. RequestNull' = RequestNull
  BY DEF RequestNull
<1>15. TableInv'
  BY <1>1, <1>2, <1>3, <1>7, <1>8, <1>10, <1>11, <1>12, <1>13, <1>14 DEF TableInv
<1>16. LiveBut({}) => LiveBut({})'
  BY <1>1, <1>4, <1>5, <1>6, <1>14 DEF LiveBut, Live, n
<1> QED
  BY <1>1, <1>4, <1>9, <1>15, <1>16

LEMMA UnnamedIsNew ==
  ASSUME TableInv, Unnamed, next' = next + 1, life' = life
  PROVE  made \in Names' /\ Live(made) /\ \A g \in held : table[g.handle].real # made
<1>1. /\ next \in Nat /\ next > 0 /\ life \in Nat /\ objects \subseteq {life} \X (0 .. next - 1)
  BY DEF TableInv
<1>2. made \in objects /\ made # <<life, 0>>
  BY DEF Unnamed
<1>3. PICK j \in 0 .. next - 1 : made = <<life, j>>
  BY <1>1, <1>2, SMT
<1>4. j # 0
  BY <1>2, <1>3
<1>5. j \in 1 .. next' - 1 /\ life \in 0 .. life'
  BY <1>1, <1>3, <1>4, SMT
<1>6. made \in Names'
  BY <1>3, <1>5 DEF Names
<1> QED
  BY <1>2, <1>6 DEF Live, Unnamed

LEMMA NewVirtIdKeeps ==
  ASSUME WrapperInv, NewVirtId
  PROVE  WrapperInv'
<1>1. PICK m, q : Here(m, q)
  BY NextStep DEF NewVirtId, At
<1>2. /\ m.n = "no" /\ Kind \in ObjectKinds
      /\ \/ m.s = "made" /\ Kind # "file" /\ q = M(m.d, m.c, "rest", "none", "no")
         \/ m.s = "made" /\ Kind = "comm" /\ q = M(m.d, m.c, "rest", "none", "may")
         \/ m.s = "keyed" /\ Kind = "file" /\ q = M(m.d, m.c, "rest", "none", "no")
  BY <1>1, MadeOne DEF Here, NewVirtId, At, Kind
<1>3. /\ q.d = m.d /\ q.c = m.c /\ q.s = "rest" /\ (q.n = "no" \/ (q.n = "may" /\ Kind = "comm"))
      /\ (Kind = "file" => m.s = "keyed") /\ (m.s = "made" \/ m.s = "keyed")
  BY <1>2, SMT DEF M
<1>4. /\ params' = params /\ life' = life /\ objects' = objects /\ ok' = ok
      /\ checkpoint' = checkpoint /\ looked' = looked /\ depth' = depth
      /\ ended' = ended /\ critical' = critical /\ call' = Tail(call)
  BY DEF NewVirtId, Done, ckptVars
<1>5. /\ TableInv /\ LiveBut({}) /\ (made # None => Unnamed)
      /\ ((m.s = "keyed" /\ made # None) => KeyLeft) /\ None' = None
  BY <1>1, <1>3 DEF WrapperInv, Here, Match, None
<1>6. checkpoint # "invalid handle" /\ checkpoint \notin {"closed", "saved"}
  BY <1>1, <1>3, InsideRuns DEF WrapperInv, Here
<1>7. CASE made = None
  <2>1. result' = 0 /\ made' = made /\ table' = table /\ held' = held /\ next' = next
    BY <1>7 DEF NewVirtId
  <2>2. UNCHANGED objects_and_table /\ UNCHANGED checkpoint
    BY <1>4, <2>1 DEF objects_and_table
  <2>3. TableInv'
    BY <1>4, <1>5, <2>2, TableKept DEF TableInv
  <2>4. q.n # "need" /\ q.s = "rest" /\ m.s # "out" /\ q.d # 0
    BY <1>1, <1>3 DEF Match, Here
  <2>5. Match(q)'
    BY <1>1, <1>3, <1>4, <1>5, <1>7, <2>1, <2>2, <2>4, ClaimsKept DEF Match, Here
  <2> QED
    BY <1>1, <1>4, <2>3, <2>5 DEF WrapperInv, Here
<1>8. CASE made # None
  <2>1. /\ Named(next, made) /\ made' = None /\ result' = next /\ next' = next + 1
        /\ held' = IF initialized THEN held \cup {[kind |-> Kind, handle |-> next]} ELSE held
    BY <1>8 DEF NewVirtId
  <2>2. made \in Names' /\ Live(made) /\ \A g \in held : table[g.handle].real # made
    BY <1>4, <1>5, <1>8, <2>1, UnnamedIsNew
  <2>3. \/ held' = held
        \/ /\ held' = held \cup {[kind |-> Kind, handle |-> next]}
           /\ Kind = "file" => KeyLeft
    BY <1>3, <1>5, <1>8, <2>1
  <2>4. params' \subseteq params \cup {next} /\ params \subseteq params'
    BY <1>4
  <2>5. TableInv' /\ LiveBut({})'
    BY <1>2, <1>4, <1>5, <1>6, <2>1, <2>2, <2>3, <2>4, NamedKeeps
  <2>6. Kind = "comm" => NewestLive'
    <3>1. /\ DOMAIN table' = DOMAIN table \cup {next}
          /\ table'[next].kind = Kind /\ table'[next].real = made
      BY <1>2, <1>4, <1>5, <2>1, <2>2, NamedTable
    <3>2. made \in objects'
      BY <1>4, <1>5, <1>8 DEF Unnamed
    <3> QED
      BY <2>1, <3>1, <3>2 DEF NewestLive
  <2>7. q.n # "need" /\ q.s = "rest" /\ m.s # "out" /\ q.d # 0
    BY <1>1, <1>3 DEF Match, Here
  <2>8. Match(q)'
    BY <1>1, <1>3, <1>4, <1>5, <2>1, <2>5, <2>6, <2>7 DEF Match, Here
  <2> QED
    BY <1>1, <1>4, <2>5, <2>8 DEF WrapperInv, Here
<1> QED
  BY <1>7, <1>8

LEMMA NewVirtIdAlwaysKeeps ==
  ASSUME WrapperInv, NewVirtIdAlways
  PROVE  WrapperInv'
<1>1. PICK m, q : Here(m, q)
  BY NextStep DEF NewVirtIdAlways, At
<1>2. m.n = "no" /\ Kind = "group" /\ m.s = "made" /\ q = M(m.d, m.c, "rest", "none", "no")
  BY <1>1, MadeOne DEF Here, NewVirtIdAlways, At, Kind
<1>3. /\ q.d = m.d /\ q.c = m.c /\ q.s = "rest" /\ q.n = "no"
  BY <1>2, SMT DEF M
<1>4. /\ params' = params /\ life' = life /\ objects' = objects /\ ok' = ok
      /\ checkpoint' = checkpoint /\ looked' = looked /\ depth' = depth
      /\ ended' = ended /\ critical' = critical /\ call' = Tail(call)
  BY DEF NewVirtIdAlways, Done, ckptVars
<1>5. /\ TableInv /\ LiveBut({}) /\ (made # None => Unnamed) /\ None' = None
      /\ m.d # 0 /\ Kind \in ObjectKinds /\ Kind # "file"
  BY <1>1, <1>2, KindNames DEF WrapperInv, Here, Match, None
<1>6. checkpoint # "invalid handle" /\ checkpoint \notin {"closed", "saved"}
  BY <1>1, <1>2, InsideRuns DEF WrapperInv, Here
<1>7. CASE ok /\ made = None
  <2>1. made' = made /\ table' = table /\ held' = held /\ next' = next
    BY <1>7 DEF NewVirtIdAlways
  <2>2. UNCHANGED objects_and_table /\ UNCHANGED checkpoint
    BY <1>4, <2>1 DEF objects_and_table
  <2>3. TableInv'
    BY <1>4, <1>5, <2>2, TableKept DEF TableInv
  <2>4. LiveBut({})' /\ made' = None
    BY <1>5, <1>7, <2>1, <2>2, ClaimsKept
  <2>5. Match(q)'
    BY <1>1, <1>3, <1>4, <1>5, <2>4 DEF Match, Here
  <2> QED
    BY <1>1, <1>4, <2>3, <2>5 DEF WrapperInv, Here
<1>8. CASE ~(ok /\ made = None)
  <2> DEFINE r == IF ok THEN made ELSE Garbage
  <2>1. /\ Named(next, r) /\ made' = None /\ result' = next /\ next' = next + 1
        /\ held' = IF ok THEN held \cup {[kind |-> Kind, handle |-> next]} ELSE held
    BY <1>8 DEF NewVirtIdAlways
  <2>2. r \in Names' /\ (ok => Live(r) /\ \A g \in held : table[g.handle].real # r)
    <3>1. CASE ok
      <4>1. made \in Names' /\ Live(made) /\ \A g \in held : table[g.handle].real # made
        BY <1>4, <1>5, <1>8, <2>1, <3>1, UnnamedIsNew
      <4> QED
        BY <3>1, <4>1
    <3>2. CASE ~ok
      BY <3>2 DEF Names, Garbage
    <3> QED
      BY <3>1, <3>2
  <2> HIDE DEF r
  <2>3. \/ held' = held
        \/ /\ held' = held \cup {[kind |-> Kind, handle |-> next]}
           /\ Live(r) /\ \A g \in held : table[g.handle].real # r
           /\ Kind = "file" => KeyLeft
    BY <1>5, <2>1, <2>2
  <2>4. params' \subseteq params \cup {next} /\ params \subseteq params'
    BY <1>4
  <2>5. TableInv' /\ LiveBut({})'
    BY <1>4, <1>5, <1>6, <2>1, <2>2, <2>3, <2>4, NamedKeeps
  <2>6. Match(q)'
    BY <1>1, <1>3, <1>4, <1>5, <2>1, <2>5 DEF Match, Here
  <2> QED
    BY <1>1, <1>4, <2>5, <2>6 DEF WrapperInv, Here
<1> QED
  BY <1>7, <1>8

LEMMA NewKeyKeeps ==
  ASSUME WrapperInv, NewKey
  PROVE  WrapperInv'
<1>1. PICK m, q : Here(m, q)
  BY NextStep DEF NewKey, At
<1>2. Kind \in ObjectKinds /\ m.s = "made" /\ q = M(m.d, m.c, "keyed", "none", m.n)
  BY <1>1, MadeOne DEF Here, NewKey, At, Kind
<1>3. /\ q.d = m.d /\ q.c = m.c /\ q.s = "keyed" /\ q.n = m.n
  BY <1>2, SMT DEF M
<1>4. /\ held' = held /\ life' = life /\ objects' = objects /\ ok' = ok /\ made' = made
      /\ checkpoint' = checkpoint /\ looked' = looked /\ depth' = depth /\ result' = result
      /\ ended' = ended /\ critical' = critical /\ call' = Tail(call)
  BY DEF NewKey, Done, ckptVars
<1>5. /\ TableInv /\ LiveBut({}) /\ (made # None => Unnamed) /\ None' = None /\ m.d # 0
  BY <1>1, <1>2 DEF WrapperInv, Here, Match, None
<1>6. checkpoint # "invalid handle" /\ checkpoint \notin {"closed", "saved"}
  BY <1>1, <1>2, InsideRuns DEF WrapperInv, Here
<1>7. CASE made = None
  <2>1. table' = table /\ params' = params /\ next' = next
    BY <1>7 DEF NewKey
  <2>2. UNCHANGED objects_and_table /\ UNCHANGED checkpoint
    BY <1>4, <2>1 DEF objects_and_table
  <2>3. TableInv'
    BY <1>4, <1>5, <2>2, TableKept DEF TableInv
  <2>4. Match(q)'
    BY <1>1, <1>2, <1>3, <1>4, <1>5, <1>7, <2>2, ClaimsKept DEF Match, Here
  <2> QED
    BY <1>1, <1>4, <2>3, <2>4 DEF WrapperInv, Here
<1>8. CASE made # None
  <2>1. /\ Named(next, made) /\ params' = params \cup {next} /\ next' = next + 1
    BY <1>8 DEF NewKey
  <2>2. made \in Names' /\ Live(made) /\ \A g \in held : table[g.handle].real # made
    BY <1>4, <1>5, <1>8, <2>1, UnnamedIsNew
  <2>3. params' \subseteq params \cup {next} /\ params \subseteq params'
    BY <2>1
  <2>4. /\ TableInv' /\ LiveBut({})'
        /\ \A g \in held : table'[g.handle] = table[g.handle]
    BY <1>2, <1>4, <1>5, <1>6, <2>1, <2>2, <2>3, NamedKeeps
  <2>5. /\ DOMAIN table' = DOMAIN table \cup {next} /\ next \notin DOMAIN table
        /\ \A x \in DOMAIN table : table'[x] = table[x]
    BY <1>2, <1>4, <1>5, <2>1, <2>2, NamedTable
  <2>6. KeyLeft'
    <3>1. next # 0
      <4>1. next \in Nat /\ next > 0
        BY <1>5 DEF TableInv
      <4> QED
        BY <4>1, SMT
    <3>2. \A g \in held : g.handle # next
      <4>1. \A g \in held : g.handle \in DOMAIN table
        BY <1>5 DEF TableInv
      <4> QED
        BY <2>5, <4>1
    <3> QED
      BY <1>4, <2>1, <3>1, <3>2 DEF KeyLeft
  <2>7. NewestLive => NewestLive'
    BY <1>4, <2>5 DEF NewestLive
  <2>8. Unnamed'
    BY <1>4, <1>5, <1>8, <2>4 DEF Unnamed
  <2>9. Match(q)'
    BY <1>1, <1>2, <1>3, <1>4, <1>5, <2>4, <2>6, <2>7, <2>8 DEF Match, Here
  <2> QED
    BY <1>1, <1>4, <2>4, <2>9 DEF WrapperInv, Here
<1> QED
  BY <1>7, <1>8

LEMMA SetKeyKeeps ==
  ASSUME WrapperInv, SetKey
  PROVE  WrapperInv'
<1>1. PICK m, q : Here(m, q)
  BY NextStep DEF SetKey, At
<1>2. Kind = "file" /\ m.s = "in" /\ q = M(m.d, m.c, "rest", "none", m.n)
  BY <1>1, Freed DEF Here, SetKey, At, Kind
<1>3. /\ q.d = m.d /\ q.c = m.c /\ q.s = "rest" /\ q.n = m.n
  BY <1>2, SMT DEF M
<1>4. /\ table' = table /\ held' = held /\ life' = life /\ next' = next /\ objects' = objects
      /\ ok' = ok /\ made' = made /\ checkpoint' = checkpoint /\ looked' = looked
      /\ depth' = depth /\ result' = result /\ ended' = ended /\ critical' = critical
      /\ call' = Tail(call) /\ params' \subseteq params \cup Arguments /\ params \subseteq params'
  BY DEF SetKey, Done, ckptVars
<1>5. /\ TableInv /\ LiveBut({}) /\ LookedLive /\ made = None /\ None' = None /\ m.d # 0
  BY <1>1, <1>2 DEF WrapperInv, Here, Match, None
<1>6. Arguments \subseteq 0 .. next - 1
  <2>1. /\ next \in Nat /\ next > 0 /\ DOMAIN table \subseteq 1 .. next - 1
        /\ \A g \in held : g.handle \in DOMAIN table
    BY <1>5 DEF TableInv
  <2>2. 0 \in 0 .. next - 1 /\ 1 .. next - 1 \subseteq 0 .. next - 1
    BY <2>1, SMT
  <2>3. ASSUME NEW l \in looked, l.kind = "file", l.handle # 0
        PROVE  l.handle \in DOMAIN table
    BY <1>5, <2>1, <2>3 DEF LookedLive
  <2> QED
    BY <1>2, <2>1, <2>2, <2>3 DEF Arguments
<1>7. params' \subseteq 0 .. next' - 1
  BY <1>4, <1>5, <1>6 DEF TableInv
<1>8. KeyLeft => KeyLeft'
  BY <1>4 DEF KeyLeft
<1>9. Names' = Names /\ RequestNull' = RequestNull
  BY <1>4 DEF Names, Garbage, RequestNull
<1>10. TableInv'
  BY <1>4, <1>5, <1>7, <1>8, <1>9 DEF TableInv
<1>11. LiveBut({})' /\ (NewestLive => NewestLive')
  BY <1>4, <1>5, <1>9 DEF LiveBut, Live, NewestLive
<1>12. Match(q)'
  BY <1>1, <1>2, <1>3, <1>4, <1>5, <1>11 DEF Match, Here
<1> QED
  BY <1>1, <1>4, <1>10, <1>12 DEF WrapperInv, Here

(* The program's handle of an object that is gone.                         *)
LEMMA GoneArgument ==
  ASSUME TableInv, Gone(Kind)
  PROVE  \E x : /\ Arguments = {x} /\ x # 0 /\ LiveBut({x})
                /\ \E g \in held : g.handle = x
<1>1. PICK l : /\ looked = {l} /\ l.kind = Kind /\ l.handle # 0
               /\ \E g \in held : g.handle = l.handle
               /\ LiveBut({l.handle})
  BY DEF Gone
<1>2. Arguments = {l.handle}
  BY <1>1 DEF Arguments
<1> QED
  BY <1>1, <1>2

LEMMA EraseKeyKeeps ==
  ASSUME WrapperInv, EraseKey
  PROVE  WrapperInv'
<1>1. PICK m, q : Here(m, q)
  BY NextStep DEF EraseKey, At
<1>2. m.s = "gone" /\ Kind = m.k /\ q = M(m.d, m.c, "rest", "none", m.n)
  BY <1>1, Freed DEF Here, EraseKey, At, Kind
<1>3. /\ q.d = m.d /\ q.c = m.c /\ q.s = "rest" /\ q.n = m.n
  BY <1>2, SMT DEF M
<1>4. /\ table' = table /\ life' = life /\ next' = next /\ objects' = objects
      /\ ok' = ok /\ made' = made /\ checkpoint' = checkpoint /\ looked' = looked
      /\ depth' = depth /\ result' = result /\ ended' = ended /\ critical' = critical
      /\ call' = Tail(call)
  BY DEF EraseKey, Done, ckptVars
<1>5. /\ TableInv /\ made = None /\ None' = None /\ m.d # 0
      /\ (ok => Gone(Kind)) /\ (~ok => LiveBut({}))
  BY <1>1, <1>2 DEF WrapperInv, Here, Match, None
<1>6. CASE ~ok
  <2>1. UNCHANGED objects_and_table /\ UNCHANGED checkpoint
    BY <1>4, <1>6 DEF objects_and_table, EraseKey
  <2>2. TableInv'
    BY <1>4, <1>5, <2>1, TableKept DEF TableInv
  <2>3. Match(q)'
    BY <1>1, <1>2, <1>3, <1>4, <1>5, <1>6, <2>1, ClaimsKept DEF Match, Here
  <2> QED
    BY <1>1, <1>4, <2>2, <2>3 DEF WrapperInv, Here
<1>7. CASE ok
  <2>1. PICK x : /\ Arguments = {x} /\ x # 0 /\ LiveBut({x})
                 /\ \E g \in held : g.handle = x
    BY <1>5, <1>7, GoneArgument
  <2>2. params' = params \ {x} /\ held' = {g \in held : g.handle # x}
    BY <1>7, <2>1 DEF EraseKey
  <2>3. KeyLeft => KeyLeft'
    BY <2>1, <2>2 DEF KeyLeft
  <2>4. Names' = Names /\ RequestNull' = RequestNull
    BY <1>4 DEF Names, Garbage, RequestNull
  <2>5. (\E g \in held' : g.kind = "file") => KeyLeft'
    BY <1>5, <2>2, <2>3 DEF TableInv
  <2>6. /\ held' \subseteq [kind : ObjectKinds, handle : DOMAIN table']
        /\ params' \subseteq 0 .. next' - 1
    BY <1>4, <1>5, <2>2 DEF TableInv
  <2>7. /\ \A g \in held' : table'[g.handle].kind = g.kind
        /\ checkpoint' # "invalid handle" =>
             \A g, h \in held' : table'[g.handle].real = table'[h.handle].real =>
                                   g = h \/ table'[g.handle].real = RequestNull
    BY <1>4, <1>5, <2>2 DEF TableInv
  <2>8. TableInv'
    BY <1>4, <1>5, <2>4, <2>5, <2>6, <2>7 DEF TableInv
  <2>9. LiveBut({})' /\ (NewestLive => NewestLive')
    BY <1>4, <2>1, <2>2, <2>4 DEF LiveBut, Live, NewestLive
  <2>10. Match(q)'
    BY <1>1, <1>2, <1>3, <1>4, <1>5, <2>9 DEF Match, Here
  <2> QED
    BY <1>1, <1>4, <2>8, <2>10 DEF WrapperInv, Here
<1> QED
  BY <1>6, <1>7

LEMMA FreeVirtIdKeeps ==
  ASSUME WrapperInv, FreeVirtIdStep
  PROVE  WrapperInv'
<1>1. PICK m, q : Here(m, q)
  BY NextStep DEF FreeVirtIdStep, At
<1>2. /\ m.n = "no" /\ (m.s = "in" \/ (m.s = "gone" /\ Kind = m.k))
      /\ q = M(m.d, m.c, "rest", "none", m.n)
  BY <1>1, Freed DEF Here, FreeVirtIdStep, At, Kind
<1>3. /\ q.d = m.d /\ q.c = m.c /\ q.s = "rest" /\ q.n = "no"
  BY <1>2, SMT DEF M
<1>4. /\ params' = params /\ life' = life /\ next' = next /\ objects' = objects
      /\ ok' = ok /\ made' = made /\ checkpoint' = checkpoint /\ looked' = looked
      /\ depth' = depth /\ result' = result /\ ended' = ended /\ critical' = critical
      /\ call' = Tail(call)
  BY DEF FreeVirtIdStep, Done, ckptVars
<1>5. /\ TableInv /\ made = None /\ None' = None /\ m.d # 0
      /\ (m.s = "gone" /\ ok => Gone(Kind)) /\ (~(m.s = "gone" /\ ok) => LiveBut({}))
  BY <1>1, <1>2 DEF WrapperInv, Here, Match, None
<1>6. CASE ~ok \/ Arguments = {0}
  <2>1. UNCHANGED objects_and_table /\ UNCHANGED checkpoint
    BY <1>4, <1>6 DEF objects_and_table, FreeVirtIdStep
  <2>2. TableInv'
    BY <1>4, <1>5, <2>1, TableKept DEF TableInv
  <2>3. ~(m.s = "gone" /\ ok)
    <3>1. Gone(Kind) => Arguments # {0}
      BY <1>5, GoneArgument
    <3> QED
      BY <1>5, <1>6, <3>1
  <2>4. LiveBut({})'
    BY <1>5, <2>1, <2>3, ClaimsKept
  <2>5. Match(q)'
    BY <1>1, <1>2, <1>3, <1>4, <1>5, <2>4 DEF Match, Here
  <2> QED
    BY <1>1, <1>4, <2>2, <2>5 DEF WrapperInv, Here
<1>7. ASSUME NEW h, held' = {g \in held : g.handle # h},
             m.s = "gone" /\ ok => h \in Arguments,
             table' = Restrict(table, DOMAIN table \ {h}) \/ table' = table
      PROVE  WrapperInv'
  <2>1. /\ DOMAIN table' \subseteq DOMAIN table
        /\ table' \in [DOMAIN table' -> [kind : ObjectKinds, real : Names]]
        /\ \A x \in DOMAIN table' : table'[x] = table[x]
        /\ \A x \in DOMAIN table : x # h => x \in DOMAIN table'
    <3>1. table \in [DOMAIN table -> [kind : ObjectKinds, real : Names]]
      BY <1>5 DEF TableInv
    <3>2. CASE table' = table
      BY <3>1, <3>2
    <3>3. CASE table' = [x \in DOMAIN table \ {h} |-> table[x]]
      BY <3>1, <3>3
    <3> QED
      BY <1>7, <3>2, <3>3 DEF Restrict
  <2>2. KeyLeft => KeyLeft'
    BY <1>4, <1>7 DEF KeyLeft
  <2>3. Names' = Names /\ RequestNull' = RequestNull
    BY <1>4 DEF Names, Garbage, RequestNull
  <2>4. (\E g \in held' : g.kind = "file") => KeyLeft'
    BY <1>5, <1>7, <2>2 DEF TableInv
  <2>5. ASSUME NEW g \in held'
        PROVE  /\ g \in held /\ g.handle # h /\ g.handle \in DOMAIN table'
               /\ g.kind \in ObjectKinds /\ g = [kind |-> g.kind, handle |-> g.handle]
               /\ table'[g.handle] = table[g.handle]
    <3>1. g \in held /\ g.handle # h
      BY <1>7, <2>5
    <3>2. g \in [kind : ObjectKinds, handle : DOMAIN table]
      BY <1>5, <3>1 DEF TableInv
    <3> QED
      BY <2>1, <3>1, <3>2
  <2>6. held' \subseteq [kind : ObjectKinds, handle : DOMAIN table']
    <3>1. ASSUME NEW g \in held'
          PROVE  g \in [kind : ObjectKinds, handle : DOMAIN table']
      <4>1. [kind |-> g.kind, handle |-> g.handle] \in [kind : ObjectKinds, handle : DOMAIN table']
        BY <2>5
      <4> QED
        BY <2>5, <4>1
    <3> QED
      BY <3>1
  <2>7. /\ \A g \in held' : table'[g.handle].kind = g.kind
        /\ checkpoint' # "invalid handle" =>
             \A g, k \in held' : table'[g.handle].real = table'[k.handle].real =>
                                   g = k \/ table'[g.handle].real = RequestNull
    <3>1. \A g \in held : table[g.handle].kind = g.kind
      BY <1>5 DEF TableInv
    <3>2. checkpoint' # "invalid handle" =>
            \A g, k \in held : table[g.handle].real = table[k.handle].real =>
                                 g = k \/ table[g.handle].real = RequestNull
      BY <1>4, <1>5 DEF TableInv
    <3>3. \A g \in held' : g \in held /\ table'[g.handle] = table[g.handle]
      BY <2>5
    <3>4. \A g \in held' : table'[g.handle].kind = g.kind
      BY <3>1, <3>3
    <3>5. ASSUME checkpoint' # "invalid handle", NEW g \in held', NEW k \in held',
                 table'[g.handle].real = table'[k.handle].real
          PROVE  g = k \/ table'[g.handle].real = RequestNull
      <4>1. g \in held /\ k \in held /\ table[g.handle].real = table[k.handle].real
        BY <3>3, <3>5
      <4>2. g = k \/ table[g.handle].real = RequestNull
        BY <3>2, <3>5, <4>1
      <4> QED
        BY <3>3, <4>2
    <3> QED
      BY <3>4, <3>5
  <2>8. /\ DOMAIN table' \subseteq 1 .. next' - 1
        /\ checkpoint' \in {"closed", "saved"} =>
             \A x \in DOMAIN table' : table'[x].kind = "request" => table'[x].real = RequestNull
    BY <1>4, <1>5, <2>1 DEF TableInv
  <2>9. TableInv'
    BY <1>4, <1>5, <2>1, <2>3, <2>4, <2>6, <2>7, <2>8 DEF TableInv
  <2>10. LiveBut({h})
    <3>1. CASE m.s = "gone" /\ ok
      BY <1>5, <1>7, <3>1, GoneArgument
    <3>2. CASE ~(m.s = "gone" /\ ok)
      BY <1>5, <3>2 DEF LiveBut
    <3> QED
      BY <3>1, <3>2
  <2>11. LiveBut({})'
    BY <1>4, <2>3, <2>5, <2>10 DEF LiveBut, Live
  <2>12. Match(q)'
    BY <1>1, <1>2, <1>3, <1>4, <1>5, <2>11 DEF Match, Here
  <2> QED
    BY <1>1, <1>4, <2>9, <2>12 DEF WrapperInv, Here
<1>8. CASE ~(~ok \/ Arguments = {0})
  <2> DEFINE S == IF Arguments = {} THEN {g.handle : g \in {g \in held : g.kind = Kind}}
                  ELSE Arguments
  <2>1. PICK h \in S : /\ held' = {g \in held : g.handle # h}
                       /\ \/ table' = Restrict(table, DOMAIN table \ {h})
                          \/ table' = table
    BY <1>8 DEF FreeVirtIdStep
  <2>2. m.s = "gone" /\ ok => h \in Arguments
    <3>1. Gone(Kind) => Arguments # {}
      BY <1>5, GoneArgument
    <3> QED
      BY <1>5, <3>1
  <2> QED
    BY <1>7, <2>1, <2>2
<1> QED
  BY <1>6, <1>8

-----------------------------------------------------------------------------
(* The checkpoint: no wrapper moves in it.                                 *)
LEMMA CheckpointMoves ==
  ASSUME WrapperInv, UNCHANGED <<appVars, objectVars>>,
         checkpoint # "invalid handle", checkpoint' # "invalid handle",
         checkpoint' \in {"closed", "saved", "invalid handle"} =>
           checkpoint \in {"closed", "saved", "invalid handle"},
         checkpoint' \in {"closed", "saved"} => checkpoint \in {"closed", "saved"}
  PROVE  WrapperInv'
<1>1. PICK m \in Modes : Good(call, m) /\ Match(m)
  BY DEF WrapperInv
<1>2. /\ table' = table /\ held' = held /\ params' = params /\ next' = next
      /\ life' = life /\ objects' = objects /\ call' = call /\ ok' = ok /\ looked' = looked
      /\ made' = made /\ result' = result /\ depth' = depth /\ critical' = critical
      /\ ended' = ended
  BY DEF appVars, objectVars
<1>3. Names' = Names /\ RequestNull' = RequestNull /\ None' = None /\ (KeyLeft => KeyLeft')
  BY <1>2 DEF Names, Garbage, RequestNull, None, KeyLeft
<1>4. TableInv'
  BY <1>2, <1>3 DEF WrapperInv, TableInv
<1>5. /\ \A S : LiveBut(S) => LiveBut(S)'
      /\ LookedLive => LookedLive'
      /\ Unnamed => Unnamed'
      /\ NewestLive => NewestLive'
  BY <1>2, <1>3 DEF LiveBut, Live, LookedLive, Unnamed, NewestLive
<1>6. \A k : Gone(k) => Gone(k)'
  BY <1>2, <1>5 DEF Gone
<1>7. Match(m)'
  BY <1>1, <1>2, <1>3, <1>5, <1>6 DEF Match
<1> QED
  BY <1>1, <1>2, <1>4, <1>7 DEF WrapperInv

LEMMA RequestCheckpointKeeps ==
  ASSUME WrapperInv, RequestCheckpoint
  PROVE  WrapperInv'
<1>1. checkpoint = "running" /\ checkpoint' = "drain" /\ UNCHANGED <<appVars, objectVars>>
  BY DEF RequestCheckpoint
<1>2. /\ checkpoint # "invalid handle" /\ checkpoint' # "invalid handle"
      /\ checkpoint' \notin {"closed", "saved", "invalid handle"}
      /\ checkpoint' \notin {"closed", "saved"}
  BY <1>1, SMT
<1> QED
  BY <1>1, <1>2, CheckpointMoves

LEMMA CloseLowerHalfKeeps ==
  ASSUME WrapperInv, CloseLowerHalf
  PROVE  WrapperInv'
<1>1. checkpoint = "drain" /\ checkpoint' = "closing" /\ UNCHANGED <<appVars, objectVars>>
  BY DEF CloseLowerHalf
<1>2. /\ checkpoint # "invalid handle" /\ checkpoint' # "invalid handle"
      /\ checkpoint' \notin {"closed", "saved", "invalid handle"}
      /\ checkpoint' \notin {"closed", "saved"}
  BY <1>1, SMT
<1> QED
  BY <1>1, <1>2, CheckpointMoves

LEMMA SaveKeeps ==
  ASSUME WrapperInv, save_mpi_files
  PROVE  WrapperInv'
<1>1. checkpoint = "closed" /\ checkpoint' = "saved" /\ UNCHANGED <<appVars, objectVars>>
  BY DEF save_mpi_files
<1>2. /\ checkpoint # "invalid handle" /\ checkpoint' # "invalid handle"
      /\ checkpoint' \in {"closed", "saved", "invalid handle"} =>
           checkpoint \in {"closed", "saved", "invalid handle"}
      /\ checkpoint' \in {"closed", "saved"} => checkpoint \in {"closed", "saved"}
  BY <1>1, SMT
<1> QED
  BY <1>1, <1>2, CheckpointMoves

LEMMA ResumeKeeps ==
  ASSUME WrapperInv, Resume
  PROVE  WrapperInv'
<1>1. checkpoint = "saved" /\ checkpoint' = "running" /\ UNCHANGED <<appVars, objectVars>>
  BY DEF Resume
<1>2. /\ checkpoint # "invalid handle" /\ checkpoint' # "invalid handle"
      /\ checkpoint' \notin {"closed", "saved", "invalid handle"}
      /\ checkpoint' \notin {"closed", "saved"}
  BY <1>1, SMT
<1> QED
  BY <1>1, <1>2, CheckpointMoves

(* Outside the lower half a mode says this much.                           *)
LEMMA OutsideMatch ==
  ASSUME NEW m \in Modes, depth = 0
  PROVE  Match(m) <=>
           /\ m.d = 0 /\ critical = m.c /\ m.s = "out" /\ looked = {} /\ made = None
           /\ LiveBut({})
           /\ (m.n = "may" /\ result # 0) => NewestLive
           /\ m.n = "need" => result # 0 /\ NewestLive
  BY DEF Match

LEMMA DrainRequestsKeeps ==
  ASSUME WrapperInv, DrainRequests
  PROVE  WrapperInv'
<1>1. PICK m \in Modes : Good(call, m) /\ Match(m)
  BY DEF WrapperInv
<1>2. /\ held' = held /\ params' = params /\ next' = next
      /\ life' = life /\ objects' = objects /\ call' = call /\ ok' = ok /\ looked' = looked
      /\ made' = made /\ result' = result /\ depth' = depth /\ critical' = critical
      /\ ended' = ended /\ depth = 0 /\ checkpoint' = "closed" /\ checkpoint = "closing"
      /\ table' = [h \in DOMAIN table |->
                     IF table[h].kind = "request" THEN [table[h] EXCEPT !.real = RequestNull]
                                                  ELSE table[h]]
  BY DEF DrainRequests, appVars
<1>3. Names' = Names /\ RequestNull' = RequestNull /\ None' = None /\ (KeyLeft => KeyLeft')
      /\ RequestNull \in Names
  BY <1>2 DEF Names, Garbage, RequestNull, None, KeyLeft
<1>4. checkpoint # "invalid handle" /\ checkpoint' # "invalid handle"
  BY <1>2, SMT
<1>5. TableInv /\ LiveBut({})
  BY <1>1, <1>2, OutsideMatch DEF WrapperInv
<1>6. ASSUME NEW x \in DOMAIN table
      PROVE  /\ table'[x] \in [kind : ObjectKinds, real : Names]
             /\ table'[x].kind = table[x].kind
             /\ table[x].kind = "request" => table'[x].real = RequestNull
             /\ table[x].kind # "request" => table'[x] = table[x]
  <2>1. PICK y : y = table[x]
    OBVIOUS
  <2>2. y \in [kind : ObjectKinds, real : Names]
    BY <1>5, <2>1 DEF TableInv
  <2>3. /\ [y EXCEPT !.real = RequestNull] \in [kind : ObjectKinds, real : Names]
        /\ [y EXCEPT !.real = RequestNull].kind = y.kind
        /\ [y EXCEPT !.real = RequestNull].real = RequestNull
    BY <1>3, <2>2
  <2>4. table'[x] = IF y.kind = "request" THEN [y EXCEPT !.real = RequestNull] ELSE y
    BY <1>2, <2>1
  <2> QED
    BY <2>1, <2>2, <2>3, <2>4
<1>7. DOMAIN table' = DOMAIN table /\ table' \in [DOMAIN table' -> [kind : ObjectKinds, real : Names']]
  <2>1. DOMAIN table' = DOMAIN table /\ table' = [x \in DOMAIN table' |-> table'[x]]
    BY <1>2
  <2> QED
    BY <1>3, <1>6, <2>1
<1>8. ASSUME NEW g \in held
      PROVE  g.handle \in DOMAIN table /\ table[g.handle].kind = g.kind
  BY <1>5 DEF TableInv
<1>9. \A g \in held : table'[g.handle].kind = g.kind
  BY <1>6, <1>8
<1>10. ASSUME NEW g \in held, NEW h \in held, table'[g.handle].real = table'[h.handle].real
       PROVE  g = h \/ table'[g.handle].real = RequestNull
  <2>1. CASE g.kind = "request" \/ h.kind = "request"
    BY <1>6, <1>8, <1>10, <2>1
  <2>2. CASE g.kind # "request" /\ h.kind # "request"
    <3>1. table'[g.handle] = table[g.handle] /\ table'[h.handle] = table[h.handle]
      BY <1>6, <1>8, <2>2
    <3> QED
      BY <1>4, <1>5, <1>10, <3>1 DEF TableInv
  <2> QED
    BY <2>1, <2>2
<1>11. TableInv'
  BY <1>2, <1>3, <1>5, <1>6, <1>7, <1>9, <1>10 DEF TableInv
<1>12. LiveBut({})'
  <2>1. ASSUME NEW g \in held
        PROVE  Live(table'[g.handle].real)
    <3>1. Live(table[g.handle].real)
      BY <1>4, <1>5 DEF LiveBut
    <3>2. table'[g.handle].real = RequestNull \/ table'[g.handle].real = table[g.handle].real
      BY <1>6, <1>8
    <3> QED
      BY <3>1, <3>2 DEF Live
  <2> QED
    BY <1>2, <1>3, <2>1 DEF LiveBut, Live
<1>13. NewestLive => NewestLive'
  <2>1. "comm" # "request"
    BY SMT
  <2> QED
    BY <1>2, <1>4, <1>6, <1>7, <2>1 DEF NewestLive
<1>14. Match(m)'
  BY <1>1, <1>2, <1>3, <1>12, <1>13, OutsideMatch DEF Match
<1> QED
  BY <1>1, <1>2, <1>11, <1>14 DEF WrapperInv

(* A restart remakes what the table has; it gets to the end only when      *)
(* g_params_map has no key, and then the program has no file.              *)
LEMMA RestartKeeps ==
  ASSUME WrapperInv, Restart
  PROVE  WrapperInv'
<1>1. PICK m \in Modes : Good(call, m) /\ Match(m)
  BY DEF WrapperInv
<1> DEFINE R == Rebuilt \cup params
           new == life + 1
<1>2. /\ held' = held /\ params' = params /\ next' = next
      /\ life' = new /\ call' = call /\ ok' = ok /\ looked' = looked
      /\ made' = made /\ result' = result /\ depth' = depth /\ critical' = critical
      /\ ended' = ended /\ checkpoint = "saved"
      /\ objects' = {<<new, 0>>} \cup ({new} \X R)
      /\ table' = [h \in DOMAIN table |->
                     IF h \in R THEN [table[h] EXCEPT !.real = <<new, h>>] ELSE table[h]]
      /\ checkpoint' = IF params = {} THEN "running" ELSE "invalid handle"
  BY DEF Restart, appVars, Predefined
<1>3. TableInv /\ depth = 0 /\ checkpoint # "invalid handle" /\ checkpoint' \notin {"closed", "saved"}
  <2>1. TableInv
    BY DEF WrapperInv
  <2>2. checkpoint = "saved" /\ (checkpoint' = "running" \/ checkpoint' = "invalid handle")
    BY <1>2
  <2>3. checkpoint # "invalid handle" /\ checkpoint' \notin {"closed", "saved"}
    BY <2>2
  <2> QED
    BY <1>2, <2>1, <2>3 DEF TableInv
<1>4. /\ next \in Nat /\ next > 0 /\ life \in Nat /\ DOMAIN table \subseteq 1 .. next - 1
      /\ params \subseteq 0 .. next - 1
  BY <1>3 DEF TableInv
<1>5. /\ new \in Nat /\ 0 .. life \subseteq 0 .. new /\ new \in 0 .. new
      /\ 0 \in 0 .. next - 1 /\ 1 .. next - 1 \subseteq 0 .. next - 1
  BY <1>4, SMT
<1> HIDE DEF new
<1>6. /\ Names' = {Garbage, RequestNull} \cup ((0 .. new) \X (1 .. next - 1))
      /\ RequestNull' = RequestNull /\ None' = None /\ (KeyLeft => KeyLeft')
  BY <1>2 DEF Names, Garbage, RequestNull, None, KeyLeft
<1>7. Names \subseteq Names' /\ \A x \in DOMAIN table : <<new, x>> \in Names'
  <2>1. (0 .. life) \X (1 .. next - 1) \subseteq (0 .. new) \X (1 .. next - 1)
    BY <1>5
  <2>2. \A x \in DOMAIN table : <<new, x>> \in (0 .. new) \X (1 .. next - 1)
    BY <1>4, <1>5
  <2> QED
    BY <1>6, <2>1, <2>2 DEF Names
<1>8. objects' \subseteq {life'} \X (0 .. next' - 1) /\ <<life', 0>> \in objects'
  <2>1. R \subseteq 0 .. next - 1
    BY <1>4, <1>5 DEF Rebuilt
  <2> HIDE DEF R
  <2>2. {new} \X R \subseteq {new} \X (0 .. next - 1) /\ <<new, 0>> \in {new} \X (0 .. next - 1)
    BY <1>5, <2>1
  <2> QED
    BY <1>2, <2>2
<1>9. ASSUME NEW x \in DOMAIN table
      PROVE  /\ table'[x] \in [kind : ObjectKinds, real : Names']
             /\ table'[x].kind = table[x].kind
             /\ x \in R => table'[x].real = <<new, x>> /\ table'[x].real \in objects'
             /\ x \notin R => table'[x] = table[x]
  <2> HIDE DEF R
  <2>1. PICK y : y = table[x]
    OBVIOUS
  <2>2. y \in [kind : ObjectKinds, real : Names]
    BY <1>3, <2>1 DEF TableInv
  <2>3. PICK r : r = <<new, x>>
    OBVIOUS
  <2>4. /\ [y EXCEPT !.real = r] \in [kind : ObjectKinds, real : Names']
        /\ [y EXCEPT !.real = r].kind = y.kind
        /\ [y EXCEPT !.real = r].real = r
        /\ y \in [kind : ObjectKinds, real : Names']
    <3>1. r \in Names' /\ Names \subseteq Names'
      BY <1>7, <2>3
    <3> QED
      BY <2>2, <3>1
  <2>5. table'[x] = IF x \in R THEN [y EXCEPT !.real = r] ELSE y
    BY <1>2, <2>1, <2>3
  <2>6. x \in R => r \in objects'
    BY <1>2, <2>3
  <2> QED
    BY <2>1, <2>3, <2>4, <2>5, <2>6
<1>10. DOMAIN table' = DOMAIN table /\ table' \in [DOMAIN table' -> [kind : ObjectKinds, real : Names']]
  <2>1. DOMAIN table' = DOMAIN table /\ table' = [x \in DOMAIN table' |-> table'[x]]
    BY <1>2
  <2> QED
    BY <1>9, <2>1
<1>11. ASSUME NEW g \in held
       PROVE  /\ g.handle \in DOMAIN table /\ table[g.handle].kind = g.kind
              /\ g.kind \in ObjectKinds /\ g = [kind |-> g.kind, handle |-> g.handle]
  <2>1. g \in [kind : ObjectKinds, handle : DOMAIN table] /\ table[g.handle].kind = g.kind
    BY <1>3 DEF TableInv
  <2> QED
    BY <2>1
<1>12. \A g \in held : table'[g.handle].kind = g.kind
  BY <1>9, <1>11
<1>13. ASSUME checkpoint' # "invalid handle", NEW g \in held
       PROVE  \/ g.handle \in R /\ table'[g.handle].real = <<new, g.handle>>
              \/ table'[g.handle].real = RequestNull
  <2>1. params = {}
    BY <1>2, <1>13
  <2>2. g.kind # "file"
    BY <1>3, <2>1 DEF TableInv, KeyLeft
  <2>3. CASE g.kind = "request"
    <3>1. table[g.handle].real = RequestNull
      BY <1>2, <1>3, <1>11, <2>3 DEF TableInv
    <3>2. "request" \notin {"comm", "group", "op", "datatype"}
      BY SMT
    <3>3. g.handle \notin R
      BY <1>11, <2>1, <2>3, <3>2 DEF Rebuilt
    <3> QED
      BY <1>9, <1>11, <3>1, <3>3
  <2>4. CASE g.kind # "request"
    <3>1. g.kind \in {"comm", "group", "op", "datatype"}
      BY <1>11, <2>2, <2>4 DEF ObjectKinds
    <3>2. g.handle \in R
      BY <1>11, <3>1 DEF Rebuilt
    <3> QED
      BY <1>9, <1>11, <3>2
  <2> QED
    BY <2>3, <2>4
<1>14. ASSUME checkpoint' # "invalid handle", NEW g \in held, NEW h \in held,
              table'[g.handle].real = table'[h.handle].real
       PROVE  g = h \/ table'[g.handle].real = RequestNull
  <2>1. CASE table'[g.handle].real = RequestNull \/ table'[h.handle].real = RequestNull
    BY <1>14, <2>1
  <2>2. CASE table'[g.handle].real = <<new, g.handle>> /\ table'[h.handle].real = <<new, h.handle>>
    <3>1. g.handle = h.handle
      <4>1. <<new, g.handle>> = <<new, h.handle>>
        BY <1>14, <2>2
      <4> QED
        BY <4>1
    <3>2. g.kind = h.kind
      BY <1>11, <3>1
    <3> QED
      BY <1>11, <3>1, <3>2
  <2> QED
    BY <1>13, <1>14, <2>1, <2>2
<1>15. TableInv'
  <2>1. (\E g \in held' : g.kind = "file") => KeyLeft'
    BY <1>2, <1>3, <1>6 DEF TableInv
  <2>2. /\ held' \subseteq [kind : ObjectKinds, handle : DOMAIN table']
        /\ DOMAIN table' \subseteq 1 .. next' - 1 /\ params' \subseteq 0 .. next' - 1
        /\ next' \in Nat /\ next' > 0 /\ life' \in Nat /\ ok' \in BOOLEAN /\ depth' = 0
    BY <1>2, <1>3, <1>5, <1>10 DEF TableInv
  <2> QED
    BY <1>2, <1>3, <1>6, <1>8, <1>10, <1>12, <1>14, <2>1, <2>2 DEF TableInv
<1>16. LiveBut({})'
  <2>1. ASSUME checkpoint' # "invalid handle", NEW g \in held
        PROVE  table'[g.handle].real \in objects' \cup {RequestNull}
    BY <1>9, <1>11, <1>13, <2>1
  <2> QED
    BY <1>2, <1>6, <2>1 DEF LiveBut, Live
<1>17. NewestLive => NewestLive'
  <2>1. ASSUME result \in DOMAIN table, table[result].kind = "comm"
        PROVE  result \in R
    BY <2>1 DEF Rebuilt
  <2> SUFFICES ASSUME NewestLive PROVE NewestLive'
    OBVIOUS
  <2>2. result \in DOMAIN table /\ table[result].kind = "comm" /\ result \in R
    BY <2>1 DEF NewestLive
  <2>3. result' = result /\ result \in DOMAIN table' /\ table'[result].kind = "comm"
    BY <1>2, <1>9, <2>2
  <2>4. table'[result].real \in objects'
    BY <1>2, <1>9, <1>10, <2>2
  <2> QED
    BY <2>3, <2>4 DEF NewestLive
<1>18. Match(m)'
  BY <1>1, <1>2, <1>3, <1>6, <1>16, <1>17, OutsideMatch DEF Match
<1> QED
  BY <1>1, <1>2, <1>15, <1>18 DEF WrapperInv

-----------------------------------------------------------------------------
LEMMA WrappersBegin ==
  ASSUME WrappersInit
  PROVE  WrapperInv
<1>1. /\ call = MPI_Init /\ ok = TRUE /\ looked = {} /\ made = None /\ result = 0
      /\ depth = 0 /\ critical = FALSE /\ table = <<>> /\ held = {} /\ params = {} /\ next = 1
      /\ life = 0 /\ objects = {<<0, 0>>} /\ checkpoint = "running"
  BY DEF WrappersInit, Predefined
<1>2. /\ next \in Nat /\ next > 0 /\ life \in Nat /\ 0 .. next - 1 = {0}
      /\ checkpoint \notin {"closed", "saved"} /\ checkpoint # "invalid handle"
  BY <1>1, SMT
<1>3. DOMAIN table = {} /\ table = [x \in {} |-> table[x]]
  BY <1>1, SMT
<1>4. TableInv
  <2>1. table \in [DOMAIN table -> [kind : ObjectKinds, real : Names]]
    BY <1>3
  <2>2. objects \subseteq {life} \X (0 .. next - 1) /\ <<life, 0>> \in objects
    <3>1. {<<0, 0>>} \subseteq {0} \X {0} /\ <<0, 0>> \in {<<0, 0>>}
      BY SMT
    <3> QED
      BY <1>1, <1>2, <3>1
  <2> QED
    BY <1>1, <1>2, <1>3, <2>1, <2>2 DEF TableInv
<1> DEFINE m == Outside(FALSE, "no")
<1>5. m.d = 0 /\ m.c = FALSE /\ m.s = "out" /\ m.n = "no"
  BY SMT DEF Outside, M
<1>6. m \in Modes /\ Good(call, m)
  BY <1>1, InitLeads, OutsideIsFinal, OutsideModes, NoInProgress DEF Good
<1> HIDE DEF m
<1>7. LiveBut({})
  BY <1>1 DEF LiveBut
<1>8. Match(m)
  BY <1>1, <1>5, <1>6, <1>7, OutsideMatch
<1> QED
  BY <1>4, <1>6, <1>8 DEF WrapperInv

LEMMA NothingPassed ==
  ASSUME WrapperInv, PassHandle
  PROVE  FALSE
<1>1. PICK m, q : Here(m, q)
  BY NextStep DEF PassHandle, At
<1> QED
  BY <1>1, Otherwise DEF Here, PassHandle, At

LEMMA WrappersStand ==
  ASSUME WrapperInv, UNCHANGED wrapperVars
  PROVE  WrapperInv'
<1>1. PICK m \in Modes : Good(call, m) /\ Match(m)
  BY DEF WrapperInv
<1>2. UNCHANGED objects_and_table /\ UNCHANGED checkpoint
  BY DEF wrapperVars, objectVars, ckptVars, objects_and_table
<1>3. /\ call' = call /\ ok' = ok /\ looked' = looked /\ made' = made /\ result' = result
      /\ depth' = depth /\ critical' = critical /\ ended' = ended
  BY DEF wrapperVars, appVars
<1>4. TableInv'
  BY <1>2, <1>3, TableKept DEF WrapperInv, TableInv
<1>5. Match(m)'
  <2>1. /\ KeyLeft => KeyLeft'
        /\ LiveBut({}) => LiveBut({})'
        /\ LookedLive => LookedLive'
        /\ Gone(m.k) => Gone(m.k)'
        /\ Unnamed => Unnamed'
        /\ NewestLive => NewestLive'
    BY <1>2, <1>3, ClaimsKept
  <2> QED
    BY <1>1, <1>3, <2>1 DEF Match, None
<1> QED
  BY <1>1, <1>3, <1>4, <1>5 DEF WrapperInv

LEMMA WrappersGoOn ==
  ASSUME WrapperInv, Workload \in {"all", "files"}, [WrappersNext]_wrapperVars
  PROVE  WrapperInv'
<1>1. CASE MakeCall
  BY <1>1, MakeCallKeeps
<1>2. CASE AppStep
  <2>1. ASSUME CommitBegin \/ CommitFinish \/ DisableCkpt \/ EnableCkpt
        PROVE  WrapperInv'
    BY <2>1, CommitBeginKeeps, CommitFinishKeeps, DisableCkptKeeps, EnableCkptKeeps
  <2>2. ASSUME GetRealId \/ GetRealIdOfNewest \/ PassHandle \/ CallLibrary \/ Make \/ Unmake
        PROVE  WrapperInv'
    BY <2>2, GetRealIdKeeps, GetRealIdOfNewestKeeps, NothingPassed, CallLibraryKeeps,
       MakeKeeps, UnmakeKeeps
  <2>3. ASSUME NewVirtId \/ NewVirtIdAlways \/ FreeVirtIdStep \/ NewKey \/ SetKey \/ EraseKey
        PROVE  WrapperInv'
    BY <2>3, NewVirtIdKeeps, NewVirtIdAlwaysKeeps, FreeVirtIdKeeps, NewKeyKeeps, SetKeyKeeps,
       EraseKeyKeeps
  <2>4. ASSUME DeleteCallbacks \/ CopyCommAttributes \/ Initialized \/ End
        PROVE  WrapperInv'
    BY <2>4, DeleteCallbacksKeeps, CopyCommAttributesKeeps, InitializedKeeps, EndKeeps
  <2> QED
    BY <1>2, <2>1, <2>2, <2>3, <2>4 DEF AppStep
<1>3. CASE RequestCheckpoint \/ CkptStep
  BY <1>3, RequestCheckpointKeeps, CloseLowerHalfKeeps, DrainRequestsKeeps, SaveKeeps,
     ResumeKeeps, RestartKeeps DEF CkptStep
<1>4. CASE Ended \/ Stuck \/ UNCHANGED wrapperVars
  BY <1>4, WrappersStand DEF Ended, Stuck
<1> QED
  BY <1>1, <1>2, <1>3, <1>4 DEF WrappersNext

(* Whatever wrappers the application calls, in any order, with checkpoints *)
(* and restarts between any two of their steps: the invariant holds.       *)
(* ("elements" is the workload with MPI_Get_elements, which hands the      *)
(* library a handle of the program's.)                                     *)
THEOREM WrapperInvariant ==
  ASSUME Workload \in {"all", "files"}
  PROVE  WrappersSpec => []WrapperInv
<1>1. WrappersInit => WrapperInv
  BY WrappersBegin
<1>2. WrapperInv /\ [WrappersNext]_wrapperVars => WrapperInv'
  BY WrappersGoOn
<1> QED
  BY <1>1, <1>2, PTL DEF WrappersSpec

(* A wrapper comes to its commit_begin outside the lower half and outside  *)
(* any critical section, also when a callback of the program's made the    *)
(* call: so the wait in commit_begin keeps no checkpoint waiting.          *)
THEOREM CommitsAreOutside ==
  ASSUME Workload \in {"all", "files"}
  PROVE  WrappersSpec => []CommitsOutside
<1>1. WrapperInv => CommitsOutside
  <2>1. SUFFICES ASSUME WrapperInv, At("commit_begin")
                 PROVE  depth = 0 /\ ~critical
    BY DEF CommitsOutside
  <2>2. PICK m, q : Here(m, q)
    BY <2>1, NextStep DEF At
  <2>3. m.s = "out" /\ ~m.c
    BY <2>1, <2>2, Begun DEF Here, At
  <2> QED
    BY <2>2, <2>3 DEF Here, Match
<1> QED
  BY <1>1, WrapperInvariant, PTL

(* What a wrapper other than MPI_Get_elements and MPI_Get_elements_x gives *)
(* the MPI library is alive in the lower half it calls: nothing from       *)
(* before a restart, freed, or untranslated.  So is what save_mpi_files    *)
(* gives it of a file that the program has open.                           *)
THEOREM CallsAreLive ==
  ASSUME Workload \in {"all", "files"}
  PROVE  WrappersSpec => []CallsUseLiveObjects
<1>1. WrapperInv => CallsUseLiveObjects
  <2> SUFFICES ASSUME WrapperInv PROVE CallsUseLiveObjects
    OBVIOUS
  <2>1. ASSUME At("call") \/ At("make") \/ At("unmake")
        PROVE  \A l \in looked : l.real \in objects \cup {RequestNull}
    <3>1. PICK m, q : Here(m, q)
      BY <2>1, NextStep DEF At
    <3>2. m \in Modes /\ q \in Modes /\ Head(call) \in Steps /\ Allowed(m, Head(call), q)
      BY <3>1 DEF Here
    <3>3. ASSUME At("call")  PROVE m.s = "in" \/ m.s = "one"
      BY <3>2, <3>3, LookedUp DEF At
    <3>4. ASSUME At("make")  PROVE m.s = "in" \/ m.s = "one"
      BY <3>2, <3>4, MadeOne DEF At
    <3>5. ASSUME At("unmake")  PROVE m.s = "in" \/ m.s = "one"
      BY <3>2, <3>5, Freed DEF At
    <3>6. m.s = "in" \/ m.s = "one"
      BY <2>1, <3>3, <3>4, <3>5
    <3> QED
      BY <3>1, <3>6 DEF Here, Match, LookedLive, Live
  <2>2. ASSUME checkpoint = "saved"
        PROVE  OpenFiles \subseteq objects \cup {RequestNull}
    <3>1. PICK m \in Modes : Match(m)
      BY DEF WrapperInv
    <3>2. checkpoint # "invalid handle"
      BY <2>2, SMT
    <3>3. depth = 0
      BY <2>2 DEF WrapperInv, TableInv
    <3>4. LiveBut({})
      BY <3>1, <3>3, OutsideMatch
    <3> QED
      BY <3>2, <3>4 DEF LiveBut, Live, OpenFiles
  <2> QED
    BY <2>1, <2>2 DEF CallsUseLiveObjects
<1> QED
  BY <1>1, WrapperInvariant, PTL

(* A checkpoint of the closed lower half finds each of the program's       *)
(* objects in the virtual-ID table, and no object without a name.          *)
THEOREM NothingIsLost ==
  ASSUME Workload \in {"all", "files"}
  PROVE  WrappersSpec => []NothingLost
<1>1. WrapperInv => NothingLost
  <2>1. SUFFICES ASSUME WrapperInv, checkpoint \in {"closed", "saved"}
                 PROVE  /\ made = None
                        /\ \A h \in held : h.handle \in DOMAIN table
                                             /\ table[h.handle].real \in objects \cup {RequestNull}
    BY DEF NothingLost
  <2>2. PICK m \in Modes : Match(m)
    BY <2>1 DEF WrapperInv
  <2>3. TableInv /\ depth = 0 /\ checkpoint # "invalid handle"
    <3>1. checkpoint # "invalid handle"
      BY <2>1
    <3> QED
      BY <2>1, <3>1 DEF WrapperInv, TableInv
  <2>4. made = None /\ LiveBut({})
    BY <2>2, <2>3, OutsideMatch
  <2> QED
    BY <2>3, <2>4 DEF TableInv, LiveBut, Live
<1> QED
  BY <1>1, WrapperInvariant, PTL

=============================================================================
