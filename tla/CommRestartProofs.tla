------------------------- MODULE CommRestartProofs -------------------------
(* What CommInv shows, for every number of ranks, every set of making      *)
(* calls and every number of restarts: a gid names one communicator of the *)
(* MPI library, and the restart never waits forever.                       *)
EXTENDS CommRestart, TLAPS, NaturalsInduction, SequenceTheorems, WellFoundedInduction

(* Zenon proves the leaves that name no prover; SMT those with arithmetic. *)
USE Zenon

-----------------------------------------------------------------------------
(* The parts of EntryInv and ClockInv.                                     *)

(* The entry's communicator, older than the one that its rank is naming.   *)
CommOf(r, e, i) ==
  /\ comms[i].gid = e.gid /\ comms[i].group = e.group /\ ~Naming(r, i)
  /\ at[r].op = "name" => i < at[r].id
EntryPlaced(r, e) ==
  /\ \E i \in DOMAIN comms : CommOf(r, e, i)
  /\ r \in Members(e.group) /\ e.seq <= nextSeq[r]
(* Entries are in the order of their communicators.                        *)
InOrder(e, f) ==
  \A i, j \in DOMAIN comms : comms[i].gid = e.gid /\ comms[j].gid = f.gid =>
    (i < j <=> e.seq < f.seq)
NoEntryTwice == \A q \in Ranks : \A e, f \in table'[q] : e.seq = f.seq => e = f
(* A member has a named communicator until it frees it.                    *)
HasOrFreed(r, i) ==
  comms[i].gid # NoGid /\ r \in Members(comms[i].group) =>
    ((\E e \in table[r] : e.gid = comms[i].gid) <=>
       ~Naming(r, i) /\ ~Freed(r, comms[i].gid))

LEMMA CommOfEntry ==
  ASSUME EntryInv, NEW r \in Ranks, NEW e \in table[r]
  PROVE  \E i \in DOMAIN comms : comms[i].gid = e.gid /\ comms[i].group = e.group
<1>1. PICK i \in DOMAIN comms : CommOf(r, e, i)
  BY SMT DEF EntryInv, CommOf
<1> QED
  BY <1>1 DEF CommOf

LEMMA EntryNext ==
  ASSUME \A r \in Ranks : \A e \in table'[r] : EntryPlaced(r, e)',
         \A r \in Ranks : \A e, f \in table'[r] : InOrder(e, f)',
         NoEntryTwice
  PROVE  EntryInv'
  BY SMT DEF EntryInv, EntryPlaced, CommOf, InOrder, NoEntryTwice

LEMMA GidOfReal ==
  ASSUME RealInv, NEW s \in Ranks, NEW e \in table[s], NEW r \in Ranks, NEW f \in table[r],
         e.real # 0, f.real # 0
  PROVE  e.gid = f.gid <=> e.real = f.real
  BY DEF RealInv

LEMMA SetId ==
  ASSUME NEW c \in CallRecords, NEW id \in Nat
  PROVE  LET d == [c EXCEPT !.id = id]
         IN  d \in CallRecords /\ d.op = c.op /\ d.id = id
  BY SMT DEF CallRecords

LEMMA CallStays ==
  ASSUME CallInv, UNCHANGED <<nextSeq, gidsMade, comms>>,
         \A r \in Ranks : at'[r].op \in {"name", "make"} => at'[r] = at[r]
  PROVE  CallInv'
<1>1. ASSUME NEW r \in Ranks, at'[r].op = "make" \/ at'[r].op = "name"  PROVE at'[r] = at[r]
  BY <1>1
<1>2. ASSUME NEW r \in Ranks, at'[r].op = "make"
      PROVE  /\ at'[r].groups \in Splits /\ at'[r].gid # NoGid
             /\ \E i \in DOMAIN comms' :
                  /\ comms'[i].gid = at'[r].gid
                  /\ Involved(at'[r].groups) \subseteq Members(comms'[i].group)
  <2>1. at'[r] = at[r] /\ comms' = comms
    BY <1>1, <1>2
  <2>2. at[r].op = "make"
    BY <1>2, <2>1
  <2>3. /\ at[r].groups \in Splits /\ at[r].gid # NoGid
        /\ \E i \in DOMAIN comms :
             /\ comms[i].gid = at[r].gid
             /\ Involved(at[r].groups) \subseteq Members(comms[i].group)
    BY <2>2 DEF CallInv
  <2> QED
    BY <2>1, <2>3
<1>3. ASSUME NEW r \in Ranks, at'[r].op = "name"
      PROVE  /\ at'[r].id \in DOMAIN comms' /\ nextSeq'[r] < at'[r].id
             /\ r \in Members(comms'[at'[r].id].group)
             /\ r = Head(comms'[at'[r].id].group) => comms'[at'[r].id].gid = NoGid
  <2>1. at'[r] = at[r] /\ comms' = comms /\ nextSeq' = nextSeq
    BY <1>1, <1>3
  <2> QED
    BY <1>3, <2>1 DEF CallInv
<1>4. \A r \in Ranks : nextSeq'[r] <= Len(comms') /\ gidsMade'[r] <= nextSeq'[r] + 1
  BY DEF CallInv
<1> QED
  BY <1>2, <1>3, <1>4 DEF CallInv

LEMMA TodoStays ==
  ASSUME TodoInv, UNCHANGED <<phase, at, table, todo>>
  PROVE  TodoInv'
  BY SMT DEF TodoInv

LEMMA HeldOrFreed ==
  ASSUME ClockInv, NEW r \in Ranks, NEW i \in DOMAIN comms
  PROVE  HasOrFreed(r, i)
  BY DEF ClockInv, HasOrFreed

LEMMA ClockNext ==
  ASSUME \A r \in Ranks, g \in Gids : clock'[r][g] <= Len(calls'[g]),
         \A r \in Ranks, g \in Gids :
           (\A i \in DOMAIN comms' : comms'[i].gid = g => Naming(r, i)') => clock'[r][g] = 0,
         \A r \in Ranks : \A i \in DOMAIN comms' : HasOrFreed(r, i)'
  PROVE  ClockInv'
  BY DEF ClockInv, HasOrFreed

-----------------------------------------------------------------------------
(* The types.                                                              *)

LEMMA MembersAreRanks ==
  ASSUME NEW group \in Seq(Ranks)
  PROVE  Members(group) \subseteq Ranks
  BY SMT DEF Members, Range

LEMMA CommTypes ==
  ASSUME TypeOK
  PROVE  /\ DOMAIN comms = 1 .. Len(comms) /\ Len(comms) \in Nat
         /\ \A i \in DOMAIN comms :
              /\ comms[i] \in CommRecords
              /\ comms[i].gid \in Gids \cup {NoGid} /\ comms[i].real \in Nat
              /\ comms[i].group \in Seq(Ranks) /\ Members(comms[i].group) \subseteq Ranks
<1>1. comms \in Seq(CommRecords)
  BY DEF TypeOK
<1>2. /\ DOMAIN comms = 1 .. Len(comms) /\ Len(comms) \in Nat
      /\ \A i \in DOMAIN comms : comms[i] \in CommRecords
  BY <1>1, SMT
<1>3. \A c \in CommRecords : /\ c.gid \in Gids \cup {NoGid} /\ c.real \in Nat
                             /\ c.group \in Seq(Ranks)
  BY SMT DEF CommRecords
<1> QED
  BY <1>2, <1>3, MembersAreRanks

LEMMA EntryTypes ==
  ASSUME NEW e \in Entries
  PROVE  /\ e.slot \in Nat /\ e.seq \in Nat /\ e.gid \in Gids /\ e.real \in Nat
         /\ e.group \in Seq(Ranks) /\ Members(e.group) \subseteq Ranks
<1>1. /\ e.slot \in Nat /\ e.seq \in Nat /\ e.gid \in Gids /\ e.real \in Nat
      /\ e.group \in Seq(Ranks)
  BY SMT DEF Entries
<1> QED
  BY <1>1, MembersAreRanks

LEMMA RankTypes ==
  ASSUME TypeOK, NEW r \in Ranks
  PROVE  /\ table[r] \subseteq Entries /\ todo[r] \subseteq Entries
         /\ at[r] \in CallRecords
         /\ gidsMade[r] \in Nat /\ nextSeq[r] \in Nat
         /\ \A g \in Gids : clock[r][g] \in Nat /\ calls[g] \in Seq(Splits \cup {Free})
  BY DEF TypeOK

LEMMA CallTypes ==
  ASSUME NEW c \in CallRecords
  PROVE  /\ c.op \in {"none", "make", "group", "name"} /\ c.gid \in Gids \cup {NoGid}
         /\ c.groups \in Seq(Seq(Ranks)) /\ c.id \in Nat
  BY SMT DEF CallRecords

LEMMA GidTypes == Gids \subseteq Nat /\ NoGid \notin Gids /\ NoGid \in Int
  BY SMT DEF Gids, NoGid

(* Idle is a call record like the others.                                  *)
LEMMA IdleTypes ==
  /\ Idle \in CallRecords
  /\ Idle.op = "none" /\ Idle.gid = NoGid /\ Idle.groups = <<>> /\ Idle.id = 0
  BY SMT DEF Idle, CallRecords

(* gids_made[r] * N + r tells r and gids_made[r].                          *)
LEMMA GidParts ==
  ASSUME NEW n \in Nat \ {0}, NEW a \in Nat, NEW b \in Nat,
         NEW r \in 0 .. n - 1, NEW s \in 0 .. n - 1, a * n + r = b * n + s
  PROVE  a = b /\ r = s
<1>1. ASSUME NEW x \in Nat, NEW y \in Nat, x < y PROVE y * n >= x * n + n
  <2>1. PICK d \in Nat : y = x + 1 + d
    BY <1>1, SMT
  <2>2. y * n = x * n + n + d * n /\ d * n \in Nat
    BY <2>1, SMT
  <2> QED
    BY <2>2, SMT
<1>2. a = b
  BY <1>1, SMT
<1> QED
  BY <1>2, SMT

LEMMA InitComm ==
  ASSUME Init
  PROVE  CommInv
<1> DEFINE entry == [slot |-> 0, seq |-> 1, gid |-> 0, group |-> World, real |-> 1]
<1> DEFINE comm == [group |-> World, gid |-> 0, real |-> 1]
<1>1. World \in Seq(Ranks) /\ 0 \in Ranks /\ 0 \in Gids /\ Members(World) = Ranks
  <2>1. World \in Seq(Ranks)
    BY CommConstants, SMT DEF World, Ranks
  <2>2. 0 \in Ranks /\ 0 \in Gids
    BY CommConstants, SMT DEF Ranks, Gids
  <2>3. Members(World) = Ranks
    <3>1. /\ DOMAIN World = 1 .. N /\ \A i \in 1 .. N : World[i] = i - 1 /\ World[i] \in Ranks
          /\ \A r \in Ranks : r + 1 \in 1 .. N /\ r = (r + 1) - 1
      BY CommConstants, SMT DEF World, Ranks
    <3> QED
      BY <3>1 DEF Members, Range
  <2> QED
    BY <2>1, <2>2, <2>3
<1>2. entry \in Entries /\ comm \in CommRecords
  BY <1>1, SMT DEF Entries, CommRecords
<1>3. /\ comms = <<comm>> /\ Len(comms) = 1 /\ DOMAIN comms = {1} /\ comms[1] = comm
  BY SMT DEF Init
<1>4. \A r \in Ranks : /\ table[r] = {entry} /\ todo[r] = {} /\ at[r] = Idle
                       /\ nextSeq[r] = 1 /\ gidsMade[r] \in {1, 2}
                       /\ \A g \in Gids : clock[r][g] = 0
  BY DEF Init
<1>5. TypeOK
  <2>1. /\ table \in [Ranks -> SUBSET Entries] /\ todo \in [Ranks -> SUBSET Entries]
        /\ at \in [Ranks -> CallRecords]
    BY <1>2, IdleTypes DEF Init
  <2>2. /\ calls \in [Gids -> Seq(Splits \cup {Free})]
        /\ clock \in [Ranks -> [Gids -> Nat]]
    BY SMT DEF Init
  <2>3. gidsMade \in [Ranks -> Nat] /\ nextSeq \in [Ranks -> Nat]
    BY SMT DEF Init
  <2>4. comms \in Seq(CommRecords) /\ Len(comms) <= MaxComms + 1
    BY <1>2, <1>3, CommConstants, SMT
  <2>5. phase \in {"run", "restart"} /\ made \in Nat /\ ckpts \in Nat
    BY SMT DEF Init
  <2> QED
    BY <2>1, <2>2, <2>3, <2>4, <2>5 DEF TypeOK
<1>6. /\ comms[1].gid = 0 /\ comms[1].group = World /\ comms[1].real = 1
      /\ entry.gid = 0 /\ entry.group = World /\ entry.real = 1 /\ entry.seq = 1
      /\ 0 # NoGid /\ 0 # 1
  BY <1>3, SMT DEF NoGid
<1> HIDE DEF entry, comm
<1>7. \A r \in Ranks : at[r].op # "name" /\ at[r].op # "make"
  BY <1>4, IdleTypes, SMT
<1>8. /\ \A r \in Ranks : \A e \in table[r] :
            e = entry /\ e.gid = 0 /\ e.group = World /\ e.real = 1 /\ e.seq = 1
      /\ \A r \in Ranks : entry \in table[r]
      /\ \A i \in DOMAIN comms :
            i = 1 /\ comms[i].gid = 0 /\ comms[i].group = World /\ comms[i].real = 1
  BY <1>3, <1>4, <1>6
<1>9. CallInv
  BY <1>3, <1>4, <1>7, SMT DEF CallInv
<1>10. NameInv
  <2>1. gidsMade[0] = 2 /\ 0 = 0 * N + 0
    BY <1>1, CommConstants, SMT DEF Init
  <2>2. 0 \in 0 .. gidsMade[0] - 1
    BY <2>1, SMT
  <2> QED
    BY <1>1, <1>3, <1>6, <2>1, <2>2 DEF NameInv
<1>11. EntryInv
  BY <1>1, <1>3, <1>4, <1>7, <1>8, SMT DEF EntryInv, Naming
<1>12. ClockInv
  <2>1. \A g \in Gids : Len(calls[g]) = 0
    BY SMT DEF Init
  <2>2. \A r \in Ranks, g \in Gids : ~Freed(r, g)
    BY <1>4, SMT DEF Freed
  <2> QED
    BY <1>1, <1>3, <1>4, <1>6, <1>7, <1>8, <2>1, <2>2, SMT DEF ClockInv, Naming
<1>13. LibraryInv /\ RealInv
  <2>1. made = 1 /\ 1 <= 1 /\ 1 # 0
    BY SMT DEF Init
  <2>2. LibraryInv
    BY <1>8, <2>1 DEF LibraryInv
  <2>3. RealInv
    <3>1. ASSUME NEW s \in Ranks, NEW e \in table[s]
          PROVE  e.real <= made
      BY <1>8, <2>1
    <3>2. ASSUME NEW s \in Ranks, NEW e \in table[s], NEW r \in Ranks, NEW f \in table[r]
          PROVE  e.gid = f.gid <=> e.real = f.real
      BY <1>8
    <3> QED
      BY <1>7, <3>1, <3>2 DEF RealInv
  <2> QED
    BY <2>2, <2>3
<1>14. TodoInv
  <2>1. phase = "run" /\ phase # "restart"
    BY SMT DEF Init
  <2> QED
    BY <1>4, <1>8, <2>1, SMT DEF TodoInv
<1> QED
  BY <1>5, <1>9, <1>10, <1>11, <1>12, <1>13, <1>14 DEF CommInv

-----------------------------------------------------------------------------
(* Calls on a communicator.                                                *)

LEMMA NextCallEffect ==
  ASSUME TypeOK, ClockInv, NEW r \in Ranks, NEW g \in Gids, NEW call \in Splits \cup {Free},
         IsNextCall(r, g, call), clock' = Tick(r, g)
  PROVE  /\ calls' \in [Gids -> Seq(Splits \cup {Free})]
         /\ clock' \in [Ranks -> [Gids -> Nat]]
         /\ \A q \in Ranks, h \in Gids :
              /\ clock'[q][h] = IF q = r /\ h = g THEN clock[q][h] + 1 ELSE clock[q][h]
              /\ clock'[q][h] <= Len(calls'[h])
              /\ Freed(q, h)' <=> Freed(q, h) \/ (q = r /\ h = g /\ call = Free)
<1>1. clock' \in [Ranks -> [Gids -> Nat]]
  BY SMT DEF TypeOK, Tick
<1>2. \A q \in Ranks, h \in Gids :
        clock'[q][h] = IF q = r /\ h = g THEN clock[q][h] + 1 ELSE clock[q][h]
  BY SMT DEF TypeOK, Tick
<1>3. /\ \A h \in Gids : calls[h] \in Seq(Splits \cup {Free})
      /\ \A q \in Ranks, h \in Gids : clock[q][h] \in Nat /\ clock[q][h] <= Len(calls[h])
  BY DEF TypeOK, ClockInv
<1> DEFINE n == clock[r][g]
<1>4. /\ calls' \in [Gids -> Seq(Splits \cup {Free})]
      /\ \A h \in Gids : /\ Len(calls'[h]) >= Len(calls[h])
                         /\ \A k \in 1 .. Len(calls[h]) : calls'[h][k] = calls[h][k]
      /\ Len(calls'[g]) >= n + 1 /\ calls'[g][n + 1] = call
  <2>1. CASE n < Len(calls[g])
    <3>1. calls' = calls /\ calls[g][n + 1] = call
      BY <2>1 DEF IsNextCall
    <3> QED
      BY <1>3, <2>1, <3>1, SMT DEF TypeOK
  <2>2. CASE ~(n < Len(calls[g]))
    <3>1. calls' = [calls EXCEPT ![g] = Append(@, call)]
      BY <2>2 DEF IsNextCall
    <3>2. PICK s : s = Append(calls[g], call)
      OBVIOUS
    <3>3. /\ s \in Seq(Splits \cup {Free}) /\ Len(s) = Len(calls[g]) + 1
          /\ \A k \in 1 .. Len(calls[g]) : s[k] = calls[g][k]
          /\ s[Len(calls[g]) + 1] = call
      BY <1>3, <3>2, SMT
    <3>4. /\ calls' \in [Gids -> Seq(Splits \cup {Free})]
          /\ \A h \in Gids : calls'[h] = IF h = g THEN s ELSE calls[h]
      BY <3>1, <3>2, <3>3 DEF TypeOK
    <3>5. n = Len(calls[g])
      BY <1>3, <2>2, SMT
    <3> QED
      BY <1>3, <3>3, <3>4, <3>5, SMT
  <2> QED
    BY <2>1, <2>2
<1>5. \A q \in Ranks, h \in Gids : clock'[q][h] <= Len(calls'[h])
  BY <1>2, <1>3, <1>4, SMT
<1>6. ASSUME NEW q \in Ranks, NEW h \in Gids
      PROVE  Freed(q, h)' <=> Freed(q, h) \/ (q = r /\ h = g /\ call = Free)
  <2>1. \A k \in 1 .. clock[q][h] : calls'[h][k] = calls[h][k]
    BY <1>3, <1>4, SMT
  <2>2. CASE q = r /\ h = g
    <3>1. \A k : k \in 1 .. clock'[r][g] <=> k \in 1 .. n \/ k = n + 1
      BY <1>2, <1>3, SMT
    <3> QED
      BY <1>4, <2>1, <2>2, <3>1 DEF Freed
  <2>3. CASE ~(q = r /\ h = g)
    <3>1. clock'[q][h] = clock[q][h]
      BY <1>2, <2>3
    <3> QED
      BY <2>1, <2>3, <3>1 DEF Freed
  <2> QED
    BY <2>2, <2>3
<1> QED
  BY <1>1, <1>2, <1>4, <1>5, <1>6

(* A step that makes and names no communicator.                            *)
LEMMA FewerEntries ==
  ASSUME TypeOK, NameInv, EntryInv, LibraryInv, RealInv, UNCHANGED <<comms, gidsMade, nextSeq, made>>,
         \A q \in Ranks : /\ table'[q] \subseteq table[q]
                          /\ at'[q].op = "name" <=> at[q].op = "name"
                          /\ at[q].op = "name" => at'[q] = at[q]
  PROVE  NameInv' /\ EntryInv' /\ LibraryInv' /\ RealInv'
<1>1. \A q \in Ranks : \A i : Naming(q, i)' <=> Naming(q, i)
  BY DEF Naming
<1>2. NameInv'
  <2>1. \A i \in DOMAIN comms : comms[i].gid = NoGid =>
          \A r \in Members(comms[i].group) : r \in Ranks /\ Naming(r, i)
    BY CommTypes DEF NameInv
  <2>2. \A i \in DOMAIN comms : comms[i].gid = NoGid =>
          \A r \in Members(comms[i].group) : Naming(r, i)'
    BY <1>1, <2>1
  <2> QED
    BY <2>2 DEF NameInv
<1>3. EntryInv'
  <2> SUFFICES ASSUME NEW r \in Ranks, NEW e \in table'[r]
               PROVE  /\ \E i \in DOMAIN comms :
                           /\ comms[i].gid = e.gid /\ comms[i].group = e.group
                           /\ ~Naming(r, i)'
                           /\ at'[r].op = "name" => i < at'[r].id
                      /\ r \in Members(e.group) /\ e.seq <= nextSeq[r]
                      /\ \A f \in table'[r] :
                           /\ e.seq = f.seq => e = f
                           /\ \A i, j \in DOMAIN comms :
                                comms[i].gid = e.gid /\ comms[j].gid = f.gid =>
                                  (i < j <=> e.seq < f.seq)
    BY SMT DEF EntryInv
  <2>1. e \in table[r]
    OBVIOUS
  <2>2. \E i \in DOMAIN comms : /\ comms[i].gid = e.gid /\ comms[i].group = e.group
                                /\ ~Naming(r, i)
                                /\ at[r].op = "name" => i < at[r].id
    BY <2>1 DEF EntryInv
  <2>3. \E i \in DOMAIN comms : /\ comms[i].gid = e.gid /\ comms[i].group = e.group
                                /\ ~Naming(r, i)'
                                /\ at'[r].op = "name" => i < at'[r].id
    BY <1>1, <2>2
  <2>4. r \in Members(e.group) /\ e.seq <= nextSeq[r]
    BY <2>1 DEF EntryInv
  <2>5. ASSUME NEW f \in table'[r]
        PROVE  /\ e.seq = f.seq => e = f
               /\ \A i, j \in DOMAIN comms : comms[i].gid = e.gid /\ comms[j].gid = f.gid =>
                    (i < j <=> e.seq < f.seq)
    <3>1. f \in table[r]
      OBVIOUS
    <3> QED
      BY <2>1, <3>1 DEF EntryInv
  <2> QED
    BY <2>3, <2>4, <2>5
<1>4. LibraryInv'
  BY DEF LibraryInv
<1>5. RealInv'
  <2>1. ASSUME NEW s \in Ranks, NEW e \in table'[s]
        PROVE  e.real <= made'
    BY DEF RealInv
  <2>2. ASSUME NEW s \in Ranks, NEW e \in table'[s], NEW r \in Ranks, at'[r].op = "name"
        PROVE  comms'[at'[r].id].gid = e.gid <=> comms'[at'[r].id].real = e.real
    <3>1. e \in table[s] /\ at'[r] = at[r] /\ at[r].op = "name" /\ comms' = comms
      BY <2>2
    <3>2. comms[at[r].id].gid = e.gid <=> comms[at[r].id].real = e.real
      BY <3>1 DEF RealInv
    <3> QED
      BY <3>1, <3>2
  <2>3. ASSUME NEW s \in Ranks, NEW e \in table'[s], NEW r \in Ranks, NEW f \in table'[r],
               e.real # 0, f.real # 0
        PROVE  e.gid = f.gid <=> e.real = f.real
    <3>1. e \in table[s] /\ f \in table[r]
      OBVIOUS
    <3> QED
      BY <2>3, <3>1 DEF RealInv
  <2> QED
    BY <2>1, <2>2, <2>3, SMT DEF RealInv
<1> QED
  BY <1>2, <1>3, <1>4, <1>5

(* Splits are making calls, not MPI_Comm_free.                             *)
LEMMA SplitTypes ==
  ASSUME NEW groups \in Splits
  PROVE  /\ groups \in Seq(Seq(Ranks)) /\ groups # Free
         /\ \A i \in DOMAIN groups : groups[i] \in Seq(Ranks)
         /\ \A i, j \in DOMAIN groups :
              Members(groups[i]) \cap Members(groups[j]) # {} => i = j
<1>1. groups \in Seq(Seq(Ranks) \ {<<>>}) \ {<<>>}
  BY CommConstants
<1>2. groups \in Seq(Seq(Ranks)) /\ \A i \in DOMAIN groups : groups[i] \in Seq(Ranks)
  <2> DEFINE S == Seq(Ranks)
  <2>1. groups \in Seq(S \ {<<>>})
    BY <1>1
  <2> HIDE DEF S
  <2>2. groups \in Seq(S) /\ \A i \in DOMAIN groups : groups[i] \in S
    BY <2>1, SMT
  <2> QED
    BY <2>2 DEF S
<1> QED
  BY <1>1, <1>2, CommConstants DEF Free

LEMMA StartMakingKeeps ==
  ASSUME CommInv, NEW r \in Ranks, NEW e \in table[r], NEW groups \in Splits,
         StartMaking(r, e, groups)
  PROVE  CommInv'
<1> USE DEF CommInv
<1>1. e \in Entries /\ e.gid \in Gids /\ e.gid # NoGid
  BY RankTypes, EntryTypes, GidTypes
<1>2. /\ phase = "run" /\ at[r] = Idle
      /\ UNCHANGED <<phase, table, gidsMade, nextSeq, comms, made, todo, ckpts>>
      /\ IsNextCall(r, e.gid, groups) /\ clock' = Tick(r, e.gid)
  BY DEF StartMaking
<1>3. PICK call : call = [op |-> "make", gid |-> e.gid, groups |-> groups, id |-> 0]
  OBVIOUS
<1>4. /\ call \in CallRecords /\ call.op = "make" /\ call.gid = e.gid /\ call.groups = groups
      /\ call # Idle
  BY <1>1, <1>3, SplitTypes, SMT DEF CallRecords, Idle
<1>5. /\ at' \in [Ranks -> CallRecords] /\ at'[r] = call
      /\ \A q \in Ranks : q # r => at'[q] = at[q]
  BY <1>3, <1>4 DEF StartMaking, TypeOK
<1>6. \A q \in Ranks : /\ at'[q].op = "name" <=> at[q].op = "name"
                       /\ at[q].op = "name" => at'[q] = at[q]
  BY <1>2, <1>4, <1>5, IdleTypes, SMT
<1>7. NameInv' /\ EntryInv' /\ LibraryInv' /\ RealInv'
  BY <1>2, <1>6, FewerEntries
<1>8. /\ calls' \in [Gids -> Seq(Splits \cup {Free})]
      /\ clock' \in [Ranks -> [Gids -> Nat]]
      /\ \A q \in Ranks, h \in Gids :
           /\ clock'[q][h] = IF q = r /\ h = e.gid THEN clock[q][h] + 1 ELSE clock[q][h]
           /\ clock'[q][h] <= Len(calls'[h])
           /\ Freed(q, h)' <=> Freed(q, h)
  <2>1. groups \in Splits \cup {Free} /\ groups # Free
    BY SplitTypes
  <2> QED
    BY <1>1, <1>2, <2>1, NextCallEffect, SMT
<1>9. TypeOK'
  BY <1>2, <1>5, <1>8 DEF TypeOK
<1>10. PICK i \in DOMAIN comms : comms[i].gid = e.gid /\ comms[i].group = e.group /\ ~Naming(r, i)
  BY DEF EntryInv
<1>11. CallInv'
  <2>1. ASSUME NEW q \in Ranks, at'[q].op = "make"
        PROVE  /\ at'[q].groups \in Splits /\ at'[q].gid # NoGid
               /\ \E j \in DOMAIN comms :
                    /\ comms[j].gid = at'[q].gid
                    /\ Involved(at'[q].groups) \subseteq Members(comms[j].group)
    <3>1. CASE q = r
      <4>1. Involved(groups) \subseteq Members(comms[i].group)
        BY <1>10 DEF StartMaking
      <4> QED
        BY <1>1, <1>4, <1>5, <1>10, <3>1, <4>1
    <3>2. CASE q # r
      <4>1. at'[q] = at[q] /\ at[q].op = "make"
        BY <1>5, <2>1, <3>2
      <4> QED
        BY <2>1, <4>1 DEF CallInv
    <3> QED
      BY <3>1, <3>2
  <2>2. ASSUME NEW q \in Ranks
        PROVE  /\ at'[q].op = "name" =>
                    /\ at'[q].id \in DOMAIN comms /\ nextSeq[q] < at'[q].id
                    /\ q \in Members(comms[at'[q].id].group)
                    /\ q = Head(comms[at'[q].id].group) => comms[at'[q].id].gid = NoGid
               /\ nextSeq[q] <= Len(comms) /\ gidsMade[q] <= nextSeq[q] + 1
    BY <1>6 DEF CallInv
  <2> QED
    BY <1>2, <2>1, <2>2 DEF CallInv
<1>12. ClockInv'
  <2>1. \A q \in Ranks : \A j : Naming(q, j)' <=> Naming(q, j)
    BY <1>6 DEF Naming
  <2>2. ASSUME NEW q \in Ranks, NEW g \in Gids,
               \A j \in DOMAIN comms : comms[j].gid = g => Naming(q, j)
        PROVE  clock'[q][g] = 0
    <3>1. ~(q = r /\ g = e.gid)
      BY <1>10, <2>2
    <3>2. clock'[q][g] = clock[q][g]
      BY <1>8, <3>1
    <3> QED
      BY <2>2, <3>2 DEF ClockInv
  <2>3. ASSUME NEW q \in Ranks, NEW j \in DOMAIN comms, comms[j].gid # NoGid,
               q \in Members(comms[j].group)
        PROVE  (\E f \in table[q] : f.gid = comms[j].gid) <=>
                 ~Naming(q, j) /\ ~Freed(q, comms[j].gid)'
    <3>1. comms[j].gid \in Gids
      BY <2>3, CommTypes
    <3>2. Freed(q, comms[j].gid)' <=> Freed(q, comms[j].gid)
      BY <1>2, <1>8, <3>1
    <3> QED
      BY <2>3, <3>2 DEF ClockInv
  <2>4. \A q \in Ranks, g \in Gids : clock'[q][g] <= Len(calls'[g])
    BY <1>8
  <2> QED
    <3>0. comms' = comms /\ table' = table
      BY <1>2
    <3>1. \A q \in Ranks, g \in Gids :
            (\A j \in DOMAIN comms' : comms'[j].gid = g => Naming(q, j)') => clock'[q][g] = 0
      BY <2>1, <2>2, <3>0
    <3>2. \A q \in Ranks : \A j \in DOMAIN comms' : HasOrFreed(q, j)'
      BY <2>1, <2>3, <3>0 DEF HasOrFreed
    <3> QED
      BY <2>4, <3>1, <3>2, ClockNext
<1>13. TodoInv'
  <2>1. phase' = "run" /\ phase' # "restart"
    BY <1>2, SMT
  <2> QED
    BY <1>2, <2>1 DEF TodoInv
<1> QED
  BY <1>7, <1>9, <1>11, <1>12, <1>13

LEMMA StartCreateGroupKeeps ==
  ASSUME CommInv, NEW r \in Ranks, NEW group \in Groups, StartCreateGroup(r, group)
  PROVE  CommInv'
<1> USE DEF CommInv
<1>1. /\ phase = "run" /\ at[r] = Idle
      /\ UNCHANGED <<phase, table, calls, clock, gidsMade, nextSeq, comms, made, todo, ckpts>>
  BY DEF StartCreateGroup
<1>2. PICK call : call = [op |-> "group", gid |-> NoGid, groups |-> <<group>>, id |-> 0]
  OBVIOUS
<1>3. /\ call \in CallRecords /\ call.op = "group"
  <2>1. <<group>> \in Seq(Seq(Ranks))
    BY CommConstants, SMT
  <2> QED
    BY <1>2, <2>1, SMT DEF CallRecords
<1>4. /\ at' \in [Ranks -> CallRecords] /\ at'[r] = call
      /\ \A q \in Ranks : q # r => at'[q] = at[q]
  BY <1>2, <1>3 DEF StartCreateGroup, TypeOK
<1>5. \A q \in Ranks : /\ at'[q].op = "name" <=> at[q].op = "name"
                       /\ at'[q].op \in {"name", "make"} => at'[q] = at[q]
  BY <1>1, <1>3, <1>4, IdleTypes, SMT
<1>6. NameInv' /\ EntryInv' /\ LibraryInv' /\ RealInv'
  BY <1>1, <1>5, FewerEntries
<1>7. TypeOK'
  BY <1>1, <1>4 DEF TypeOK
<1>8. CallInv'
  BY <1>1, <1>5, CallStays, SMT
<1>9. ClockInv'
  <2>1. \A q \in Ranks : \A j : Naming(q, j)' <=> Naming(q, j)
    BY <1>5 DEF Naming
  <2>2. \A q \in Ranks, g \in Gids : Freed(q, g)' <=> Freed(q, g)
    BY <1>1 DEF Freed
  <2> QED
    BY <1>1, <2>1, <2>2, CommTypes, SMT DEF ClockInv
<1>10. TodoInv'
  <2>1. phase' = "run" /\ phase' # "restart"
    BY <1>1, SMT
  <2> QED
    BY <1>1, <2>1 DEF TodoInv
<1> QED
  BY <1>6, <1>7, <1>8, <1>9, <1>10

(* The communicator of an entry is one, and the entry of a rank's          *)
(* communicator is one.                                                    *)
LEMMA EntryOfComm ==
  ASSUME CommInv, NEW r \in Ranks, NEW e \in table[r], NEW f \in table[r], e.gid = f.gid
  PROVE  e = f
<1> USE DEF CommInv
<1>1. PICK i \in DOMAIN comms : comms[i].gid = e.gid
  BY CommOfEntry
<1>2. /\ i < i <=> e.seq < f.seq
      /\ i < i <=> f.seq < e.seq
  BY <1>1 DEF EntryInv
<1>3. e.seq = f.seq
  BY <1>1, <1>2, RankTypes, EntryTypes, CommTypes, SMT
<1> QED
  BY <1>3 DEF EntryInv

LEMMA CommFreeKeeps ==
  ASSUME CommInv, NEW r \in Ranks, NEW e \in table[r], MPI_Comm_free(r, e)
  PROVE  CommInv'
<1> USE DEF CommInv
<1>1. e \in Entries /\ e.gid \in Gids /\ e.gid # NoGid
  BY RankTypes, EntryTypes, GidTypes
<1>2. /\ phase = "run" /\ at[r] = Idle
      /\ UNCHANGED <<phase, at, gidsMade, nextSeq, comms, made, todo, ckpts>>
      /\ IsNextCall(r, e.gid, Free) /\ clock' = Tick(r, e.gid)
  BY DEF MPI_Comm_free, FreeClock
<1>3. /\ table' \in [Ranks -> SUBSET Entries]
      /\ \A q \in Ranks : table'[q] = IF q = r THEN table[q] \ {e} ELSE table[q]
  BY DEF MPI_Comm_free, TypeOK
<1>4. \A q \in Ranks : table'[q] \subseteq table[q]
  BY <1>3
<1>5. NameInv' /\ EntryInv' /\ LibraryInv' /\ RealInv'
  BY <1>2, <1>4, FewerEntries
<1>6. /\ calls' \in [Gids -> Seq(Splits \cup {Free})]
      /\ clock' \in [Ranks -> [Gids -> Nat]]
      /\ \A q \in Ranks, h \in Gids :
           /\ clock'[q][h] = IF q = r /\ h = e.gid THEN clock[q][h] + 1 ELSE clock[q][h]
           /\ clock'[q][h] <= Len(calls'[h])
           /\ Freed(q, h)' <=> Freed(q, h) \/ (q = r /\ h = e.gid)
  <2>1. Free \in Splits \cup {Free}
    OBVIOUS
  <2> QED
    BY <1>1, <1>2, <2>1, NextCallEffect, SMT
<1>7. TypeOK'
  BY <1>2, <1>3, <1>6 DEF TypeOK
<1>8. CallInv'
  BY <1>2, CallStays, SMT
<1>9. PICK i \in DOMAIN comms : comms[i].gid = e.gid /\ ~Naming(r, i)
  BY DEF EntryInv
<1>10. ClockInv'
  <2>1. \A q \in Ranks : \A j : Naming(q, j)' <=> Naming(q, j)
    BY <1>2 DEF Naming
  <2>2. ASSUME NEW q \in Ranks, NEW g \in Gids,
               \A j \in DOMAIN comms : comms[j].gid = g => Naming(q, j)
        PROVE  clock'[q][g] = 0
    <3>1. ~(q = r /\ g = e.gid)
      BY <1>9, <2>2
    <3>2. clock'[q][g] = clock[q][g]
      BY <1>6, <3>1
    <3> QED
      BY <2>2, <3>2 DEF ClockInv
  <2>3. ASSUME NEW q \in Ranks, NEW j \in DOMAIN comms, comms[j].gid # NoGid,
               q \in Members(comms[j].group)
        PROVE  (\E f \in table'[q] : f.gid = comms[j].gid) <=>
                 ~Naming(q, j) /\ ~Freed(q, comms[j].gid)'
    <3>1. comms[j].gid \in Gids
      BY <2>3, CommTypes
    <3>2. (\E f \in table[q] : f.gid = comms[j].gid) <=>
            ~Naming(q, j) /\ ~Freed(q, comms[j].gid)
      BY <2>3 DEF ClockInv
    <3>3. CASE q = r /\ comms[j].gid = e.gid
      <4>1. Freed(q, comms[j].gid)'
        BY <1>2, <1>6, <3>1, <3>3
      <4>2. \A f \in table[r] : f.gid = e.gid => f = e
        BY EntryOfComm
      <4>3. ~ \E f \in table'[q] : f.gid = comms[j].gid
        BY <1>3, <3>3, <4>2
      <4> QED
        BY <4>1, <4>3
    <3>4. CASE ~(q = r /\ comms[j].gid = e.gid)
      <4>1. Freed(q, comms[j].gid)' <=> Freed(q, comms[j].gid)
        BY <1>2, <1>6, <3>1, <3>4
      <4>2. (\E f \in table'[q] : f.gid = comms[j].gid) <=>
              (\E f \in table[q] : f.gid = comms[j].gid)
        BY <1>3, <3>4
      <4> QED
        BY <3>2, <4>1, <4>2
    <3> QED
      BY <3>3, <3>4
  <2>4. \A q \in Ranks, g \in Gids : clock'[q][g] <= Len(calls'[g])
    BY <1>6
  <2> QED
    <3>0. comms' = comms
      BY <1>2
    <3>1. \A q \in Ranks, g \in Gids :
            (\A j \in DOMAIN comms' : comms'[j].gid = g => Naming(q, j)') => clock'[q][g] = 0
      BY <2>1, <2>2, <3>0
    <3>2. \A q \in Ranks : \A j \in DOMAIN comms' : HasOrFreed(q, j)'
      BY <2>1, <2>3, <3>0 DEF HasOrFreed
    <3> QED
      BY <2>4, <3>1, <3>2, ClockNext
<1>11. TodoInv'
  <2>1. phase' = "run" /\ phase' # "restart"
    BY <1>2, SMT
  <2> QED
    BY <1>2, <1>4, <2>1 DEF TodoInv
<1> QED
  BY <1>5, <1>7, <1>8, <1>10, <1>11

-----------------------------------------------------------------------------
(* The MPI library makes communicators.                                    *)

(* The communicators are added at the end, and each member is to name the  *)
(* one of its group.                                                       *)
LEMMA MakeCommsEffect ==
  ASSUME TypeOK, NEW call \in CallRecords, NEW ranks \in SUBSET Ranks, MakeComms(call, ranks),
         \A i, j \in DOMAIN call.groups :
           Members(call.groups[i]) \cap Members(call.groups[j]) # {} => i = j
  PROVE  LET n == Len(comms)  m == Len(call.groups) IN
         /\ m \in Nat
         /\ DOMAIN call.groups = 1 .. m
         /\ comms' \in Seq(CommRecords) /\ Len(comms') = n + m
         /\ DOMAIN comms' = 1 .. n + m
         /\ \A i \in 1 .. n : comms'[i] = comms[i]
         /\ \A i \in 1 .. m : /\ comms'[n + i].group = call.groups[i]
                              /\ comms'[n + i].gid = NoGid
                              /\ comms'[n + i].real = made + i
         /\ at' \in [Ranks -> CallRecords]
         /\ \A q \in Ranks \ ranks : at'[q] = at[q]
         /\ \A q \in ranks :
              \/ at'[q] = Idle /\ \A i \in 1 .. m : q \notin Members(call.groups[i])
              \/ \E i \in 1 .. m : /\ at'[q].op = "name" /\ at'[q].id = n + i
                                   /\ q \in Members(call.groups[i])
                                   /\ \A j \in 1 .. m : q \in Members(call.groups[j]) => j = i
<1> DEFINE n == Len(comms)  m == Len(call.groups)
           new == [i \in DOMAIN call.groups |->
                     [group |-> call.groups[i], gid |-> NoGid, real |-> made + i]]
<1>1. /\ n \in Nat /\ m \in Nat /\ DOMAIN call.groups = 1 .. m /\ made \in Nat
      /\ \A i \in 1 .. m : call.groups[i] \in Seq(Ranks)
  <2>1. call.groups \in Seq(Seq(Ranks)) /\ n \in Nat /\ made \in Nat
    BY CallTypes, CommTypes DEF TypeOK
  <2> DEFINE S == Seq(Ranks)
  <2> HIDE DEF S, n
  <2>2. call.groups \in Seq(S)
    BY <2>1 DEF S
  <2>3. m \in Nat /\ DOMAIN call.groups = 1 .. m /\ \A i \in 1 .. m : call.groups[i] \in S
    BY <2>2, SMT
  <2> QED
    BY <2>1, <2>3 DEF S
<1>2. \A i \in 1 .. m : /\ new[i] \in CommRecords
                        /\ new[i].group = call.groups[i] /\ new[i].gid = NoGid
                        /\ new[i].real = made + i
  <2> SUFFICES ASSUME NEW i \in 1 .. m
               PROVE  /\ new[i] \in CommRecords
                      /\ new[i].group = call.groups[i] /\ new[i].gid = NoGid
                      /\ new[i].real = made + i
    OBVIOUS
  <2>1. PICK c : c = [group |-> call.groups[i], gid |-> NoGid, real |-> made + i]
    OBVIOUS
  <2>2. new[i] = c
    BY <1>1, <2>1
  <2>3. made + i \in Nat
    BY <1>1, SMT
  <2>4. c \in CommRecords /\ c.group = call.groups[i] /\ c.gid = NoGid /\ c.real = made + i
    BY <1>1, <2>1, <2>3, SMT DEF CommRecords
  <2> QED
    BY <2>2, <2>4
<1>3. comms' = comms \o new /\ comms \in Seq(CommRecords)
  BY DEF MakeComms, TypeOK
<1>4. DOMAIN new = 1 .. m
  BY <1>1
<1> HIDE DEF new
<1>5. new \in Seq(CommRecords) /\ Len(new) = m
  <2> DEFINE S == CommRecords
  <2> HIDE DEF S, m
  <2>1. \A i \in 1 .. m : new[i] \in S
    BY <1>2 DEF S
  <2>2. new = [i \in 1 .. m |-> new[i]]
    BY <1>4 DEF new
  <2>3. new \in Seq(S) /\ Len(new) = m
    BY <1>1, <1>4, <2>1, <2>2, SMT
  <2> QED
    BY <2>3 DEF S
<1>6. /\ comms' \in Seq(CommRecords) /\ Len(comms') = n + m
      /\ DOMAIN comms' = 1 .. n + m
      /\ \A i \in 1 .. n : comms'[i] = comms[i]
      /\ \A i \in 1 .. m : comms'[n + i] = new[i]
  <2> DEFINE S == CommRecords
  <2> HIDE DEF S, m
  <2>1. comms \in Seq(S) /\ new \in Seq(S) /\ Len(new) = m /\ m \in Nat
    BY <1>1, <1>3, <1>5 DEF S
  <2>2. /\ comms' \in Seq(S) /\ Len(comms') = n + m
        /\ DOMAIN comms' = 1 .. n + m
        /\ \A i \in 1 .. n : comms'[i] = comms[i]
        /\ \A i \in 1 .. m : comms'[n + i] = new[i]
    <3>1. /\ comms' \in Seq(S) /\ Len(comms') = n + m
          /\ \A i \in 1 .. n + m :
               comms'[i] = IF i <= n THEN comms[i] ELSE new[i - n]
      BY <1>3, <2>1, ConcatProperties
    <3>2. DOMAIN comms' = 1 .. n + m
      BY <3>1, SMT
    <3>3. ASSUME NEW i \in 1 .. n PROVE comms'[i] = comms[i]
      BY <1>1, <2>1, <3>1, SMT
    <3>4. ASSUME NEW i \in 1 .. m PROVE comms'[n + i] = new[i]
      <4>1. n + i \in 1 .. n + m /\ ~(n + i <= n) /\ (n + i) - n = i
        BY <1>1, <2>1, SMT
      <4> QED
        BY <3>1, <4>1
    <3> QED
      BY <3>1, <3>2, <3>3, <3>4
  <2> QED
    BY <2>2 DEF S
<1>7. \A i \in 1 .. m : /\ comms'[n + i].group = call.groups[i]
                        /\ comms'[n + i].gid = NoGid
                        /\ comms'[n + i].real = made + i
  BY <1>2, <1>6
<1> DEFINE mine(q) == {i \in DOMAIN call.groups : q \in Members(call.groups[i])}
           named(q) == [Idle EXCEPT !.op = "name",
                                    !.id = Len(comms) + (CHOOSE i \in mine(q) : TRUE)]
<1>8. \A q \in Ranks : at'[q] = IF q \notin ranks THEN at[q]
                                ELSE IF mine(q) = {} THEN Idle ELSE named(q)
  BY DEF MakeComms
<1>9. ASSUME NEW q \in ranks, mine(q) # {}
      PROVE  /\ named(q) \in CallRecords
             /\ \E i \in 1 .. m : /\ named(q).op = "name" /\ named(q).id = n + i
                                  /\ q \in Members(call.groups[i])
                                  /\ \A j \in 1 .. m : q \in Members(call.groups[j]) => j = i
  <2>1. PICK i : i = CHOOSE x \in mine(q) : TRUE
    OBVIOUS
  <2>2. i \in mine(q)
    BY <1>9, <2>1
  <2>3. i \in 1 .. m /\ q \in Members(call.groups[i])
    BY <1>1, <2>2
  <2>4. \A j \in 1 .. m : q \in Members(call.groups[j]) => j = i
    BY <1>1, <2>3
  <2>5. PICK c : c = [Idle EXCEPT !.op = "name", !.id = n + i]
    OBVIOUS
  <2>6. n + i \in Nat
    BY <1>1, <2>3, SMT
  <2>7. PICK b : b = [Idle EXCEPT !.op = "name"]
    OBVIOUS
  <2>8. b \in CallRecords /\ b.op = "name" /\ c = [b EXCEPT !.id = n + i]
    BY <2>5, <2>7, IdleTypes, SMT DEF CallRecords
  <2>10. c \in CallRecords /\ c.op = "name" /\ c.id = n + i
    BY <2>6, <2>8, SetId
  <2>9. named(q) = c
    BY <2>1, <2>5
  <2> QED
    BY <2>3, <2>4, <2>9, <2>10
<1> HIDE DEF named
<1>10. at' \in [Ranks -> CallRecords]
  <2>1. ASSUME NEW q \in Ranks PROVE at'[q] \in CallRecords
    <3> HIDE DEF mine
    <3>1. CASE q \notin ranks
      BY <1>8, <3>1, RankTypes
    <3>2. CASE q \in ranks /\ mine(q) = {}
      BY <1>8, <3>2, IdleTypes
    <3>3. CASE q \in ranks /\ mine(q) # {}
      <4>1. at'[q] = named(q)
        BY <1>8, <3>3
      <4>2. named(q) \in CallRecords
        BY <1>9, <3>3
      <4> QED
        BY <4>1, <4>2
    <3> QED
      BY <3>1, <3>2, <3>3
  <2>2. at' = [q \in Ranks |-> at'[q]]
    BY DEF MakeComms
  <2> QED
    BY <2>1, <2>2
<1>11. ASSUME NEW q \in ranks
       PROVE  \/ at'[q] = Idle /\ \A i \in 1 .. m : q \notin Members(call.groups[i])
              \/ \E i \in 1 .. m : /\ at'[q].op = "name" /\ at'[q].id = n + i
                                   /\ q \in Members(call.groups[i])
                                   /\ \A j \in 1 .. m : q \in Members(call.groups[j]) => j = i
  <2>1. CASE mine(q) = {}
    <3>1. at'[q] = Idle
      BY <1>8, <2>1
    <3>2. \A i \in 1 .. m : q \notin Members(call.groups[i])
      BY <1>1, <2>1
    <3> QED
      BY <3>1, <3>2
  <2>2. CASE mine(q) # {}
    <3>1. at'[q] = named(q)
      BY <1>8, <2>2
    <3> QED
      BY <1>9, <2>2, <3>1
  <2> QED
    BY <2>1, <2>2
<1>12. \A q \in Ranks \ ranks : at'[q] = at[q]
  BY <1>8
<1> QED
  BY <1>1, <1>6, <1>7, <1>10, <1>11, <1>12

(* No two entries of a rank have the same sequence number.                 *)
LEMMA SeqOfEntry ==
  ASSUME EntryInv, NEW r \in Ranks, NEW e \in table[r], NEW f \in table[r], e.seq = f.seq
  PROVE  e = f
  BY DEF EntryInv

LEMMA MakeCommsKeeps ==
  ASSUME CommInv, NEW call \in CallRecords, NEW ranks \in SUBSET Ranks, MakeComms(call, ranks),
         call.op \in {"make", "group"}, \E r \in ranks : TRUE,
         Involved(call.groups) \subseteq ranks,
         \A i, j \in DOMAIN call.groups :
           Members(call.groups[i]) \cap Members(call.groups[j]) # {} => i = j
  PROVE  CommInv'
<1> USE DEF CommInv
<1> DEFINE n == Len(comms)  m == Len(call.groups)
<1>1. /\ m \in Nat /\ n \in Nat /\ made \in Nat
      /\ DOMAIN call.groups = 1 .. m
      /\ comms' \in Seq(CommRecords) /\ Len(comms') = n + m
      /\ DOMAIN comms = 1 .. n /\ DOMAIN comms' = 1 .. n + m
      /\ \A i \in 1 .. n : comms'[i] = comms[i]
      /\ \A i \in 1 .. m : /\ comms'[n + i].group = call.groups[i]
                           /\ comms'[n + i].gid = NoGid
                           /\ comms'[n + i].real = made + i
  BY MakeCommsEffect, CommTypes DEF TypeOK
<1>2. /\ at' \in [Ranks -> CallRecords]
      /\ \A q \in Ranks \ ranks : at'[q] = at[q]
      /\ \A q \in ranks :
           \/ at'[q] = Idle /\ \A i \in 1 .. m : q \notin Members(call.groups[i])
           \/ \E i \in 1 .. m : /\ at'[q].op = "name" /\ at'[q].id = n + i
                                /\ q \in Members(call.groups[i])
                                /\ \A j \in 1 .. m : q \in Members(call.groups[j]) => j = i
  BY MakeCommsEffect
<1>3. /\ UNCHANGED <<phase, table, calls, clock, gidsMade, nextSeq, todo, ckpts>>
      /\ made' = made + m /\ n + m <= MaxComms + 1
      /\ \A q \in ranks : at[q] = call
  BY DEF MakeComms
<1> HIDE DEF n, m
<1>4. \A i \in DOMAIN comms' : \/ i \in DOMAIN comms /\ i \in 1 .. n
                               \/ \E j \in 1 .. m : i = n + j
  <2> SUFFICES ASSUME NEW i \in 1 .. n + m, i \notin 1 .. n
               PROVE  \E j \in 1 .. m : i = n + j
    BY <1>1
  <2>1. i - n \in 1 .. m /\ i = n + (i - n)
    BY <1>1, SMT
  <2> QED
    BY <2>1
(* A communicator with a gid is an old one.                                *)
<1>5. \A i \in DOMAIN comms' : comms'[i].gid # NoGid =>
        i \in DOMAIN comms /\ comms'[i] = comms[i]
  BY <1>1, <1>4
<1>6. \A i \in DOMAIN comms : i \in DOMAIN comms' /\ comms'[i] = comms[i]
  <2>1. \A i \in 1 .. n : i \in 1 .. n + m
    BY <1>1, SMT
  <2> QED
    BY <1>1, <2>1
<1>7. \A q \in ranks : at[q].op # "name"
  BY <1>3, SMT
<1>8. \A q \in ranks : \A i \in DOMAIN comms : ~(at'[q].op = "name" /\ at'[q].id = i)
  <2>1. \A i \in DOMAIN comms : \A j \in 1 .. m : i # n + j
    BY <1>1, SMT
  <2>2. Idle.op # "name"
    BY IdleTypes, SMT
  <2> SUFFICES ASSUME NEW q \in ranks, NEW i \in DOMAIN comms,
                      at'[q].op = "name", at'[q].id = i
               PROVE  FALSE
    OBVIOUS
  <2>3. at'[q] # Idle
    BY <2>2
  <2>4. PICK j \in 1 .. m : at'[q].id = n + j
    BY <1>2, <2>3
  <2> QED
    BY <2>1, <2>4
<1>9. \A q \in Ranks : \A i \in DOMAIN comms : Naming(q, i)' <=> Naming(q, i)
  BY <1>2, <1>7, <1>8 DEF Naming
<1>10. TypeOK'
  BY <1>1, <1>2, <1>3, SMT DEF TypeOK
(* A rank that names a new communicator is a member of it.                 *)
<1>11. \A q \in Ranks : at'[q].op = "name" =>
         \/ at'[q] = at[q]
         \/ \E i \in 1 .. m : at'[q].id = n + i /\ q \in Members(call.groups[i])
  <2>1. Idle.op # "name"
    BY IdleTypes, SMT
  <2> QED
    BY <1>2, <2>1
<1>12. CallInv'
  <2>1. ASSUME NEW q \in Ranks, at'[q].op = "make"
        PROVE  /\ at'[q].groups \in Splits /\ at'[q].gid # NoGid
               /\ \E i \in DOMAIN comms' :
                    /\ comms'[i].gid = at'[q].gid
                    /\ Involved(at'[q].groups) \subseteq Members(comms'[i].group)
    <3>1. at'[q] = at[q]
      <4>1. Idle.op # "make" /\ "name" # "make"
        BY IdleTypes, SMT
      <4> QED
        BY <1>2, <2>1, <4>1
    <3>2. /\ at[q].groups \in Splits /\ at[q].gid # NoGid
          /\ \E i \in DOMAIN comms :
               /\ comms[i].gid = at[q].gid
               /\ Involved(at[q].groups) \subseteq Members(comms[i].group)
      BY <2>1, <3>1 DEF CallInv
    <3> QED
      BY <1>6, <3>1, <3>2
  <2>2. ASSUME NEW q \in Ranks, at'[q].op = "name"
        PROVE  /\ at'[q].id \in DOMAIN comms' /\ nextSeq'[q] < at'[q].id
               /\ q \in Members(comms'[at'[q].id].group)
               /\ q = Head(comms'[at'[q].id].group) => comms'[at'[q].id].gid = NoGid
    <3>1. CASE at'[q] = at[q]
      <4>1. /\ at[q].id \in DOMAIN comms /\ nextSeq[q] < at[q].id
            /\ q \in Members(comms[at[q].id].group)
            /\ q = Head(comms[at[q].id].group) => comms[at[q].id].gid = NoGid
        BY <2>2, <3>1 DEF CallInv
      <4> QED
        BY <1>3, <1>6, <3>1, <4>1
    <3>2. ASSUME NEW i \in 1 .. m, at'[q].id = n + i, q \in Members(call.groups[i])
          PROVE  /\ at'[q].id \in DOMAIN comms' /\ nextSeq'[q] < at'[q].id
                 /\ q \in Members(comms'[at'[q].id].group)
                 /\ q = Head(comms'[at'[q].id].group) => comms'[at'[q].id].gid = NoGid
      <4>1. nextSeq[q] <= n /\ nextSeq[q] \in Nat
        BY RankTypes DEF CallInv, n
      <4>2. n + i \in 1 .. n + m /\ nextSeq[q] < n + i
        BY <1>1, <4>1, SMT
      <4> QED
        BY <1>1, <1>3, <3>2, <4>2
    <3> QED
      BY <1>11, <2>2, <3>1, <3>2
  <2>3. ASSUME NEW q \in Ranks
        PROVE  nextSeq'[q] <= Len(comms') /\ gidsMade'[q] <= nextSeq'[q] + 1
    <3>1. nextSeq[q] <= n /\ nextSeq[q] \in Nat /\ gidsMade[q] <= nextSeq[q] + 1
      BY RankTypes DEF CallInv, n
    <3> QED
      BY <1>1, <1>3, <3>1, SMT
  <2> QED
    BY <2>1, <2>2, <2>3 DEF CallInv
<1>13. NameInv'
  <2>1. ASSUME NEW i \in DOMAIN comms', comms'[i].gid = NoGid,
               NEW q \in Members(comms'[i].group)
        PROVE  Naming(q, i)'
    <3>1. CASE i \in DOMAIN comms
      <4>1. q \in Ranks /\ Naming(q, i)
        BY <1>6, <2>1, <3>1, CommTypes DEF NameInv
      <4> QED
        BY <1>9, <3>1, <4>1
    <3>2. ASSUME NEW j \in 1 .. m, i = n + j PROVE Naming(q, i)'
      <4>1. q \in Members(call.groups[j]) /\ j \in DOMAIN call.groups
        BY <1>1, <2>1, <3>2
      <4>2. q \in ranks
        BY <4>1 DEF Involved
      <4>3. at'[q].op = "name" /\ at'[q].id = n + j
        BY <1>2, <4>1, <4>2
      <4> QED
        BY <3>2, <4>3 DEF Naming
    <3> QED
      BY <1>4, <3>1, <3>2
  <2>2. ASSUME NEW i \in DOMAIN comms', comms'[i].gid # NoGid
        PROVE  \E q \in Ranks : \E k \in 0 .. gidsMade[q] - 1 : comms'[i].gid = k * N + q
    <3>1. i \in DOMAIN comms /\ comms'[i] = comms[i] /\ comms[i].gid # NoGid
      BY <1>5, <2>2
    <3>2. \E q \in Ranks : \E k \in 0 .. gidsMade[q] - 1 : comms[i].gid = k * N + q
      BY <3>1 DEF NameInv
    <3> QED
      BY <3>1, <3>2
  <2>3. ASSUME NEW i \in DOMAIN comms', NEW j \in DOMAIN comms',
               comms'[i].gid = comms'[j].gid, comms'[i].gid # NoGid
        PROVE  i = j
    <3>1. /\ i \in DOMAIN comms /\ comms'[i] = comms[i]
          /\ j \in DOMAIN comms /\ comms'[j] = comms[j]
      BY <1>5, <2>3
    <3> QED
      BY <2>3, <3>1 DEF NameInv
  <2> QED
    BY <1>3, <2>1, <2>2, <2>3, SMT DEF NameInv
<1>14. EntryInv'
  <2>1. ASSUME NEW q \in Ranks, NEW e \in table[q]
        PROVE  \E i \in DOMAIN comms' : /\ comms'[i].gid = e.gid /\ comms'[i].group = e.group
                                        /\ ~Naming(q, i)'
                                        /\ at'[q].op = "name" => i < at'[q].id
    <3>1. PICK i \in DOMAIN comms : /\ comms[i].gid = e.gid /\ comms[i].group = e.group
                                    /\ ~Naming(q, i)
                                    /\ at[q].op = "name" => i < at[q].id
      BY DEF EntryInv
    <3>2. \A j \in 1 .. m : i < n + j
      BY <1>1, SMT
    <3>3. at'[q].op = "name" => i < at'[q].id
      <4>1. CASE at'[q] = at[q]
        BY <3>1, <4>1
      <4>2. CASE \E j \in 1 .. m : at'[q].id = n + j
        BY <3>2, <4>2
      <4> QED
        BY <1>11, <4>1, <4>2
    <3> QED
      BY <1>6, <1>9, <3>1, <3>3
  <2>2. ASSUME NEW q \in Ranks, NEW e \in table[q]
        PROVE  /\ q \in Members(e.group) /\ e.seq <= nextSeq[q]
               /\ e.gid # NoGid
               /\ \A f \in table[q] : e.seq = f.seq => e = f
    <3>1. e.gid # NoGid
      BY RankTypes, EntryTypes, GidTypes
    <3>2. q \in Members(e.group) /\ e.seq <= nextSeq[q]
      BY DEF EntryInv
    <3>3. ASSUME NEW f \in table[q], e.seq = f.seq PROVE e = f
      BY <3>3, SeqOfEntry
    <3> QED
      BY <3>1, <3>2, <3>3
  <2>3. ASSUME NEW q \in Ranks, NEW e \in table[q], NEW f \in table[q],
               NEW i \in DOMAIN comms', NEW j \in DOMAIN comms',
               comms'[i].gid = e.gid, comms'[j].gid = f.gid
        PROVE  i < j <=> e.seq < f.seq
    <3>1. /\ i \in DOMAIN comms /\ comms'[i] = comms[i]
          /\ j \in DOMAIN comms /\ comms'[j] = comms[j]
      BY <1>5, <2>2, <2>3
    <3> QED
      BY <2>3, <3>1 DEF EntryInv
  <2> QED
    <3>0. table' = table /\ nextSeq' = nextSeq
      BY <1>3
    <3>1. \A q \in Ranks : \A e \in table'[q] : EntryPlaced(q, e)'
      BY <2>1, <2>2, <3>0 DEF EntryPlaced, CommOf
    <3>2. \A q \in Ranks : \A e, f \in table'[q] : InOrder(e, f)'
      BY <2>3, <3>0 DEF InOrder
    <3>3. NoEntryTwice
      BY <2>2, <3>0 DEF NoEntryTwice
    <3> QED
      BY <3>1, <3>2, <3>3, EntryNext
<1>15. ClockInv'
  <2>1. \A q \in Ranks, g \in Gids : Freed(q, g)' <=> Freed(q, g)
    BY <1>3 DEF Freed
  <2>2. ASSUME NEW q \in Ranks, NEW g \in Gids,
               \A i \in DOMAIN comms' : comms'[i].gid = g => Naming(q, i)'
        PROVE  clock[q][g] = 0
    <3>1. \A i \in DOMAIN comms : comms[i].gid = g => Naming(q, i)
      BY <1>6, <1>9, <2>2
    <3> QED
      BY <3>1 DEF ClockInv
  <2>3. ASSUME NEW q \in Ranks, NEW i \in DOMAIN comms', comms'[i].gid # NoGid,
               q \in Members(comms'[i].group)
        PROVE  (\E e \in table[q] : e.gid = comms'[i].gid) <=>
                 ~Naming(q, i)' /\ ~Freed(q, comms[i].gid)'
    <3>1. i \in DOMAIN comms /\ comms'[i] = comms[i]
      BY <1>5, <2>3
    <3>2. comms[i].gid \in Gids
      BY <2>3, <3>1, CommTypes
    <3>3. (\E e \in table[q] : e.gid = comms[i].gid) <=>
            ~Naming(q, i) /\ ~Freed(q, comms[i].gid)
      BY <2>3, <3>1 DEF ClockInv
    <3>4. Freed(q, comms[i].gid)' <=> Freed(q, comms[i].gid)
      BY <2>1, <3>1, <3>2
    <3> QED
      BY <1>9, <3>1, <3>3, <3>4
  <2> QED
    <3>0. /\ calls' = calls /\ clock' = clock /\ table' = table
          /\ \A i \in DOMAIN comms' : comms'[i].gid # NoGid => comms'[i].gid = comms[i].gid
      BY <1>3, <1>5
    <3>1. \A q \in Ranks, g \in Gids :
            (\A i \in DOMAIN comms' : comms'[i].gid = g => Naming(q, i)') => clock'[q][g] = 0
      BY <2>2, <3>0
    <3>2. \A q \in Ranks : \A i \in DOMAIN comms' : HasOrFreed(q, i)'
      BY <2>3, <3>0 DEF HasOrFreed
    <3>3. \A q \in Ranks, g \in Gids : clock'[q][g] <= Len(calls'[g])
      BY <3>0 DEF ClockInv
    <3> QED
      BY <3>1, <3>2, <3>3, ClockNext
<1>16. LibraryInv'
  <2>1. \A i \in DOMAIN comms : comms[i].real <= made /\ comms[i].real # 0
    BY DEF LibraryInv
  <2>2. ASSUME NEW i \in DOMAIN comms'
        PROVE  comms'[i].real <= made' /\ comms'[i].real # 0
    <3>1. CASE i \in DOMAIN comms
      BY <1>1, <1>3, <1>6, <2>1, <3>1, CommTypes, SMT
    <3>2. ASSUME NEW j \in 1 .. m, i = n + j
          PROVE  comms'[i].real <= made' /\ comms'[i].real # 0
      <4>1. comms'[i].real = made + j
        BY <1>1, <3>2
      <4> QED
        BY <1>1, <1>3, <4>1, SMT
    <3> QED
      BY <1>4, <3>1, <3>2
  <2>3. ASSUME NEW i \in DOMAIN comms', NEW j \in DOMAIN comms',
               comms'[i].real = comms'[j].real
        PROVE  i = j
    <3>1. CASE i \in DOMAIN comms /\ j \in DOMAIN comms
      BY <1>6, <2>3, <3>1 DEF LibraryInv
    <3>2. ASSUME NEW k \in DOMAIN comms, NEW l \in 1 .. m
          PROVE  comms'[k].real # comms'[n + l].real
      BY <1>1, <1>6, <2>1, CommTypes, SMT
    <3>3. ASSUME NEW k \in 1 .. m, NEW l \in 1 .. m, comms'[n + k].real = comms'[n + l].real
          PROVE  k = l
      <4>1. made + k = made + l
        BY <1>1, <3>3
      <4> QED
        BY <1>1, <4>1, SMT
    <3> QED
      BY <1>4, <2>3, <3>1, <3>2, <3>3
  <2> QED
    BY <2>2, <2>3, SMT DEF LibraryInv
<1>17. RealInv'
  <2>1. ASSUME NEW s \in Ranks, NEW e \in table[s]
        PROVE  /\ e.real <= made /\ e.real <= made' /\ e.real \in Nat
               /\ e.gid # NoGid
    <3>1. e.real <= made /\ e.real \in Nat /\ e.gid # NoGid
      BY RankTypes, EntryTypes, GidTypes DEF RealInv
    <3>2. e.real <= made'
      BY <1>1, <1>3, <3>1, SMT
    <3> QED
      BY <3>1, <3>2
  <2>2. ASSUME NEW s \in Ranks, NEW e \in table[s], NEW r \in Ranks, at'[r].op = "name"
        PROVE  comms'[at'[r].id].gid = e.gid <=> comms'[at'[r].id].real = e.real
    <3>1. CASE at'[r] = at[r]
      <4>1. at[r].op = "name" /\ at[r].id \in DOMAIN comms
        BY <2>2, <3>1 DEF CallInv
      <4>2. comms[at[r].id].gid = e.gid <=> comms[at[r].id].real = e.real
        BY <4>1 DEF RealInv
      <4> QED
        BY <1>6, <3>1, <4>1, <4>2
    <3>2. ASSUME NEW i \in 1 .. m, at'[r].id = n + i
          PROVE  comms'[at'[r].id].gid = e.gid <=> comms'[at'[r].id].real = e.real
      <4>1. comms'[n + i].gid # e.gid
        BY <1>1, <2>1
      <4>2. comms'[n + i].real # e.real
        BY <1>1, <2>1, SMT
      <4> QED
        BY <3>2, <4>1, <4>2
    <3> QED
      BY <1>11, <2>2, <3>1, <3>2
  <2>3. ASSUME NEW s \in Ranks, NEW e \in table[s], NEW r \in Ranks, NEW f \in table[r],
               e.real # 0, f.real # 0
        PROVE  e.gid = f.gid <=> e.real = f.real
    BY <2>3, GidOfReal
  <2> QED
    BY <1>3, <2>1, <2>2, <2>3, SMT DEF RealInv
<1>18. TodoInv'
  <2>1. phase # "restart"
    <3>1. PICK r \in ranks : TRUE
      OBVIOUS
    <3>2. at[r] # Idle
      BY <1>3, IdleTypes, SMT
    <3> QED
      BY <3>2 DEF TodoInv
  <2> QED
    BY <1>3, <2>1 DEF TodoInv, TypeOK
<1> QED
  BY <1>10, <1>12, <1>13, <1>14, <1>15, <1>16, <1>17, <1>18

LEMMA LibraryMakesKeeps ==
  ASSUME CommInv, NEW q \in Ranks, NEW e \in table[q], LibraryMakes(e)
  PROVE  CommInv'
<1> USE DEF CommInv
<1>1. PICK r \in Ranks : /\ at[r].op = "make" /\ at[r].gid = e.gid
                         /\ MakeComms(at[r], Members(e.group))
  BY DEF LibraryMakes
<1>2. PICK i \in DOMAIN comms : comms[i].gid = e.gid /\ comms[i].group = e.group
  BY CommOfEntry
<1>3. PICK j \in DOMAIN comms : /\ comms[j].gid = at[r].gid
                                /\ Involved(at[r].groups) \subseteq Members(comms[j].group)
  BY <1>1 DEF CallInv
<1>4. at[r].groups \in Splits /\ at[r].gid # NoGid
  BY <1>1 DEF CallInv
<1>5. i = j
  BY <1>1, <1>2, <1>3, <1>4 DEF NameInv
<1>6. Involved(at[r].groups) \subseteq Members(e.group)
  BY <1>2, <1>3, <1>5
<1>7. at[r] \in CallRecords /\ Members(e.group) \in SUBSET Ranks
  BY RankTypes, EntryTypes
<1>8. \A k, l \in DOMAIN at[r].groups :
        Members(at[r].groups[k]) \cap Members(at[r].groups[l]) # {} => k = l
  BY <1>4, SplitTypes
<1>9. q \in Members(e.group)
  BY DEF EntryInv
<1> QED
  BY <1>1, <1>6, <1>7, <1>8, <1>9, MakeCommsKeeps

LEMMA LibraryCreatesGroupKeeps ==
  ASSUME CommInv, NEW group \in Groups, LibraryCreatesGroup(group)
  PROVE  CommInv'
<1> USE DEF CommInv
<1>1. PICK r \in Ranks : /\ at[r].op = "group" /\ at[r].groups = <<group>>
                         /\ MakeComms(at[r], Members(group))
  BY DEF LibraryCreatesGroup
<1>2. group \in Seq(Ranks) /\ group # <<>>
  BY CommConstants
<1>3. at[r] \in CallRecords /\ Members(group) \in SUBSET Ranks
  BY <1>2, RankTypes, MembersAreRanks
<1>4. DOMAIN at[r].groups = {1} /\ at[r].groups[1] = group
  BY <1>1, SMT
<1>5. Involved(at[r].groups) \subseteq Members(group)
  BY <1>4 DEF Involved
<1>6. \A i, j \in DOMAIN at[r].groups :
        Members(at[r].groups[i]) \cap Members(at[r].groups[j]) # {} => i = j
  BY <1>4
<1>7. \E q \in Members(group) : TRUE
  <2>1. 1 \in DOMAIN group
    BY <1>2, SMT
  <2> QED
    BY <2>1 DEF Members, Range
<1> QED
  BY <1>1, <1>3, <1>5, <1>6, <1>7, MakeCommsKeeps

-----------------------------------------------------------------------------
(* A rank names its communicator.                                          *)

(* The gids that the ranks make fit Gids.                                  *)
LEMMA GidFits ==
  ASSUME NEW r \in Ranks, NEW k \in Nat, k <= MaxComms + 1
  PROVE  k * N + r \in Gids
<1>1. N \in Nat \ {0} /\ MaxComms \in Nat /\ r \in 0 .. N - 1
  BY CommConstants DEF Ranks
<1>2. PICK d \in Nat : k + d = MaxComms + 1
  BY <1>1, SMT
<1>3. k * N \in Nat /\ d * N \in Nat /\ (k + d) * N = k * N + d * N
  BY <1>1, SMT
<1>4. N * (MaxComms + 2) = (MaxComms + 1) * N + N
  BY <1>1, SMT
<1>5. k * N + r <= N * (MaxComms + 2) - 1 /\ k * N + r \in Nat
  BY <1>1, <1>2, <1>3, <1>4, SMT
<1> QED
  BY <1>1, <1>5, SMT DEF Gids

(* No communicator has the gid that a rank makes next.                     *)
LEMMA MakeGidFresh ==
  ASSUME TypeOK, NameInv, NEW r \in Ranks, NEW i \in DOMAIN comms, comms[i].gid = MakeGid(r)
  PROVE  FALSE
<1>1. N \in Nat \ {0} /\ Ranks = 0 .. N - 1 /\ gidsMade[r] \in Nat
  BY CommConstants, RankTypes DEF Ranks
<1>2. comms[i].gid \in Nat
  BY <1>1, SMT DEF MakeGid
<1>3. comms[i].gid # NoGid
  BY <1>2, SMT DEF NoGid
<1>4. PICK q \in Ranks : \E k \in 0 .. gidsMade[q] - 1 : comms[i].gid = k * N + q
  BY <1>3 DEF NameInv
<1>5. PICK k \in 0 .. gidsMade[q] - 1 : comms[i].gid = k * N + q
  BY <1>4
<1>6. k \in Nat /\ gidsMade[q] \in Nat /\ k < gidsMade[q]
  BY <1>5, RankTypes, SMT
<1>7. k * N + q = gidsMade[r] * N + r
  BY <1>5 DEF MakeGid
<1>8. k = gidsMade[r] /\ q = r
  <2>1. q \in 0 .. N - 1 /\ r \in 0 .. N - 1
    BY <1>1
  <2> QED
    BY <1>1, <1>6, <1>7, <2>1, GidParts
<1> QED
  BY <1>6, <1>8, SMT

(* What naming changes: the communicator i of rank r has the gid g, which  *)
(* no other has, and a rank that did not name first finds the gid there.   *)
NamingStep(r, i, g, new) ==
  /\ i \in DOMAIN comms /\ Naming(r, i) /\ g \in Gids
  /\ comms[i].gid \in {NoGid, g}
  /\ comms[i].gid = NoGid <=> r = Head(comms[i].group)
  /\ comms' \in Seq(CommRecords) /\ Len(comms') = Len(comms) /\ DOMAIN comms' = DOMAIN comms
  /\ \A j \in DOMAIN comms : /\ comms'[j].group = comms[j].group
                             /\ comms'[j].real = comms[j].real
                             /\ j # i => comms'[j].gid = comms[j].gid
                             /\ comms[j].gid = g => j = i
  /\ comms'[i].gid = g
  /\ new \in Entries /\ new.seq = nextSeq[r] + 1 /\ new.gid = g
  /\ new.group = comms[i].group /\ new.real = comms[i].real
  /\ table' \in [Ranks -> SUBSET Entries]
  /\ table'[r] = table[r] \cup {new}
  /\ at' \in [Ranks -> CallRecords] /\ at'[r] = Idle
  /\ nextSeq' \in [Ranks -> Nat] /\ nextSeq'[r] = nextSeq[r] + 1
  /\ gidsMade' \in [Ranks -> Nat]
  /\ gidsMade'[r] = IF comms[i].gid = NoGid THEN gidsMade[r] + 1 ELSE gidsMade[r]
  /\ comms[i].gid = NoGid => g = gidsMade[r] * N + r
  /\ \A q \in Ranks : q # r => /\ table'[q] = table[q] /\ at'[q] = at[q]
                               /\ nextSeq'[q] = nextSeq[q] /\ gidsMade'[q] = gidsMade[q]
  /\ UNCHANGED <<phase, calls, clock, made, todo, ckpts>>

LEMMA SetGidField ==
  ASSUME NEW A, NEW B, NEW C, NEW x \in [group : A, gid : B, real : C], NEW g \in B,
         NEW c, c = [x EXCEPT !.gid = g]
  PROVE  /\ c \in [group : A, gid : B, real : C]
         /\ c.gid = g /\ c.group = x.group /\ c.real = x.real
  BY SMT

LEMMA NewVirtCommEffect ==
  ASSUME CommInv, NEW r \in Ranks, NEW slot \in 0 .. MaxSlots - 1, NewVirtComm(r, slot)
  PROVE  \E i, g, new : NamingStep(r, i, g, new)
<1> USE DEF CommInv
<1>1. PICK i : i = at[r].id
  OBVIOUS
<1>2. PICK g : g = IF r = Head(comms[i].group) THEN MakeGid(r) ELSE comms[i].gid
  OBVIOUS
<1>3. PICK new : new = [slot |-> slot, seq |-> nextSeq[r] + 1, gid |-> g,
                        group |-> comms[i].group, real |-> comms[i].real]
  OBVIOUS
<1>4. /\ at[r].op = "name" /\ Naming(r, i) /\ i \in DOMAIN comms /\ nextSeq[r] < i
      /\ r \in Members(comms[i].group)
      /\ r = Head(comms[i].group) => comms[i].gid = NoGid
  BY <1>1 DEF NewVirtComm, CallInv, Naming
<1>5. /\ r # Head(comms[i].group) => comms[i].gid # NoGid
      /\ gidsMade' = IF r = Head(comms[i].group) THEN [gidsMade EXCEPT ![r] = @ + 1]
                                                 ELSE gidsMade
      /\ comms' = [comms EXCEPT ![i].gid = g]
      /\ table' = [table EXCEPT ![r] = @ \cup {new}]
      /\ nextSeq' = [nextSeq EXCEPT ![r] = @ + 1]
      /\ at' = [at EXCEPT ![r] = Idle]
      /\ UNCHANGED <<phase, calls, clock, made, todo, ckpts>>
  BY <1>1, <1>2, <1>3 DEF NewVirtComm, Broadcast
<1>6. comms[i].gid = NoGid <=> r = Head(comms[i].group)
  BY <1>4, <1>5
<1>7. g \in Gids /\ comms[i].gid \in {NoGid, g}
  <2>1. CASE r = Head(comms[i].group)
    <3>1. gidsMade[r] \in Nat /\ nextSeq[r] \in Nat /\ gidsMade[r] <= nextSeq[r] + 1
      BY RankTypes DEF CallInv
    <3>2. i \in 1 .. Len(comms) /\ Len(comms) \in Nat /\ Len(comms) <= MaxComms + 1
      BY <1>4, CommTypes DEF TypeOK
    <3>3. gidsMade[r] <= MaxComms + 1
      BY <1>4, <3>1, <3>2, CommConstants, SMT
    <3> QED
      BY <1>2, <1>6, <2>1, <3>1, <3>3, GidFits DEF MakeGid
  <2>2. CASE r # Head(comms[i].group)
    BY <1>2, <1>4, <1>5, <2>2, CommTypes
  <2> QED
    BY <2>1, <2>2
<1>8. \A j \in DOMAIN comms : comms[j].gid = g => j = i
  <2>1. CASE r = Head(comms[i].group)
    BY <1>2, <2>1, MakeGidFresh
  <2>2. CASE r # Head(comms[i].group)
    BY <1>2, <1>4, <1>5, <2>2 DEF NameInv
  <2> QED
    BY <2>1, <2>2
<1>9. /\ comms' \in Seq(CommRecords) /\ Len(comms') = Len(comms) /\ DOMAIN comms' = DOMAIN comms
      /\ \A j \in DOMAIN comms : /\ comms'[j].group = comms[j].group
                                 /\ comms'[j].real = comms[j].real
                                 /\ j # i => comms'[j].gid = comms[j].gid
      /\ comms'[i].gid = g
  <2>1. comms \in Seq(CommRecords) /\ comms[i] \in CommRecords
    BY <1>4, CommTypes DEF TypeOK
  <2>2. PICK c : c = [comms[i] EXCEPT !.gid = g]
    OBVIOUS
  <2>3. /\ c \in CommRecords /\ c.gid = g
        /\ c.group = comms[i].group /\ c.real = comms[i].real
    <3>1. g \in Gids \cup {NoGid}
      BY <1>7
    <3> QED
      BY <2>1, <2>2, <3>1, SetGidField DEF CommRecords
  <2>4. comms' = [comms EXCEPT ![i] = c]
    BY <1>5, <2>2
  <2>5. comms' \in Seq(CommRecords) /\ Len(comms') = Len(comms) /\ DOMAIN comms' = DOMAIN comms
    <3> DEFINE S == CommRecords
    <3> HIDE DEF S
    <3>1. ASSUME comms \in Seq(S), c \in S
          PROVE  /\ comms' \in Seq(S) /\ Len(comms') = Len(comms)
                 /\ DOMAIN comms' = DOMAIN comms
      BY <1>4, <2>4, <3>1, SMT
    <3> QED
      BY <2>1, <2>3, <3>1 DEF S
  <2>6. \A j \in DOMAIN comms : comms'[j] = IF j = i THEN c ELSE comms[j]
    BY <2>4
  <2> QED
    BY <1>4, <2>3, <2>5, <2>6
<1>10. /\ new \in Entries /\ new.seq = nextSeq[r] + 1 /\ new.gid = g
       /\ new.group = comms[i].group /\ new.real = comms[i].real
  <2>1. slot \in Nat /\ nextSeq[r] + 1 \in Nat
    BY RankTypes, SMT
  <2>2. comms[i].group \in Seq(Ranks) /\ comms[i].real \in Nat
    BY <1>4, CommTypes
  <2> QED
    BY <1>3, <1>7, <2>1, <2>2, SMT DEF Entries
<1>11. /\ table' \in [Ranks -> SUBSET Entries]
       /\ table'[r] = table[r] \cup {new}
       /\ at' \in [Ranks -> CallRecords] /\ at'[r] = Idle
       /\ \A q \in Ranks : q # r => table'[q] = table[q] /\ at'[q] = at[q]
  BY <1>5, <1>10, IdleTypes DEF TypeOK
<1>12. /\ nextSeq' \in [Ranks -> Nat] /\ nextSeq'[r] = nextSeq[r] + 1
       /\ gidsMade' \in [Ranks -> Nat]
       /\ gidsMade'[r] = IF comms[i].gid = NoGid THEN gidsMade[r] + 1 ELSE gidsMade[r]
       /\ \A q \in Ranks : q # r => /\ nextSeq'[q] = nextSeq[q]
                                    /\ gidsMade'[q] = gidsMade[q]
  BY <1>5, <1>6, SMT DEF TypeOK
<1>13. comms[i].gid = NoGid => g = gidsMade[r] * N + r
  BY <1>2, <1>6 DEF MakeGid
<1>14. NamingStep(r, i, g, new)
  BY <1>4, <1>5, <1>6, <1>7, <1>8, <1>9, <1>10, <1>11, <1>12, <1>13 DEF NamingStep
<1> QED
  BY <1>14

LEMMA NamingStepKeeps ==
  ASSUME CommInv, NEW r \in Ranks, NEW i, NEW g, NEW new, NamingStep(r, i, g, new)
  PROVE  CommInv'
<1> USE DEF CommInv
<1>1. /\ i \in DOMAIN comms /\ i \in 1 .. Len(comms) /\ Len(comms) \in Nat
      /\ at[r].op = "name" /\ at[r].id = i /\ nextSeq[r] < i
      /\ r \in Members(comms[i].group)
      /\ nextSeq[r] \in Nat /\ gidsMade[r] \in Nat /\ gidsMade[r] <= nextSeq[r] + 1
  BY CommTypes, RankTypes DEF NamingStep, Naming, CallInv
<1>2. g \in Gids /\ g # NoGid
  BY GidTypes DEF NamingStep
<1>3. /\ comms[i].gid \in {NoGid, g} /\ comms'[i].gid = g
      /\ comms[i].gid = NoGid <=> r = Head(comms[i].group)
  BY DEF NamingStep
<1>4. /\ comms' \in Seq(CommRecords) /\ Len(comms') = Len(comms) /\ DOMAIN comms' = DOMAIN comms
      /\ \A j \in DOMAIN comms : /\ comms'[j].group = comms[j].group
                                 /\ comms'[j].real = comms[j].real
                                 /\ j # i => comms'[j].gid = comms[j].gid
                                 /\ comms[j].gid = g => j = i
  BY DEF NamingStep
<1>5. /\ new \in Entries /\ new.seq = nextSeq[r] + 1 /\ new.gid = g
      /\ new.group = comms[i].group /\ new.real = comms[i].real
      /\ table' \in [Ranks -> SUBSET Entries] /\ table'[r] = table[r] \cup {new}
  BY DEF NamingStep
<1>6. /\ at' \in [Ranks -> CallRecords] /\ at'[r] = Idle /\ at'[r].op = "none"
      /\ nextSeq' \in [Ranks -> Nat] /\ nextSeq'[r] = nextSeq[r] + 1
      /\ gidsMade' \in [Ranks -> Nat]
      /\ gidsMade'[r] = IF comms[i].gid = NoGid THEN gidsMade[r] + 1 ELSE gidsMade[r]
      /\ \A q \in Ranks : q # r => /\ table'[q] = table[q] /\ at'[q] = at[q]
                                   /\ nextSeq'[q] = nextSeq[q] /\ gidsMade'[q] = gidsMade[q]
      /\ UNCHANGED <<phase, calls, clock, made, todo, ckpts>>
  BY IdleTypes DEF NamingStep
<1>7. "none" # "name" /\ "none" # "make"
  BY SMT
<1>8. \A q \in Ranks : \A j : Naming(q, j)' <=> Naming(q, j) /\ q # r
  BY <1>6, <1>7 DEF Naming
<1>9. \A j : Naming(r, j) <=> j = i
  BY <1>1 DEF Naming
(* A gid stays, and only i has a new one.                                  *)
<1>10. \A j \in DOMAIN comms : comms[j].gid # NoGid => comms'[j].gid = comms[j].gid
  BY <1>3, <1>4
<1>11. \A j \in DOMAIN comms : comms'[j].gid = g <=> j = i
  BY <1>3, <1>4
<1>12. ASSUME NEW q \in Ranks, NEW e \in table[q]
       PROVE  /\ e \in Entries /\ e.gid # NoGid
              /\ \E j \in DOMAIN comms : /\ comms[j].gid = e.gid /\ comms[j].group = e.group
                                         /\ ~Naming(q, j)
                                         /\ at[q].op = "name" => j < at[q].id
              /\ \A j \in DOMAIN comms : comms'[j].gid = e.gid => comms[j].gid = e.gid
  <2>1. e \in Entries /\ e.gid # NoGid
    BY RankTypes, EntryTypes, GidTypes
  <2>2. PICK j \in DOMAIN comms : /\ comms[j].gid = e.gid /\ comms[j].group = e.group
                                  /\ ~Naming(q, j)
                                  /\ at[q].op = "name" => j < at[q].id
    BY DEF EntryInv
  <2>3. ASSUME NEW k \in DOMAIN comms, comms'[k].gid = e.gid PROVE comms[k].gid = e.gid
    <3>1. CASE k # i
      BY <1>4, <2>3, <3>1
    <3>2. CASE k = i
      BY <1>3, <1>4, <2>2, <2>3, <3>2
    <3> QED
      BY <3>1, <3>2
  <2> QED
    BY <2>1, <2>2, <2>3
<1>13. \A e \in table[r] : e.gid # g
  <2> SUFFICES ASSUME NEW e \in table[r] PROVE e.gid # g
    OBVIOUS
  <2>1. PICK j \in DOMAIN comms : comms[j].gid = e.gid /\ ~Naming(r, j)
    BY <1>12
  <2> QED
    BY <1>4, <1>9, <2>1
<1>14. TypeOK'
  BY <1>4, <1>5, <1>6 DEF TypeOK
<1>15. CallInv'
  <2>1. ASSUME NEW q \in Ranks, at'[q].op = "make"
        PROVE  /\ at'[q].groups \in Splits /\ at'[q].gid # NoGid
               /\ \E j \in DOMAIN comms' :
                    /\ comms'[j].gid = at'[q].gid
                    /\ Involved(at'[q].groups) \subseteq Members(comms'[j].group)
    <3>1. q # r /\ at'[q] = at[q] /\ at[q].op = "make"
      BY <1>6, <1>7, <2>1
    <3>2. at[q].groups \in Splits /\ at[q].gid # NoGid
      BY <3>1 DEF CallInv
    <3>3. PICK j \in DOMAIN comms : /\ comms[j].gid = at[q].gid
                                    /\ Involved(at[q].groups) \subseteq Members(comms[j].group)
      BY <3>1 DEF CallInv
    <3>4. /\ comms'[j].gid = at[q].gid /\ j \in DOMAIN comms'
          /\ Involved(at[q].groups) \subseteq Members(comms'[j].group)
      BY <1>4, <1>10, <3>2, <3>3
    <3> QED
      BY <3>1, <3>2, <3>4
  <2>2. ASSUME NEW q \in Ranks, at'[q].op = "name"
        PROVE  /\ at'[q].id \in DOMAIN comms' /\ nextSeq'[q] < at'[q].id
               /\ q \in Members(comms'[at'[q].id].group)
               /\ q = Head(comms'[at'[q].id].group) => comms'[at'[q].id].gid = NoGid
    <3>1. /\ q # r /\ at'[q] = at[q] /\ at[q].op = "name" /\ nextSeq'[q] = nextSeq[q]
      BY <1>6, <1>7, <2>2
    <3>2. /\ at[q].id \in DOMAIN comms /\ nextSeq[q] < at[q].id
          /\ q \in Members(comms[at[q].id].group)
          /\ q = Head(comms[at[q].id].group) => comms[at[q].id].gid = NoGid
      BY <3>1 DEF CallInv
    <3>3. comms'[at[q].id].group = comms[at[q].id].group
      BY <1>4, <3>2
    <3>4. ASSUME q = Head(comms[at[q].id].group) PROVE comms'[at[q].id].gid = NoGid
      <4>1. at[q].id # i
        BY <1>3, <3>1, <3>2, <3>4
      <4> QED
        BY <1>4, <3>2, <3>4, <4>1
    <3> QED
      BY <1>4, <3>1, <3>2, <3>3, <3>4
  <2>3. ASSUME NEW q \in Ranks
        PROVE  nextSeq'[q] <= Len(comms') /\ gidsMade'[q] <= nextSeq'[q] + 1
    <3>1. CASE q = r
      <4>1. /\ nextSeq'[q] = nextSeq[r] + 1 /\ Len(comms') = Len(comms)
            /\ gidsMade'[q] = gidsMade[r] + 1 \/ gidsMade'[q] = gidsMade[r]
        BY <1>4, <1>6, <3>1
      <4>2. /\ i \in Nat /\ i <= Len(comms) /\ Len(comms) \in Nat
            /\ nextSeq[r] \in Nat /\ gidsMade[r] \in Nat
            /\ nextSeq[r] < i /\ gidsMade[r] <= nextSeq[r] + 1
        BY <1>1, SMT
      <4> HIDE DEF CommInv
      <4> QED
        BY <4>1, <4>2, SMT
    <3>2. CASE q # r
      BY <1>4, <1>6, <3>2 DEF CallInv
    <3> QED
      BY <3>1, <3>2
  <2> QED
    BY <2>1, <2>2, <2>3 DEF CallInv
<1>16. NameInv'
  <2>1. ASSUME NEW j \in DOMAIN comms', comms'[j].gid = NoGid,
               NEW q \in Members(comms'[j].group)
        PROVE  Naming(q, j)'
    <3>1. j \in DOMAIN comms /\ j # i /\ comms[j].gid = NoGid /\ q \in Members(comms[j].group)
      BY <1>2, <1>3, <1>4, <2>1
    <3>2. q \in Ranks /\ Naming(q, j)
      BY <3>1, CommTypes DEF NameInv
    <3> QED
      BY <1>8, <1>9, <3>1, <3>2
  <2>2. ASSUME NEW j \in DOMAIN comms', comms'[j].gid # NoGid
        PROVE  \E q \in Ranks : \E k \in 0 .. gidsMade'[q] - 1 : comms'[j].gid = k * N + q
    <3>1. j \in DOMAIN comms
      BY <1>4
    <3>2. CASE comms[j].gid # NoGid
      <4>1. comms'[j].gid = comms[j].gid
        BY <1>10, <3>1, <3>2
      <4>2. PICK q \in Ranks : \E k \in 0 .. gidsMade[q] - 1 : comms[j].gid = k * N + q
        BY <3>1, <3>2 DEF NameInv
      <4>3. PICK k \in 0 .. gidsMade[q] - 1 : comms[j].gid = k * N + q
        BY <4>2
      <4>4. gidsMade'[q] = gidsMade[q] \/ gidsMade'[q] = gidsMade[q] + 1
        BY <1>6
      <4>5. k \in 0 .. gidsMade'[q] - 1
        <5>1. gidsMade[q] \in Nat
          BY RankTypes
        <5> HIDE DEF CommInv
        <5> QED
          BY <4>3, <4>4, <5>1, SMT
      <4> QED
        BY <4>1, <4>3, <4>5
    <3>3. CASE comms[j].gid = NoGid
      <4>1. j = i
        BY <1>4, <2>2, <3>1, <3>3
      <4>2. g = gidsMade[r] * N + r
        BY <3>3, <4>1 DEF NamingStep
      <4>3. gidsMade[r] \in 0 .. gidsMade'[r] - 1
        <5>1. gidsMade[r] \in Nat /\ gidsMade'[r] = gidsMade[r] + 1
          BY <1>1, <1>6, <3>3, <4>1
        <5> HIDE DEF CommInv
        <5> QED
          BY <5>1, SMT
      <4> QED
        BY <1>3, <4>1, <4>2, <4>3
    <3> QED
      BY <3>2, <3>3
  <2>3. ASSUME NEW j \in DOMAIN comms', NEW k \in DOMAIN comms',
               comms'[j].gid = comms'[k].gid, comms'[j].gid # NoGid
        PROVE  j = k
    <3>1. CASE j = i \/ k = i
      BY <1>4, <1>11, <2>3, <3>1
    <3>2. CASE j # i /\ k # i
      BY <1>4, <2>3, <3>2 DEF NameInv
    <3> QED
      BY <3>1, <3>2
  <2> QED
    BY <2>1, <2>2, <2>3 DEF NameInv
<1>17. EntryInv'
  <2>1. ASSUME NEW q \in Ranks, NEW e \in table'[q]
        PROVE  /\ \E j \in DOMAIN comms' : /\ comms'[j].gid = e.gid /\ comms'[j].group = e.group
                                           /\ ~Naming(q, j)'
                                           /\ at'[q].op = "name" => j < at'[q].id
               /\ q \in Members(e.group) /\ e.seq <= nextSeq'[q]
    <3>1. CASE e \in table[q]
      <4>1. PICK j \in DOMAIN comms : /\ comms[j].gid = e.gid /\ comms[j].group = e.group
                                      /\ ~Naming(q, j)
                                      /\ at[q].op = "name" => j < at[q].id
        BY <1>12, <3>1
      <4>2. comms'[j].gid = e.gid /\ comms'[j].group = e.group /\ j \in DOMAIN comms'
        BY <1>4, <1>10, <1>12, <3>1, <4>1
      <4>3. ~Naming(q, j)' /\ (at'[q].op = "name" => j < at'[q].id)
        BY <1>6, <1>7, <1>8, <4>1
      <4>4. q \in Members(e.group) /\ e.seq <= nextSeq[q] /\ e.seq \in Nat /\ nextSeq[q] \in Nat
        BY <1>12, <3>1, EntryTypes, RankTypes DEF EntryInv
      <4>5. nextSeq'[q] = nextSeq[q] \/ nextSeq'[q] = nextSeq[q] + 1
        BY <1>6
      <4>6. e.seq <= nextSeq'[q]
        BY <4>4, <4>5, SMT
      <4> QED
        BY <4>2, <4>3, <4>4, <4>6
    <3>2. CASE e \notin table[q]
      <4>1. q = r /\ e = new
        BY <1>5, <1>6, <3>2
      <4>2. /\ comms'[i].gid = e.gid /\ comms'[i].group = e.group /\ i \in DOMAIN comms'
            /\ ~Naming(q, i)' /\ (at'[q].op = "name" => i < at'[q].id)
        BY <1>1, <1>3, <1>4, <1>5, <1>6, <1>7, <1>8, <4>1
      <4>3. q \in Members(e.group) /\ e.seq = nextSeq'[q]
        BY <1>1, <1>5, <1>6, <4>1
      <4>4. e.seq <= nextSeq'[q]
        BY <1>1, <1>5, <4>1, <4>3, SMT
      <4> QED
        BY <4>2, <4>3, <4>4
    <3> QED
      BY <3>1, <3>2
  (* The new entry comes after those that the rank has.                    *)
  <2>2. ASSUME NEW f \in table[r]
        PROVE  /\ f.seq < new.seq /\ f.seq \in Nat /\ new.seq \in Nat
               /\ \A j \in DOMAIN comms : comms'[j].gid = f.gid => j < i
    <3>1. f.seq <= nextSeq[r] /\ f.seq \in Nat
      BY <1>12, EntryTypes DEF EntryInv
    <3>2. f.seq < new.seq /\ new.seq \in Nat
      BY <1>1, <1>5, <3>1, SMT
    <3>3. PICK j \in DOMAIN comms : comms[j].gid = f.gid /\ j < i
      BY <1>1, <1>12
    <3>4. ASSUME NEW k \in DOMAIN comms, comms'[k].gid = f.gid PROVE k < i
      <4>1. comms[k].gid = f.gid /\ f.gid # NoGid
        BY <1>12, <3>4
      <4>2. k = j
        BY <3>3, <4>1 DEF NameInv
      <4> QED
        BY <3>3, <4>2
    <3> QED
      BY <3>1, <3>2, <3>4
  <2>3. ASSUME NEW q \in Ranks, NEW e \in table'[q], NEW f \in table'[q], e.seq = f.seq
        PROVE  e = f
    <3>1. CASE e \in table[q] /\ f \in table[q]
      BY <2>3, <3>1, SeqOfEntry
    <3>2. CASE e \notin table[q] \/ f \notin table[q]
      <4>1. q = r /\ (e = new \/ e \in table[r]) /\ (f = new \/ f \in table[r])
        BY <1>5, <1>6, <3>2
      <4>2. \A x \in table[r] : x.seq # new.seq
        BY <2>2, SMT
      <4> QED
        BY <2>3, <3>2, <4>1, <4>2
    <3> QED
      BY <3>1, <3>2
  <2>4. ASSUME NEW q \in Ranks, NEW e \in table'[q], NEW f \in table'[q],
               NEW j \in DOMAIN comms', NEW k \in DOMAIN comms',
               comms'[j].gid = e.gid, comms'[k].gid = f.gid
        PROVE  j < k <=> e.seq < f.seq
    <3>1. j \in DOMAIN comms /\ k \in DOMAIN comms /\ j \in Nat /\ k \in Nat
      BY <1>1, <1>4, CommTypes, SMT
    <3>2. CASE e \in table[q] /\ f \in table[q]
      <4>1. comms[j].gid = e.gid /\ comms[k].gid = f.gid
        BY <1>12, <2>4, <3>1, <3>2
      <4> QED
        BY <3>1, <3>2, <4>1 DEF EntryInv
    <3>3. CASE e \notin table[q] \/ f \notin table[q]
      <4>1. q = r /\ (e = new \/ e \in table[r]) /\ (f = new \/ f \in table[r])
        BY <1>5, <1>6, <3>3
      <4>2. (e = new => j = i) /\ (f = new => k = i)
        BY <1>5, <1>11, <2>4, <3>1
      <4>3. CASE e = new /\ f = new
        <5>1. j = k /\ e.seq = f.seq /\ e.seq = nextSeq[r] + 1 /\ nextSeq[r] \in Nat
          BY <4>2, <4>3, <1>1, <1>5
        <5> HIDE DEF CommInv
        <5> QED
          BY <3>1, <5>1, SMT
      <4>4. CASE e = new /\ f \in table[r]
        <5>1. k < i /\ f.seq < new.seq /\ f.seq \in Nat /\ new.seq \in Nat
          BY <2>2, <2>4, <3>1, <4>4
        <5> QED
          BY <1>1, <3>1, <4>2, <4>4, <5>1, SMT
      <4>5. CASE e \in table[r] /\ f = new
        <5>1. j < i /\ e.seq < new.seq
          BY <2>2, <2>4, <3>1, <4>5
        <5> QED
          BY <4>2, <4>5, <5>1
      <4> QED
        BY <3>3, <4>1, <4>3, <4>4, <4>5
    <3> QED
      BY <3>2, <3>3
  <2> QED
    <3>1. \A q \in Ranks : \A e \in table'[q] : EntryPlaced(q, e)'
      BY <2>1 DEF EntryPlaced, CommOf
    <3>2. \A q \in Ranks : \A e, f \in table'[q] : InOrder(e, f)'
      BY <2>4 DEF InOrder
    <3>3. NoEntryTwice
      BY <2>3 DEF NoEntryTwice
    <3> QED
      BY <3>1, <3>2, <3>3, EntryNext
<1>18. ClockInv'
  <2>1. \A q \in Ranks, h \in Gids : /\ Freed(q, h)' <=> Freed(q, h)
                                     /\ clock'[q][h] <= Len(calls'[h])
    BY <1>6 DEF Freed, ClockInv
  <2>2. ASSUME NEW q \in Ranks, NEW h \in Gids,
               \A j \in DOMAIN comms' : comms'[j].gid = h => Naming(q, j)'
        PROVE  clock'[q][h] = 0
    <3>1. h # NoGid
      BY GidTypes
    <3>2. \A j \in DOMAIN comms : comms[j].gid = h => Naming(q, j)
      BY <1>4, <1>8, <1>10, <2>2, <3>1
    <3> QED
      BY <1>6, <3>2 DEF ClockInv
  <2>3. ASSUME NEW q \in Ranks, NEW j \in DOMAIN comms, comms'[j].gid # NoGid,
               q \in Members(comms'[j].group)
        PROVE  (\E e \in table'[q] : e.gid = comms'[j].gid) <=>
                 ~Naming(q, j)' /\ ~Freed(q, comms[j].gid)'
    <3>1. q \in Members(comms[j].group)
      BY <1>4, <2>3
    <3>2. CASE j # i
      <4>1. comms'[j].gid = comms[j].gid /\ comms[j].gid # g /\ comms[j].gid \in Gids
        BY <1>4, <2>3, <3>2, CommTypes
      <4>2. (\E e \in table[q] : e.gid = comms[j].gid) <=>
              ~Naming(q, j) /\ ~Freed(q, comms[j].gid)
        BY <2>3, <3>1, <4>1 DEF ClockInv
      <4>3. Naming(q, j)' <=> Naming(q, j)
        BY <1>8, <1>9, <3>2
      <4>4. (\E e \in table'[q] : e.gid = comms[j].gid) <=>
              (\E e \in table[q] : e.gid = comms[j].gid)
        BY <1>5, <1>6, <4>1
      <4>5. Freed(q, comms[j].gid)' <=> Freed(q, comms[j].gid)
        BY <2>1, <4>1
      <4> QED
        BY <4>1, <4>2, <4>3, <4>4, <4>5
    <3>3. CASE j = i /\ q = r
      <4>1. clock[r][g] = 0
        BY <1>2, <1>4, <1>9 DEF ClockInv
      <4>2. ~Freed(r, g)
        BY <4>1, SMT DEF Freed
      <4>3. ~Freed(q, comms[j].gid)'
        BY <1>2, <1>3, <2>1, <3>3, <4>2
      <4> QED
        BY <1>3, <1>5, <1>8, <3>3, <4>3
    <3>4. CASE j = i /\ q # r
      <4>1. Naming(q, i)' <=> Naming(q, i)
        BY <1>8, <3>4
      <4>2. CASE comms[i].gid = NoGid
        <5>1. Naming(q, i)
          BY <1>1, <3>1, <3>4, <4>2 DEF NameInv
        <5>2. \A e \in table[q] : e.gid # g
          <6> SUFFICES ASSUME NEW e \in table[q] PROVE e.gid # g
            OBVIOUS
          <6>1. PICK k \in DOMAIN comms : comms[k].gid = e.gid
            BY <1>12
          <6> QED
            BY <1>2, <1>4, <4>2, <6>1
        <5> QED
          BY <1>3, <1>6, <3>4, <4>1, <5>1, <5>2
      <4>3. CASE comms[i].gid = g
        <5>1. (\E e \in table[q] : e.gid = g) <=> ~Naming(q, i) /\ ~Freed(q, g)
          BY <1>1, <1>2, <3>1, <3>4, <4>3 DEF ClockInv
        <5>2. Freed(q, comms[j].gid)' <=> Freed(q, g)
          BY <1>2, <1>3, <2>1, <3>4
        <5> QED
          BY <1>3, <1>6, <3>4, <4>1, <5>1, <5>2
      <4> QED
        BY <1>3, <4>2, <4>3
    <3> QED
      BY <3>2, <3>3, <3>4
  <2> QED
    BY <1>4, <2>1, <2>2, <2>3 DEF ClockInv
<1>19. LibraryInv'
  <2>1. \A j \in DOMAIN comms' : comms'[j].real <= made' /\ comms'[j].real # 0
    BY <1>4, <1>6 DEF LibraryInv
  <2>2. \A j, k \in DOMAIN comms' : comms'[j].real = comms'[k].real => j = k
    BY <1>4 DEF LibraryInv
  <2> QED
    BY <2>1, <2>2 DEF LibraryInv
(* An entry has the gid of the new one if and only if it has its library   *)
(* communicator.                                                           *)
<1>20. ASSUME NEW q \in Ranks, NEW e \in table[q]
       PROVE  e.gid = g <=> e.real = comms[i].real
  <2>1. comms[i].gid = e.gid <=> comms[i].real = e.real
    BY <1>1 DEF RealInv
  <2>2. CASE comms[i].gid = g
    BY <2>1, <2>2
  <2>3. CASE comms[i].gid = NoGid
    <3>1. PICK j \in DOMAIN comms : comms[j].gid = e.gid
      BY <1>12
    <3>2. e.gid # g /\ e.gid # NoGid
      <4>1. e.gid # NoGid
        BY <1>12
      <4>2. ASSUME e.gid = g PROVE FALSE
        BY <1>2, <1>4, <2>3, <3>1, <4>2
      <4> QED
        BY <4>1, <4>2
    <3> QED
      BY <2>1, <2>3, <3>2
  <2> QED
    BY <1>3, <2>2, <2>3
<1>21. RealInv'
  <2>1. \A q \in Ranks : \A e \in table'[q] : e \in table[q] \/ e = new
    BY <1>5, <1>6
  <2>2. ASSUME NEW s \in Ranks, NEW e \in table'[s] PROVE e.real <= made'
    <3>1. CASE e \in table[s]
      BY <1>6, <3>1 DEF RealInv
    <3>2. CASE e = new
      BY <1>1, <1>5, <1>6, <3>2 DEF LibraryInv
    <3> QED
      BY <2>1, <3>1, <3>2
  <2>3. ASSUME NEW s \in Ranks, NEW e \in table'[s], NEW q \in Ranks, at'[q].op = "name"
        PROVE  comms'[at'[q].id].gid = e.gid <=> comms'[at'[q].id].real = e.real
    <3>1. at'[q] = at[q] /\ at[q].op = "name"
      BY <1>6, <1>7, <2>3
    <3>2. PICK j \in DOMAIN comms : j = at[q].id
      BY <3>1 DEF CallInv
    <3>3. comms'[j].real = comms[j].real
      BY <1>4
    <3>4. CASE e \in table[s]
      <4>1. CASE j = i
        <5>1. e.gid = g <=> e.real = comms[i].real
          BY <1>20, <3>4
        <5> QED
          BY <1>3, <3>1, <3>2, <3>3, <4>1, <5>1
      <4>2. CASE j # i
        <5>1. comms[j].gid = e.gid <=> comms[j].real = e.real
          BY <3>1, <3>2, <3>4 DEF RealInv
        <5> QED
          BY <1>4, <3>1, <3>2, <3>3, <4>2, <5>1
      <4> QED
        BY <4>1, <4>2
    <3>5. CASE e = new
      <4>1. comms'[j].gid = g <=> j = i
        BY <1>11
      <4>2. comms[j].real = comms[i].real <=> j = i
        BY <1>1 DEF LibraryInv
      <4> QED
        BY <1>5, <3>1, <3>2, <3>3, <3>5, <4>1, <4>2
    <3> QED
      BY <2>1, <3>4, <3>5
  <2>4. ASSUME NEW s \in Ranks, NEW e \in table'[s], NEW q \in Ranks, NEW f \in table'[q],
               e.real # 0, f.real # 0
        PROVE  e.gid = f.gid <=> e.real = f.real
    <3>1. CASE e \in table[s] /\ f \in table[q]
      BY <2>4, <3>1 DEF RealInv
    <3>2. CASE e = new /\ f = new
      BY <3>2
    <3>3. CASE e = new /\ f \in table[q]
      BY <1>5, <1>20, <3>3
    <3>4. CASE e \in table[s] /\ f = new
      BY <1>5, <1>20, <3>4
    <3> QED
      BY <2>1, <3>1, <3>2, <3>3, <3>4
  <2> QED
    BY <2>2, <2>3, <2>4, SMT DEF RealInv
<1>22. TodoInv'
  <2>1. phase # "restart"
    <3>1. at[r] # Idle
      BY <1>1, IdleTypes, SMT
    <3> QED
      BY <3>1 DEF TodoInv
  <2>2. phase = "run" /\ phase' = phase
    BY <1>6, <2>1 DEF TypeOK
  <2>3. \A q \in Ranks : todo'[q] = {} /\ \A e \in table[q] : e.real # 0
    BY <1>6, <2>2 DEF TodoInv
  <2>4. new.real # 0
    BY <1>1, <1>5 DEF LibraryInv
  <2>5. \A q \in Ranks : \A e \in table'[q] : e.real # 0
    BY <1>5, <1>6, <2>3, <2>4
  <2> QED
    BY <2>1, <2>2, <2>3, <2>5 DEF TodoInv
<1> QED
  BY <1>14, <1>15, <1>16, <1>17, <1>18, <1>19, <1>21, <1>22

LEMMA NewVirtCommKeeps ==
  ASSUME CommInv, NEW r \in Ranks, NEW slot \in 0 .. MaxSlots - 1, NewVirtComm(r, slot)
  PROVE  CommInv'
  BY NewVirtCommEffect, NamingStepKeeps

-----------------------------------------------------------------------------
(* The restart.                                                            *)

(* A step that changes the library's communicators of the entries only: no *)
(* entry is new, none is lost, and none is doubled.                        *)
NoEntryNew ==
  \A q \in Ranks : \A f \in table'[q] :
    \E e \in table[q] : e.seq = f.seq /\ e.gid = f.gid /\ e.group = f.group
NoEntryLost == \A q \in Ranks : \A e \in table[q] : \E f \in table'[q] : f.gid = e.gid

LEMMA EntriesStay ==
  ASSUME CommInv, UNCHANGED <<at, calls, clock, gidsMade, nextSeq, comms>>,
         NoEntryNew, NoEntryLost, NoEntryTwice
  PROVE  CallInv' /\ NameInv' /\ EntryInv' /\ ClockInv'
<1> USE DEF CommInv
<1>1. \A q, j : Naming(q, j)' <=> Naming(q, j)
  BY DEF Naming
<1>2. \A q, g : Freed(q, g)' <=> Freed(q, g)
  BY DEF Freed
<1>3. CallInv'
  BY DEF CallInv
<1>4. NameInv'
  BY <1>1, SMT DEF NameInv
<1>5. EntryInv'
  <2>1. ASSUME NEW q \in Ranks, NEW f \in table'[q]
        PROVE  /\ \E i \in DOMAIN comms' : /\ comms'[i].gid = f.gid /\ comms'[i].group = f.group
                                           /\ ~Naming(q, i)'
                                           /\ at'[q].op = "name" => i < at'[q].id
               /\ q \in Members(f.group) /\ f.seq <= nextSeq'[q]
    <3>1. PICK e \in table[q] : e.seq = f.seq /\ e.gid = f.gid /\ e.group = f.group
      BY DEF NoEntryNew
    <3>2. PICK i \in DOMAIN comms : /\ comms[i].gid = e.gid /\ comms[i].group = e.group
                                    /\ ~Naming(q, i)
                                    /\ at[q].op = "name" => i < at[q].id
      BY DEF EntryInv
    <3>3. q \in Members(e.group) /\ e.seq <= nextSeq[q]
      BY DEF EntryInv
    <3> QED
      BY <1>1, <3>1, <3>2, <3>3
  <2>2. ASSUME NEW q \in Ranks, NEW x \in table'[q], NEW y \in table'[q],
               NEW i \in DOMAIN comms', NEW j \in DOMAIN comms',
               comms'[i].gid = x.gid, comms'[j].gid = y.gid
        PROVE  i < j <=> x.seq < y.seq
    <3>1. PICK e \in table[q] : e.seq = x.seq /\ e.gid = x.gid
      BY DEF NoEntryNew
    <3>2. PICK f \in table[q] : f.seq = y.seq /\ f.gid = y.gid
      BY DEF NoEntryNew
    <3>3. /\ i \in DOMAIN comms /\ j \in DOMAIN comms
          /\ comms[i].gid = e.gid /\ comms[j].gid = f.gid
      BY <2>2, <3>1, <3>2
    <3>4. i < j <=> e.seq < f.seq
      BY <3>3 DEF EntryInv
    <3> QED
      BY <3>1, <3>2, <3>4
  <2>3. ASSUME NEW q \in Ranks, NEW x \in table'[q], NEW y \in table'[q], x.seq = y.seq
        PROVE  x = y
    BY <2>3 DEF NoEntryTwice
  <2> QED
    <3>1. \A q \in Ranks : \A e \in table'[q] : EntryPlaced(q, e)'
      BY <2>1 DEF EntryPlaced, CommOf
    <3>2. \A q \in Ranks : \A e, f \in table'[q] : InOrder(e, f)'
      BY <2>2 DEF InOrder
    <3> QED
      BY <3>1, <3>2, EntryNext
<1>6. ClockInv'
  <2>1. ASSUME NEW q \in Ranks, NEW g
        PROVE  (\E f \in table'[q] : f.gid = g) <=> (\E e \in table[q] : e.gid = g)
    <3>1. ASSUME NEW f \in table'[q], f.gid = g PROVE \E e \in table[q] : e.gid = g
      BY <3>1 DEF NoEntryNew
    <3>2. ASSUME NEW e \in table[q], e.gid = g PROVE \E f \in table'[q] : f.gid = g
      BY <3>2 DEF NoEntryLost
    <3> QED
      BY <3>1, <3>2
  <2>2. ASSUME NEW q \in Ranks, NEW i \in DOMAIN comms', comms'[i].gid # NoGid,
               q \in Members(comms'[i].group)
        PROVE  (\E e \in table'[q] : e.gid = comms'[i].gid) <=>
                 ~Naming(q, i)' /\ ~Freed(q, comms[i].gid)'
    <3>1. (\E e \in table[q] : e.gid = comms[i].gid) <=>
            ~Naming(q, i) /\ ~Freed(q, comms[i].gid)
      BY <2>2 DEF ClockInv
    <3>2. Freed(q, comms[i].gid)' <=> Freed(q, comms[i].gid)
      BY DEF Freed
    <3>3. (\E e \in table'[q] : e.gid = comms[i].gid) <=>
            (\E e \in table[q] : e.gid = comms[i].gid)
      BY <2>1
    <3>4. comms' = comms /\ (Naming(q, i)' <=> Naming(q, i))
      BY <1>1
    <3> QED
      BY <3>1, <3>2, <3>3, <3>4
  <2>3. ASSUME NEW q \in Ranks, NEW g \in Gids PROVE clock'[q][g] <= Len(calls'[g])
    BY DEF ClockInv
  <2>4. ASSUME NEW q \in Ranks, NEW g \in Gids,
               \A i \in DOMAIN comms' : comms'[i].gid = g => Naming(q, i)'
        PROVE  clock'[q][g] = 0
    <3>1. \A i \in DOMAIN comms : comms[i].gid = g => Naming(q, i)
      BY <1>1, <2>4
    <3> QED
      BY <3>1 DEF ClockInv
  <2> QED
    BY <2>2, <2>3, <2>4 DEF ClockInv
<1> QED
  BY <1>3, <1>4, <1>5, <1>6

(* The members agree on which communicators they have when the clocks      *)
(* agree: the clock of a communicator counts its MPI_Comm_free.            *)
LEMMA DrainedAgree ==
  ASSUME CommInv, Drained, NEW r \in Ranks, NEW e \in table[r], NEW s \in Members(e.group)
  PROVE  s \in Ranks /\ \E f \in table[s] : f.gid = e.gid
<1> USE DEF CommInv
<1>1. PICK i \in DOMAIN comms : comms[i].gid = e.gid /\ comms[i].group = e.group
  BY CommOfEntry
<1>2. e.gid \in Gids /\ e.gid # NoGid /\ s \in Ranks
  BY RankTypes, EntryTypes, GidTypes
<1>3. r \in Members(e.group)
  BY DEF EntryInv
<1>4. ~Freed(r, e.gid)
  BY <1>1, <1>2, <1>3 DEF ClockInv
<1>5. clock[r][e.gid] = clock[s][e.gid]
  <2>1. r \in Members(comms[i].group) /\ s \in Members(comms[i].group)
    BY <1>1, <1>3
  <2>2. clock[r][comms[i].gid] = clock[s][comms[i].gid]
    BY <2>1 DEF Drained
  <2> QED
    BY <1>1, <2>2
<1>6. ~Freed(s, e.gid)
  BY <1>4, <1>5 DEF Freed
<1>7. ~Naming(s, i)
  <2>1. at[s].op = "none"
    BY <1>2, IdleTypes DEF Drained
  <2> QED
    BY <2>1, SMT DEF Naming
<1> QED
  <2>1. HasOrFreed(s, i)
    BY <1>2, HeldOrFreed
  <2> QED
    BY <1>1, <1>2, <1>6, <1>7, <2>1 DEF HasOrFreed

(* An entry with another communicator of the library.                      *)
LEMMA SetReal ==
  ASSUME NEW e \in Entries, NEW n \in Nat, NEW f, f = [e EXCEPT !.real = n]
  PROVE  /\ f \in Entries /\ f.real = n
         /\ f.slot = e.slot /\ f.seq = e.seq /\ f.gid = e.gid /\ f.group = e.group
<1> DEFINE A == Seq(Ranks)  B == Gids
<1> HIDE DEF A, B
<1>1. ASSUME e \in [slot : Nat, seq : Nat, gid : B, group : A, real : Nat]
      PROVE  /\ f \in [slot : Nat, seq : Nat, gid : B, group : A, real : Nat] /\ f.real = n
             /\ f.slot = e.slot /\ f.seq = e.seq /\ f.gid = e.gid /\ f.group = e.group
  BY <1>1, SMT
<1> QED
  BY <1>1 DEF Entries, A, B

LEMMA RestartKeeps ==
  ASSUME CommInv, Restart
  PROVE  CommInv'
<1> USE DEF CommInv
<1>1. /\ phase' = "restart" /\ phase' # "run" /\ Drained /\ todo' = table' /\ ckpts' = ckpts + 1
      /\ UNCHANGED <<at, calls, clock, gidsMade, nextSeq, comms, made>>
      /\ \A q \in Ranks : at[q] = Idle
  BY SMT DEF Restart, Drained
<1>2. \A q \in Ranks : table'[q] = {[e EXCEPT !.real = 0] : e \in table[q]}
  BY DEF Restart
<1>3. ASSUME NEW q \in Ranks, NEW f \in table'[q]
      PROVE  \E e \in table[q] : /\ f = [e EXCEPT !.real = 0] /\ f \in Entries /\ f.real = 0
                                 /\ e.seq = f.seq /\ e.gid = f.gid /\ e.group = f.group
  <2>1. PICK e \in table[q] : f = [e EXCEPT !.real = 0]
    <3>1. f \in {[e EXCEPT !.real = 0] : e \in table[q]}
      BY <1>2
    <3> QED
      BY <3>1
  <2>2. e \in Entries /\ 0 \in Nat
    BY RankTypes, SMT
  <2>3. /\ f \in Entries /\ f.real = 0
        /\ f.seq = e.seq /\ f.gid = e.gid /\ f.group = e.group
    <3>1. PICK g : g = [e EXCEPT !.real = 0]
      OBVIOUS
    <3>2. /\ g \in Entries /\ g.real = 0
          /\ g.seq = e.seq /\ g.gid = e.gid /\ g.group = e.group
      BY <2>2, <3>1, SetReal, SMT
    <3>3. f = g
      BY <2>1, <3>1
    <3> QED
      BY <3>2, <3>3
  <2> QED
    BY <2>1, <2>3
<1>4. ASSUME NEW q \in Ranks, NEW e \in table[q]
      PROVE  \E f \in table'[q] : f.gid = e.gid
  <2>1. PICK f : f = [e EXCEPT !.real = 0]
    OBVIOUS
  <2>2. e \in Entries /\ 0 \in Nat
    BY RankTypes, SMT
  <2>3. f.gid = e.gid
    BY <2>1, <2>2, SetReal, SMT
  <2>4. f \in table'[q]
    BY <1>2, <2>1
  <2> QED
    BY <2>3, <2>4
<1>5. NoEntryNew
  BY <1>3 DEF NoEntryNew
<1>6. NoEntryLost
  BY <1>4 DEF NoEntryLost
<1>7. NoEntryTwice
  <2> SUFFICES ASSUME NEW q \in Ranks, NEW x \in table'[q], NEW y \in table'[q], x.seq = y.seq
               PROVE  x = y
    BY DEF NoEntryTwice
  <2>0. \A z \in table'[q] : \E e \in table[q] : z = [e EXCEPT !.real = 0] /\ e.seq = z.seq
    <3> TAKE z \in table'[q]
    <3>1. PICK e \in table[q] : /\ z = [e EXCEPT !.real = 0] /\ z \in Entries /\ z.real = 0
                                /\ e.seq = z.seq /\ e.gid = z.gid /\ e.group = z.group
      BY <1>3
    <3> QED
      BY <3>1
  <2>1. PICK e \in table[q] : x = [e EXCEPT !.real = 0] /\ e.seq = x.seq
    BY <2>0
  <2>2. PICK f \in table[q] : y = [f EXCEPT !.real = 0] /\ f.seq = y.seq
    BY <2>0
  <2>3. e = f
    BY <2>1, <2>2, SeqOfEntry
  <2> QED
    BY <2>1, <2>2, <2>3
<1>8. CallInv' /\ NameInv' /\ EntryInv' /\ ClockInv'
  BY <1>1, <1>5, <1>6, <1>7, EntriesStay
<1>9. TypeOK'
  <2>1. \A q \in Ranks : table'[q] \subseteq Entries
    BY <1>3
  <2>2. table' = [q \in Ranks |-> {[e EXCEPT !.real = 0] : e \in table[q]}]
    BY DEF Restart
  <2>3. table' \in [Ranks -> SUBSET Entries]
    <3>1. table' = [q \in Ranks |-> table'[q]]
      BY <2>2
    <3> QED
      BY <2>1, <3>1
  <2>4. ckpts' \in Nat
    BY <1>1, SMT DEF TypeOK
  <2> QED
    BY <1>1, <2>3, <2>4 DEF TypeOK
<1>10. LibraryInv'
  BY <1>1 DEF LibraryInv
<1>11. RealInv'
  <2>1. \A q \in Ranks : at'[q].op # "name"
    BY <1>1, IdleTypes, SMT
  <2>2. 0 <= made'
    BY <1>1, SMT DEF TypeOK
  <2>3. \A q \in Ranks : \A e \in table'[q] : e.real = 0
    BY <1>3
  <2> QED
    BY <2>1, <2>2, <2>3 DEF RealInv
<1>12. TodoInv'
  <2>1. \A q \in Ranks : \A e \in table'[q] : e.real = 0
    BY <1>3
  <2>2. \A q \in Ranks : todo'[q] = {e \in table'[q] : e.real = 0}
    BY <1>1, <2>1
  <2>3. ASSUME NEW q \in Ranks, NEW f \in todo'[q], NEW s \in Members(f.group)
        PROVE  \E x \in todo'[s] : x.gid = f.gid
    <3>1. PICK e \in table[q] : e.gid = f.gid /\ e.group = f.group
      BY <1>1, <1>3
    <3>2. s \in Ranks /\ \E y \in table[s] : y.gid = e.gid
      BY <1>1, <3>1, DrainedAgree
    <3>3. PICK y \in table[s] : y.gid = e.gid
      BY <3>2
    <3>4. \E x \in table'[s] : x.gid = y.gid
      BY <1>4, <3>2, <3>3
    <3> QED
      BY <1>1, <3>1, <3>3, <3>4
  <2> QED
    BY <1>1, <2>2, <2>3 DEF TodoInv
<1> QED
  BY <1>8, <1>9, <1>10, <1>11, <1>12

(* Entries with the same gid, on any ranks, have the same members.         *)
LEMMA SameMembers ==
  ASSUME CommInv, NEW r \in Ranks, NEW s \in Ranks, NEW e \in table[r], NEW f \in table[s],
         e.gid = f.gid
  PROVE  e.group = f.group /\ s \in Members(e.group)
<1> USE DEF CommInv
<1>1. PICK i \in DOMAIN comms : comms[i].gid = e.gid /\ comms[i].group = e.group
  BY CommOfEntry
<1>2. PICK j \in DOMAIN comms : comms[j].gid = f.gid /\ comms[j].group = f.group
  BY CommOfEntry
<1>3. e.gid # NoGid
  BY RankTypes, EntryTypes, GidTypes
<1>4. i = j
  BY <1>1, <1>2, <1>3 DEF NameInv
<1>5. s \in Members(f.group)
  BY DEF EntryInv
<1> QED
  BY <1>1, <1>2, <1>4, <1>5

LEMMA TodoInTable ==
  ASSUME CommInv, phase = "restart", NEW r \in Ranks
  PROVE  /\ todo[r] = {e \in table[r] : e.real = 0} /\ todo[r] \subseteq table[r]
         /\ at[r] = Idle
  BY DEF CommInv, TodoInv

(* A rank is at one communicator at a time.                                *)
LEMMA OneHead ==
  ASSUME CommInv, phase = "restart", NEW r \in Ranks, NEW e \in todo[r], NEW f \in todo[r],
         IsHead(r, e), IsHead(r, f)
  PROVE  e = f
<1>1. e \in table[r] /\ f \in table[r]
  BY TodoInTable DEF IsHead
<1>2. e.seq <= f.seq /\ f.seq <= e.seq
  BY DEF IsHead, Before
<1>3. e.seq \in Nat /\ f.seq \in Nat
  BY <1>1, RankTypes, EntryTypes DEF CommInv
<1>4. e.seq = f.seq
  BY <1>2, <1>3, SMT
<1> QED
  BY <1>1, <1>4, SeqOfEntry DEF CommInv

(* Two ranks that are at communicators with the same members are at the    *)
(* same one: both have both, in the same order.                            *)
LEMMA SameHead ==
  ASSUME CommInv, phase = "restart", NEW r \in Ranks, NEW s \in Ranks,
         NEW e \in todo[r], NEW f \in todo[s], IsHead(r, e), IsHead(s, f), e.group = f.group, s \in Members(e.group)
  PROVE  e.gid = f.gid
<1> USE DEF CommInv
<1>1. e \in todo[r] /\ e \in table[r] /\ f \in todo[s] /\ f \in table[s]
  BY TodoInTable DEF IsHead
<1>2. r \in Members(f.group)
  BY <1>1 DEF EntryInv
<1>3. PICK x \in todo[r] : x.gid = f.gid
  BY <1>1, <1>2 DEF TodoInv
<1>4. PICK y \in todo[s] : y.gid = e.gid
  BY <1>1 DEF TodoInv
<1>5. x \in table[r] /\ y \in table[s]
  BY <1>3, <1>4, TodoInTable
<1>6. PICK i \in DOMAIN comms : comms[i].gid = e.gid
  BY <1>1, CommOfEntry
<1>7. PICK j \in DOMAIN comms : comms[j].gid = f.gid
  BY <1>1, CommOfEntry
<1>8. e.seq <= x.seq /\ f.seq <= y.seq
  BY <1>3, <1>4 DEF IsHead, Before
<1>9. j < i <=> x.seq < e.seq
  BY <1>1, <1>3, <1>5, <1>6, <1>7 DEF EntryInv
<1>10. i < j <=> y.seq < f.seq
  BY <1>1, <1>4, <1>5, <1>6, <1>7 DEF EntryInv
<1>11. /\ i \in Nat /\ j \in Nat /\ e.seq \in Nat /\ f.seq \in Nat
       /\ x.seq \in Nat /\ y.seq \in Nat
  <2>1. i \in Nat /\ j \in Nat
    BY CommTypes, SMT
  <2>2. e.seq \in Nat /\ f.seq \in Nat /\ x.seq \in Nat /\ y.seq \in Nat
    BY <1>1, <1>5, RankTypes, EntryTypes
  <2> QED
    BY <2>1, <2>2
<1>12. i = j
  BY <1>8, <1>9, <1>10, <1>11, SMT
<1> QED
  BY <1>6, <1>7, <1>12

Remade(s, e, h, n) ==
  /\ h \in todo[s] /\ h.gid = e.gid
  /\ n.seq = h.seq /\ n.gid = h.gid /\ n.group = h.group /\ n.real = made + 1
  /\ table'[s] = (table[s] \ {h}) \cup {n}
  /\ todo'[s] = todo[s] \ {h}

(* What remaking e's communicator does to a member's table: the entry that *)
(* the member is at gets the new communicator, and it is e's.              *)
LEMMA RebuildAtMember ==
  ASSUME CommInv, NEW r \in Ranks, NEW e \in todo[r], Rebuild(r, e), NEW s \in Ranks,
         s \in Members(e.group)
  PROVE  \E h \in table[s] : \E n \in Entries : Remade(s, e, h, n)
<1> DEFINE h == CHOOSE f \in todo[s] : IsHead(s, f)
<1>1. phase = "restart" /\ IsHead(r, e) /\ Ready(e)
  BY DEF Rebuild
<1>2. PICK f \in todo[s] : IsHead(s, f) /\ f.group = e.group
  BY <1>1 DEF Ready
<1>3. h \in todo[s] /\ IsHead(s, h)
  BY <1>2
<1>4. /\ table'[s] = (table[s] \ {h}) \cup {[h EXCEPT !.real = made + 1]}
      /\ todo'[s] = todo[s] \ {h}
  BY SMT DEF Rebuild
<1> HIDE DEF h
<1>5. h = f
  BY <1>1, <1>2, <1>3, OneHead
<1>6. h.gid = e.gid
  <2>1. e \in todo[r] /\ f \in todo[s] /\ e.group = f.group
    BY <1>2
  <2>2. e.gid = f.gid
    BY <1>1, <1>2, <2>1, SameHead, SMT
  <2> QED
    BY <1>5, <2>2
<1>7. h \in table[s]
  BY <1>1, <1>3, TodoInTable
<1>8. h \in Entries
  BY <1>7, RankTypes DEF CommInv
<1>9. PICK n : n = [h EXCEPT !.real = made + 1]
  OBVIOUS
<1>10. made + 1 \in Nat
  BY SMT DEF CommInv, TypeOK
<1>11. n \in Entries /\ n.seq = h.seq /\ n.gid = h.gid /\ n.group = h.group /\ n.real = made + 1
  BY <1>8, <1>9, <1>10, SetReal, SMT
<1>12. table'[s] = (table[s] \ {h}) \cup {n}
  BY <1>4, <1>9
<1> QED
  BY <1>3, <1>4, <1>6, <1>7, <1>11, <1>12 DEF Remade

RemadeTable(q, e) ==
  /\ \A x \in table'[q] :
       \/ x \in table[q] /\ x.gid # e.gid
       \/ /\ x.gid = e.gid /\ x.real = made + 1 /\ x \in Entries
          /\ \E h \in table[q] : h.seq = x.seq /\ h.gid = x.gid /\ h.group = x.group
  /\ \A x \in table'[q], y \in table'[q] : x.gid = e.gid /\ y.gid = e.gid => x = y
  /\ \A x \in table[q] : IF x.gid = e.gid THEN \E y \in table'[q] : y.gid = x.gid
                                          ELSE x \in table'[q]
  /\ \A x : x \in todo'[q] <=> x \in todo[q] /\ x.gid # e.gid

(* So exactly the entries with e's gid change, and only what they have in  *)
(* the library.                                                            *)
LEMMA RebuildEffect ==
  ASSUME CommInv, NEW r \in Ranks, NEW e \in todo[r], Rebuild(r, e), NEW q \in Ranks
  PROVE  RemadeTable(q, e)
<1>1. phase = "restart" /\ e \in todo[r] /\ e \in table[r] /\ todo[q] \subseteq table[q]
  <2>1. phase = "restart" /\ e \in todo[r]
    BY DEF Rebuild, IsHead
  <2> QED
    BY <2>1, TodoInTable
<1>2. ASSUME NEW x \in table[q], x.gid = e.gid
      PROVE  q \in Members(e.group)
  BY <1>1, <1>2, SameMembers
<1>3. CASE q \notin Members(e.group)
  <2>1. table'[q] = table[q] /\ todo'[q] = todo[q]
    BY <1>3, SMT DEF Rebuild
  <2>2. \A x \in table[q] : x.gid # e.gid
    BY <1>2, <1>3
  <2> QED
    BY <1>1, <2>1, <2>2 DEF RemadeTable
<1>4. CASE q \in Members(e.group)
  <2>1. PICK h \in table[q] : \E n \in Entries : Remade(q, e, h, n)
    BY <1>4, RebuildAtMember
  <2>2. PICK n \in Entries : Remade(q, e, h, n)
    BY <2>1
  <2>3. \A x \in table[q] : x.gid = e.gid => x = h
    BY <2>1, <2>2, EntryOfComm DEF CommInv, Remade
  <2>4. n.gid = e.gid /\ n \in table'[q]
    BY <2>2 DEF Remade
  <2>5. \A x \in table'[q] : x = n \/ (x \in table[q] /\ x.gid # e.gid)
    BY <2>2, <2>3 DEF Remade
  <2>6. \A x \in table'[q] :
              \/ x \in table[q] /\ x.gid # e.gid
              \/ /\ x.gid = e.gid /\ x.real = made + 1 /\ x \in Entries
                 /\ \E hh \in table[q] : hh.seq = x.seq /\ hh.gid = x.gid /\ hh.group = x.group
    BY <2>1, <2>2, <2>4, <2>5 DEF Remade
  <2>7. \A x \in table'[q], y \in table'[q] : x.gid = e.gid /\ y.gid = e.gid => x = y
    BY <2>5
  <2>8. \A x \in table[q] : IF x.gid = e.gid THEN \E y \in table'[q] : y.gid = x.gid
                                             ELSE x \in table'[q]
    BY <2>2, <2>4 DEF Remade
  <2>9. \A x : x \in todo'[q] <=> x \in todo[q] /\ x.gid # e.gid
    BY <1>1, <2>2, <2>3 DEF Remade
  <2> QED
    BY <2>6, <2>7, <2>8, <2>9 DEF RemadeTable
<1> QED
  BY <1>3, <1>4

LEMMA RebuildKeeps ==
  ASSUME CommInv, NEW r \in Ranks, NEW e \in todo[r], Rebuild(r, e)
  PROVE  CommInv'
<1> USE DEF CommInv
<1>1. /\ phase = "restart" /\ phase' = "restart" /\ phase' # "run" /\ made' = made + 1
      /\ UNCHANGED <<phase, at, calls, clock, gidsMade, nextSeq, comms, ckpts>>
      /\ e \in todo[r] /\ made \in Nat
  BY SMT DEF Rebuild, IsHead, TypeOK
<1>0. \A q \in Ranks : RemadeTable(q, e)
  BY RebuildEffect
<1>2. ASSUME NEW q \in Ranks, NEW x \in table'[q]
      PROVE  \/ x \in table[q] /\ x.gid # e.gid
             \/ /\ x.gid = e.gid /\ x.real = made + 1 /\ x \in Entries
                /\ \E h \in table[q] : h.seq = x.seq /\ h.gid = x.gid /\ h.group = x.group
  BY <1>0, <1>2 DEF RemadeTable
<1>3. ASSUME NEW q \in Ranks, NEW x
      PROVE  x \in todo'[q] <=> x \in todo[q] /\ x.gid # e.gid
  BY <1>0 DEF RemadeTable
<1>4. ASSUME NEW q \in Ranks, NEW x \in table[q]
      PROVE  IF x.gid = e.gid THEN \E y \in table'[q] : y.gid = x.gid ELSE x \in table'[q]
  BY <1>0 DEF RemadeTable
<1>5. NoEntryNew
  BY <1>2 DEF NoEntryNew
<1>6. NoEntryLost
  BY <1>4 DEF NoEntryLost
<1>7. NoEntryTwice
  <2> SUFFICES ASSUME NEW q \in Ranks, NEW x \in table'[q], NEW y \in table'[q], x.seq = y.seq
               PROVE  x = y
    BY DEF NoEntryTwice
  <2>1. PICK f \in table[q] : f.seq = x.seq /\ f.gid = x.gid /\ (x.gid # e.gid => f = x)
    BY <1>2
  <2>2. PICK g \in table[q] : g.seq = y.seq /\ g.gid = y.gid /\ (y.gid # e.gid => g = y)
    BY <1>2
  <2>3. f = g
    BY <2>1, <2>2, SeqOfEntry
  <2>4. CASE x.gid = e.gid
    <3>1. y.gid = e.gid
      BY <2>1, <2>2, <2>3, <2>4
    <3>2. \A u \in table'[q], v \in table'[q] : u.gid = e.gid /\ v.gid = e.gid => u = v
      BY <1>0 DEF RemadeTable
    <3> QED
      BY <2>4, <3>1, <3>2
  <2>5. CASE x.gid # e.gid
    BY <2>1, <2>2, <2>3, <2>5
  <2> QED
    BY <2>4, <2>5
<1>8. CallInv' /\ NameInv' /\ EntryInv' /\ ClockInv'
  BY <1>1, <1>5, <1>6, <1>7, EntriesStay
<1>9. TypeOK'
  <2>1. \A q \in Ranks : table'[q] \subseteq Entries
    BY <1>2, RankTypes
  <2>2. \A q \in Ranks : todo'[q] \subseteq Entries
    BY <1>1, <1>3, TodoInTable, RankTypes
  <2>3. table' = [q \in Ranks |-> table'[q]] /\ todo' = [q \in Ranks |-> todo'[q]]
    BY SMT DEF Rebuild
  <2>4. table' \in [Ranks -> SUBSET Entries] /\ todo' \in [Ranks -> SUBSET Entries]
    BY <2>1, <2>2, <2>3
  <2>5. made' \in Nat
    BY <1>1, SMT
  <2> QED
    BY <1>1, <2>4, <2>5 DEF TypeOK
<1>10. LibraryInv'
  <2>1. \A i \in DOMAIN comms : comms[i].real \in Nat
    BY CommTypes
  <2>2. \A i \in DOMAIN comms : comms[i].real <= made' /\ comms[i].real # 0
    BY <1>1, <2>1, SMT DEF LibraryInv
  <2> QED
    BY <1>1, <2>2 DEF LibraryInv
<1>11. RealInv'
  <2>1. \A q \in Ranks : at'[q].op # "name"
    BY <1>1, TodoInTable, IdleTypes, SMT
  <2>2. ASSUME NEW q \in Ranks, NEW x \in table'[q]
        PROVE  /\ x.real \in Nat /\ x.real <= made'
               /\ x.gid = e.gid => x.real = made + 1
               /\ x.gid # e.gid => x.real <= made /\ x \in table[q]
    <3>1. CASE x \in table[q] /\ x.gid # e.gid
      <4>1. x.real \in Nat /\ x.real <= made
        BY <3>1, RankTypes, EntryTypes DEF RealInv
      <4>2. x.real <= made'
        BY <1>1, <4>1, SMT
      <4> QED
        BY <3>1, <4>1, <4>2
    <3>2. CASE x.gid = e.gid /\ x.real = made + 1
      <4>1. x.real \in Nat /\ x.real <= made'
        BY <1>1, <3>2, SMT
      <4> QED
        BY <3>2, <4>1
    <3> QED
      BY <1>2, <3>1, <3>2
  <2>3. ASSUME NEW q \in Ranks, NEW x \in table'[q], NEW p \in Ranks, NEW y \in table'[p],
               x.real # 0, y.real # 0
        PROVE  x.gid = y.gid <=> x.real = y.real
    <3>1. CASE x.gid = e.gid /\ y.gid = e.gid
      BY <2>2, <3>1
    <3>2. CASE x.gid # e.gid /\ y.gid # e.gid
      <4>1. x \in table[q] /\ y \in table[p]
        BY <2>2, <3>2
      <4> QED
        BY <2>3, <4>1, GidOfReal
    <3>3. CASE x.gid = e.gid /\ y.gid # e.gid
      BY <1>1, <2>2, <3>3, SMT
    <3>4. CASE x.gid # e.gid /\ y.gid = e.gid
      BY <1>1, <2>2, <3>4, SMT
    <3> QED
      BY <3>1, <3>2, <3>3, <3>4
  <2>4. ASSUME NEW q \in Ranks, NEW x \in table'[q]
        PROVE  /\ x.real <= made'
               /\ \A p \in Ranks : at'[p].op = "name" =>
                    (comms'[at'[p].id].gid = x.gid <=> comms'[at'[p].id].real = x.real)
               /\ \A p \in Ranks : \A y \in table'[p] :
                    x.real # 0 /\ y.real # 0 => (x.gid = y.gid <=> x.real = y.real)
    <3>1. x.real <= made'
      BY <2>2
    <3>2. \A p \in Ranks : at'[p].op = "name" =>
            (comms'[at'[p].id].gid = x.gid <=> comms'[at'[p].id].real = x.real)
      BY <2>1
    <3>3. \A p \in Ranks : \A y \in table'[p] :
            x.real # 0 /\ y.real # 0 => (x.gid = y.gid <=> x.real = y.real)
      BY <2>3
    <3> QED
      BY <3>1, <3>2, <3>3
  <2> QED
    BY <2>4 DEF RealInv
<1>12. TodoInv'
  <2>1. ASSUME NEW q \in Ranks
        PROVE  todo'[q] = {x \in table'[q] : x.real = 0}
    <3>1. \A x \in table'[q] : x.real = 0 => x \in table[q] /\ x.gid # e.gid
      <4>1. made + 1 # 0
        BY <1>1, SMT
      <4> QED
        BY <1>2, <4>1
    <3>2. \A x \in table[q] : x.gid # e.gid => x \in table'[q]
      BY <1>4
    <3>3. todo[q] = {x \in table[q] : x.real = 0}
      BY <1>1, TodoInTable
    <3> QED
      BY <1>3, <3>1, <3>2, <3>3
  <2>2. ASSUME NEW q \in Ranks, NEW x \in todo'[q], NEW s \in Members(x.group)
        PROVE  \E f \in todo'[s] : f.gid = x.gid
    <3>1. x \in todo[q] /\ x.gid # e.gid
      BY <1>3
    <3>2. s \in Ranks
      <4>1. x \in table[q]
        BY <1>1, <3>1, TodoInTable
      <4> QED
        BY <4>1, RankTypes, EntryTypes
    <3>3. PICK f \in todo[s] : f.gid = x.gid
      BY <1>1, <3>1 DEF TodoInv
    <3> QED
      BY <1>3, <3>1, <3>2, <3>3
  <2> QED
    BY <1>1, <2>1, <2>2, TodoInTable DEF TodoInv
<1> QED
  BY <1>8, <1>9, <1>10, <1>11, <1>12

LEMMA EndRestartKeeps ==
  ASSUME CommInv, EndRestart
  PROVE  CommInv'
<1> USE DEF CommInv
<1>1. /\ phase = "restart" /\ phase' = "run" /\ phase' # "restart"
      /\ UNCHANGED <<table, at, calls, clock, gidsMade, nextSeq, comms, made, todo, ckpts>>
      /\ \A q \in Ranks : todo[q] = {}
  BY SMT DEF EndRestart
<1>2. NoEntryNew /\ NoEntryLost /\ NoEntryTwice
  BY <1>1, SeqOfEntry DEF NoEntryNew, NoEntryLost, NoEntryTwice
<1>3. CallInv' /\ NameInv' /\ EntryInv' /\ ClockInv'
  BY <1>1, <1>2, EntriesStay
<1>4. TypeOK' /\ LibraryInv' /\ RealInv'
  <2>1. phase' \in {"run", "restart"}
    BY <1>1
  <2>2. TypeOK'
    BY <1>1, <2>1 DEF TypeOK
  <2>3. LibraryInv'
    BY <1>1 DEF LibraryInv
  <2>4. RealInv'
    BY <1>1, SMT DEF RealInv
  <2> QED
    BY <2>2, <2>3, <2>4
<1>5. TodoInv'
  <2>1. \A q \in Ranks : \A x \in table[q] : x.real # 0
    BY <1>1, TodoInTable
  <2> QED
    BY <1>1, <2>1 DEF TodoInv
<1> QED
  BY <1>3, <1>4, <1>5

-----------------------------------------------------------------------------

LEMMA CommStep ==
  ASSUME CommInv, [Next]_vars
  PROVE  CommInv'
<1>1. CASE \E r \in Ranks, groups \in Splits : \E e \in table[r] : StartMaking(r, e, groups)
  BY <1>1, StartMakingKeeps
<1>2. CASE \E r \in Ranks, group \in Groups : StartCreateGroup(r, group)
  BY <1>2, StartCreateGroupKeeps
<1>3. CASE \E r \in Ranks : \E e \in table[r] : MPI_Comm_free(r, e)
  BY <1>3, CommFreeKeeps
<1>4. CASE \E r \in Ranks : \E e \in table[r] : LibraryMakes(e)
  BY <1>4, LibraryMakesKeeps
<1>5. CASE \E group \in Groups : LibraryCreatesGroup(group)
  BY <1>5, LibraryCreatesGroupKeeps
<1>6. CASE \E r \in Ranks, slot \in 0 .. MaxSlots - 1 : NewVirtComm(r, slot)
  BY <1>6, NewVirtCommKeeps
<1>7. CASE Restart
  BY <1>7, RestartKeeps
<1>8. CASE \E r \in Ranks : \E e \in todo[r] : Rebuild(r, e)
  BY <1>8, RebuildKeeps
<1>9. CASE EndRestart
  BY <1>9, EndRestartKeeps
<1>10. CASE UNCHANGED vars
  <2> USE <1>10 DEF vars, CommInv
  <2>1. TypeOK'
    BY DEF TypeOK
  <2>2. NoEntryNew /\ NoEntryLost /\ NoEntryTwice
    BY SeqOfEntry DEF NoEntryNew, NoEntryLost, NoEntryTwice
  <2>3. CallInv' /\ NameInv' /\ EntryInv' /\ ClockInv'
    BY <2>2, EntriesStay
  <2>4. LibraryInv'
    BY DEF LibraryInv
  <2>5. RealInv'
    BY SMT DEF RealInv
  <2>6. TodoInv'
    BY TodoStays
  <2> QED
    BY <2>1, <2>3, <2>4, <2>5, <2>6
<1> QED
  BY <1>1, <1>2, <1>3, <1>4, <1>5, <1>6, <1>7, <1>8, <1>9, <1>10 DEF Next

(* For any number of ranks, any splits and groups, and any number of       *)
(* communicators and checkpoints, the tables of the ranks (virtual_id.cpp) *)
(* and the communicators of the library stay related as CommInv says:      *)
(* through the making calls, the naming of the new communicators by        *)
(* make_gid, the frees, the restart and every remake.                      *)
THEOREM CommInvariant == Spec => []CommInv
<1>1. Init => CommInv
  BY InitComm
<1>2. CommInv /\ [Next]_vars => CommInv'
  BY CommStep
<1> QED
  BY <1>1, <1>2, PTL DEF Spec

(* make_gid and reconstruct_comm_desc: two ranks' entries with a library   *)
(* communicator have the same gid exactly if it is the same communicator,  *)
(* and then the same members.                                              *)
THEOREM GidsNameCommunicators == Spec => []GidNamesCommunicator
<1>1. CommInv => GidNamesCommunicator
  <2> HAVE CommInv
  <2>1. ASSUME NEW r \in Ranks, NEW s \in Ranks, NEW e \in table[r], NEW f \in table[s],
               e.real # 0, f.real # 0
        PROVE  e.gid = f.gid <=> e.real = f.real
    BY <2>1, GidOfReal DEF CommInv
  <2>2. ASSUME NEW r \in Ranks, NEW s \in Ranks, NEW e \in table[r], NEW f \in table[s],
               e.gid = f.gid
        PROVE  e.group = f.group
    BY <2>2, SameMembers, SMT
  <2> QED
    BY <2>1, <2>2, SMT DEF GidNamesCommunicator
<1> QED
  BY <1>1, CommInvariant, PTL

-----------------------------------------------------------------------------
(* The oldest communicator yet to be remade: its members are all at it.    *)

Waiting == {i \in DOMAIN comms : \E q \in Ranks : \E x \in todo[q] : comms[i].gid = x.gid}

LEMMA OldestWaiting ==
  ASSUME CommInv, Waiting # {}
  PROVE  \E i \in Waiting : \A j \in Waiting : i <= j
<1> DEFINE R == OpToRel(<, Nat)
<1>1. Waiting \subseteq Nat
  BY CommTypes, SMT DEF Waiting, CommInv
<1>2. \E x \in Waiting : \A y \in Waiting : ~(<<y, x>> \in R)
  BY <1>1, NatLessThanWellFounded, WFMin
<1>3. \A x, y \in Nat : ~(<<y, x>> \in R) => x <= y
  BY SMT DEF OpToRel
<1> QED
  BY <1>1, <1>2, <1>3

LEMMA WaitingOfTodo ==
  ASSUME CommInv, phase = "restart", NEW r \in Ranks, NEW e \in todo[r]
  PROVE  \E i \in Waiting : comms[i].gid = e.gid
<1>1. e \in table[r]
  BY TodoInTable
<1>2. PICK i \in DOMAIN comms : comms[i].gid = e.gid
  BY <1>1, CommOfEntry DEF CommInv
<1> QED
  BY <1>2 DEF Waiting

LEMMA OldestIsHead ==
  ASSUME CommInv, phase = "restart", NEW i \in Waiting, \A j \in Waiting : i <= j,
         NEW s \in Ranks, NEW f \in todo[s], f.gid = comms[i].gid
  PROVE  IsHead(s, f)
<1> USE DEF CommInv
<1> SUFFICES ASSUME NEW g \in todo[s]
             PROVE  f.seq <= g.seq
  BY DEF IsHead, Before
<1>1. f \in table[s] /\ g \in table[s]
  BY TodoInTable
<1>2. PICK j \in Waiting : comms[j].gid = g.gid
  BY WaitingOfTodo
<1>3. i \in DOMAIN comms /\ j \in DOMAIN comms
  BY DEF Waiting
<1>4. j < i <=> g.seq < f.seq
  BY <1>1, <1>2, <1>3 DEF EntryInv
<1>5. i <= j
  OBVIOUS
<1>6. i \in Nat /\ j \in Nat
  BY <1>3, CommTypes, SMT
<1>7. f.seq \in Nat /\ g.seq \in Nat
  BY <1>1, RankTypes, EntryTypes
<1> QED
  BY <1>4, <1>5, <1>6, <1>7, SMT

(* reconstruct_descriptors: each rank remakes its communicators in the     *)
(* order of its own creation numbers, and each remake waits for all the    *)
(* members.  However the ranks' creations were interleaved before the      *)
(* checkpoint, the members of some communicator are always all at it, so   *)
(* the restart does not stand still before everything is remade.           *)
THEOREM RestartGoesOn == Spec => []RestartNeverStuck
<1>1. CommInv => RestartNeverStuck
  <2> SUFFICES ASSUME CommInv, phase = "restart", NEW r \in Ranks, NEW x \in todo[r]
               PROVE  \E q \in Ranks : \E e \in todo[q] : IsHead(q, e) /\ Ready(e)
    BY DEF RestartNeverStuck
  <2>1. Waiting # {}
    BY WaitingOfTodo
  <2>2. PICK i \in Waiting : \A j \in Waiting : i <= j
    BY <2>1, OldestWaiting
  <2>3. PICK q \in Ranks : \E e \in todo[q] : comms[i].gid = e.gid
    BY DEF Waiting
  <2>4. PICK e \in todo[q] : comms[i].gid = e.gid
    BY <2>3
  <2>5. IsHead(q, e)
    BY <2>2, <2>4, OldestIsHead
  <2>6. ASSUME NEW s \in Members(e.group)
        PROVE  \E f \in todo[s] : IsHead(s, f) /\ f.group = e.group
    <3>1. e \in table[q]
      BY TodoInTable
    <3>2. s \in Ranks
      BY <3>1, RankTypes, EntryTypes DEF CommInv
    <3>3. PICK f \in todo[s] : f.gid = e.gid
      BY DEF CommInv, TodoInv
    <3>4. IsHead(s, f)
      BY <2>2, <2>4, <3>2, <3>3, OldestIsHead
    <3>5. f \in table[s]
      BY <3>2, <3>3, TodoInTable
    <3>6. f.group = e.group
      <4>1. e.gid = f.gid
        BY <3>3
      <4> QED
        BY <3>1, <3>2, <3>5, <4>1, SameMembers, SMT
    <3> QED
      BY <3>3, <3>4, <3>6
  <2> QED
    BY <2>5, <2>6 DEF Ready
<1> QED
  BY <1>1, CommInvariant, PTL

====
