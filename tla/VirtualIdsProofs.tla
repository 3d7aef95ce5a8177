-------------------------- MODULE VirtualIdsProofs --------------------------
(***************************************************************************)
(* The virtual-ID table for any number of slots, generations and kinds,    *)
(* any set of predefined constants and any number of calls: a handle in    *)
(* use names its own object, and a freed one names none until its slot has *)
(* been through all generations.  The checkpoint thread's scan finds the   *)
(* right communicator while the application frees others, and a request it *)
(* completes is seen complete only with its status.                        *)
(***************************************************************************)
EXTENDS VirtualIds, SequenceTheorems, WellFoundedInduction, TLAPS

USE Zenon

TableInv == SlotInv /\ GenerationInv

-----------------------------------------------------------------------------
(* Arithmetic of the generations.                                          *)

LEMMA ModRange == \A n \in Nat : n % Gens \in 0 .. Gens - 1
  BY TableConstants, SMT

LEMMA DifferentMod ==
  ASSUME NEW m \in Nat, NEW n \in Nat, m < n, n < m + Gens
  PROVE  m % Gens # n % Gens
<1>1. Gens \in Int /\ Gens > 0 /\ m \in Int /\ n \in Int
  BY TableConstants, SMT
<1>2. \A a \in Int : a = Gens * (a \div Gens) + (a % Gens)
  BY <1>1, SMT
<1>3. m \div Gens \in Int /\ n \div Gens \in Int /\ m % Gens \in Int /\ n % Gens \in Int
  BY <1>1, SMT
<1>4. \A k \in Int : ~(0 < Gens * k /\ Gens * k < Gens)
  BY <1>1, SMT
<1>5. SUFFICES ASSUME m % Gens = n % Gens PROVE FALSE
  OBVIOUS
<1>6. PICK q \in Int, r \in Int, e \in Int :
        m = Gens * q + e /\ n = Gens * r + e
  <2>1. m = Gens * (m \div Gens) + (m % Gens) /\ n = Gens * (n \div Gens) + (m % Gens)
    BY <1>1, <1>2, <1>5
  <2>2. QED
    BY <1>3, <2>1
<1>7. n - m = Gens * (r - q)
  BY <1>1, <1>6, SMT
<1>8. QED
  BY <1>1, <1>4, <1>6, <1>7, SMT

-----------------------------------------------------------------------------
(* alloc_slot.                                                             *)

LEMMA AllocUnused ==
  ASSUME TableTypes, free = <<>>, Unused # {}
  PROVE  AllocSlot \in Unused
<1> DEFINE R == OpToRel(<, Nat)
<1>1. Unused \subseteq Nat
  BY TableConstants, SMT DEF Unused, SlotSet
<1>2. \E x \in Unused : \A y \in Unused : ~(<<y, x>> \in R)
  BY <1>1, NatLessThanWellFounded, WFMin
<1>3. \A x, y \in Nat : ~(<<y, x>> \in R) => x <= y
  BY SMT DEF OpToRel
<1>4. \E x \in Unused : \A y \in Unused : x <= y
  BY <1>1, <1>2, <1>3
<1>5. QED
  BY <1>4 DEF AllocSlot

-----------------------------------------------------------------------------
(* A handle in use is in its slot, and no handle is <<>>.                  *)

LEMMA HandleParts ==
  ASSUME NEW h \in HandleSet
  PROVE  /\ h[1] \in Kinds /\ h[2] \in 0 .. Gens - 1 /\ h[3] \in SlotSet
         /\ h = <<h[1], h[2], h[3]>> /\ h # NoHandle
<1>1. PICK k \in Kinds, g \in 0 .. Gens - 1, s \in SlotSet : h = <<k, g, s>>
  BY SMT DEF HandleSet
<1>2. <<k, g, s>> # << >>
  BY SMT
<1>3. h[1] = k /\ h[2] = g /\ h[3] = s
  BY <1>1, SMT
<1>4. QED
  BY <1>1, <1>2, <1>3 DEF NoHandle

LEMMA HandleType ==
  ASSUME NEW k \in Kinds, NEW g \in Nat, NEW s \in SlotSet
  PROVE  HandleOf(k, g, s) \in HandleSet
  BY ModRange, SMT DEF HandleOf, HandleSet

LEMMA FreeSlots ==
  ASSUME TableInv
  PROVE  \A i \in DOMAIN free :
           free[i] \in SlotSet /\ Given(free[i]) /\ entry[free[i]].virt = NoHandle
<1>1. \A i \in DOMAIN free : free[i] \in SlotSet
  BY ElementOfSeq, SMT DEF TableInv, SlotInv, TableTypes
<1>2. QED
  BY <1>1 DEF TableInv, SlotInv, FreeListSound

LEMMA LiveSlots ==
  ASSUME TableInv
  PROVE  \A l \in live : l.handle[3] \in SlotSet /\ Given(l.handle[3])
<1>1. \A l \in live : l.handle \in HandleSet
  BY SMT DEF TableInv, SlotInv, TableTypes
<1>2. QED
  BY <1>1, HandleParts DEF TableInv, SlotInv

LEMMA StaleSlots ==
  ASSUME TableInv
  PROVE  \A f \in stale : f.handle[3] \in SlotSet
<1>1. \A f \in stale : f.handle \in HandleSet
  BY SMT DEF TableInv, SlotInv, TableTypes
<1>2. QED
  BY <1>1, HandleParts

LEMMA StillLive ==
  ASSUME TableInv, live' \subseteq live,
         \A l \in live' : /\ entry'[l.handle[3]].virt = entry[l.handle[3]].virt
                          /\ entry'[l.handle[3]].seq = entry[l.handle[3]].seq
  PROVE  LiveHandlesResolve'
<1>1. \A l \in live' : entry'[l.handle[3]].virt = l.handle /\ entry'[l.handle[3]].seq = l.seq
  BY DEF TableInv, SlotInv, LiveHandlesResolve, Resolves
<1>2. \A l, m \in live' : l.handle[3] = m.handle[3] => l = m
  BY DEF TableInv, SlotInv, LiveHandlesResolve
<1>3. \A l \in live' : l.handle \notin Constants
  BY DEF TableInv, SlotInv, LiveHandlesResolve
<1>4. QED
  BY <1>1, <1>2, <1>3 DEF LiveHandlesResolve, Resolves

LEMMA InitTableInv == Init => TableInv
<1> SUFFICES ASSUME Init PROVE TableInv
  OBVIOUS
<1>1. EmptyEntry \in Entries /\ EmptyEntry.virt = NoHandle
  BY SMT DEF EmptyEntry, Entries, NoDesc, NoHandle
<1>2. Idle \in [at : {"idle", "publish", "hide", "release", "status"},
                kind : Kinds, gen : Nat, slot : SlotSet]
  BY TableConstants, SMT DEF Idle, SlotSet
<1>3. TableTypes
  BY <1>1, <1>2, TableConstants, SMT DEF Init, TableTypes
<1>4. QED
  BY <1>1, <1>3, SMT
     DEF Init, TableInv, SlotInv, GenerationInv, LiveHandlesResolve, FreeListSound, Idle

(* The steps that leave handles, objects and generations as they are.      *)
LEMMA SameTable ==
  ASSUME TableInv, TableTypes', UNCHANGED <<free, highWater, app, live, stale>>,
         \A s \in SlotSet : /\ entry'[s].virt = entry[s].virt
                            /\ entry'[s].seq = entry[s].seq
                            /\ entry'[s].gen = entry[s].gen
  PROVE  TableInv'
<1>1. LiveHandlesResolve'
  BY LiveSlots, StillLive
<1>2. FreeListSound'
  BY FreeSlots DEF TableInv, SlotInv, FreeListSound
<1>3. SlotInv'
  BY <1>1, <1>2, SMT DEF TableInv, SlotInv, Given, Handle, TableTypes
<1>4. GenerationInv'
  <2>1. \A t \in SlotSet : HidesSlot(t)' <=> HidesSlot(t)
    BY DEF HidesSlot
  <2>2. \A t \in SlotSet : entry'[t].virt # NoHandle =>
          entry'[t].virt[2] = (IF HidesSlot(t)' THEN app'.gen ELSE entry'[t].gen) % Gens
    <3> TAKE t \in SlotSet
    <3>1. entry[t].virt # NoHandle =>
            entry[t].virt[2] = (IF HidesSlot(t) THEN app.gen ELSE entry[t].gen) % Gens
      BY DEF TableInv, GenerationInv
    <3>2. app' = app /\ (HidesSlot(t)' <=> HidesSlot(t)) /\ entry'[t].virt = entry[t].virt
          /\ entry'[t].gen = entry[t].gen
      BY <2>1
    <3>3. QED
      BY <3>1, <3>2
  <2>3. app.slot \in SlotSet
    BY SMT DEF TableInv, SlotInv, TableTypes
  <2>4. \A f \in stale : f.handle[3] \in SlotSet
    BY StaleSlots
  <2>5. \A f \in stale' :
          /\ f.handle[2] = f.gen % Gens
          /\ f.gen < entry'[f.handle[3]].gen
          /\ HidesSlot(f.handle[3])' => f.gen < app'.gen
    BY <2>1, <2>4 DEF TableInv, GenerationInv
  <2>6. /\ app'.at \in {"publish", "status"} => entry'[app'.slot].gen = app'.gen
        /\ app'.at = "hide" => entry'[app'.slot].gen = app'.gen + 1
    BY <2>3 DEF TableInv, GenerationInv
  <2>7. QED
    BY <2>2, <2>5, <2>6 DEF GenerationInv
<1>5. QED
  BY <1>3, <1>4 DEF TableInv

-----------------------------------------------------------------------------
(* A change of one slot.                                                   *)

LEMMA OneSlot ==
  ASSUME NEW e \in [SlotSet -> Entries], NEW s, NEW r, s \in SlotSet => r \in Entries
  PROVE  /\ [e EXCEPT ![s] = r] \in [SlotSet -> Entries]
         /\ \A t \in SlotSet : [e EXCEPT ![s] = r][t] = IF t = s THEN r ELSE e[t]
  BY Zenon

-----------------------------------------------------------------------------
(* The checkpoint thread.                                                  *)

SameHandles ==
  /\ entry' \in [SlotSet -> Entries]
  /\ \A s \in SlotSet : /\ entry'[s].virt = entry[s].virt
                        /\ entry'[s].seq = entry[s].seq
                        /\ entry'[s].gen = entry[s].gen

LEMMA OtherFields ==
  ASSUME TableTypes, NEW s, NEW r, entry' = [entry EXCEPT ![s] = r],
         entry[s] \in Entries => /\ r \in Entries /\ r.virt = entry[s].virt
                                 /\ r.seq = entry[s].seq /\ r.gen = entry[s].gen
  PROVE  SameHandles
<1>1. entry \in [SlotSet -> Entries] /\ (s \in SlotSet => entry[s] \in Entries)
  BY Zenon DEF TableTypes
<1>2. /\ entry' \in [SlotSet -> Entries]
      /\ \A t \in SlotSet : entry'[t] = IF t = s THEN r ELSE entry[t]
  BY <1>1, OneSlot, Zenon
<1>3. QED
  BY <1>1, <1>2, Zenon DEF SameHandles

LEMMA Flags ==
  ASSUME NEW e \in Entries, NEW v \in BOOLEAN
  PROVE  /\ [e EXCEPT !.null = v] \in Entries /\ [e EXCEPT !.completed = v] \in Entries
         /\ [e EXCEPT !.null = v].virt = e.virt /\ [e EXCEPT !.completed = v].virt = e.virt
         /\ [e EXCEPT !.null = v].seq = e.seq /\ [e EXCEPT !.completed = v].seq = e.seq
         /\ [e EXCEPT !.null = v].gen = e.gen /\ [e EXCEPT !.completed = v].gen = e.gen
  BY SMT DEF Entries

LEMMA CheckpointThreadKeeps ==
  ASSUME TableInv,
         \/ \E l \in live : CompleteVirtRequest(l)
         \/ StoreCompleted \/ StoreNull
         \/ UNCHANGED <<entry, free, highWater, nextSeq, app, live, stale>>
  PROVE  TableInv'
<1>1. TableTypes
  BY DEF TableInv, SlotInv
<1>2. ASSUME NEW l \in live, CompleteVirtRequest(l) PROVE TableInv'
  <2> DEFINE s == l.handle[3]  r == [entry[s] EXCEPT !.status = l.seq]
  <2>1. l.seq \in Nat
    BY <1>1, SMT DEF TableTypes
  <2>2. entry' = [entry EXCEPT ![s] = r]
    BY <1>2, Zenon DEF CompleteVirtRequest
  <2>3. entry[s] \in Entries => /\ r \in Entries /\ r.virt = entry[s].virt
                                /\ r.seq = entry[s].seq /\ r.gen = entry[s].gen
    BY <2>1, SMT DEF Entries
  <2> HIDE DEF r, s
  <2>4. SameHandles
    BY <1>1, <2>2, <2>3, OtherFields
  <2>5. UNCHANGED <<free, highWater, nextSeq, app, live, stale>> /\ TableTypes'
    BY <1>1, <1>2, <2>4 DEF CompleteVirtRequest, TableTypes, SameHandles
  <2>6. QED
    BY <2>4, <2>5, SameTable DEF SameHandles
<1>3. CASE StoreCompleted
  <2> DEFINE s == ckpt.slot  r == [entry[s] EXCEPT !.completed = TRUE]
  <2>1. entry' = [entry EXCEPT ![s] = r]
    BY <1>3, Zenon DEF StoreCompleted, Completed
  <2>2. entry[s] \in Entries => /\ r \in Entries /\ r.virt = entry[s].virt
                                /\ r.seq = entry[s].seq /\ r.gen = entry[s].gen
    BY Flags, Zenon
  <2> HIDE DEF r, s
  <2>3. SameHandles
    BY <1>1, <2>1, <2>2, OtherFields
  <2>4. UNCHANGED <<free, highWater, nextSeq, app, live, stale>> /\ TableTypes'
    BY <1>1, <1>3, <2>3 DEF StoreCompleted, TableTypes, SameHandles
  <2>5. QED
    BY <2>3, <2>4, SameTable DEF SameHandles
<1>4. CASE StoreNull
  <2> DEFINE s == ckpt.slot  r == [entry[s] EXCEPT !.null = TRUE]
  <2>1. entry' = [entry EXCEPT ![s] = r]
    BY <1>4, Zenon DEF StoreNull
  <2>2. entry[s] \in Entries => /\ r \in Entries /\ r.virt = entry[s].virt
                                /\ r.seq = entry[s].seq /\ r.gen = entry[s].gen
    BY Flags, Zenon
  <2> HIDE DEF r, s
  <2>3. SameHandles
    BY <1>1, <2>1, <2>2, OtherFields
  <2>4. UNCHANGED <<free, highWater, nextSeq, app, live, stale>> /\ TableTypes'
    BY <1>1, <1>4, <2>3 DEF StoreNull, TableTypes, SameHandles
  <2>5. QED
    BY <2>3, <2>4, SameTable DEF SameHandles
<1>5. CASE UNCHANGED <<entry, free, highWater, nextSeq, app, live, stale>>
  <2>1. TableTypes'
    BY <1>1, <1>5 DEF TableTypes
  <2>2. QED
    BY <1>5, <2>1, SameTable
<1>6. QED
  BY <1>2, <1>3, <1>4, <1>5

-----------------------------------------------------------------------------
(* free_virt_id of a handle in use, whose generation the call has noted.   *)

LEMMA StartFreeKeeps ==
  ASSUME TableInv, app.at \in {"idle", "status"}, NEW l \in live, StartFree(l.handle)
  PROVE  TableInv'
<1> DEFINE h == l.handle  s == h[3]
<1>1. TableTypes /\ LiveHandlesResolve /\ FreeListSound
  BY DEF TableInv, SlotInv
<1>2. h \in HandleSet /\ s \in SlotSet /\ h[1] \in Kinds /\ entry[s].gen \in Nat
  BY <1>1, HandleParts, SMT DEF TableTypes, Entries
<1>3. entry[s].virt = h /\ h # NoHandle
  BY <1>1, <1>2, HandleParts DEF LiveHandlesResolve, Resolves
<1>4. /\ entry' \in [SlotSet -> Entries]
      /\ \A t \in SlotSet : /\ entry'[t].virt = entry[t].virt
                            /\ entry'[t].seq = entry[t].seq
                            /\ entry'[t].gen = IF t = s THEN entry[t].gen + 1 ELSE entry[t].gen
  <2> DEFINE r == [entry[s] EXCEPT !.gen = entry[s].gen + 1]
  <2>1. entry' = [entry EXCEPT ![s] = r]
    BY Zenon DEF StartFree, NextGeneration
  <2>2. entry[s] \in Entries
    BY <1>1, <1>2, Zenon DEF TableTypes
  <2>3. /\ r \in Entries /\ r.virt = entry[s].virt /\ r.seq = entry[s].seq
        /\ r.gen = entry[s].gen + 1
    BY <1>2, <2>2, SMT DEF Entries
  <2>4. QED
    <3> HIDE DEF r
    <3>1. \A t \in SlotSet : entry'[t] = IF t = s THEN r ELSE entry[t]
      BY <1>1, <2>1, <2>3, OneSlot DEF TableTypes
    <3>2. entry' \in [SlotSet -> Entries]
      BY <1>1, <2>1, <2>3, OneSlot DEF TableTypes
    <3>3. QED
      BY <2>3, <3>1, <3>2
<1>5. /\ app' = [at |-> "hide", kind |-> h[1], gen |-> entry[s].gen, slot |-> s]
      /\ app'.at = "hide" /\ app'.gen = entry[s].gen /\ app'.slot = s
  BY SMT DEF StartFree
<1>6. live' \subseteq live /\ \A m \in live' : m.handle[3] # s
  <2>1. live' = {m \in live : m.handle # h}
    BY DEF StartFree
  <2>2. \A m \in live : m.handle[3] = s => m = l
    BY <1>1 DEF LiveHandlesResolve
  <2>3. QED
    BY <2>1, <2>2
<1>7. TableTypes'
  BY <1>1, <1>2, <1>4, <1>5, <1>6, SMT DEF StartFree, TableTypes
<1>8. LiveHandlesResolve'
  BY <1>4, <1>6, LiveSlots, StillLive
<1>9. FreeListSound'
  <2>1. free' = free
    BY DEF StartFree
  <2>2. \A i \in DOMAIN free : free[i] # s
    BY <1>3, FreeSlots
  <2>3. QED
    <3>1. \A i \in DOMAIN free' : entry'[free'[i]].virt = NoHandle
      BY <1>4, <2>1, FreeSlots
    <3>2. \A i, j \in DOMAIN free' : free'[i] = free'[j] => i = j
      BY <1>1, <2>1 DEF FreeListSound
    <3>3. QED
      BY <1>5, <2>1, <2>2, <3>1, <3>2 DEF FreeListSound
<1>10. SlotInv'
  <2>1. Given(s) /\ Given(s)'
    BY DEF TableInv, SlotInv, Given, StartFree
  <2>2. QED
    BY <1>5, <1>6, <1>7, <1>8, <1>9, <2>1, SMT DEF TableInv, SlotInv, Given, StartFree
<1>11. GenerationInv'
  <2> USE DEF TableInv, GenerationInv, HidesSlot, StartFree
  <2>1. \A t \in SlotSet : entry'[t].virt # NoHandle =>
          entry'[t].virt[2] = (IF HidesSlot(t)' THEN app'.gen ELSE entry'[t].gen) % Gens
    <3> TAKE t \in SlotSet
    <3>1. app.at # "hide"
      BY SMT
    <3>2. entry[t].virt # NoHandle => entry[t].virt[2] = entry[t].gen % Gens
      BY <3>1
    <3>3. CASE t = s
      BY <1>4, <1>5, <3>2, <3>3
    <3>4. CASE t # s
      BY <1>4, <1>5, <3>2, <3>4
    <3>5. QED
      BY <3>3, <3>4
  <2>2. entry'[app'.slot].gen = app'.gen + 1
    BY <1>2, <1>4, <1>5
  <2>3. ASSUME NEW f \in stale
        PROVE  /\ f.gen < entry'[f.handle[3]].gen
               /\ HidesSlot(f.handle[3])' => f.gen < app'.gen
    <3>1. f.handle[3] \in SlotSet /\ f.gen \in Nat
      BY <1>1, HandleParts, SMT DEF TableTypes
    <3>2. f.gen < entry[f.handle[3]].gen
      OBVIOUS
    <3>3. entry[f.handle[3]].gen \in Nat
      BY <1>1, <3>1, SMT DEF TableTypes, Entries
    <3>4. f.gen < entry'[f.handle[3]].gen
      BY <1>4, <3>1, <3>2, <3>3, SMT
    <3>5. f.handle[3] = s => f.gen < app'.gen
      BY <1>5, <3>2
    <3>6. QED
      BY <1>5, <3>4, <3>5
  <2>4. QED
    BY <1>5, <2>1, <2>2, <2>3
<1>12. QED
  BY <1>10, <1>11 DEF TableInv

-----------------------------------------------------------------------------
(* add_virt_id.                                                            *)

LEMMA AllocEffect ==
  ASSUME TableInv, free # <<>> \/ Unused # {}, NEW s, s = AllocSlot,
         free' = IF free # <<>> THEN Tail(free) ELSE free,
         highWater' = IF free # <<>> THEN highWater ELSE s + 1
  PROVE  /\ s \in SlotSet /\ Given(s)' /\ highWater' \in 0 .. Slots
         /\ \A t \in SlotSet : Given(t) => Given(t)'
         /\ \A l \in live : l.handle[3] # s
         /\ free' \in Seq(SlotSet)
         /\ \A i, j \in DOMAIN free' : free'[i] = free'[j] => i = j
         /\ \A i \in DOMAIN free' : free'[i] # s /\ \E j \in DOMAIN free : free'[i] = free[j]
<1>1. TableTypes /\ LiveHandlesResolve /\ FreeListSound
  BY DEF TableInv, SlotInv
<1>2. free \in Seq(SlotSet) /\ highWater \in 0 .. Slots /\ Slots \in Nat
  BY <1>1, TableConstants DEF TableTypes
<1>3. \A l \in live : l.handle \in HandleSet /\ l.handle[3] \in SlotSet
                      /\ entry[l.handle[3]].virt # NoHandle /\ l.handle[3] < highWater
  BY <1>1, HandleParts, SMT DEF TableInv, SlotInv, Given, LiveHandlesResolve, Resolves, TableTypes
<1>4. CASE free # <<>>
  <2>1. s = free[1] /\ free' = Tail(free) /\ highWater' = highWater
    BY <1>4, SMT DEF AllocSlot
  <2>2. /\ Len(free) \in Nat /\ Len(free) > 0 /\ DOMAIN free = 1 .. Len(free)
        /\ free' \in Seq(SlotSet) /\ DOMAIN free' = 1 .. Len(free) - 1
        /\ \A i \in 1 .. Len(free) - 1 : free'[i] = free[i + 1]
    BY <1>2, <1>4, <2>1, HeadTailProperties, EmptySeq, LenProperties, SMT
  <2>3. 1 \in DOMAIN free /\ \A i \in DOMAIN free' : i + 1 \in DOMAIN free /\ i + 1 # 1
    BY <2>2, SMT
  <2>4. s \in SlotSet /\ Given(s) /\ entry[s].virt = NoHandle
    BY <2>1, <2>3, FreeSlots
  <2>5. \A i \in DOMAIN free' : free'[i] # s
    <3>1. \A i \in DOMAIN free : free[i] = free[1] => i = 1
      BY <1>1, <2>3 DEF FreeListSound
    <3>2. QED
      BY <2>1, <2>2, <2>3, <3>1
  <2>6. \A i, j \in DOMAIN free' : free'[i] = free'[j] => i = j
    <3>1. \A i, j \in DOMAIN free : free[i] = free[j] => i = j
      BY <1>1 DEF FreeListSound
    <3>2. QED
      BY <2>2, <2>3, <3>1, SMT
  <2>7. QED
    BY <1>2, <1>3, <2>1, <2>2, <2>3, <2>4, <2>5, <2>6 DEF Given
<1>5. CASE free = <<>>
  <2>1. s \in Unused /\ free' = free /\ highWater' = s + 1
    BY <1>1, <1>5, AllocUnused, Zenon
  <2>2. s \in SlotSet /\ s >= highWater /\ s \notin Reserved /\ SlotSet = 0 .. Slots - 1
    BY <2>1 DEF Unused, SlotSet
  <2>3. s \in Int /\ highWater' \in 0 .. Slots /\ s < highWater' /\ highWater < highWater'
    BY <1>2, <2>1, <2>2, SMT
  <2>4. \A t \in SlotSet : t < highWater => t < highWater' /\ t # s
    BY <1>2, <2>1, <2>2, SMT
  <2>5. DOMAIN free' = {}
    BY <1>5, <2>1, SMT
  <2>6. QED
    BY <1>2, <1>3, <2>1, <2>2, <2>3, <2>4, <2>5 DEF Given
<1>6. QED
  BY <1>4, <1>5

LEMMA AddKeeps ==
  ASSUME TableInv, NEW kind \in Kinds, AddVirtId(kind)
  PROVE  TableInv'
<1>0. PICK s : s = AllocSlot
  OBVIOUS
<1> DEFINE r == [entry[s] EXCEPT !.seq = nextSeq + 1,
                                 !.desc = IF kind = "comm" THEN nextSeq + 1 ELSE NoDesc,
                                 !.null = FALSE, !.completed = FALSE]
<1>1. TableTypes /\ LiveHandlesResolve /\ FreeListSound
  BY DEF TableInv, SlotInv
<1>2. /\ app.at = "idle"
      /\ free # <<>> \/ Unused # {}
      /\ free' = (IF free # <<>> THEN Tail(free) ELSE free)
      /\ highWater' = (IF free # <<>> THEN highWater ELSE s + 1)
      /\ nextSeq' = nextSeq + 1 /\ live' = live /\ stale' = stale
  BY <1>0, Zenon DEF AddVirtId
<1>3. /\ app' = [at |-> "publish", kind |-> kind, gen |-> entry[s].gen, slot |-> s]
      /\ app'.at = "publish" /\ app'.slot = s /\ app'.gen = entry[s].gen
  BY <1>0, SMT DEF AddVirtId
<1>4. entry' = [entry EXCEPT ![s] = r]
  BY <1>0, Zenon DEF AddVirtId
<1>5. /\ s \in SlotSet /\ Given(s)' /\ highWater' \in 0 .. Slots
      /\ \A t \in SlotSet : Given(t) => Given(t)'
      /\ \A l \in live : l.handle[3] # s
      /\ free' \in Seq(SlotSet)
      /\ \A i, j \in DOMAIN free' : free'[i] = free'[j] => i = j
      /\ \A i \in DOMAIN free' : free'[i] # s /\ \E j \in DOMAIN free : free'[i] = free[j]
  BY <1>0, <1>2, AllocEffect, Zenon
<1>6. nextSeq \in Nat /\ nextSeq + 1 \in Nat /\ entry[s] \in Entries /\ entry[s].gen \in Nat
  BY <1>1, <1>5, SMT DEF TableTypes, Entries
<1>7. r \in Entries /\ r.virt = entry[s].virt /\ r.gen = entry[s].gen
  <2>1. PICK d \in Nat : d = IF kind = "comm" THEN nextSeq + 1 ELSE NoDesc
    BY <1>6, SMT DEF NoDesc
  <2> DEFINE f == [entry[s] EXCEPT !.seq = nextSeq + 1]  g == [f EXCEPT !.desc = d]
             k == [g EXCEPT !.null = FALSE]
  <2>2. f \in Entries /\ f.virt = entry[s].virt /\ f.gen = entry[s].gen
    BY <1>6, SMT DEF Entries
  <2>3. r = [k EXCEPT !.completed = FALSE]
    BY <2>1
  <2> HIDE DEF f, r
  <2>4. g \in Entries /\ g.virt = entry[s].virt /\ g.gen = entry[s].gen
    BY <2>2, SMT DEF Entries
  <2> HIDE DEF g
  <2>5. k \in Entries /\ k.virt = entry[s].virt /\ k.gen = entry[s].gen
    BY <2>4, Flags, Zenon
  <2> HIDE DEF k
  <2>6. QED
    BY <2>3, <2>5, Flags, Zenon
<1> HIDE DEF r
<1>8. /\ entry' \in [SlotSet -> Entries]
      /\ \A t \in SlotSet : /\ entry'[t].virt = entry[t].virt /\ entry'[t].gen = entry[t].gen
                            /\ t # s => entry'[t].seq = entry[t].seq
  <2>1. entry \in [SlotSet -> Entries]
    BY <1>1 DEF TableTypes
  <2>2. QED
    BY <1>4, <1>7, <2>1, OneSlot, Zenon
<1>9. TableTypes'
  BY <1>1, <1>2, <1>3, <1>5, <1>6, <1>8, SMT DEF TableTypes
<1>10. \A l \in live : l.handle[3] \in SlotSet
  BY LiveSlots
<1>11. LiveHandlesResolve'
  BY <1>2, <1>5, <1>8, <1>10, StillLive
<1>12. \A j \in DOMAIN free : free[j] \in SlotSet /\ Given(free[j]) /\ entry[free[j]].virt = NoHandle
  BY FreeSlots
<1>13. FreeListSound' /\ (\A i \in DOMAIN free : Given(free[i]))'
  <2>1. \A i \in DOMAIN free' : \E t \in SlotSet : /\ t = free'[i] /\ t # s
                                                 /\ Given(t) /\ entry[t].virt = NoHandle
    BY <1>5, <1>12, Zenon
  <2>2. \A i \in DOMAIN free' : entry'[free'[i]].virt = NoHandle /\ free'[i] # s
    <3> TAKE i \in DOMAIN free'
    <3>1. PICK t \in SlotSet : t = free'[i] /\ t # s /\ entry[t].virt = NoHandle
      BY <2>1, Zenon
    <3>2. entry'[t].virt = NoHandle
      BY <1>8, <3>1, Zenon
    <3>3. QED
      BY <3>1, <3>2, Zenon
  <2>3. (\A i \in DOMAIN free : Given(free[i]))'
    BY <1>5, <2>1, Zenon DEF Given
  <2>4. QED
    BY <1>3, <1>5, <2>2, <2>3, Zenon DEF FreeListSound
<1>14. \A l \in live' : Given(l.handle[3])'
  BY <1>2, <1>5, <1>10, Zenon DEF TableInv, SlotInv
<1>15. SlotInv'
  <2>1. app'.at \notin {"idle", "status", "release"} /\ Given(s)'
    BY <1>3, <1>5, SMT
  <2>2. (app.at # "idle" => Given(app.slot))'
    BY <1>3, <2>1, Zenon DEF Given
  <2>3. \A l \in live' : l.handle[3] # app'.slot
    BY <1>2, <1>3, <1>5, Zenon
  <2>4. QED
    BY <1>9, <1>11, <1>13, <1>14, <2>1, <2>2, <2>3, Zenon DEF SlotInv
<1>16. GenerationInv'
  <2>0. \A t : ~HidesSlot(t)
    BY <1>2, SMT DEF HidesSlot
  <2>1. \A t \in SlotSet : entry'[t].virt # NoHandle => entry'[t].virt[2] = entry'[t].gen % Gens
    BY <1>8, <2>0, Zenon DEF TableInv, GenerationInv
  <2>2. \A h \in stale : h.handle[3] \in SlotSet
    BY StaleSlots
  <2>3. \A h \in stale : h.handle[2] = h.gen % Gens /\ h.gen < entry'[h.handle[3]].gen
    BY <1>8, <2>2, Zenon DEF TableInv, GenerationInv
  <2>4. \A t : ~HidesSlot(t)'
    BY <1>3, SMT DEF HidesSlot
  <2>5. entry'[app'.slot].gen = app'.gen
    BY <1>3, <1>5, <1>8
  <2>6. QED
    BY <1>2, <1>3, <2>1, <2>3, <2>4, <2>5, SMT DEF GenerationInv
<1>17. QED
  BY <1>15, <1>16 DEF TableInv

(* The handle is published in the slot that add_virt_id has chosen.        *)
LEMMA PublishKeeps ==
  ASSUME TableInv, Publish
  PROVE  TableInv'
<1>0. PICK s : s = app.slot
  OBVIOUS
<1>h. PICK h : h = Handle(app)
  OBVIOUS
<1> DEFINE r == [entry[s] EXCEPT !.virt = h]
<1>1. TableTypes /\ LiveHandlesResolve /\ FreeListSound
  BY DEF TableInv, SlotInv
<1>2. /\ app.at = "publish" /\ app' = Idle
      /\ entry' = [entry EXCEPT ![s] = r]
      /\ live' = live \cup {[handle |-> h, seq |-> entry[s].seq]}
      /\ free' = free /\ highWater' = highWater /\ nextSeq' = nextSeq /\ stale' = stale
  BY <1>0, <1>h, Zenon DEF Publish
<1>3. /\ s \in SlotSet /\ app.gen \in Nat /\ app.kind \in Kinds
      /\ entry[s] \in Entries /\ entry[s].seq \in Nat
  BY <1>0, <1>1, SMT DEF TableTypes, Entries
<1>4. h \in HandleSet /\ h[2] = app.gen % Gens /\ h[3] = s /\ h # NoHandle
  <2>1. h \in HandleSet
    BY <1>0, <1>h, <1>3, HandleType DEF Handle
  <2>2. h = <<app.kind, app.gen % Gens, s>>
    BY <1>0, <1>h DEF Handle, HandleOf
  <2>3. QED
    BY <2>1, <2>2, HandleParts
<1>5. r \in Entries /\ r.virt = h /\ r.seq = entry[s].seq /\ r.gen = entry[s].gen
  BY <1>3, <1>4, SMT DEF Entries
<1> HIDE DEF r
<1>6. /\ entry' \in [SlotSet -> Entries]
      /\ \A t \in SlotSet : /\ entry'[t].virt = IF t = s THEN h ELSE entry[t].virt
                            /\ entry'[t].seq = entry[t].seq
                            /\ entry'[t].gen = entry[t].gen
  <2>1. entry \in [SlotSet -> Entries]
    BY <1>1 DEF TableTypes
  <2>2. QED
    BY <1>2, <1>5, <2>1, OneSlot, Zenon
<1>7. Given(s) /\ \A l \in live : l.handle[3] \in SlotSet /\ l.handle[3] # s
  <2>1. \A l \in live : l.handle[3] \in SlotSet
    BY LiveSlots
  <2>2. QED
    BY <1>0, <1>2, <2>1, SMT DEF TableInv, SlotInv
<1>8. PICK m : m = [handle |-> h, seq |-> entry[s].seq]
  OBVIOUS
<1>9. /\ m \in [handle : HandleSet, seq : Nat] /\ m.handle = h /\ m.seq = entry[s].seq
      /\ live' = live \cup {m}
  BY <1>2, <1>3, <1>4, <1>8, SMT
<1>10. /\ Idle \in [at : {"idle", "publish", "hide", "release", "status"},
                    kind : Kinds, gen : Nat, slot : SlotSet]
       /\ app'.at = "idle"
  BY <1>2, TableConstants, SMT DEF Idle, SlotSet
<1>11. TableTypes'
  BY <1>1, <1>2, <1>6, <1>9, <1>10, SMT DEF TableTypes
<1>12. LiveHandlesResolve'
  <2>1. h \notin Constants
    BY <1>4, <1>7, Zenon DEF Given, Reserved
  <2>2. ASSUME NEW l \in live'
        PROVE  /\ Resolves(l.handle)' /\ entry'[l.handle[3]].seq = l.seq
               /\ l.handle \notin Constants
    <3>1. CASE l \in live
      BY <1>1, <1>6, <1>7, <3>1, Zenon DEF LiveHandlesResolve, Resolves
    <3>2. CASE l = m
      BY <1>3, <1>4, <1>6, <1>9, <2>1, <3>2, Zenon DEF Resolves
    <3>3. QED
      BY <1>9, <3>1, <3>2, Zenon
  <2>3. \A l, n \in live' : l.handle[3] = n.handle[3] => l = n
    BY <1>1, <1>4, <1>7, <1>9, Zenon DEF LiveHandlesResolve
  <2>4. QED
    BY <2>2, <2>3, Zenon DEF LiveHandlesResolve
<1>13. FreeListSound'
  <2>1. \A i \in DOMAIN free : free[i] \in SlotSet /\ free[i] # s
    BY <1>0, <1>1, <1>2, ElementOfSeq, SMT DEF TableTypes, FreeListSound
  <2>2. QED
    BY <1>1, <1>2, <1>6, <1>10, <2>1, Zenon DEF FreeListSound
<1>14. SlotInv'
  <2>1. (\A i \in DOMAIN free : Given(free[i]))'
    BY <1>2, Zenon DEF TableInv, SlotInv, Given
  <2>2. (\A l \in live : Given(l.handle[3]))'
    BY <1>2, <1>4, <1>7, <1>9, Zenon DEF TableInv, SlotInv, Given
  <2>3. QED
    BY <1>10, <1>11, <1>12, <1>13, <2>1, <2>2, SMT DEF SlotInv
<1>15. GenerationInv'
  <2>0. (\A t : ~HidesSlot(t)) /\ (\A t : ~HidesSlot(t)')
    BY <1>2, <1>10, SMT DEF HidesSlot
  <2>1. entry[s].gen = app.gen
    BY <1>0, <1>2, SMT DEF TableInv, GenerationInv
  <2>2. \A t \in SlotSet : entry'[t].virt # NoHandle => entry'[t].virt[2] = entry'[t].gen % Gens
    BY <1>4, <1>6, <2>0, <2>1, Zenon DEF TableInv, GenerationInv
  <2>3. \A f \in stale : f.handle[3] \in SlotSet
    BY StaleSlots
  <2>4. \A f \in stale' : f.handle[2] = f.gen % Gens /\ f.gen < entry'[f.handle[3]].gen
    BY <1>2, <1>6, <2>3, Zenon DEF TableInv, GenerationInv
  <2>5. QED
    BY <1>10, <2>0, <2>2, <2>4, SMT DEF GenerationInv
<1>16. QED
  BY <1>14, <1>15 DEF TableInv

-----------------------------------------------------------------------------
(* free_virt_id's other steps.                                             *)

LEMMA HideKeeps ==
  ASSUME TableInv, Hide
  PROVE  TableInv'
<1>0. PICK s : s = app.slot
  OBVIOUS
<1>h. PICK m : m = [handle |-> Handle(app), gen |-> app.gen]
  OBVIOUS
<1> DEFINE r == [entry[s] EXCEPT !.virt = NoHandle]
<1>1. TableTypes /\ LiveHandlesResolve /\ FreeListSound
  BY DEF TableInv, SlotInv
<1>2. /\ app.at = "hide" /\ app' = [app EXCEPT !.at = "release"]
      /\ entry' = [entry EXCEPT ![s] = r]
      /\ stale' = stale \cup {m}
      /\ free' = free /\ highWater' = highWater /\ nextSeq' = nextSeq /\ live' = live
  BY <1>0, <1>h, Zenon DEF Hide
<1>3. s \in SlotSet /\ app.gen \in Nat /\ app.kind \in Kinds /\ entry[s] \in Entries
  BY <1>0, <1>1, SMT DEF TableTypes, Entries
<1>4. /\ m \in [handle : HandleSet, gen : Nat] /\ m.gen = app.gen
      /\ m.handle[2] = app.gen % Gens /\ m.handle[3] = s
  <2>1. Handle(app) \in HandleSet
    BY <1>0, <1>3, HandleType DEF Handle
  <2>2. Handle(app) = <<app.kind, app.gen % Gens, s>>
    BY <1>0 DEF Handle, HandleOf
  <2>3. QED
    BY <1>h, <1>3, <2>1, <2>2, SMT
<1>5. r \in Entries /\ r.virt = NoHandle /\ r.seq = entry[s].seq /\ r.gen = entry[s].gen
  BY <1>3, SMT DEF Entries
<1> HIDE DEF r
<1>6. /\ entry' \in [SlotSet -> Entries]
      /\ \A t \in SlotSet : /\ entry'[t].virt = IF t = s THEN NoHandle ELSE entry[t].virt
                            /\ entry'[t].seq = entry[t].seq
                            /\ entry'[t].gen = entry[t].gen
  <2>1. entry \in [SlotSet -> Entries]
    BY <1>1 DEF TableTypes
  <2>2. QED
    BY <1>2, <1>5, <2>1, OneSlot, Zenon
<1>7. Given(s) /\ \A l \in live : l.handle[3] \in SlotSet /\ l.handle[3] # s
  <2>1. \A l \in live : l.handle[3] \in SlotSet
    BY LiveSlots
  <2>2. QED
    BY <1>0, <1>2, <2>1, SMT DEF TableInv, SlotInv
<1>8. /\ app' \in [at : {"idle", "publish", "hide", "release", "status"},
                   kind : Kinds, gen : Nat, slot : SlotSet]
      /\ app'.at = "release" /\ app'.slot = s
  BY <1>0, <1>1, <1>2, SMT DEF TableTypes
<1>9. TableTypes'
  BY <1>1, <1>2, <1>4, <1>6, <1>8, SMT DEF TableTypes
<1>10. LiveHandlesResolve'
  BY <1>2, <1>6, <1>7, StillLive
<1>11. FreeListSound'
  <2>1. \A i \in DOMAIN free : free[i] \in SlotSet /\ free[i] # s
    BY <1>0, <1>1, <1>2, ElementOfSeq, SMT DEF TableTypes, FreeListSound
  <2>2. QED
    BY <1>1, <1>2, <1>6, <1>8, <2>1, Zenon DEF FreeListSound
<1>12. SlotInv'
  <2>1. (\A i \in DOMAIN free : Given(free[i]))' /\ (\A l \in live : Given(l.handle[3]))'
    BY <1>2, Zenon DEF TableInv, SlotInv, Given
  <2>2. Given(app.slot)'
    BY <1>2, <1>7, <1>8, Zenon DEF Given
  <2>3. entry'[app'.slot].virt = NoHandle /\ \A l \in live' : l.handle[3] # app'.slot
    BY <1>2, <1>3, <1>6, <1>7, <1>8, Zenon
  <2>4. QED
    BY <1>8, <1>9, <1>10, <1>11, <2>1, <2>2, <2>3, Zenon DEF SlotInv
<1>13. GenerationInv'
  <2>0. \A t : ~HidesSlot(t)'
    BY <1>8, SMT DEF HidesSlot
  <2>1. \A t \in SlotSet : t # s => ~HidesSlot(t)
    BY <1>0, Zenon DEF HidesSlot
  <2>2. \A t \in SlotSet : entry'[t].virt # NoHandle => entry'[t].virt[2] = entry'[t].gen % Gens
    BY <1>6, <2>1, Zenon DEF TableInv, GenerationInv
  <2>3. \A f \in stale : f.handle[3] \in SlotSet
    BY StaleSlots
  <2>4. \A f \in stale : f.handle[2] = f.gen % Gens /\ f.gen < entry'[f.handle[3]].gen
    BY <1>6, <2>3, Zenon DEF TableInv, GenerationInv
  <2>5. m.handle[2] = m.gen % Gens /\ m.gen < entry'[m.handle[3]].gen
    <3>1. entry[s].gen = app.gen + 1
      BY <1>0, <1>2, Zenon DEF TableInv, GenerationInv
    <3>2. QED
      BY <1>3, <1>4, <1>6, <3>1, SMT
  <2>6. app'.at \notin {"publish", "status", "hide"}
    BY <1>8, SMT
  <2>7. \A f \in stale' : f.handle[2] = f.gen % Gens /\ f.gen < entry'[f.handle[3]].gen
    BY <1>2, <2>4, <2>5, Zenon
  <2>8. QED
    BY <2>0, <2>2, <2>6, <2>7, Zenon DEF GenerationInv
<1>14. QED
  BY <1>12, <1>13 DEF TableInv

LEMMA ReleaseKeeps ==
  ASSUME TableInv, Release
  PROVE  TableInv'
<1>0. PICK s : s = app.slot
  OBVIOUS
<1> DEFINE r == [entry[s] EXCEPT !.desc = NoDesc]
<1>1. TableTypes /\ LiveHandlesResolve /\ FreeListSound
  BY DEF TableInv, SlotInv
<1>2. /\ app.at = "release" /\ app' = Idle
      /\ entry' = [entry EXCEPT ![s] = r]
      /\ free' = <<s>> \o free
      /\ highWater' = highWater /\ nextSeq' = nextSeq /\ live' = live /\ stale' = stale
  BY <1>0, Zenon DEF Release, Pushed
<1>3. s \in SlotSet /\ Given(s) /\ entry[s].virt = NoHandle /\ entry[s] \in Entries
  <2>1. s \in SlotSet /\ entry[s] \in Entries
    BY <1>0, <1>1, SMT DEF TableTypes
  <2>2. QED
    BY <1>0, <1>2, <2>1, SMT DEF TableInv, SlotInv
<1>4. r \in Entries /\ r.virt = entry[s].virt /\ r.seq = entry[s].seq /\ r.gen = entry[s].gen
  BY <1>3, SMT DEF Entries, NoDesc
<1> HIDE DEF r
<1>5. SameHandles
  BY <1>1, <1>2, <1>4, OtherFields, Zenon
<1>6. /\ free \in Seq(SlotSet) /\ Len(free) \in Nat /\ DOMAIN free = 1 .. Len(free)
      /\ \A i \in DOMAIN free : free[i] \in SlotSet /\ free[i] # s
  BY <1>0, <1>1, <1>2, ElementOfSeq, LenProperties, SMT DEF TableTypes, FreeListSound
<1>7. /\ free' \in Seq(SlotSet) /\ DOMAIN free' = 1 .. Len(free) + 1
      /\ free'[1] = s /\ \A i \in 2 .. Len(free) + 1 : free'[i] = free[i - 1]
  BY <1>2, <1>3, <1>6, SMT
<1>8. \A i \in DOMAIN free' : i # 1 => i - 1 \in DOMAIN free /\ free'[i] = free[i - 1]
  BY <1>6, <1>7, SMT
<1>9. /\ Idle \in [at : {"idle", "publish", "hide", "release", "status"},
                   kind : Kinds, gen : Nat, slot : SlotSet]
      /\ app'.at = "idle"
  BY <1>2, TableConstants, SMT DEF Idle, SlotSet
<1>10. TableTypes'
  BY <1>1, <1>2, <1>5, <1>7, <1>9, Zenon DEF TableTypes, SameHandles
<1>11. \A l \in live : l.handle[3] \in SlotSet
  BY LiveSlots
<1>12. LiveHandlesResolve'
  BY <1>2, <1>5, <1>11, StillLive DEF SameHandles
<1>13. \A i \in DOMAIN free' : \E t \in SlotSet : t = free'[i] /\ Given(t) /\ entry[t].virt = NoHandle
  BY <1>3, <1>7, <1>8, FreeSlots
<1>14. FreeListSound'
  <2>1. ASSUME NEW i \in DOMAIN free', NEW j \in DOMAIN free', free'[i] = free'[j] PROVE i = j
    <3>1. \A a, b \in DOMAIN free : free[a] = free[b] => a = b
      BY <1>1 DEF FreeListSound
    <3>2. i \in Int /\ j \in Int
      BY <1>6, <1>7, SMT
    <3>3. QED
      BY <1>6, <1>7, <1>8, <2>1, <3>1, <3>2, SMT
  <2>2. \A i \in DOMAIN free' : entry'[free'[i]].virt = NoHandle
    <3> TAKE i \in DOMAIN free'
    <3>1. PICK t \in SlotSet : t = free'[i] /\ entry[t].virt = NoHandle
      BY <1>13, Zenon
    <3>2. entry'[t].virt = NoHandle
      BY <1>5, <3>1, Zenon DEF SameHandles
    <3>3. QED
      BY <3>1, <3>2, Zenon
  <2>3. QED
    BY <1>9, <2>1, <2>2, Zenon DEF FreeListSound
<1>15. SlotInv'
  <2>1. (\A i \in DOMAIN free : Given(free[i]))'
    BY <1>2, <1>13, Zenon DEF Given
  <2>2. (\A l \in live : Given(l.handle[3]))'
    BY <1>2, Zenon DEF TableInv, SlotInv, Given
  <2>3. QED
    BY <1>9, <1>10, <1>12, <1>14, <2>1, <2>2, SMT DEF SlotInv
<1>16. GenerationInv'
  <2>0. (\A t : ~HidesSlot(t)) /\ (\A t : ~HidesSlot(t)')
    BY <1>2, <1>9, SMT DEF HidesSlot
  <2>1. \A t \in SlotSet : entry'[t].virt # NoHandle => entry'[t].virt[2] = entry'[t].gen % Gens
    BY <1>5, <2>0, Zenon DEF TableInv, GenerationInv, SameHandles
  <2>2. \A f \in stale : f.handle[3] \in SlotSet
    BY StaleSlots
  <2>3. \A f \in stale' : f.handle[2] = f.gen % Gens /\ f.gen < entry'[f.handle[3]].gen
    BY <1>2, <1>5, <2>2, Zenon DEF TableInv, GenerationInv, SameHandles
  <2>4. QED
    BY <1>9, <2>0, <2>1, <2>3, SMT DEF GenerationInv
<1>17. QED
  BY <1>15, <1>16 DEF TableInv

-----------------------------------------------------------------------------
(* MPI_Test_internal notes the request's generation.                       *)

LEMMA TestKeeps ==
  ASSUME TableInv, NEW l \in live, Test(l)
  PROVE  TableInv'
<1> DEFINE h == l.handle  s == h[3]
<1>1. TableTypes /\ LiveHandlesResolve /\ FreeListSound
  BY DEF TableInv, SlotInv
<1>2. /\ app.at = "idle" /\ h[1] = "request"
      /\ app' = [at |-> "status", kind |-> "request", gen |-> entry[s].gen, slot |-> s]
      /\ UNCHANGED <<entry, free, highWater, nextSeq, live, stale>>
  BY DEF Test
<1>3. h \in HandleSet /\ s \in SlotSet /\ entry[s].gen \in Nat /\ h # NoHandle
  <2>1. h \in HandleSet
    BY <1>1, SMT DEF TableTypes
  <2>2. s \in SlotSet /\ h # NoHandle
    BY <2>1, HandleParts, Zenon
  <2>3. QED
    BY <1>1, <2>1, <2>2, SMT DEF TableTypes, Entries
<1>4. entry[s].virt = h /\ h[2] = entry[s].gen % Gens
  <2>1. entry[s].virt = h
    BY <1>1 DEF LiveHandlesResolve, Resolves
  <2>2. ~HidesSlot(s)
    BY <1>2, SMT DEF HidesSlot
  <2>3. QED
    BY <1>3, <2>1, <2>2, Zenon DEF TableInv, GenerationInv
<1>5. app'.at = "status" /\ app'.slot = s /\ app'.gen = entry[s].gen /\ app'.kind = "request"
  BY <1>2, SMT
<1>6. h = Handle(app)'
  BY <1>2, <1>3, <1>4, <1>5, HandleParts, Zenon DEF Handle, HandleOf
<1>7. TableTypes'
  BY <1>1, <1>2, <1>3, TableConstants, SMT DEF TableTypes
<1>8. LiveHandlesResolve'
  BY <1>2, StillLive
<1>9. FreeListSound'
  <2>1. \A i \in DOMAIN free : free[i] # s
    BY <1>1, <1>3, <1>4 DEF FreeListSound
  <2>2. QED
    BY <1>1, <1>2, <1>5, <2>1, Zenon DEF FreeListSound
<1>10. SlotInv'
  <2>1. Given(s)' /\ (\A i \in DOMAIN free : Given(free[i]))' /\ (\A m \in live : Given(m.handle[3]))'
    BY <1>2, Zenon DEF TableInv, SlotInv, Given
  <2>2. Given(app.slot)'
    BY <1>5, <2>1, Zenon DEF Given
  <2>3. (\E m \in live : m.handle = Handle(app))'
    BY <1>2, <1>6, Zenon
  <2>4. app'.at \notin {"publish", "hide", "release"}
    BY <1>5, SMT
  <2>5. QED
    BY <1>5, <1>7, <1>8, <1>9, <2>1, <2>2, <2>3, <2>4, Zenon DEF SlotInv
<1>11. GenerationInv'
  <2>1. (\A t : ~HidesSlot(t)) /\ (\A t : ~HidesSlot(t)')
    BY <1>2, <1>5, SMT DEF HidesSlot
  <2>2. entry'[app'.slot].gen = app'.gen /\ app'.at # "hide"
    BY <1>2, <1>5, SMT
  <2>3. \A t \in SlotSet : entry'[t].virt # NoHandle => entry'[t].virt[2] = entry'[t].gen % Gens
    BY <1>2, <2>1, Zenon DEF TableInv, GenerationInv
  <2>4. \A f \in stale' : f.handle[2] = f.gen % Gens /\ f.gen < entry'[f.handle[3]].gen
    BY <1>2, Zenon DEF TableInv, GenerationInv
  <2>5. QED
    BY <2>1, <2>2, <2>3, <2>4, Zenon DEF GenerationInv
<1>12. QED
  BY <1>10, <1>11 DEF TableInv

-----------------------------------------------------------------------------
(* SlotInv and GenerationInv hold in every state.                          *)
THEOREM TableInvariant == Spec => []TableInv
<1>1. TableInv /\ [Next]_vars => TableInv'
  <2> SUFFICES ASSUME TableInv, [Next]_vars PROVE TableInv'
    OBVIOUS
  <2>1. ASSUME NEW kind \in Kinds, AddVirtId(kind) PROVE TableInv'
    BY <2>1, AddKeeps
  <2>2. ASSUME NEW l \in live, FreeVirtId(l) PROVE TableInv'
    BY <2>2, StartFreeKeeps DEF FreeVirtId
  <2>3. ASSUME NEW l \in live, Test(l) PROVE TableInv'
    BY <2>3, TestKeeps
  <2>4. ASSUME NEW l \in live, CompleteVirtRequest(l) PROVE TableInv'
    BY <2>4, CheckpointThreadKeeps
  <2>5. CASE FreeRequest
    <3>1. PICK l \in live : l.handle = Handle(app)
      BY <2>5 DEF FreeRequest, TableInv, SlotInv
    <3>2. QED
      BY <2>5, <3>1, StartFreeKeeps DEF FreeRequest
  <2>6. CASE UNCHANGED <<entry, free, highWater, nextSeq, app, live, stale>>
    BY <2>6, CheckpointThreadKeeps
  <2>7. ASSUME NEW gid \in 1 .. nextSeq, FindVirtComm(gid) PROVE TableInv'
    BY <2>6, <2>7 DEF FindVirtComm
  <2>8. CASE LoadHandle \/ LoadDesc \/ ReadGid \/ EndScan \/ AtBound
    BY <2>6, <2>8 DEF LoadHandle, LoadDesc, ReadGid, EndScan, AtBound, vars
  <2>9. CASE Publish \/ Hide \/ Release
    BY <2>9, PublishKeeps, HideKeeps, ReleaseKeeps
  <2>10. CASE StoreCompleted \/ StoreNull
    BY <2>10, CheckpointThreadKeeps
  <2>11. CASE UNCHANGED vars
    BY <2>6, <2>11 DEF vars
  <2>12. QED
    BY <2>1, <2>2, <2>3, <2>4, <2>5, <2>7, <2>8, <2>9, <2>10, <2>11 DEF Next
<1>2. QED
  BY <1>1, InitTableInv, PTL DEF Spec

(* A handle that the application has names its own object, shares its slot *)
(* with no other and equals no predefined constant, whatever it allocates  *)
(* and frees while the checkpoint thread scans and completes requests.     *)
THEOREM LiveHandlesAreRight == Spec => []LiveHandlesResolve
<1>1. TableInv => LiveHandlesResolve
  BY DEF TableInv, SlotInv
<1>2. QED
  BY <1>1, TableInvariant, PTL

(* A freed handle is detected as stale until its slot has been through all *)
(* generations again.                                                      *)
THEOREM StaleHandlesAreDetected == Spec => []StaleDetectedUntilWrap
<1>1. TableInv => StaleDetectedUntilWrap
  <2> SUFFICES ASSUME TableInv, NEW f \in stale,
                      entry[f.handle[3]].gen < f.gen + Gens, Resolves(f.handle)
               PROVE  FALSE
    BY DEF StaleDetectedUntilWrap
  <2> DEFINE s == f.handle[3]  g == IF HidesSlot(s) THEN app.gen ELSE entry[s].gen
  <2>1. TableTypes
    BY DEF TableInv, SlotInv
  <2>2. /\ s \in SlotSet /\ f.handle # NoHandle /\ f.gen \in Nat
        /\ entry[s].gen \in Nat /\ app.gen \in Nat
    BY <2>1, HandleParts, SMT DEF TableTypes, Entries
  <2>3. entry[s].virt = f.handle
    BY DEF Resolves
  <2>4. f.handle[2] = g % Gens
    BY <2>2, <2>3, Zenon DEF TableInv, GenerationInv
  <2>5. f.handle[2] = f.gen % Gens /\ f.gen < entry[s].gen /\ (HidesSlot(s) => f.gen < app.gen)
    BY DEF TableInv, GenerationInv
  <2>6. HidesSlot(s) => app.gen < entry[s].gen
    BY <2>2, SMT DEF TableInv, GenerationInv, HidesSlot
  <2>7. g \in Nat /\ f.gen < g /\ g < f.gen + Gens
    BY <2>2, <2>5, <2>6, TableConstants, SMT
  <2> HIDE DEF g
  <2>8. QED
    BY <2>2, <2>4, <2>5, <2>7, DifferentMod
<1>2. QED
  BY <1>1, TableInvariant, PTL

-----------------------------------------------------------------------------
(* The two threads together.  ThreadInv is inductive given TableInv.       *)
ThreadInv == CkptTypes /\ DescInv /\ ScanInv /\ CompletionInv

LEMMA NoScanFields ==
  /\ NoScan \in CkptRecords /\ NoScan.at = "idle" /\ NoScan.there = {}
<1> DEFINE F == HandleSet \cup {NoHandle}  T == SUBSET [handle : HandleSet, seq : Nat]
<1>1. NoHandle \in F /\ {} \in T
  OBVIOUS
<1>2. CkptRecords = [at : CkptPlaces, gid : Nat, slot : Nat, end : Nat, found : F, desc : Nat,
                     there : T]
  BY DEF CkptRecords
<1> HIDE DEF F, T
<1>3. QED
  BY <1>1, <1>2, SMT DEF NoScan, NoDesc, CkptPlaces

LEMMA InitThreadInv == Init => ThreadInv
<1> SUFFICES ASSUME Init PROVE ThreadInv
  OBVIOUS
<1>1. CkptTypes
  BY NoScanFields DEF Init, CkptTypes
<1>2. ckpt.at = "idle" /\ ckpt.there = {} /\ app.at = "idle" /\ lock = "none" /\ live = {}
  BY SMT DEF Init, NoScan, Idle
<1>3. \A s \in SlotSet : entry[s].virt = NoHandle /\ entry[s].desc = NoDesc
  BY SMT DEF Init, EmptyEntry
<1>4. QED
  BY <1>1, <1>2, <1>3, SMT DEF ThreadInv, DescInv, ScanInv, CompletionInv, Scans

(* What the application does to slots where no communicator is published   *)
(* does not disturb a scan.                                                *)
LEMMA ScanGoesOn ==
  ASSUME TableTypes, CkptTypes, ScanInv, ckpt' = ckpt, highWater' \in Nat, highWater <= highWater',
         \A l \in ckpt.there \cap live' : l \in live,
         Scans => \A t \in SlotSet : entry[t].virt # NoHandle /\ entry[t].virt[1] = "comm" =>
                    /\ entry'[t].virt = entry[t].virt
                    /\ entry'[t].seq = entry[t].seq
                    /\ entry'[t].desc = entry[t].desc
  PROVE  ScanInv'
<1> SUFFICES ASSUME Scans PROVE ScanInv'
  BY DEF ScanInv, Scans
<1>1. /\ highWater \in 0 .. Slots /\ Slots \in Nat
      /\ ckpt.slot \in Nat /\ ckpt.end \in 0 .. highWater
  BY TableConstants DEF ScanInv, TableTypes
<1>2. ckpt.end \in 0 .. highWater'
  BY <1>1, SMT
<1>3. ckpt.at # "scan" => ckpt.slot \in SlotSet
  <2>1. ckpt.at # "scan" => ckpt.slot < ckpt.end
    BY DEF ScanInv
  <2>2. QED
    BY <1>1, <2>1, SMT DEF SlotSet
<1>4. ckpt.at # "scan" => /\ entry'[ckpt.slot].virt = entry[ckpt.slot].virt
                          /\ entry'[ckpt.slot].desc = entry[ckpt.slot].desc
  BY <1>3 DEF ScanInv
<1>5. ckpt.at = "scan" /\ ckpt.found # NoHandle =>
        /\ entry'[ckpt.found[3]].virt = ckpt.found
        /\ entry'[ckpt.found[3]].seq = entry[ckpt.found[3]].seq
  BY DEF ScanInv, Resolves
<1>6. ckpt.at # "scan" \/ ckpt.found = NoHandle =>
         \A l \in ckpt.there \cap live' :
           l.handle[1] = "comm" /\ l.seq = ckpt.gid =>
             ckpt.slot <= l.handle[3] /\ l.handle[3] < ckpt.end
  BY DEF ScanInv
<1>7. /\ ckpt.at # "scan" =>
         /\ ckpt.slot < ckpt.end /\ entry'[ckpt.slot].virt = ckpt.found
         /\ ckpt.found # NoHandle /\ ckpt.found[1] = "comm"
      /\ ckpt.at = "read" => ckpt.desc = entry'[ckpt.slot].desc
  <2>1. ckpt.at = "read" => ckpt.at # "scan"
    BY SMT
  <2>2. QED
    BY <1>4, <2>1 DEF ScanInv
<1>8. ckpt.at = "scan" /\ ckpt.found # NoHandle =>
         /\ ckpt.found[3] \in SlotSet /\ ckpt.found[1] = "comm"
         /\ entry'[ckpt.found[3]].virt = ckpt.found /\ entry'[ckpt.found[3]].seq = ckpt.gid
  BY <1>5 DEF ScanInv
<1>9. QED
  BY <1>1, <1>2, <1>6, <1>7, <1>8 DEF ScanInv, Resolves

(* What the application does to requests that are not being completed.     *)
LEMMA CompletionGoesOn ==
  ASSUME CompletionInv, ckpt' = ckpt,
         \A l \in live \cap live' :
           /\ entry'[l.handle[3]].null <=> entry[l.handle[3]].null
           /\ entry'[l.handle[3]].completed <=> entry[l.handle[3]].completed
           /\ entry'[l.handle[3]].status = entry[l.handle[3]].status,
         \A l \in live' : l \in live \/ ~entry'[l.handle[3]].null,
         \A l \in live : l.handle[1] = "request" /\ ~entry[l.handle[3]].null => l \in live',
         app'.at = "publish" => ~entry'[app'.slot].null,
         app'.at = "status" => app'.kind = "request" /\ entry'[app'.slot].null
  PROVE  CompletionInv'
<1>1. \A l \in live' : l.handle[1] = "request" /\ entry'[l.handle[3]].null =>
        entry'[l.handle[3]].completed /\ entry'[l.handle[3]].status = l.seq
  <2> SUFFICES ASSUME NEW l \in live', l.handle[1] = "request", entry'[l.handle[3]].null
               PROVE  entry'[l.handle[3]].completed /\ entry'[l.handle[3]].status = l.seq
    OBVIOUS
  <2>1. l \in live \cap live'
    OBVIOUS
  <2>2. entry[l.handle[3]].null
    BY <2>1
  <2>3. entry[l.handle[3]].completed /\ entry[l.handle[3]].status = l.seq
    BY <2>1, <2>2 DEF CompletionInv
  <2>4. QED
    BY <2>1, <2>3
<1>2. ASSUME ckpt.at \in {"completed", "null"}
      PROVE  /\ \E l \in live' : /\ l.handle[1] = "request" /\ l.handle[3] = ckpt.slot
                                 /\ entry'[ckpt.slot].status = l.seq
             /\ ~entry'[ckpt.slot].null
             /\ ckpt.at = "null" => entry'[ckpt.slot].completed
  <2>1. PICK l \in live : /\ l.handle[1] = "request" /\ l.handle[3] = ckpt.slot
                          /\ entry[ckpt.slot].status = l.seq
    BY <1>2 DEF CompletionInv
  <2>2. ~entry[l.handle[3]].null /\ (ckpt.at = "null" => entry[l.handle[3]].completed)
    BY <1>2, <2>1 DEF CompletionInv
  <2>3. l \in live \cap live'
    BY <2>1, <2>2
  <2>4. ~entry'[l.handle[3]].null /\ (ckpt.at = "null" => entry'[l.handle[3]].completed)
    BY <2>2, <2>3
  <2>5. entry'[ckpt.slot].status = l.seq
    BY <2>1, <2>3
  <2>6. QED
    BY <2>1, <2>3, <2>4, <2>5
<1>3. ckpt.at = "null" => ckpt.at \in {"completed", "null"}
  OBVIOUS
<1>4. QED
  BY <1>1, <1>2, <1>3 DEF CompletionInv

-----------------------------------------------------------------------------
(* add_virt_id takes an empty slot.                                        *)

LEMMA AddEffect ==
  ASSUME TableInv, DescInv, NEW kind \in Kinds, AddVirtId(kind)
  PROVE  \E s \in SlotSet :
           /\ entry[s].virt = NoHandle /\ entry'[s].virt = NoHandle
           /\ \A t \in SlotSet : t # s => entry'[t] = entry[t]
           /\ entry'[s].seq = nextSeq + 1 /\ ~entry'[s].null
           /\ entry'[s].desc = IF kind = "comm" THEN nextSeq + 1 ELSE NoDesc
           /\ app'.at = "publish" /\ app'.kind = kind /\ app'.slot = s
           /\ highWater' \in 0 .. Slots /\ highWater <= highWater'
           /\ \A l \in live : l.handle[3] \in SlotSet /\ l.handle[3] # s
<1>0. PICK s : s = AllocSlot
  OBVIOUS
<1> DEFINE d == IF kind = "comm" THEN nextSeq + 1 ELSE NoDesc
           r == [entry[s] EXCEPT !.seq = nextSeq + 1, !.desc = d,
                                 !.null = FALSE, !.completed = FALSE]
<1>1. TableTypes /\ app.at = "idle" /\ (free # <<>> \/ Unused # {})
  BY DEF TableInv, SlotInv, AddVirtId
<1>2. /\ free' = (IF free # <<>> THEN Tail(free) ELSE free)
      /\ highWater' = (IF free # <<>> THEN highWater ELSE s + 1)
      /\ entry' = [entry EXCEPT ![s] = r]
  BY <1>0 DEF AddVirtId
<1>3. app'.at = "publish" /\ app'.kind = kind /\ app'.slot = s
  BY <1>0, SMT DEF AddVirtId
<1>4. s \in SlotSet /\ highWater' \in 0 .. Slots /\ \A l \in live : l.handle[3] # s
  BY <1>0, <1>1, <1>2, AllocEffect
<1>5. \A l \in live : l.handle[3] \in SlotSet
  BY LiveSlots
<1>6. entry[s].virt = NoHandle
  <2>1. CASE free # <<>>
    <3>1. s = free[1] /\ 1 \in DOMAIN free
      BY <1>0, <1>1, <2>1, EmptySeq, LenProperties, SMT DEF AllocSlot, TableTypes
    <3>2. QED
      BY <3>1, FreeSlots
  <2>2. CASE free = <<>>
    <3>1. s \in Unused
      BY <1>0, <1>1, <2>2, AllocUnused
    <3>2. ~(s < highWater)
      BY <1>1, <3>1, TableConstants, SMT DEF Unused, SlotSet, TableTypes
    <3>3. QED
      BY <1>4, <3>2 DEF DescInv
  <2>3. QED
    BY <2>1, <2>2
<1>7. highWater <= highWater'
  <2>1. free = <<>> => s >= highWater
    BY <1>0, <1>1, AllocUnused DEF Unused
  <2>2. highWater \in 0 .. Slots /\ s \in 0 .. Slots - 1 /\ Slots \in Nat
    BY <1>1, <1>4, TableConstants DEF TableTypes, SlotSet
  <2>3. QED
    BY <1>2, <2>1, <2>2, SMT
<1>8. entry \in [SlotSet -> Entries] /\ entry[s] \in Entries /\ nextSeq \in Nat
  BY <1>1, <1>4 DEF TableTypes
<1>9. r.virt = entry[s].virt /\ r.seq = nextSeq + 1 /\ r.desc = d /\ ~r.null
  <2> HIDE DEF d
  <2>1. r.virt = entry[s].virt /\ r.seq = nextSeq + 1 /\ r.desc = d /\ r.null = FALSE
    BY <1>8, SMT DEF Entries
  <2>2. QED
    BY <2>1
<1>10. \A t \in SlotSet : entry'[t] = IF t = s THEN r ELSE entry[t]
  BY <1>2, <1>8
<1> HIDE DEF r
<1>11. QED
  BY <1>3, <1>4, <1>5, <1>6, <1>7, <1>9, <1>10

LEMMA AddKeepsThreads ==
  ASSUME TableInv, ThreadInv, NEW kind \in Kinds, AddVirtId(kind)
  PROVE  ThreadInv'
<1>1. CkptTypes /\ DescInv /\ ScanInv /\ CompletionInv /\ TableTypes
  BY DEF ThreadInv, TableInv, SlotInv
<1>2. PICK s \in SlotSet :
           /\ entry[s].virt = NoHandle /\ entry'[s].virt = NoHandle
           /\ \A t \in SlotSet : t # s => entry'[t] = entry[t]
           /\ entry'[s].seq = nextSeq + 1 /\ ~entry'[s].null
           /\ entry'[s].desc = IF kind = "comm" THEN nextSeq + 1 ELSE NoDesc
           /\ app'.at = "publish" /\ app'.kind = kind /\ app'.slot = s
           /\ highWater' \in 0 .. Slots /\ highWater <= highWater'
           /\ \A l \in live : l.handle[3] \in SlotSet /\ l.handle[3] # s
  BY <1>1, AddEffect
<1>3. /\ live' = live /\ ckpt' = ckpt /\ lock' = lock /\ nextSeq' = nextSeq + 1
      /\ heap' = IF kind = "comm" THEN heap \cup {nextSeq + 1} ELSE heap
      /\ app.at = "idle"
  BY DEF AddVirtId
<1>4. highWater \in 0 .. Slots /\ highWater' \in Nat /\ nextSeq \in Nat
  BY <1>1, <1>2, SMT DEF TableTypes
<1>5. ScanInv'
  <2>1. \A t \in SlotSet : entry[t].virt # NoHandle => entry'[t] = entry[t]
    BY <1>2
  <2>2. \A t \in SlotSet : entry[t].virt # NoHandle /\ entry[t].virt[1] = "comm" =>
                    /\ entry'[t].virt = entry[t].virt
                    /\ entry'[t].seq = entry[t].seq
                    /\ entry'[t].desc = entry[t].desc
    BY <2>1
  <2>3. QED
    BY <1>1, <1>2, <1>3, <1>4, <2>2, ScanGoesOn
<1>6. CompletionInv'
  <2>1. \A l \in live : entry'[l.handle[3]] = entry[l.handle[3]]
    BY <1>2
  <2>2. app'.at # "status"
    BY <1>2, SMT
  <2>3. QED
    BY <1>1, <1>2, <1>3, <2>1, <2>2, CompletionGoesOn
<1>7. DescInv'
  <2>1. app.at # "release" /\ app'.at # "release" /\ app'.at # "hide"
    BY <1>2, <1>3, SMT
  <2>2. /\ (lock = "app" <=> app.at = "release" /\ app.kind = "comm")'
        /\ (lock = "ckpt" <=> Scans)'
    BY <1>1, <1>3, <2>1 DEF DescInv, Scans
  <2>3. \A t \in SlotSet : entry[t].desc \in Nat
    BY <1>1, SMT DEF TableTypes, Entries
  <2>4. \A t \in SlotSet : t # s /\ entry[t].desc # NoDesc =>
          /\ entry[t].desc \in heap /\ entry[t].desc <= nextSeq /\ entry[t].desc # nextSeq + 1
          /\ entry[t].desc <= nextSeq + 1
    BY <1>1, <1>4, <2>3, SMT DEF DescInv
  <2>5. nextSeq + 1 # NoDesc /\ nextSeq + 1 <= nextSeq + 1
    BY <1>4, SMT DEF NoDesc
  <2>6. /\ heap \subseteq heap'
        /\ entry'[s].desc # NoDesc => entry'[s].desc = nextSeq + 1 /\ nextSeq + 1 \in heap'
    BY <1>2, <1>3
  <2>7. \A t \in SlotSet : entry'[t].desc # NoDesc => entry'[t].desc \in heap' /\ entry'[t].desc <= nextSeq'
    BY <1>2, <1>3, <2>4, <2>5, <2>6
  <2>8. \A t, u \in SlotSet : entry'[t].desc # NoDesc /\ entry'[t].desc = entry'[u].desc => t = u
    <3> SUFFICES ASSUME NEW t \in SlotSet, NEW u \in SlotSet, entry'[t].desc # NoDesc,
                        entry'[t].desc = entry'[u].desc, t # u
                 PROVE  FALSE
      OBVIOUS
    <3>1. CASE t # s /\ u # s
      <4>1. entry'[t] = entry[t] /\ entry'[u] = entry[u]
        BY <1>2, <3>1
      <4>2. entry[t].desc # NoDesc /\ entry[t].desc = entry[u].desc
        BY <4>1
      <4>3. QED
        BY <1>1, <4>2 DEF DescInv
    <3>2. CASE t = s
      BY <1>2, <2>4, <2>6, <3>2
    <3>3. CASE u = s
      BY <1>2, <2>4, <2>6, <3>3
    <3>4. QED
      BY <3>1, <3>2, <3>3
  <2>9. \A t \in SlotSet : t < highWater => t < highWater'
    BY <1>2, <1>4, TableConstants, SMT DEF SlotSet
  <2>10. \A t \in SlotSet : entry'[t].virt # NoHandle =>
           /\ t < highWater' /\ entry'[t].virt[3] = t
           /\ entry'[t].virt[1] = "comm" => entry'[t].desc = entry'[t].seq /\ entry'[t].seq # NoDesc
    <3>1. \A t \in SlotSet : entry[t].virt # NoHandle =>
            /\ t < highWater /\ entry[t].virt[3] = t
            /\ entry[t].virt[1] = "comm" => entry[t].desc = entry[t].seq /\ entry[t].seq # NoDesc
      BY <1>1 DEF DescInv
    <3>2. \A t \in SlotSet : entry'[t].virt # NoHandle => entry'[t] = entry[t]
      BY <1>2
    <3>3. QED
      BY <2>9, <3>1, <3>2
  <2>11. \A l \in live \cup ckpt.there : l.seq \in Nat /\ l.seq <= nextSeq
    <3>1. live \cup ckpt.there \subseteq [handle : HandleSet, seq : Nat]
      BY <1>1, SMT DEF CkptTypes, CkptRecords, TableTypes
    <3>2. QED
      BY <1>1, <3>1, SMT DEF DescInv
  <2>12. \A l \in live' \cup ckpt'.there : l.seq <= nextSeq' /\ l.seq < nextSeq'
    BY <1>3, <1>4, <2>11, SMT
  <2>13. (app.at = "publish" =>
           /\ entry[app.slot].virt = NoHandle
           /\ entry[app.slot].seq = nextSeq /\ nextSeq # NoDesc
           /\ app.kind = "comm" => entry[app.slot].desc = nextSeq)'
    BY <1>2, <1>3, <2>5
  <2>14. QED
    BY <2>1, <2>2, <2>7, <2>8, <2>10, <2>12, <2>13 DEF DescInv
<1>8. QED
  BY <1>1, <1>3, <1>5, <1>6, <1>7 DEF ThreadInv, CkptTypes

-----------------------------------------------------------------------------
(* Descriptors and handles that a step leaves alone.                       *)
LEMMA SameDescs ==
  ASSUME DescInv, UNCHANGED <<nextSeq, heap>>,
         \A t \in SlotSet : entry'[t].desc = entry[t].desc
  PROVE  /\ \A t \in SlotSet : entry'[t].desc # NoDesc =>
              entry'[t].desc \in heap' /\ entry'[t].desc <= nextSeq'
         /\ \A t, u \in SlotSet :
              entry'[t].desc # NoDesc /\ entry'[t].desc = entry'[u].desc => t = u
<1>1. \A t \in SlotSet : entry[t].desc # NoDesc => entry[t].desc \in heap /\ entry[t].desc <= nextSeq
  BY DEF DescInv
<1>2. \A t, u \in SlotSet : entry[t].desc # NoDesc /\ entry[t].desc = entry[u].desc => t = u
  BY DEF DescInv
<1>3. QED
  BY <1>1, <1>2

LEMMA SamePublished ==
  ASSUME DescInv, highWater' = highWater,
         \A t \in SlotSet : entry'[t].virt # NoHandle =>
           /\ entry'[t].virt = entry[t].virt
           /\ entry'[t].seq = entry[t].seq /\ entry'[t].desc = entry[t].desc
  PROVE  \A t \in SlotSet : entry'[t].virt # NoHandle =>
           /\ t < highWater' /\ entry'[t].virt[3] = t
           /\ entry'[t].virt[1] = "comm" => entry'[t].desc = entry'[t].seq /\ entry'[t].seq # NoDesc
<1>1. \A t \in SlotSet : entry[t].virt # NoHandle =>
        /\ t < highWater /\ entry[t].virt[3] = t
        /\ entry[t].virt[1] = "comm" => entry[t].desc = entry[t].seq /\ entry[t].seq # NoDesc
  BY DEF DescInv
<1>2. QED
  BY <1>1

LEMMA PublishKeepsThreads ==
  ASSUME TableInv, ThreadInv, Publish
  PROVE  ThreadInv'
<1>0. PICK s : s = app.slot
  OBVIOUS
<1>h. PICK h : h = Handle(app)
  OBVIOUS
<1>m. PICK m : m = [handle |-> h, seq |-> entry[s].seq]
  OBVIOUS
<1>1. CkptTypes /\ DescInv /\ ScanInv /\ CompletionInv /\ TableTypes
  BY DEF ThreadInv, TableInv, SlotInv
<1>2. /\ app.at = "publish" /\ app' = Idle
      /\ entry' = [entry EXCEPT ![s] = [entry[s] EXCEPT !.virt = h]]
      /\ live' = live \cup {m}
      /\ UNCHANGED <<highWater, nextSeq, heap, lock, ckpt>>
  BY <1>0, <1>h, <1>m DEF Publish
<1>3. /\ s \in SlotSet /\ app.kind \in Kinds /\ app.gen \in Nat /\ entry[s] \in Entries
      /\ entry \in [SlotSet -> Entries] /\ nextSeq \in Nat /\ highWater \in 0 .. Slots
      /\ app'.at = "idle"
  BY <1>0, <1>1, <1>2, SMT DEF TableTypes, Idle
<1>4. h \in HandleSet /\ h[1] = app.kind /\ h[3] = s /\ h # NoHandle /\ m.handle = h
      /\ m.seq = entry[s].seq
  <2>1. h \in HandleSet /\ h = <<app.kind, app.gen % Gens, s>>
    BY <1>0, <1>h, <1>3, HandleType DEF Handle, HandleOf
  <2>2. QED
    BY <1>m, <2>1, HandleParts
<1>5. /\ \A t \in SlotSet : t # s => entry'[t] = entry[t]
      /\ entry'[s] = [entry[s] EXCEPT !.virt = h]
  BY <1>2, <1>3
<1>6. /\ entry'[s].virt = h /\ entry'[s].seq = entry[s].seq /\ entry'[s].desc = entry[s].desc
      /\ entry'[s].null = entry[s].null
  BY <1>3, <1>4, <1>5, SMT DEF Entries
<1>7. /\ entry[s].virt = NoHandle /\ entry[s].seq = nextSeq /\ nextSeq # NoDesc
      /\ app.kind = "comm" => entry[s].desc = nextSeq
      /\ \A l \in live \cup ckpt.there : l.seq <= nextSeq /\ l.seq < nextSeq
  BY <1>0, <1>1, <1>2 DEF DescInv
<1>8. s < highWater /\ \A l \in live : l.handle[3] \in SlotSet /\ l.handle[3] # s
  <2>1. \A l \in live : l.handle[3] \in SlotSet
    BY LiveSlots
  <2>2. QED
    BY <1>0, <1>2, <2>1, SMT DEF TableInv, SlotInv, Given
<1>9. ScanInv'
  <2>1. \A t \in SlotSet : entry[t].virt # NoHandle /\ entry[t].virt[1] = "comm" =>
                    /\ entry'[t].virt = entry[t].virt
                    /\ entry'[t].seq = entry[t].seq
                    /\ entry'[t].desc = entry[t].desc
    BY <1>5, <1>7
  <2>2. ~(nextSeq < nextSeq)
    BY <1>3, SMT
  <2>3. \A l \in ckpt.there \cap live' : l \in live
    BY <1>2, <1>4, <1>7, <2>2
  <2>4. highWater' \in Nat /\ highWater <= highWater'
    BY <1>2, <1>3, SMT
  <2>5. QED
    BY <1>1, <1>2, <2>1, <2>3, <2>4, ScanGoesOn
<1>10. CompletionInv'
  <2>1. \A l \in live : entry'[l.handle[3]] = entry[l.handle[3]]
    BY <1>5, <1>8
  <2>2. ~entry'[s].null
    BY <1>0, <1>1, <1>2, <1>6 DEF CompletionInv
  <2>3. app'.at # "publish" /\ app'.at # "status"
    BY <1>3, SMT
  <2>4. QED
    BY <1>1, <1>2, <1>4, <2>1, <2>2, <2>3, CompletionGoesOn
<1>11. DescInv'
  <2>1. /\ app.at # "release" /\ app'.at # "release" /\ app'.at # "hide" /\ app'.at # "publish"
    BY <1>2, <1>3, SMT
  <2>2. /\ (lock = "app" <=> app.at = "release" /\ app.kind = "comm")'
        /\ (lock = "ckpt" <=> Scans)'
    BY <1>1, <1>2, <2>1 DEF DescInv, Scans
  <2>3. \A t \in SlotSet : entry'[t].desc = entry[t].desc /\ entry'[t].seq = entry[t].seq
    BY <1>5, <1>6
  <2>4. \A t \in SlotSet : entry'[t].desc # NoDesc => entry'[t].desc \in heap' /\ entry'[t].desc <= nextSeq'
    BY <1>1, <1>2, <2>3, SameDescs
  <2>5. \A t, u \in SlotSet : entry'[t].desc # NoDesc /\ entry'[t].desc = entry'[u].desc => t = u
    BY <1>1, <1>2, <2>3, SameDescs
  <2>6. ASSUME NEW t \in SlotSet, entry'[t].virt # NoHandle
        PROVE  /\ t < highWater' /\ entry'[t].virt[3] = t
               /\ entry'[t].virt[1] = "comm" => entry'[t].desc = entry'[t].seq /\ entry'[t].seq # NoDesc
    <3>1. CASE t = s
      <4>1. /\ entry'[t].virt = h /\ entry'[t].desc = entry[s].desc /\ entry'[t].seq = entry[s].seq
            /\ highWater' = highWater
        BY <1>2, <1>6, <3>1
      <4>2. /\ s < highWater /\ h[3] = s
            /\ h[1] = "comm" => entry[s].desc = entry[s].seq /\ entry[s].seq # NoDesc
        BY <1>4, <1>7, <1>8
      <4>3. QED
        BY <3>1, <4>1, <4>2
    <3>2. CASE t # s
      <4>1. entry'[t] = entry[t] /\ highWater' = highWater
        BY <1>2, <1>5, <3>2
      <4>2. /\ entry[t].virt # NoHandle =>
                 /\ t < highWater /\ entry[t].virt[3] = t
                 /\ entry[t].virt[1] = "comm" => entry[t].desc = entry[t].seq /\ entry[t].seq # NoDesc
        BY <1>1 DEF DescInv
      <4>3. QED
        BY <2>6, <4>1, <4>2
    <3>3. QED
      BY <3>1, <3>2
  <2>7. nextSeq <= nextSeq
    BY <1>3, SMT
  <2>8. \A l \in live' \cup ckpt'.there : l.seq <= nextSeq'
    BY <1>2, <1>4, <1>7, <2>7
  <2>9. QED
    BY <2>1, <2>2, <2>4, <2>5, <2>6, <2>8 DEF DescInv
<1>12. QED
  BY <1>1, <1>2, <1>9, <1>10, <1>11 DEF ThreadInv, CkptTypes

LEMMA StartFreeKeepsThreads ==
  ASSUME TableInv, ThreadInv, app.at \in {"idle", "status"}, NEW l \in live, StartFree(l.handle),
         l.handle[1] # "request" \/ entry[l.handle[3]].null
  PROVE  ThreadInv'
<1>0. PICK h, s : h = l.handle /\ s = h[3]
  OBVIOUS
<1>1. CkptTypes /\ DescInv /\ ScanInv /\ CompletionInv /\ TableTypes /\ LiveHandlesResolve
  BY DEF ThreadInv, TableInv, SlotInv
<1>2. /\ app' = [at |-> "hide", kind |-> h[1], gen |-> entry[s].gen, slot |-> s]
      /\ entry' = [entry EXCEPT ![s] = [entry[s] EXCEPT !.gen = entry[s].gen + 1]]
      /\ live' = {k \in live : k.handle # h}
      /\ UNCHANGED <<highWater, nextSeq, heap, lock, ckpt>>
  BY <1>0 DEF StartFree, NextGeneration
<1>3. /\ h \in HandleSet /\ s \in SlotSet /\ entry \in [SlotSet -> Entries] /\ entry[s] \in Entries
      /\ highWater \in 0 .. Slots
  <2>1. h \in HandleSet
    BY <1>0, <1>1, SMT DEF TableTypes
  <2>2. s \in SlotSet
    BY <1>0, <2>1, HandleParts
  <2>3. QED
    BY <1>1, <2>1, <2>2 DEF TableTypes
<1>4. app'.at = "hide" /\ app'.kind = h[1] /\ app'.slot = s
  BY <1>2, SMT
<1>5. /\ \A t \in SlotSet : t # s => entry'[t] = entry[t]
      /\ entry'[s] = [entry[s] EXCEPT !.gen = entry[s].gen + 1]
  BY <1>2, <1>3
<1>6. /\ entry'[s].virt = entry[s].virt /\ entry'[s].seq = entry[s].seq
      /\ entry'[s].desc = entry[s].desc /\ entry'[s].null = entry[s].null
      /\ entry'[s].completed = entry[s].completed /\ entry'[s].status = entry[s].status
  BY <1>3, <1>5, SMT DEF Entries
<1>7. \A t \in SlotSet :
        /\ entry'[t].virt = entry[t].virt /\ entry'[t].seq = entry[t].seq
        /\ entry'[t].desc = entry[t].desc /\ entry'[t].null = entry[t].null
        /\ entry'[t].completed = entry[t].completed /\ entry'[t].status = entry[t].status
  BY <1>5, <1>6
<1>8. ScanInv'
  <2>1. highWater' \in Nat /\ highWater <= highWater'
    BY <1>2, <1>3, SMT
  <2>2. QED
    BY <1>1, <1>2, <1>7, <2>1, ScanGoesOn
<1>9. CompletionInv'
  <2>1. \A k \in live : k.handle[3] \in SlotSet
    BY LiveSlots
  <2>2. app'.at # "publish" /\ app'.at # "status"
    BY <1>4, SMT
  <2>3. \A k \in live : k.handle[1] = "request" /\ ~entry[k.handle[3]].null => k \in live'
    BY <1>0, <1>2
  <2>4. live' \subseteq live
    BY <1>2
  <2>5. \A k \in live \cap live' :
           /\ entry'[k.handle[3]].null <=> entry[k.handle[3]].null
           /\ entry'[k.handle[3]].completed <=> entry[k.handle[3]].completed
           /\ entry'[k.handle[3]].status = entry[k.handle[3]].status
    BY <1>7, <2>1
  <2>6. QED
    BY <1>1, <1>2, <2>2, <2>3, <2>4, <2>5, CompletionGoesOn
<1>10. DescInv'
  <2>1. /\ app.at # "release" /\ app'.at # "release" /\ app.at # "publish" /\ app'.at # "publish"
    BY <1>4, SMT
  <2>2. /\ (lock = "app" <=> app.at = "release" /\ app.kind = "comm")'
        /\ (lock = "ckpt" <=> Scans)'
    BY <1>1, <1>2, <2>1 DEF DescInv, Scans
  <2>3. entry'[s].virt[1] = h[1]
    BY <1>0, <1>1, <1>7, <1>3 DEF LiveHandlesResolve, Resolves
  <2>4. \A t \in SlotSet : entry'[t].desc # NoDesc => entry'[t].desc \in heap' /\ entry'[t].desc <= nextSeq'
    BY <1>1, <1>2, <1>7, SameDescs
  <2>5. \A t, u \in SlotSet : entry'[t].desc # NoDesc /\ entry'[t].desc = entry'[u].desc => t = u
    BY <1>1, <1>2, <1>7, SameDescs
  <2>6. \A t \in SlotSet : entry'[t].virt # NoHandle =>
           /\ t < highWater' /\ entry'[t].virt[3] = t
           /\ entry'[t].virt[1] = "comm" => entry'[t].desc = entry'[t].seq /\ entry'[t].seq # NoDesc
    BY <1>1, <1>2, <1>7, SamePublished
  <2>7. \A k \in live' \cup ckpt'.there : k.seq <= nextSeq'
    BY <1>1, <1>2 DEF DescInv
  <2>8. QED
    BY <1>4, <2>1, <2>2, <2>3, <2>4, <2>5, <2>6, <2>7 DEF DescInv
<1>11. QED
  BY <1>1, <1>2, <1>8, <1>9, <1>10 DEF ThreadInv, CkptTypes

LEMMA HideKeepsThreads ==
  ASSUME TableInv, ThreadInv, Hide
  PROVE  ThreadInv'
<1>0. PICK s : s = app.slot
  OBVIOUS
<1>1. CkptTypes /\ DescInv /\ ScanInv /\ CompletionInv /\ TableTypes
  BY DEF ThreadInv, TableInv, SlotInv
<1>2. /\ app.at = "hide" /\ app' = [app EXCEPT !.at = "release"]
      /\ app.kind = "comm" => lock = "none"
      /\ lock' = IF app.kind = "comm" THEN "app" ELSE lock
      /\ entry' = [entry EXCEPT ![s] = [entry[s] EXCEPT !.virt = NoHandle]]
      /\ UNCHANGED <<highWater, nextSeq, heap, ckpt, live>>
  BY <1>0 DEF Hide, TakesLock
<1>3. /\ s \in SlotSet /\ entry \in [SlotSet -> Entries] /\ entry[s] \in Entries
      /\ highWater \in 0 .. Slots /\ app'.at = "release" /\ app'.kind = app.kind
  BY <1>0, <1>1, <1>2, SMT DEF TableTypes
<1>4. /\ \A t \in SlotSet : t # s => entry'[t] = entry[t]
      /\ entry'[s] = [entry[s] EXCEPT !.virt = NoHandle]
  BY <1>2, <1>3
<1>5. entry'[s].virt = NoHandle /\ entry'[s].seq = entry[s].seq /\ entry'[s].desc = entry[s].desc
  BY <1>3, <1>4, SMT DEF Entries
<1>6. entry[s].virt[1] = app.kind
  BY <1>0, <1>1, <1>2 DEF DescInv
<1>7. \A l \in live : l.handle[3] \in SlotSet /\ l.handle[3] # s
  <2>1. \A l \in live : l.handle[3] \in SlotSet
    BY LiveSlots
  <2>2. QED
    BY <1>0, <1>2, <2>1, SMT DEF TableInv, SlotInv
<1>8. app.kind = "comm" => ~Scans
  <2>1. "none" # "ckpt"
    BY SMT
  <2>2. QED
    BY <1>1, <1>2, <2>1 DEF DescInv
<1>9. ScanInv'
  <2>1. highWater' \in Nat /\ highWater <= highWater'
    BY <1>2, <1>3, SMT
  <2>2. Scans => \A t \in SlotSet : entry[t].virt # NoHandle /\ entry[t].virt[1] = "comm" =>
                    /\ entry'[t].virt = entry[t].virt
                    /\ entry'[t].seq = entry[t].seq
                    /\ entry'[t].desc = entry[t].desc
    BY <1>4, <1>6, <1>8
  <2>3. QED
    BY <1>1, <1>2, <2>1, <2>2, ScanGoesOn
<1>10. CompletionInv'
  <2>1. \A l \in live : entry'[l.handle[3]] = entry[l.handle[3]]
    BY <1>4, <1>7
  <2>2. app'.at # "publish" /\ app'.at # "status"
    BY <1>3, SMT
  <2>3. QED
    BY <1>1, <1>2, <2>1, <2>2, CompletionGoesOn
<1>11. DescInv'
  <2>1. app.at # "release" /\ app'.at # "hide" /\ app'.at # "publish" /\ "app" # "ckpt"
    BY <1>2, <1>3, SMT
  <2>2. (lock = "app" <=> app.at = "release" /\ app.kind = "comm")'
    <3>1. lock # "app"
      BY <1>1, <2>1 DEF DescInv
    <3>2. QED
      BY <1>2, <1>3, <3>1
  <2>3. (lock = "ckpt" <=> Scans)'
    <3>1. (lock = "ckpt" <=> Scans) /\ (Scans' <=> Scans)
      BY <1>1, <1>2 DEF DescInv, Scans
    <3>2. lock' = "ckpt" <=> lock = "ckpt"
      BY <1>2, <1>8, <2>1, <3>1
    <3>3. QED
      BY <3>1, <3>2
  <2>4. \A t \in SlotSet : entry'[t].desc = entry[t].desc /\ entry'[t].seq = entry[t].seq
    BY <1>4, <1>5
  <2>5. /\ \A t \in SlotSet : entry'[t].desc # NoDesc =>
             entry'[t].desc \in heap' /\ entry'[t].desc <= nextSeq'
        /\ \A t, u \in SlotSet :
              entry'[t].desc # NoDesc /\ entry'[t].desc = entry'[u].desc => t = u
    BY <1>1, <1>2, <2>4, SameDescs
  <2>6. \A t \in SlotSet : entry'[t].virt # NoHandle => entry'[t].virt = entry[t].virt
    BY <1>4, <1>5
  <2>7. \A t \in SlotSet : entry'[t].virt # NoHandle =>
           /\ t < highWater' /\ entry'[t].virt[3] = t
           /\ entry'[t].virt[1] = "comm" => entry'[t].desc = entry'[t].seq /\ entry'[t].seq # NoDesc
    BY <1>1, <1>2, <2>4, <2>6, SamePublished
  <2>8. \A k \in live' \cup ckpt'.there : k.seq <= nextSeq'
    BY <1>1, <1>2 DEF DescInv
  <2>9. QED
    BY <2>1, <2>2, <2>3, <2>5, <2>7, <2>8 DEF DescInv
<1>12. QED
  BY <1>1, <1>2, <1>9, <1>10, <1>11 DEF ThreadInv, CkptTypes

LEMMA ReleaseKeepsThreads ==
  ASSUME TableInv, ThreadInv, Release
  PROVE  ThreadInv'
<1>0. PICK s : s = app.slot
  OBVIOUS
<1>1. CkptTypes /\ DescInv /\ ScanInv /\ CompletionInv /\ TableTypes
  BY DEF ThreadInv, TableInv, SlotInv
<1>2. /\ app.at = "release" /\ app' = Idle
      /\ lock' = IF app.kind = "comm" THEN "none" ELSE lock
      /\ entry' = [entry EXCEPT ![s] = [entry[s] EXCEPT !.desc = NoDesc]]
      /\ heap' = heap \ {entry[s].desc}
      /\ UNCHANGED <<highWater, nextSeq, ckpt, live>>
  BY <1>0 DEF Release, TakesLock
<1>3. /\ s \in SlotSet /\ entry \in [SlotSet -> Entries] /\ entry[s] \in Entries
      /\ highWater \in 0 .. Slots /\ app'.at = "idle"
  BY <1>0, <1>1, <1>2, SMT DEF TableTypes, Idle
<1>4. /\ \A t \in SlotSet : t # s => entry'[t] = entry[t]
      /\ entry'[s] = [entry[s] EXCEPT !.desc = NoDesc]
  BY <1>2, <1>3
<1>5. entry'[s].virt = entry[s].virt /\ entry'[s].seq = entry[s].seq /\ entry'[s].desc = NoDesc
  BY <1>3, <1>4, SMT DEF Entries, NoDesc
<1>6. entry[s].virt = NoHandle
  BY <1>0, <1>2 DEF TableInv, SlotInv
<1>7. \A l \in live : l.handle[3] \in SlotSet /\ l.handle[3] # s
  <2>1. \A l \in live : l.handle[3] \in SlotSet
    BY LiveSlots
  <2>2. QED
    BY <1>0, <1>2, <2>1, SMT DEF TableInv, SlotInv
<1>8. ScanInv'
  <2>1. highWater' \in Nat /\ highWater <= highWater'
    BY <1>2, <1>3, SMT
  <2>2. \A t \in SlotSet : entry[t].virt # NoHandle /\ entry[t].virt[1] = "comm" =>
                    /\ entry'[t].virt = entry[t].virt
                    /\ entry'[t].seq = entry[t].seq
                    /\ entry'[t].desc = entry[t].desc
    BY <1>4, <1>6
  <2>3. QED
    BY <1>1, <1>2, <2>1, <2>2, ScanGoesOn
<1>9. CompletionInv'
  <2>1. \A l \in live : entry'[l.handle[3]] = entry[l.handle[3]]
    BY <1>4, <1>7
  <2>2. app'.at # "publish" /\ app'.at # "status"
    BY <1>3, SMT
  <2>3. QED
    BY <1>1, <1>2, <2>1, <2>2, CompletionGoesOn
<1>10. DescInv'
  <2>1. /\ app'.at # "release" /\ app'.at # "hide" /\ app'.at # "publish"
        /\ "none" # "app" /\ "none" # "ckpt" /\ "app" # "ckpt"
    BY <1>3, SMT
  <2>2. (lock = "app" <=> app.at = "release" /\ app.kind = "comm")'
    <3>1. lock = "app" <=> app.kind = "comm"
      BY <1>1, <1>2 DEF DescInv
    <3>2. QED
      BY <1>2, <2>1, <3>1
  <2>3. (lock = "ckpt" <=> Scans)'
    <3>1. (lock = "ckpt" <=> Scans) /\ (Scans' <=> Scans) /\ (app.kind = "comm" => lock = "app")
      BY <1>1, <1>2 DEF DescInv, Scans
    <3>2. QED
      BY <1>2, <2>1, <3>1
  <2>4. \A t \in SlotSet : entry[t].desc # NoDesc => entry[t].desc \in heap /\ entry[t].desc <= nextSeq
    BY <1>1 DEF DescInv
  <2>5. \A t, u \in SlotSet : entry[t].desc # NoDesc /\ entry[t].desc = entry[u].desc => t = u
    BY <1>1 DEF DescInv
  <2>6. \A t \in SlotSet : entry'[t].desc # NoDesc => t # s /\ entry'[t].desc = entry[t].desc
    BY <1>4, <1>5
  <2>7. \A t \in SlotSet : entry'[t].desc # NoDesc => entry'[t].desc \in heap' /\ entry'[t].desc <= nextSeq'
    BY <1>2, <1>3, <2>4, <2>5, <2>6
  <2>8. \A t, u \in SlotSet : entry'[t].desc # NoDesc /\ entry'[t].desc = entry'[u].desc => t = u
    BY <2>5, <2>6
  <2>9. \A t \in SlotSet : entry'[t].virt # NoHandle => entry'[t] = entry[t]
    BY <1>4, <1>5, <1>6
  <2>10. \A t \in SlotSet : entry'[t].virt # NoHandle =>
           /\ t < highWater' /\ entry'[t].virt[3] = t
           /\ entry'[t].virt[1] = "comm" => entry'[t].desc = entry'[t].seq /\ entry'[t].seq # NoDesc
    BY <1>1, <1>2, <2>9, SamePublished
  <2>11. \A k \in live' \cup ckpt'.there : k.seq <= nextSeq'
    BY <1>1, <1>2 DEF DescInv
  <2>12. QED
    BY <2>1, <2>2, <2>3, <2>7, <2>8, <2>10, <2>11 DEF DescInv
<1>11. QED
  BY <1>1, <1>2, <1>8, <1>9, <1>10 DEF ThreadInv, CkptTypes

LEMMA TestKeepsThreads ==
  ASSUME TableInv, ThreadInv, NEW l \in live, Test(l)
  PROVE  ThreadInv'
<1>1. CkptTypes /\ DescInv /\ ScanInv /\ CompletionInv /\ TableTypes
  BY DEF ThreadInv, TableInv, SlotInv
<1>2. /\ app.at = "idle" /\ entry[l.handle[3]].null
      /\ app' = [at |-> "status", kind |-> "request", gen |-> entry[l.handle[3]].gen,
                 slot |-> l.handle[3]]
      /\ UNCHANGED <<entry, highWater, nextSeq, heap, lock, ckpt, live>>
  BY DEF Test
<1>3. app'.at = "status" /\ app'.kind = "request" /\ app'.slot = l.handle[3]
  BY <1>2, SMT
<1>4. app'.at \notin {"release", "hide", "publish"} /\ app.at \notin {"release", "publish"}
  BY <1>2, <1>3, SMT
<1>5. ScanInv'
  <2>1. highWater' \in Nat /\ highWater <= highWater'
    BY <1>1, <1>2, SMT DEF TableTypes
  <2>2. QED
    BY <1>1, <1>2, <2>1, ScanGoesOn
<1>6. CompletionInv'
  BY <1>1, <1>2, <1>3, <1>4, CompletionGoesOn
<1>7. DescInv'
  BY <1>1, <1>2, <1>4 DEF DescInv, Scans
<1>8. QED
  BY <1>1, <1>2, <1>5, <1>6, <1>7 DEF ThreadInv, CkptTypes

-----------------------------------------------------------------------------
(* find_virt_comm.                                                         *)

(* The fields of the checkpoint thread's record.                           *)
LEMMA SetAt ==
  ASSUME NEW c \in CkptRecords, NEW x \in CkptPlaces
  PROVE  /\ [c EXCEPT !.at = x] \in CkptRecords /\ [c EXCEPT !.at = x].at = x
         /\ [c EXCEPT !.at = x].gid = c.gid /\ [c EXCEPT !.at = x].slot = c.slot
         /\ [c EXCEPT !.at = x].end = c.end /\ [c EXCEPT !.at = x].found = c.found
         /\ [c EXCEPT !.at = x].desc = c.desc /\ [c EXCEPT !.at = x].there = c.there
<1> DEFINE F == HandleSet \cup {NoHandle}  T == SUBSET [handle : HandleSet, seq : Nat]
<1>1. /\ c \in [at : CkptPlaces, gid : Nat, slot : Nat, end : Nat, found : F, desc : Nat, there : T]
      /\ CkptRecords = [at : CkptPlaces, gid : Nat, slot : Nat, end : Nat, found : F, desc : Nat,
                        there : T]
      /\ x \in CkptPlaces
  BY DEF CkptRecords
<1> HIDE DEF F, T
<1>2. QED
  BY <1>1, SMT

LEMMA SetSlot ==
  ASSUME NEW c \in CkptRecords, NEW x \in Nat
  PROVE  /\ [c EXCEPT !.slot = x] \in CkptRecords /\ [c EXCEPT !.slot = x].slot = x
         /\ [c EXCEPT !.slot = x].at = c.at /\ [c EXCEPT !.slot = x].gid = c.gid
         /\ [c EXCEPT !.slot = x].end = c.end /\ [c EXCEPT !.slot = x].found = c.found
         /\ [c EXCEPT !.slot = x].desc = c.desc /\ [c EXCEPT !.slot = x].there = c.there
<1> DEFINE F == HandleSet \cup {NoHandle}  T == SUBSET [handle : HandleSet, seq : Nat]
<1>1. /\ c \in [at : CkptPlaces, gid : Nat, slot : Nat, end : Nat, found : F, desc : Nat, there : T]
      /\ CkptRecords = [at : CkptPlaces, gid : Nat, slot : Nat, end : Nat, found : F, desc : Nat,
                        there : T]
      /\ x \in Nat
  BY DEF CkptRecords
<1> HIDE DEF F, T
<1>2. QED
  BY <1>1, SMT

LEMMA SetFound ==
  ASSUME NEW c \in CkptRecords, NEW x \in HandleSet \cup {NoHandle}
  PROVE  /\ [c EXCEPT !.found = x] \in CkptRecords /\ [c EXCEPT !.found = x].found = x
         /\ [c EXCEPT !.found = x].at = c.at /\ [c EXCEPT !.found = x].gid = c.gid
         /\ [c EXCEPT !.found = x].slot = c.slot /\ [c EXCEPT !.found = x].end = c.end
         /\ [c EXCEPT !.found = x].desc = c.desc /\ [c EXCEPT !.found = x].there = c.there
<1> DEFINE F == HandleSet \cup {NoHandle}  T == SUBSET [handle : HandleSet, seq : Nat]
<1>1. /\ c \in [at : CkptPlaces, gid : Nat, slot : Nat, end : Nat, found : F, desc : Nat, there : T]
      /\ CkptRecords = [at : CkptPlaces, gid : Nat, slot : Nat, end : Nat, found : F, desc : Nat,
                        there : T]
      /\ x \in F
  BY DEF CkptRecords
<1> HIDE DEF F, T
<1>2. QED
  BY <1>1, SMT

LEMMA SetDesc ==
  ASSUME NEW c \in CkptRecords, NEW x \in Nat
  PROVE  /\ [c EXCEPT !.desc = x] \in CkptRecords /\ [c EXCEPT !.desc = x].desc = x
         /\ [c EXCEPT !.desc = x].at = c.at /\ [c EXCEPT !.desc = x].gid = c.gid
         /\ [c EXCEPT !.desc = x].slot = c.slot /\ [c EXCEPT !.desc = x].end = c.end
         /\ [c EXCEPT !.desc = x].found = c.found /\ [c EXCEPT !.desc = x].there = c.there
<1> DEFINE F == HandleSet \cup {NoHandle}  T == SUBSET [handle : HandleSet, seq : Nat]
<1>1. /\ c \in [at : CkptPlaces, gid : Nat, slot : Nat, end : Nat, found : F, desc : Nat, there : T]
      /\ CkptRecords = [at : CkptPlaces, gid : Nat, slot : Nat, end : Nat, found : F, desc : Nat,
                        there : T]
      /\ x \in Nat
  BY DEF CkptRecords
<1> HIDE DEF F, T
<1>2. QED
  BY <1>1, SMT

(* A step of find_virt_comm changes the scan and the lock only.            *)
LEMMA ScanStepKeeps ==
  ASSUME ThreadInv, UNCHANGED <<entry, highWater, nextSeq, heap, app, live>>,
         CkptTypes', ScanInv', ckpt'.at \notin {"completed", "null"},
         lock' # "app", lock # "app", lock' = "ckpt" <=> Scans',
         ckpt'.there \subseteq ckpt.there \cup live
  PROVE  ThreadInv'
<1>1. DescInv /\ CompletionInv
  BY DEF ThreadInv
<1>2. CompletionInv'
  <2>1. ckpt'.at # "null"
    OBVIOUS
  <2>2. QED
    BY <1>1, <2>1 DEF CompletionInv
<1>3. DescInv'
  <2>1. \A l \in live' \cup ckpt'.there :
          l.seq <= nextSeq' /\ (app'.at = "publish" => l.seq < nextSeq')
    BY <1>1 DEF DescInv
  <2>2. ~(app.at = "release" /\ app.kind = "comm")
    BY <1>1 DEF DescInv
  <2>3. QED
    BY <1>1, <2>1, <2>2 DEF DescInv
<1>4. QED
  BY <1>2, <1>3 DEF ThreadInv

LEMMA FindVirtCommKeeps ==
  ASSUME TableInv, ThreadInv, NEW gid \in 1 .. nextSeq, FindVirtComm(gid)
  PROVE  ThreadInv'
<1>1. CkptTypes /\ TableTypes
  BY DEF ThreadInv, TableInv, SlotInv
<1>2. /\ lock = "none" /\ lock' = "ckpt"
      /\ ckpt' = [NoScan EXCEPT !.at = "scan", !.gid = gid, !.end = highWater, !.there = live]
      /\ UNCHANGED <<entry, highWater, nextSeq, heap, app, live>>
  BY DEF FindVirtComm, ScanEnd
<1>3. highWater \in 0 .. Slots /\ highWater \in Nat /\ gid \in Nat
      /\ live \in SUBSET [handle : HandleSet, seq : Nat]
  BY <1>1, TableConstants, SMT DEF TableTypes
<1>4. /\ CkptTypes' /\ ckpt'.at = "scan" /\ ckpt'.gid = gid /\ ckpt'.end = highWater
      /\ ckpt'.there = live /\ ckpt'.slot = 0 /\ ckpt'.found = NoHandle
  <2> DEFINE F == HandleSet \cup {NoHandle}  T == SUBSET [handle : HandleSet, seq : Nat]
  <2>1. NoHandle \in F /\ live \in T
    BY <1>3
  <2>2. ckpt' = [at |-> "scan", gid |-> gid, slot |-> 0, end |-> highWater, found |-> NoHandle,
                 desc |-> 0, there |-> live]
    <3>1. PICK c : c = [NoScan EXCEPT !.at = "scan"]
      OBVIOUS
    <3>2. PICK d : d = [c EXCEPT !.gid = gid]
      OBVIOUS
    <3>3. PICK e : e = [d EXCEPT !.end = highWater]
      OBVIOUS
    <3>4. ckpt' = [e EXCEPT !.there = live]
      BY <1>2, <3>1, <3>2, <3>3
    <3>5. c = [at |-> "scan", gid |-> 0, slot |-> 0, end |-> 0, found |-> NoHandle, desc |-> 0,
               there |-> {}]
      BY <3>1, SMT DEF NoScan, NoDesc
    <3>6. d = [at |-> "scan", gid |-> gid, slot |-> 0, end |-> 0, found |-> NoHandle, desc |-> 0,
               there |-> {}]
      BY <3>2, <3>5, SMT
    <3>7. e = [at |-> "scan", gid |-> gid, slot |-> 0, end |-> highWater, found |-> NoHandle,
               desc |-> 0, there |-> {}]
      BY <3>3, <3>6, SMT
    <3>8. QED
      BY <3>4, <3>7, SMT
  <2>3. ckpt' \in CkptRecords
    <3> HIDE DEF F, T
    <3>1. ckpt' \in [at : CkptPlaces, gid : Nat, slot : Nat, end : Nat, found : F, desc : Nat,
                     there : T]
      BY <1>3, <2>1, <2>2, SMT DEF CkptPlaces
    <3>2. QED
      BY <3>1 DEF CkptRecords, F, T
  <2>4. QED
    BY <2>2, <2>3 DEF CkptTypes
<1>5. ScanInv'
  <2>1. 0 \in Nat /\ highWater \in 0 .. highWater /\ "scan" # "read"
    BY <1>3, SMT
  <2>2. \A l \in live : 0 <= l.handle[3] /\ l.handle[3] < highWater
    <3>1. \A l \in live : l.handle[3] \in SlotSet /\ l.handle[3] < highWater
      BY LiveSlots DEF Given
    <3>2. QED
      BY <3>1, SMT DEF SlotSet
  <2>3. QED
    BY <1>2, <1>4, <2>1, <2>2 DEF ScanInv
<1>6. Scans' /\ lock' # "app" /\ lock # "app" /\ ckpt'.at \notin {"completed", "null"}
  BY <1>2, <1>4, SMT DEF Scans
<1>7. QED
  BY <1>2, <1>4, <1>5, <1>6, ScanStepKeeps

(* What a scan knows while it runs, under the lock.                        *)
LEMMA Scanning ==
  ASSUME TableInv, ThreadInv, Scans
  PROVE  /\ lock = "ckpt" /\ lock # "app"
         /\ ckpt.slot \in Nat /\ ckpt.end \in 0 .. highWater /\ highWater \in 0 .. Slots
         /\ ckpt.slot < ckpt.end => ckpt.slot \in SlotSet
         /\ \A l \in live : l.handle[3] \in SlotSet /\ l.handle # NoHandle
                            /\ entry[l.handle[3]].virt = l.handle /\ entry[l.handle[3]].seq = l.seq
<1>1. lock = "ckpt" /\ lock # "app"
  <2>1. lock = "ckpt"
    BY DEF ThreadInv, DescInv
  <2>2. QED
    BY <2>1, SMT
<1>2. ckpt.slot \in Nat /\ ckpt.end \in 0 .. highWater /\ highWater \in 0 .. Slots /\ Slots \in Nat
  BY TableConstants DEF ThreadInv, ScanInv, TableInv, SlotInv, TableTypes
<1>3. ckpt.slot < ckpt.end => ckpt.slot \in SlotSet
  BY <1>2, SMT DEF SlotSet
<1>4. \A l \in live : l.handle \in HandleSet
  BY SMT DEF TableInv, SlotInv, TableTypes
<1>5. \A l \in live : l.handle[3] \in SlotSet /\ l.handle # NoHandle
  BY <1>4, HandleParts
<1>6. QED
  BY <1>1, <1>2, <1>3, <1>5 DEF TableInv, SlotInv, LiveHandlesResolve, Resolves

LEMMA LoadHandleKeeps ==
  ASSUME TableInv, ThreadInv, LoadHandle
  PROVE  ThreadInv'
<1>0. PICK h, s : s = ckpt.slot /\ h = entry[s].virt
  OBVIOUS
<1>1. CkptTypes /\ ScanInv /\ TableTypes
  BY DEF ThreadInv, TableInv, SlotInv
<1>2. /\ ckpt.at = "scan" /\ ckpt.slot < ckpt.end /\ ckpt.found = NoHandle
      /\ ckpt' = IF h # NoHandle /\ h[1] = "comm"
                 THEN [ckpt EXCEPT !.at = "load", !.found = h]
                 ELSE [ckpt EXCEPT !.slot = ckpt.slot + 1]
      /\ UNCHANGED <<entry, highWater, nextSeq, heap, lock, app, live>>
  <2>1. ckpt.slot \in Nat /\ ckpt.end \in Nat
    BY <1>1, SMT DEF CkptTypes, CkptRecords
  <2>2. ~(ckpt.slot >= ckpt.end)
    BY DEF LoadHandle, Scanned
  <2>3. ckpt.slot < ckpt.end
    BY <2>1, <2>2, SMT
  <2>4. QED
    BY <1>0, <2>3 DEF LoadHandle, Scanned
<1>3. Scans
  BY <1>2 DEF Scans
<1>4. /\ lock = "ckpt" /\ lock # "app" /\ s \in Nat /\ ckpt.end \in 0 .. highWater /\ s \in SlotSet
      /\ highWater \in 0 .. Slots
      /\ \A l \in live : l.handle[3] \in SlotSet /\ l.handle # NoHandle
                         /\ entry[l.handle[3]].virt = l.handle /\ entry[l.handle[3]].seq = l.seq
  BY <1>0, <1>2, <1>3, Scanning
<1>5. h \in HandleSet \cup {NoHandle}
  BY <1>0, <1>1, <1>4, SMT DEF TableTypes, Entries
<1>6. \A l \in ckpt.there \cap live : l.handle[1] = "comm" /\ l.seq = ckpt.gid =>
        s <= l.handle[3] /\ l.handle[3] < ckpt.end
  BY <1>0, <1>1, <1>2, <1>3 DEF ScanInv
<1>7. CASE h # NoHandle /\ h[1] = "comm"
  <2>1. ckpt' = [ckpt EXCEPT !.at = "load", !.found = h]
    BY <1>2, <1>7
  <2>2. /\ CkptTypes' /\ ckpt'.at = "load" /\ ckpt'.found = h /\ ckpt'.slot = s
        /\ ckpt'.end = ckpt.end /\ ckpt'.gid = ckpt.gid /\ ckpt'.there = ckpt.there
    <3>1. PICK c : c = [ckpt EXCEPT !.at = "load"]
      OBVIOUS
    <3>2. ckpt' = [c EXCEPT !.found = h] /\ "load" \in CkptPlaces
      BY <2>1, <3>1 DEF CkptPlaces
    <3>3. /\ c \in CkptRecords /\ c.at = "load" /\ c.slot = s /\ c.end = ckpt.end
          /\ c.gid = ckpt.gid /\ c.there = ckpt.there
      BY <1>0, <1>1, <3>1, <3>2, SetAt DEF CkptTypes
    <3>4. QED
      BY <1>5, <3>2, <3>3, SetFound DEF CkptTypes
  <2>3. Scans' /\ ckpt'.at \notin {"completed", "null"} /\ ckpt'.at # "scan" /\ ckpt'.at # "read"
    BY <2>2, SMT DEF Scans
  <2>4. ScanInv'
    BY <1>0, <1>2, <1>4, <1>6, <1>7, <2>2, <2>3 DEF ScanInv
  <2>5. QED
    BY <1>2, <1>4, <2>2, <2>3, <2>4, ScanStepKeeps
<1>8. CASE ~(h # NoHandle /\ h[1] = "comm")
  <2>1. ckpt' = [ckpt EXCEPT !.slot = s + 1]
    BY <1>0, <1>2, <1>8
  <2>2. /\ CkptTypes' /\ ckpt'.at = "scan" /\ ckpt'.found = NoHandle /\ ckpt'.slot = s + 1
        /\ ckpt'.end = ckpt.end /\ ckpt'.gid = ckpt.gid /\ ckpt'.there = ckpt.there
    <3>1. s + 1 \in Nat
      BY <1>4, SMT
    <3>2. ckpt.at = "scan" /\ ckpt.found = NoHandle /\ ckpt \in CkptRecords
      BY <1>1, <1>2 DEF CkptTypes
    <3>3. QED
      BY <2>1, <3>1, <3>2, SetSlot DEF CkptTypes
  <2>3. Scans' /\ ckpt'.at \notin {"completed", "null"} /\ ckpt'.at # "read" /\ s + 1 \in Nat
    BY <1>4, <2>2, SMT DEF Scans
  <2>4. \A l \in ckpt.there \cap live : l.handle[1] = "comm" /\ l.seq = ckpt.gid =>
          s + 1 <= l.handle[3] /\ l.handle[3] < ckpt.end
    <3>1. \A l \in live : l.handle[1] = "comm" => l.handle[3] # s
      BY <1>0, <1>4, <1>8
    <3>2. \A x \in SlotSet : s <= x /\ x # s => s + 1 <= x
      BY <1>4, SMT DEF SlotSet
    <3>3. QED
      BY <1>4, <1>6, <3>1, <3>2
  <2>5. ScanInv'
    <3>1. ckpt'.slot \in Nat /\ ckpt'.end \in 0 .. highWater'
      BY <1>2, <1>4, <2>2, <2>3
    <3>2. \A l \in ckpt'.there \cap live' : l.handle[1] = "comm" /\ l.seq = ckpt'.gid =>
            ckpt'.slot <= l.handle[3] /\ l.handle[3] < ckpt'.end
      BY <1>2, <2>2, <2>4
    <3>3. QED
      BY <2>2, <2>3, <3>1, <3>2 DEF ScanInv
  <2>6. QED
    BY <1>2, <1>4, <2>2, <2>3, <2>5, ScanStepKeeps
<1>9. QED
  BY <1>7, <1>8

(* What a scan has loaded is a published communicator with a descriptor.   *)
LEMMA Loaded ==
  ASSUME TableInv, ThreadInv, ckpt.at \in {"load", "read"}
  PROVE  /\ Scans /\ ckpt.slot \in SlotSet
         /\ entry[ckpt.slot].virt = ckpt.found /\ ckpt.found # NoHandle /\ ckpt.found[1] = "comm"
         /\ ckpt.found[3] = ckpt.slot
         /\ entry[ckpt.slot].desc = entry[ckpt.slot].seq /\ entry[ckpt.slot].desc # NoDesc
         /\ entry[ckpt.slot].desc \in heap
<1>1. Scans /\ ckpt.at # "scan"
  BY SMT DEF Scans
<1>2. /\ ckpt.slot < ckpt.end /\ entry[ckpt.slot].virt = ckpt.found
      /\ ckpt.found # NoHandle /\ ckpt.found[1] = "comm"
  BY <1>1 DEF ThreadInv, ScanInv
<1>3. ckpt.slot \in SlotSet
  BY <1>1, <1>2, Scanning
<1>4. /\ entry[ckpt.slot].desc = entry[ckpt.slot].seq /\ entry[ckpt.slot].desc # NoDesc
      /\ ckpt.found[3] = ckpt.slot
  BY <1>2, <1>3 DEF ThreadInv, DescInv
<1>5. entry[ckpt.slot].desc \in heap
  BY <1>3, <1>4 DEF ThreadInv, DescInv
<1>6. QED
  BY <1>1, <1>2, <1>3, <1>4, <1>5

LEMMA LoadDescKeeps ==
  ASSUME TableInv, ThreadInv, LoadDesc
  PROVE  ThreadInv'
<1>0. PICK d, s : s = ckpt.slot /\ d = entry[s].desc
  OBVIOUS
<1>1. CkptTypes /\ ScanInv /\ TableTypes
  BY DEF ThreadInv, TableInv, SlotInv
<1>2. ckpt.at = "load" /\ UNCHANGED <<entry, highWater, nextSeq, heap, lock, app, live>>
  BY DEF LoadDesc
<1>3. /\ Scans /\ s \in SlotSet /\ d # NoDesc
      /\ entry[s].virt = ckpt.found /\ ckpt.found # NoHandle /\ ckpt.found[1] = "comm"
  BY <1>0, <1>2, Loaded
<1>4. ckpt' = [ckpt EXCEPT !.at = "read", !.desc = d]
  BY <1>0, <1>3 DEF LoadDesc
<1>5. d \in Nat
  BY <1>0, <1>1, <1>3, SMT DEF TableTypes, Entries
<1>6. /\ CkptTypes' /\ ckpt'.at = "read" /\ ckpt'.found = ckpt.found /\ ckpt'.slot = s
      /\ ckpt'.end = ckpt.end /\ ckpt'.gid = ckpt.gid /\ ckpt'.there = ckpt.there /\ ckpt'.desc = d
  <2>1. PICK c : c = [ckpt EXCEPT !.at = "read"]
    OBVIOUS
  <2>2. ckpt' = [c EXCEPT !.desc = d] /\ "read" \in CkptPlaces
    BY <1>4, <2>1 DEF CkptPlaces
  <2>3. /\ c \in CkptRecords /\ c.at = "read" /\ c.slot = s /\ c.end = ckpt.end
        /\ c.gid = ckpt.gid /\ c.there = ckpt.there /\ c.found = ckpt.found
    BY <1>0, <1>1, <2>1, <2>2, SetAt DEF CkptTypes
  <2>4. QED
    BY <1>5, <2>2, <2>3, SetDesc DEF CkptTypes
<1>7. Scans' /\ ckpt'.at \notin {"completed", "null"} /\ ckpt'.at # "scan" /\ ckpt.at # "scan"
  BY <1>2, <1>6, SMT DEF Scans
<1>8. ScanInv'
  BY <1>0, <1>1, <1>2, <1>3, <1>6, <1>7 DEF ScanInv
<1>9. lock = "ckpt" /\ lock # "app"
  BY <1>3, Scanning
<1>10. QED
  BY <1>2, <1>6, <1>7, <1>8, <1>9, ScanStepKeeps

LEMMA ReadGidKeeps ==
  ASSUME TableInv, ThreadInv, ReadGid
  PROVE  ThreadInv'
<1>0. PICK s, f : s = ckpt.slot /\ f = IF ckpt.desc = ckpt.gid THEN ckpt.found ELSE NoHandle
  OBVIOUS
<1>1. CkptTypes /\ ScanInv /\ TableTypes
  BY DEF ThreadInv, TableInv, SlotInv
<1>2. /\ ckpt.at = "read" /\ UNCHANGED <<entry, highWater, nextSeq, heap, lock, app, live>>
      /\ ckpt' = [ckpt EXCEPT !.at = "scan", !.slot = s + 1, !.desc = NoDesc, !.found = f]
  BY <1>0 DEF ReadGid
<1>3. /\ Scans /\ s \in SlotSet
      /\ entry[s].virt = ckpt.found /\ ckpt.found # NoHandle /\ ckpt.found[1] = "comm"
      /\ entry[s].desc = entry[s].seq /\ ckpt.found[3] = s
  BY <1>0, <1>2, Loaded
<1>4. ckpt.at # "scan" /\ ckpt.desc = entry[s].desc
  <2>1. ckpt.at # "scan"
    BY <1>2, SMT
  <2>2. QED
    BY <1>0, <1>1, <1>2, <1>3, <2>1 DEF ScanInv
<1>5. /\ lock = "ckpt" /\ lock # "app" /\ s \in Nat /\ ckpt.end \in 0 .. highWater
      /\ \A l \in live : l.handle[3] \in SlotSet /\ entry[l.handle[3]].seq = l.seq
  BY <1>0, <1>3, Scanning
<1>6. /\ CkptTypes' /\ ckpt'.at = "scan" /\ ckpt'.found = f /\ ckpt'.slot = s + 1
      /\ ckpt'.end = ckpt.end /\ ckpt'.gid = ckpt.gid /\ ckpt'.there = ckpt.there
  <2>1. f \in HandleSet \cup {NoHandle}
    BY <1>0, <1>1, SMT DEF CkptTypes, CkptRecords
  <2>2. "scan" \in CkptPlaces /\ s + 1 \in Nat /\ NoDesc \in Nat
    BY <1>5, SMT DEF CkptPlaces, NoDesc
  <2>3. PICK c : c = [ckpt EXCEPT !.at = "scan"]
    OBVIOUS
  <2>4. PICK d : d = [c EXCEPT !.slot = s + 1]
    OBVIOUS
  <2>5. PICK e : e = [d EXCEPT !.desc = NoDesc]
    OBVIOUS
  <2>6. ckpt' = [e EXCEPT !.found = f]
    BY <1>2, <2>3, <2>4, <2>5
  <2>7. /\ c \in CkptRecords /\ c.at = "scan" /\ c.end = ckpt.end
        /\ c.gid = ckpt.gid /\ c.there = ckpt.there
    BY <1>1, <2>2, <2>3, SetAt DEF CkptTypes
  <2>8. /\ d \in CkptRecords /\ d.at = "scan" /\ d.end = ckpt.end
        /\ d.gid = ckpt.gid /\ d.there = ckpt.there /\ d.slot = s + 1
    BY <2>2, <2>4, <2>7, SetSlot
  <2>9. /\ e \in CkptRecords /\ e.at = "scan" /\ e.end = ckpt.end
        /\ e.gid = ckpt.gid /\ e.there = ckpt.there /\ e.slot = s + 1
    BY <2>2, <2>5, <2>8, SetDesc
  <2>10. QED
    BY <2>1, <2>6, <2>9, SetFound DEF CkptTypes
<1>7. Scans' /\ ckpt'.at \notin {"completed", "null"} /\ ckpt'.at # "read" /\ s + 1 \in Nat
  BY <1>5, <1>6, SMT DEF Scans
<1>8. ASSUME f = NoHandle
      PROVE  \A l \in ckpt.there \cap live : l.handle[1] = "comm" /\ l.seq = ckpt.gid =>
               s + 1 <= l.handle[3] /\ l.handle[3] < ckpt.end
  <2>1. \A l \in live : l.seq = ckpt.gid => l.handle[3] # s
    BY <1>0, <1>3, <1>4, <1>5, <1>8
  <2>2. \A x \in SlotSet : s <= x /\ x # s => s + 1 <= x
    BY <1>5, SMT DEF SlotSet
  <2>3. \A l \in ckpt.there \cap live : l.handle[1] = "comm" /\ l.seq = ckpt.gid =>
          s <= l.handle[3] /\ l.handle[3] < ckpt.end
    BY <1>0, <1>1, <1>3, <1>4 DEF ScanInv
  <2>4. QED
    BY <1>5, <2>1, <2>2, <2>3
<1>9. ASSUME f # NoHandle
      PROVE  /\ f[3] \in SlotSet /\ f[1] = "comm"
             /\ entry[f[3]].virt = f /\ entry[f[3]].seq = ckpt.gid
  <2>1. f = ckpt.found /\ ckpt.desc = ckpt.gid
    BY <1>0, <1>9
  <2>2. f[3] = s
    BY <1>3, <2>1
  <2>3. QED
    BY <1>3, <1>4, <2>1, <2>2
<1>10. ScanInv'
  BY <1>2, <1>5, <1>6, <1>7, <1>8, <1>9 DEF ScanInv, Resolves
<1>11. QED
  BY <1>2, <1>5, <1>6, <1>7, <1>10, ScanStepKeeps

-----------------------------------------------------------------------------
(* The end of a scan, and complete_virt_request.                           *)

LEMMA EndScanKeeps ==
  ASSUME TableInv, ThreadInv, EndScan
  PROVE  ThreadInv'
<1>1. /\ ckpt.at = "scan" /\ lock' = "none" /\ ckpt' = NoScan
      /\ UNCHANGED <<entry, highWater, nextSeq, heap, app, live>>
  BY DEF EndScan
<1>2. Scans
  BY <1>1 DEF Scans
<1>3. /\ ckpt'.at \notin {"completed", "null"} /\ ~Scans' /\ ckpt'.there = {}
      /\ lock' # "app" /\ lock' # "ckpt" /\ CkptTypes'
  BY <1>1, NoScanFields, SMT DEF Scans, CkptTypes
<1>4. lock # "app"
  BY <1>2, Scanning
<1>5. ScanInv'
  BY <1>3 DEF ScanInv
<1>6. QED
  BY <1>1, <1>3, <1>4, <1>5, ScanStepKeeps

(* A step of complete_virt_request changes one request's slot, and neither *)
(* handles nor descriptors.                                                *)
LEMMA RequestStepKeeps ==
  ASSUME ThreadInv, ~Scans, ~Scans', UNCHANGED <<highWater, nextSeq, heap, lock, app, live>>,
         \A t \in SlotSet : /\ entry'[t].virt = entry[t].virt /\ entry'[t].seq = entry[t].seq
                            /\ entry'[t].desc = entry[t].desc,
         app.slot \in SlotSet, ckpt'.there \subseteq ckpt.there
  PROVE  DescInv' /\ ScanInv'
<1>1. DescInv
  BY DEF ThreadInv
<1>2. /\ \A t \in SlotSet : entry'[t].desc # NoDesc =>
             entry'[t].desc \in heap' /\ entry'[t].desc <= nextSeq'
      /\ \A t, u \in SlotSet :
            entry'[t].desc # NoDesc /\ entry'[t].desc = entry'[u].desc => t = u
  BY <1>1, SameDescs
<1>3. \A t \in SlotSet : entry'[t].virt # NoHandle =>
         /\ t < highWater' /\ entry'[t].virt[3] = t
         /\ entry'[t].virt[1] = "comm" => entry'[t].desc = entry'[t].seq /\ entry'[t].seq # NoDesc
  BY <1>1, SamePublished
<1>4. /\ (app.at = "publish" =>
           /\ entry[app.slot].virt = NoHandle
           /\ entry[app.slot].seq = nextSeq /\ nextSeq # NoDesc
           /\ app.kind = "comm" => entry[app.slot].desc = nextSeq)'
      /\ (app.at = "hide" => entry[app.slot].virt[1] = app.kind)'
  BY <1>1 DEF DescInv
<1>5. \A l \in live' \cup ckpt'.there :
        l.seq <= nextSeq' /\ (app'.at = "publish" => l.seq < nextSeq')
  BY <1>1 DEF DescInv
<1>6. /\ (lock = "app" <=> app.at = "release" /\ app.kind = "comm")'
      /\ (lock = "ckpt" <=> Scans)'
  BY <1>1 DEF DescInv
<1>7. QED
  BY <1>2, <1>3, <1>4, <1>5, <1>6 DEF DescInv, ScanInv

LEMMA CompleteKeepsThreads ==
  ASSUME TableInv, ThreadInv, NEW l \in live, CompleteVirtRequest(l)
  PROVE  ThreadInv'
<1>0. PICK s : s = l.handle[3]
  OBVIOUS
<1>1. CkptTypes /\ DescInv /\ ScanInv /\ CompletionInv /\ TableTypes
  BY DEF ThreadInv, TableInv, SlotInv
<1>2. /\ ckpt.at = "idle" /\ l.handle[1] = "request" /\ ~entry[s].null
      /\ entry' = [entry EXCEPT ![s] = [entry[s] EXCEPT !.status = l.seq]]
      /\ ckpt' = [NoScan EXCEPT !.at = "completed", !.slot = s]
      /\ UNCHANGED <<highWater, nextSeq, heap, lock, app, live>>
  BY <1>0 DEF CompleteVirtRequest
<1>3. \A k \in live : k.handle[3] \in SlotSet
  BY LiveSlots
<1>4. /\ s \in SlotSet /\ entry \in [SlotSet -> Entries] /\ entry[s] \in Entries
      /\ s \in Nat /\ app.slot \in SlotSet
  <2>1. s \in SlotSet
    BY <1>0, <1>3
  <2>2. s \in Nat
    BY <2>1, SMT DEF SlotSet
  <2>3. app.slot \in SlotSet
    BY <1>1, SMT DEF TableTypes
  <2>4. QED
    BY <1>1, <2>1, <2>2, <2>3 DEF TableTypes
<1>5. /\ \A t \in SlotSet : t # s => entry'[t] = entry[t]
      /\ entry'[s] = [entry[s] EXCEPT !.status = l.seq]
  BY <1>2, <1>4
<1>6. /\ entry'[s].virt = entry[s].virt /\ entry'[s].seq = entry[s].seq
      /\ entry'[s].desc = entry[s].desc /\ entry'[s].null = entry[s].null
      /\ entry'[s].completed = entry[s].completed /\ entry'[s].status = l.seq
  BY <1>4, <1>5, SMT DEF Entries
<1>7. /\ CkptTypes' /\ ckpt'.at = "completed" /\ ckpt'.slot = s /\ ckpt'.there = {}
  <2>1. PICK c : c = [NoScan EXCEPT !.at = "completed"]
    OBVIOUS
  <2>2. ckpt' = [c EXCEPT !.slot = s] /\ "completed" \in CkptPlaces
    BY <1>2, <2>1 DEF CkptPlaces
  <2>3. c \in CkptRecords /\ c.at = "completed" /\ c.there = {}
    BY <2>1, <2>2, NoScanFields, SetAt
  <2>4. QED
    BY <1>4, <2>2, <2>3, SetSlot DEF CkptTypes
<1>8. ~Scans /\ ~Scans' /\ ckpt'.at # "null"
  BY <1>2, <1>7, SMT DEF Scans
<1>9. \A t \in SlotSet : /\ entry'[t].virt = entry[t].virt /\ entry'[t].seq = entry[t].seq
                         /\ entry'[t].desc = entry[t].desc
                         /\ entry'[t].null = entry[t].null
                         /\ entry'[t].completed = entry[t].completed
  BY <1>5, <1>6
<1>10. DescInv' /\ ScanInv'
  BY <1>2, <1>4, <1>7, <1>8, <1>9, RequestStepKeeps
<1>11. CompletionInv'
  <2>1. \A k \in live' : k.handle[1] = "request" /\ entry'[k.handle[3]].null =>
          entry'[k.handle[3]].completed /\ entry'[k.handle[3]].status = k.seq
    <3> SUFFICES ASSUME NEW k \in live, k.handle[1] = "request", entry'[k.handle[3]].null
                 PROVE  entry'[k.handle[3]].completed /\ entry'[k.handle[3]].status = k.seq
      BY <1>2
    <3>1. k.handle[3] # s
      BY <1>2, <1>6
    <3>2. entry'[k.handle[3]] = entry[k.handle[3]]
      BY <1>3, <1>5, <3>1
    <3>3. QED
      BY <1>1, <3>2 DEF CompletionInv
  <2>2. /\ app.at = "publish" => ~entry'[app.slot].null
        /\ app.at = "status" => app.kind = "request" /\ entry'[app.slot].null
    BY <1>1, <1>4, <1>9 DEF CompletionInv
  <2>3. (\E k \in live : /\ k.handle[1] = "request" /\ k.handle[3] = ckpt.slot
                         /\ entry[ckpt.slot].status = k.seq)'
    BY <1>0, <1>2, <1>6, <1>7
  <2>4. ~entry'[ckpt'.slot].null
    BY <1>2, <1>6, <1>7
  <2>5. QED
    BY <1>2, <1>8, <2>1, <2>2, <2>3, <2>4 DEF CompletionInv
<1>12. QED
  BY <1>7, <1>10, <1>11 DEF ThreadInv

LEMMA StoreCompletedKeepsThreads ==
  ASSUME TableInv, ThreadInv, StoreCompleted
  PROVE  ThreadInv'
<1>0. PICK s : s = ckpt.slot
  OBVIOUS
<1>1. CkptTypes /\ DescInv /\ ScanInv /\ CompletionInv /\ TableTypes
  BY DEF ThreadInv, TableInv, SlotInv
<1>2. /\ ckpt.at = "completed" /\ ckpt' = [ckpt EXCEPT !.at = "null"]
      /\ entry' = [entry EXCEPT ![s] = [entry[s] EXCEPT !.completed = TRUE]]
      /\ UNCHANGED <<highWater, nextSeq, heap, lock, app, live>>
  BY <1>0 DEF StoreCompleted, Completed
<1>3. \A k \in live : k.handle[3] \in SlotSet
  BY LiveSlots
<1>4. PICK l \in live : l.handle[1] = "request" /\ l.handle[3] = s /\ entry[s].status = l.seq
  BY <1>0, <1>1, <1>2 DEF CompletionInv
<1>5. ~entry[s].null
  BY <1>0, <1>1, <1>2 DEF CompletionInv
<1>6. /\ s \in SlotSet /\ entry \in [SlotSet -> Entries] /\ entry[s] \in Entries
      /\ app.slot \in SlotSet
  <2>1. s \in SlotSet
    BY <1>3, <1>4
  <2>2. app.slot \in SlotSet
    BY <1>1, SMT DEF TableTypes
  <2>3. QED
    BY <1>1, <2>1, <2>2 DEF TableTypes
<1>7. /\ \A t \in SlotSet : t # s => entry'[t] = entry[t]
      /\ entry'[s] = [entry[s] EXCEPT !.completed = TRUE]
  BY <1>2, <1>6
<1>8. /\ entry'[s].virt = entry[s].virt /\ entry'[s].seq = entry[s].seq
      /\ entry'[s].desc = entry[s].desc /\ entry'[s].null = entry[s].null
      /\ entry'[s].completed = TRUE /\ entry'[s].status = entry[s].status
  BY <1>6, <1>7, SMT DEF Entries
<1>9. CkptTypes' /\ ckpt'.at = "null" /\ ckpt'.slot = s /\ ckpt'.there = ckpt.there
  <2>1. "null" \in CkptPlaces
    BY DEF CkptPlaces
  <2>2. QED
    BY <1>0, <1>1, <1>2, <2>1, SetAt DEF CkptTypes
<1>10. ~Scans /\ ~Scans'
  BY <1>2, <1>9, SMT DEF Scans
<1>11. \A t \in SlotSet : /\ entry'[t].virt = entry[t].virt /\ entry'[t].seq = entry[t].seq
                          /\ entry'[t].desc = entry[t].desc
                          /\ entry'[t].null = entry[t].null
                          /\ entry'[t].status = entry[t].status
  BY <1>7, <1>8
<1>12. DescInv' /\ ScanInv'
  BY <1>2, <1>6, <1>9, <1>10, <1>11, RequestStepKeeps
<1>13. CompletionInv'
  <2>1. \A k \in live' : k.handle[1] = "request" /\ entry'[k.handle[3]].null =>
          entry'[k.handle[3]].completed /\ entry'[k.handle[3]].status = k.seq
    <3> SUFFICES ASSUME NEW k \in live, k.handle[1] = "request", entry'[k.handle[3]].null
                 PROVE  entry'[k.handle[3]].completed /\ entry'[k.handle[3]].status = k.seq
      BY <1>2
    <3>1. k.handle[3] # s
      BY <1>5, <1>8
    <3>2. entry'[k.handle[3]] = entry[k.handle[3]]
      BY <1>3, <1>7, <3>1
    <3>3. QED
      BY <1>1, <3>2 DEF CompletionInv
  <2>2. /\ app.at = "publish" => ~entry'[app.slot].null
        /\ app.at = "status" => app.kind = "request" /\ entry'[app.slot].null
    BY <1>1, <1>6, <1>11 DEF CompletionInv
  <2>3. (\E k \in live : /\ k.handle[1] = "request" /\ k.handle[3] = ckpt.slot
                         /\ entry[ckpt.slot].status = k.seq)'
    BY <1>2, <1>4, <1>8, <1>9
  <2>4. ~entry'[ckpt'.slot].null /\ entry'[ckpt'.slot].completed
    BY <1>5, <1>8, <1>9
  <2>5. QED
    BY <1>2, <2>1, <2>2, <2>3, <2>4 DEF CompletionInv
<1>14. QED
  BY <1>9, <1>12, <1>13 DEF ThreadInv

LEMMA StoreNullKeepsThreads ==
  ASSUME TableInv, ThreadInv, StoreNull
  PROVE  ThreadInv'
<1>0. PICK s : s = ckpt.slot
  OBVIOUS
<1>1. CkptTypes /\ DescInv /\ ScanInv /\ CompletionInv /\ TableTypes
  BY DEF ThreadInv, TableInv, SlotInv
<1>2. /\ ckpt.at = "null" /\ ckpt' = NoScan
      /\ entry' = [entry EXCEPT ![s] = [entry[s] EXCEPT !.null = TRUE]]
      /\ UNCHANGED <<highWater, nextSeq, heap, lock, app, live>>
  BY <1>0 DEF StoreNull
<1>3. \A k \in live : k.handle[3] \in SlotSet
  BY LiveSlots
<1>4. PICK l \in live : l.handle[1] = "request" /\ l.handle[3] = s /\ entry[s].status = l.seq
  BY <1>0, <1>1, <1>2 DEF CompletionInv
<1>5. entry[s].completed
  BY <1>0, <1>1, <1>2 DEF CompletionInv
<1>6. /\ s \in SlotSet /\ entry \in [SlotSet -> Entries] /\ entry[s] \in Entries
      /\ app.slot \in SlotSet
  <2>1. s \in SlotSet
    BY <1>3, <1>4
  <2>2. app.slot \in SlotSet
    BY <1>1, SMT DEF TableTypes
  <2>3. QED
    BY <1>1, <2>1, <2>2 DEF TableTypes
<1>7. /\ \A t \in SlotSet : t # s => entry'[t] = entry[t]
      /\ entry'[s] = [entry[s] EXCEPT !.null = TRUE]
  BY <1>2, <1>6
<1>8. /\ entry'[s].virt = entry[s].virt /\ entry'[s].seq = entry[s].seq
      /\ entry'[s].desc = entry[s].desc /\ entry'[s].null = TRUE
      /\ entry'[s].completed = entry[s].completed /\ entry'[s].status = entry[s].status
  BY <1>6, <1>7, SMT DEF Entries
<1>9. /\ CkptTypes' /\ ckpt'.at = "idle" /\ ckpt'.there = {}
  BY <1>2, NoScanFields DEF CkptTypes
<1>10. ~Scans /\ ~Scans' /\ ckpt'.at \notin {"completed", "null"}
  BY <1>2, <1>9, SMT DEF Scans
<1>11. \A t \in SlotSet : /\ entry'[t].virt = entry[t].virt /\ entry'[t].seq = entry[t].seq
                          /\ entry'[t].desc = entry[t].desc
  BY <1>7, <1>8
<1>12. DescInv' /\ ScanInv'
  BY <1>2, <1>6, <1>9, <1>10, <1>11, RequestStepKeeps
<1>13. CompletionInv'
  <2>0. \A k \in live : k.handle[3] = s => k = l
    BY <1>4 DEF TableInv, SlotInv, LiveHandlesResolve
  <2>1. \A k \in live' : k.handle[1] = "request" /\ entry'[k.handle[3]].null =>
          entry'[k.handle[3]].completed /\ entry'[k.handle[3]].status = k.seq
    <3> SUFFICES ASSUME NEW k \in live, k.handle[1] = "request", entry'[k.handle[3]].null
                 PROVE  entry'[k.handle[3]].completed /\ entry'[k.handle[3]].status = k.seq
      BY <1>2
    <3>1. CASE k.handle[3] = s
      <4>1. k = l
        BY <2>0, <3>1
      <4>2. QED
        BY <1>4, <1>5, <1>8, <4>1
    <3>2. CASE k.handle[3] # s
      <4>1. entry'[k.handle[3]] = entry[k.handle[3]]
        BY <1>3, <1>7, <3>2
      <4>2. QED
        BY <1>1, <4>1 DEF CompletionInv
    <3>3. QED
      BY <3>1, <3>2
  <2>2. app.at = "publish" => ~entry'[app.slot].null
    <3>1. app.at = "publish" => app.slot # s
      <4>1. app.at = "publish" => \A k \in live : k.handle[3] # app.slot
        BY DEF TableInv, SlotInv
      <4>2. QED
        BY <1>4, <4>1
    <3>2. QED
      BY <1>1, <1>6, <1>7, <3>1 DEF CompletionInv
  <2>3. app.at = "status" => app.kind = "request" /\ entry'[app.slot].null
    <3>1. app.slot = s \/ entry'[app.slot] = entry[app.slot]
      BY <1>6, <1>7
    <3>2. app.at = "status" => app.kind = "request" /\ entry[app.slot].null
      BY <1>1 DEF CompletionInv
    <3>3. QED
      BY <1>8, <3>1, <3>2
  <2>4. ckpt'.at # "null"
    BY <1>10
  <2>5. QED
    BY <1>2, <1>10, <2>1, <2>2, <2>3, <2>4 DEF CompletionInv
<1>14. QED
  BY <1>9, <1>12, <1>13 DEF ThreadInv

LEMMA ThreadStep == TableInv /\ ThreadInv /\ [Next]_vars => ThreadInv'
<1> SUFFICES ASSUME TableInv, ThreadInv, [Next]_vars PROVE ThreadInv'
  OBVIOUS
<1>1. ASSUME NEW kind \in Kinds, AddVirtId(kind) PROVE ThreadInv'
  BY <1>1, AddKeepsThreads
<1>2. ASSUME NEW l \in live, FreeVirtId(l) PROVE ThreadInv'
  BY <1>2, StartFreeKeepsThreads DEF FreeVirtId
<1>3. ASSUME NEW l \in live, Test(l) PROVE ThreadInv'
  BY <1>3, TestKeepsThreads
<1>4. ASSUME NEW l \in live, CompleteVirtRequest(l) PROVE ThreadInv'
  BY <1>4, CompleteKeepsThreads
<1>5. CASE FreeRequest
  <2>1. app.at = "status" /\ StartFree(Handle(app))
    BY <1>5 DEF FreeRequest
  <2>2. PICK l \in live : l.handle = Handle(app)
    BY <2>1 DEF TableInv, SlotInv
  <2>3. l.handle[3] = app.slot
    BY <2>2, SMT DEF Handle, HandleOf
  <2>4. entry[l.handle[3]].null
    BY <2>1, <2>3 DEF ThreadInv, CompletionInv
  <2>5. QED
    BY <2>1, <2>2, <2>4, StartFreeKeepsThreads
<1>6. ASSUME NEW gid \in 1 .. nextSeq, FindVirtComm(gid) PROVE ThreadInv'
  BY <1>6, FindVirtCommKeeps
<1>7. CASE LoadHandle \/ LoadDesc \/ ReadGid \/ EndScan
  BY <1>7, LoadHandleKeeps, LoadDescKeeps, ReadGidKeeps, EndScanKeeps
<1>8. CASE Publish \/ Hide \/ Release
  BY <1>8, PublishKeepsThreads, HideKeepsThreads, ReleaseKeepsThreads
<1>9. CASE StoreCompleted \/ StoreNull
  BY <1>9, StoreCompletedKeepsThreads, StoreNullKeepsThreads
<1>10. CASE UNCHANGED vars
  <2>1. CkptTypes' /\ (Scans' <=> Scans)
    BY <1>10 DEF vars, ThreadInv, CkptTypes, Scans
  <2>2. DescInv'
    BY <1>10, <2>1 DEF vars, ThreadInv, DescInv
  <2>3. ScanInv'
    BY <1>10, <2>1 DEF vars, ThreadInv, ScanInv, Resolves
  <2>4. CompletionInv'
    BY <1>10 DEF vars, ThreadInv, CompletionInv
  <2>5. QED
    BY <2>1, <2>2, <2>3, <2>4 DEF ThreadInv
<1>11. QED
  BY <1>1, <1>2, <1>3, <1>4, <1>5, <1>6, <1>7, <1>8, <1>9, <1>10 DEF Next, AtBound

(* DescInv, ScanInv and CompletionInv hold in every state.                 *)
THEOREM ThreadInvariant == Spec => []ThreadInv
  BY TableInvariant, InitThreadInv, ThreadStep, PTL DEF Spec

(* find_virt_comm on the checkpoint thread reads no descriptor that the    *)
(* application has freed, and finds the communicator with the gid and      *)
(* nothing else, whatever the application does during the scan.            *)
THEOREM ScansAreRight == Spec => []ScanIsRight
<1>1. TableInv /\ ThreadInv => ScanIsRight
  <2> SUFFICES ASSUME TableInv, ThreadInv PROVE ScanIsRight
    OBVIOUS
  <2>1. ckpt.at = "read" => ckpt.desc \in heap
    <3>1. ckpt.at = "read" => ckpt.desc = entry[ckpt.slot].desc
      BY DEF ThreadInv, ScanInv, Scans
    <3>2. QED
      BY <3>1, Loaded
  <2>2. ASSUME ckpt.at = "scan", Scanned
        PROVE  /\ ckpt.found # NoHandle =>
                    Resolves(ckpt.found) /\ entry[ckpt.found[3]].seq = ckpt.gid
               /\ ckpt.found = NoHandle =>
                    \A l \in ckpt.there \cap live : l.handle[1] = "comm" => l.seq # ckpt.gid
    <3>1. Scans
      BY <2>2 DEF Scans
    <3>2. /\ ckpt.slot \in Nat /\ ckpt.end \in 0 .. highWater /\ highWater \in 0 .. Slots
          /\ \A l \in live : l.handle[3] \in SlotSet
      BY <3>1, Scanning
    <3>3. ckpt.found = NoHandle => ckpt.slot >= ckpt.end
      BY <2>2 DEF Scanned
    <3>4. \A x \in SlotSet : ckpt.slot >= ckpt.end => ~(ckpt.slot <= x /\ x < ckpt.end)
      BY <3>2, SMT DEF SlotSet
    <3>5. QED
      BY <2>2, <3>1, <3>2, <3>3, <3>4 DEF ThreadInv, ScanInv
  <2>3. QED
    BY <2>1, <2>2 DEF ScanIsRight
<1>2. QED
  BY <1>1, TableInvariant, ThreadInvariant, PTL

(* MPI_Test that sees MPI_REQUEST_NULL on a receive finds the receive's    *)
(* own status, however complete_virt_request's stores fall between its     *)
(* loads.                                                                  *)
THEOREM NullIsCompleted == Spec => []NullMeansCompleted
<1>1. TableInv /\ ThreadInv => NullMeansCompleted
  <2> SUFFICES ASSUME TableInv, ThreadInv, app.at = "status"
               PROVE  entry[app.slot].completed /\ entry[app.slot].status = entry[app.slot].seq
    BY DEF NullMeansCompleted
  <2>1. PICK l \in live : l.handle = Handle(app)
    BY DEF TableInv, SlotInv
  <2>2. l.handle[1] = app.kind /\ l.handle[3] = app.slot
    BY <2>1, SMT DEF Handle, HandleOf
  <2>3. l.handle[1] = "request" /\ entry[l.handle[3]].null
    BY <2>2 DEF ThreadInv, CompletionInv
  <2>4. entry[l.handle[3]].completed /\ entry[l.handle[3]].status = l.seq
    BY <2>3 DEF ThreadInv, CompletionInv
  <2>5. entry[l.handle[3]].seq = l.seq
    BY DEF TableInv, SlotInv, LiveHandlesResolve
  <2>6. QED
    BY <2>2, <2>4, <2>5
<1>2. QED
  BY <1>1, TableInvariant, ThreadInvariant, PTL
=============================================================================
