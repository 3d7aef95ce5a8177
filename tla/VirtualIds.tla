----------------------------- MODULE VirtualIds -----------------------------
(***************************************************************************)
(* The virtual-ID table of one rank (virtual_id.cpp).  An application      *)
(* thread allocates and frees slots, one call at a time; the checkpoint    *)
(* thread scans the table and completes requests at the same time.  A step *)
(* is what the other thread can see between two atomic accesses.           *)
(*                                                                         *)
(* A handle is <<kind, generation mod Gens, slot>>.  A descriptor and the  *)
(* object behind a handle are named by the creation number 'seq'.          *)
(***************************************************************************)
EXTENDS Integers, Sequences, FiniteSets

CONSTANTS
  Slots,      \* the number of slots of the table
  Gens,       \* 16: the generations a handle tells apart
  Kinds,      \* the kinds of objects in the table
  Constants,  \* the handles that equal a predefined constant
  MaxAdds     \* bound: handles made

ASSUME TableConstants ==
  /\ Slots \in Nat \ {0} /\ Gens \in Nat \ {0} /\ MaxAdds \in Nat
  /\ "comm" \in Kinds /\ "request" \in Kinds
  /\ Constants \subseteq Kinds \X (0 .. Gens - 1) \X (0 .. Slots - 1)

VARIABLES
  entry,      \* slot -> virt_id_entry
  free,       \* the free list, virt_id_free_head first
  highWater,  \* slots below it have been used
  nextSeq,    \* virt_id_next_seq
  heap,       \* the communicator descriptors that are allocated
  lock,       \* who holds comm_desc_lock
  app,        \* where the application thread is, and the handle it works on
  ckpt,       \* where the checkpoint thread is, and what it has loaded
  live,       \* the handles the application may use: [handle, seq]
  stale       \* the handles it has freed: [handle, gen]

vars == <<entry, free, highWater, nextSeq, heap, lock, app, ckpt, live, stale>>

SlotSet == 0 .. Slots - 1
NoHandle == <<>>
NoDesc == 0
HandleOf(kind, gen, slot) == <<kind, gen % Gens, slot>>
Handle(a) == HandleOf(a.kind, a.gen, a.slot)
Idle == [at |-> "idle", kind |-> "comm", gen |-> 0, slot |-> 0]
NoScan ==
  [at |-> "idle", gid |-> 0, slot |-> 0, end |-> 0, found |-> NoHandle, desc |-> NoDesc,
   there |-> {}]

(* reserve_constant_slot: no handle may use a slot that the bits of some   *)
(* constant name.                                                          *)
Reserved == {c[3] : c \in Constants}

(* lookup_virt_id_entry: the handle is the one that its slot has now.      *)
Resolves(h) == entry[h[3]].virt = h

(* alloc_slot: the free list's head, or the first unreserved slot not used *)
(* so far.                                                                 *)
Unused == {s \in SlotSet : s >= highWater /\ s \notin Reserved}
AllocSlot ==
  IF free # <<>> THEN Head(free)
  ELSE CHOOSE s \in Unused : \A t \in Unused : s <= t

EmptyEntry ==
  [virt |-> NoHandle, seq |-> 0, desc |-> NoDesc, gen |-> 0, null |-> FALSE,
   completed |-> FALSE, status |-> 0]

Init ==
  /\ entry = [s \in SlotSet |-> EmptyEntry]
  /\ free = <<>> /\ highWater = 0 /\ nextSeq = 0
  /\ heap = {} /\ lock = "none" /\ app = Idle /\ ckpt = NoScan
  /\ live = {} /\ stale = {}

-----------------------------------------------------------------------------
(* add_virt_id, up to the store that publishes the handle.                 *)
AddVirtId(kind) ==
  /\ app.at = "idle" /\ nextSeq < MaxAdds
  /\ free # <<>> \/ Unused # {}
  /\ LET s == AllocSlot
     IN /\ entry' = [entry EXCEPT
             ![s].seq = nextSeq + 1,
             ![s].desc = IF kind = "comm" THEN nextSeq + 1 ELSE NoDesc,
             ![s].null = FALSE,
             ![s].completed = FALSE]
        /\ app' = [at |-> "publish", kind |-> kind, gen |-> entry[s].gen, slot |-> s]
        /\ free' = IF free # <<>> THEN Tail(free) ELSE free
        /\ highWater' = IF free # <<>> THEN highWater ELSE s + 1
  /\ heap' = IF kind = "comm" THEN heap \cup {nextSeq + 1} ELSE heap
  /\ nextSeq' = nextSeq + 1
  /\ UNCHANGED <<lock, ckpt, live, stale>>

Publish ==
  /\ app.at = "publish"
  /\ entry' = [entry EXCEPT ![app.slot].virt = Handle(app)]
  /\ live' = live \cup {[handle |-> Handle(app), seq |-> entry[app.slot].seq]}
  /\ app' = Idle
  /\ UNCHANGED <<free, highWater, nextSeq, heap, lock, ckpt, stale>>

(* free_virt_id of a handle in use: the generation first.                  *)
SameGeneration(s) == entry
NextGeneration(s) == [entry EXCEPT ![s].gen = @ + 1]
StartFree(h) ==
  /\ app' = [at |-> "hide", kind |-> h[1], gen |-> entry[h[3]].gen, slot |-> h[3]]
  /\ entry' = NextGeneration(h[3])
  /\ live' = {l \in live : l.handle # h}
  /\ UNCHANGED <<free, highWater, nextSeq, heap, lock, ckpt, stale>>
FreeVirtId(l) == app.at = "idle" /\ l.handle[1] # "request" /\ StartFree(l.handle)

(* Then, with comm_desc_lock for a communicator, the handle leaves the     *)
(* table.                                                                  *)
NoLock(kind) == FALSE
TakesLock(kind) == kind = "comm"
Hide ==
  /\ app.at = "hide"
  /\ TakesLock(app.kind) => lock = "none"
  /\ lock' = IF TakesLock(app.kind) THEN "app" ELSE lock
  /\ entry' = [entry EXCEPT ![app.slot].virt = NoHandle]
  /\ stale' = stale \cup {[handle |-> Handle(app), gen |-> app.gen]}
  /\ app' = [app EXCEPT !.at = "release"]
  /\ UNCHANGED <<free, highWater, nextSeq, heap, ckpt, live>>

(* The descriptor goes, the lock is released, the slot joins the free      *)
(* list.                                                                   *)
PushedTwice(s) == <<s, s>> \o free
Pushed(s) == <<s>> \o free
Release ==
  /\ app.at = "release"
  /\ entry' = [entry EXCEPT ![app.slot].desc = NoDesc]
  /\ heap' = heap \ {entry[app.slot].desc}
  /\ free' = Pushed(app.slot)
  /\ lock' = IF TakesLock(app.kind) THEN "none" ELSE lock
  /\ app' = Idle
  /\ UNCHANGED <<highWater, nextSeq, ckpt, live, stale>>

(* MPI_Test_internal on a receive: the real request, then, if it is        *)
(* MPI_REQUEST_NULL, completed_request_status; then the request is freed.  *)
Test(l) ==
  /\ app.at = "idle" /\ l.handle[1] = "request"
  /\ entry[l.handle[3]].null
  /\ app' = [at |-> "status", kind |-> "request", gen |-> entry[l.handle[3]].gen,
             slot |-> l.handle[3]]
  /\ UNCHANGED <<entry, free, highWater, nextSeq, heap, lock, ckpt, live, stale>>
FreeRequest == app.at = "status" /\ entry[app.slot].completed /\ StartFree(Handle(app))

-----------------------------------------------------------------------------
(* find_virt_comm(gid), under comm_desc_lock: slot by slot, up to the      *)
(* high-water mark at the start, it loads the handle, loads the            *)
(* descriptor, and reads the gid in it.                                    *)
ScanEnd == highWater
FindVirtComm(gid) ==
  /\ ckpt.at = "idle" /\ lock = "none"
  /\ lock' = "ckpt"
  /\ ckpt' = [NoScan EXCEPT !.at = "scan", !.gid = gid, !.end = ScanEnd, !.there = live]
  /\ UNCHANGED <<entry, free, highWater, nextSeq, heap, app, live, stale>>

Scanned == ckpt.slot >= ckpt.end \/ ckpt.found # NoHandle

LoadHandle ==
  /\ ckpt.at = "scan" /\ ~Scanned
  /\ LET h == entry[ckpt.slot].virt
     IN ckpt' = IF h # NoHandle /\ h[1] = "comm"
                THEN [ckpt EXCEPT !.at = "load", !.found = h]
                ELSE [ckpt EXCEPT !.slot = @ + 1]
  /\ UNCHANGED <<entry, free, highWater, nextSeq, heap, lock, app, live, stale>>

LoadDesc ==
  /\ ckpt.at = "load"
  /\ LET d == entry[ckpt.slot].desc
     IN ckpt' = IF d = NoDesc
                THEN [ckpt EXCEPT !.at = "scan", !.slot = @ + 1, !.found = NoHandle]
                ELSE [ckpt EXCEPT !.at = "read", !.desc = d]
  /\ UNCHANGED <<entry, free, highWater, nextSeq, heap, lock, app, live, stale>>

ReadGid ==
  /\ ckpt.at = "read"
  /\ ckpt' = [ckpt EXCEPT !.at = "scan", !.slot = @ + 1, !.desc = NoDesc,
                          !.found = IF ckpt.desc = ckpt.gid THEN @ ELSE NoHandle]
  /\ UNCHANGED <<entry, free, highWater, nextSeq, heap, lock, app, live, stale>>

EndScan ==
  /\ ckpt.at = "scan" /\ Scanned
  /\ lock' = "none" /\ ckpt' = NoScan
  /\ UNCHANGED <<entry, free, highWater, nextSeq, heap, app, live, stale>>

(* complete_virt_request of a pending receive: the status, the flag, and   *)
(* last the real request.                                                  *)
CompleteVirtRequest(l) ==
  /\ ckpt.at = "idle" /\ l.handle[1] = "request" /\ ~entry[l.handle[3]].null
  /\ entry' = [entry EXCEPT ![l.handle[3]].status = l.seq]
  /\ ckpt' = [NoScan EXCEPT !.at = "completed", !.slot = l.handle[3]]
  /\ UNCHANGED <<free, highWater, nextSeq, heap, lock, app, live, stale>>

NullBoth(s) == [entry EXCEPT ![s].null = TRUE]
Completed(s) == [entry EXCEPT ![s].completed = TRUE]
StoreCompleted ==
  /\ ckpt.at = "completed"
  /\ entry' = Completed(ckpt.slot)
  /\ ckpt' = [ckpt EXCEPT !.at = "null"]
  /\ UNCHANGED <<free, highWater, nextSeq, heap, lock, app, live, stale>>

StoreNull ==
  /\ ckpt.at = "null"
  /\ entry' = [entry EXCEPT ![ckpt.slot].null = TRUE]
  /\ ckpt' = NoScan
  /\ UNCHANGED <<free, highWater, nextSeq, heap, lock, app, live, stale>>

(* Nothing is left to do: the bound on handles is reached.                 *)
AtBound == nextSeq = MaxAdds /\ live = {} /\ app = Idle /\ ckpt = NoScan /\ UNCHANGED vars

Next ==
  \/ \E kind \in Kinds : AddVirtId(kind)
  \/ Publish
  \/ \E l \in live : FreeVirtId(l) \/ Test(l) \/ CompleteVirtRequest(l)
  \/ Hide \/ Release \/ FreeRequest
  \/ \E gid \in 1 .. nextSeq : FindVirtComm(gid)
  \/ LoadHandle \/ LoadDesc \/ ReadGid \/ EndScan
  \/ StoreCompleted \/ StoreNull \/ AtBound

Spec == Init /\ [][Next]_vars

-----------------------------------------------------------------------------
HandleSet == Kinds \X (0 .. Gens - 1) \X SlotSet

Entries ==
  [virt : HandleSet \cup {NoHandle}, seq : Nat, desc : Nat, gen : Nat,
   null : BOOLEAN, completed : BOOLEAN, status : Nat]

(* The types of the table and of the application thread.                   *)
TableTypes ==
  /\ entry \in [SlotSet -> Entries]
  /\ free \in Seq(SlotSet) /\ highWater \in 0 .. Slots /\ nextSeq \in Nat
  /\ app \in [at : {"idle", "publish", "hide", "release", "status"},
              kind : Kinds, gen : Nat, slot : SlotSet]
  /\ live \subseteq [handle : HandleSet, seq : Nat]
  /\ stale \subseteq [handle : HandleSet, gen : Nat]

(* And of the checkpoint thread.                                           *)
CkptPlaces == {"idle", "scan", "load", "read", "completed", "null"}
CkptRecords ==
  [at : CkptPlaces, gid : Nat, slot : Nat, end : Nat, found : HandleSet \cup {NoHandle},
   desc : Nat, there : SUBSET [handle : HandleSet, seq : Nat]]
CkptTypes == ckpt \in CkptRecords

(* A handle the program has names its own object: the slot was not given   *)
(* away while the handle was in use, and no other handle was published     *)
(* over it (alloc_slot, add_virt_id, free_virt_id).  Nor does it equal a   *)
(* predefined constant (virtual_id.h line 21).                             *)
LiveHandlesResolve ==
  /\ \A l \in live : Resolves(l.handle) /\ entry[l.handle[3]].seq = l.seq
  /\ \A l, m \in live : l.handle[3] = m.handle[3] => l = m
  /\ \A l \in live : l.handle \notin Constants

(* Why: the free list names each slot once, and only slots that no handle  *)
(* in use and no call under way has; and only alloc_slot's slots, below    *)
(* the high-water mark and not reserved, are ever in use.                  *)
FreeListSound ==
  /\ \A i, j \in DOMAIN free : free[i] = free[j] => i = j
  /\ \A i \in DOMAIN free :
       /\ entry[free[i]].virt = NoHandle
       /\ app.at # "idle" => free[i] # app.slot
Given(s) == s < highWater /\ s \notin Reserved
SlotInv ==
  /\ TableTypes /\ LiveHandlesResolve /\ FreeListSound
  /\ \A i \in DOMAIN free : Given(free[i])
  /\ \A l \in live : Given(l.handle[3])
  /\ app.at # "idle" => Given(app.slot)
  /\ app.at \in {"publish", "hide", "release"} => \A l \in live : l.handle[3] # app.slot
  /\ app.at = "status" => \E l \in live : l.handle = Handle(app)
  /\ app.at = "release" => entry[app.slot].virt = NoHandle

(* "A slot's generation changes on every reuse, so stale handles are       *)
(* detected" (virtual_id.h line 20): no freed handle resolves.             *)
StaleDetected == \A s \in stale : ~Resolves(s.handle)

(* A freed handle does not resolve until its slot has been through all     *)
(* Gens generations.                                                       *)
StaleDetectedUntilWrap ==
  \A s \in stale : entry[s.handle[3]].gen < s.gen + Gens => ~Resolves(s.handle)

(* Why: a handle has its slot's generation, or the one before while it is  *)
(* being freed, and the freed handles of the slot have earlier ones.       *)
HidesSlot(s) == app.at = "hide" /\ app.slot = s
GenerationInv ==
  /\ \A s \in SlotSet : entry[s].virt # NoHandle =>
       entry[s].virt[2] = (IF HidesSlot(s) THEN app.gen ELSE entry[s].gen) % Gens
  /\ app.at \in {"publish", "status"} => entry[app.slot].gen = app.gen
  /\ app.at = "hide" => entry[app.slot].gen = app.gen + 1
  /\ \A h \in stale :
       /\ h.handle[2] = h.gen % Gens
       /\ h.gen < entry[h.handle[3]].gen
       /\ HidesSlot(h.handle[3]) => h.gen < app.gen

(* find_virt_comm reads no communicator's descriptor that the application  *)
(* has freed (comm_desc_lock), and returns the communicator that has the   *)
(* gid, if it was in use from the first slot of the scan to the last, and  *)
(* nothing else.                                                           *)
ScanIsRight ==
  /\ ckpt.at = "read" => ckpt.desc \in heap
  /\ ckpt.at = "scan" /\ Scanned =>
       /\ ckpt.found # NoHandle =>
            Resolves(ckpt.found) /\ entry[ckpt.found[3]].seq = ckpt.gid
       /\ ckpt.found = NoHandle =>
            \A l \in ckpt.there \cap live : l.handle[1] = "comm" => l.seq # ckpt.gid

(* Why: a published communicator has its own descriptor, allocated, until  *)
(* it is released under the lock, so a scan sees no communicator leave; a  *)
(* slot is written only when no handle is in it; and what was in use at    *)
(* the start has other creation numbers than what is added meanwhile.      *)
Scans == ckpt.at \in {"scan", "load", "read"}
DescInv ==
  /\ lock = "app" <=> app.at = "release" /\ app.kind = "comm"
  /\ lock = "ckpt" <=> Scans
  /\ \A s \in SlotSet : entry[s].desc # NoDesc =>
       entry[s].desc \in heap /\ entry[s].desc <= nextSeq
  /\ \A s, t \in SlotSet : entry[s].desc # NoDesc /\ entry[s].desc = entry[t].desc => s = t
  /\ \A s \in SlotSet : entry[s].virt # NoHandle =>
       /\ s < highWater /\ entry[s].virt[3] = s
       /\ entry[s].virt[1] = "comm" => entry[s].desc = entry[s].seq /\ entry[s].seq # NoDesc
  /\ app.at = "publish" =>
       /\ entry[app.slot].virt = NoHandle
       /\ entry[app.slot].seq = nextSeq /\ nextSeq # NoDesc
       /\ app.kind = "comm" => entry[app.slot].desc = nextSeq
  /\ app.at = "hide" => entry[app.slot].virt[1] = app.kind
  /\ \A l \in live \cup ckpt.there :
       l.seq <= nextSeq /\ (app.at = "publish" => l.seq < nextSeq)
ScanInv ==
  Scans =>
    /\ ckpt.slot \in Nat /\ ckpt.end \in 0 .. highWater
    /\ ckpt.at # "scan" \/ ckpt.found = NoHandle =>
         \A l \in ckpt.there \cap live :
           l.handle[1] = "comm" /\ l.seq = ckpt.gid =>
             ckpt.slot <= l.handle[3] /\ l.handle[3] < ckpt.end
    /\ ckpt.at # "scan" =>
         /\ ckpt.slot < ckpt.end /\ entry[ckpt.slot].virt = ckpt.found
         /\ ckpt.found # NoHandle /\ ckpt.found[1] = "comm"
    /\ ckpt.at = "read" => ckpt.desc = entry[ckpt.slot].desc
    /\ ckpt.at = "scan" /\ ckpt.found # NoHandle =>
         /\ ckpt.found[3] \in SlotSet /\ ckpt.found[1] = "comm"
         /\ Resolves(ckpt.found) /\ entry[ckpt.found[3]].seq = ckpt.gid

(* A thread that sees MPI_REQUEST_NULL on a receive that MANA completed    *)
(* finds the status of that receive (complete_virt_request's order).       *)
NullMeansCompleted ==
  app.at = "status" =>
    entry[app.slot].completed /\ entry[app.slot].status = entry[app.slot].seq

(* Why: the request that is being completed is one in use whose real       *)
(* request is not yet MPI_REQUEST_NULL, so that no MPI_Test frees it; and  *)
(* a new request starts from a real one.                                   *)
CompletionInv ==
  /\ \A l \in live : l.handle[1] = "request" /\ entry[l.handle[3]].null =>
       entry[l.handle[3]].completed /\ entry[l.handle[3]].status = l.seq
  /\ app.at = "publish" => ~entry[app.slot].null
  /\ app.at = "status" => app.kind = "request" /\ entry[app.slot].null
  /\ ckpt.at \in {"completed", "null"} =>
       /\ \E l \in live : /\ l.handle[1] = "request" /\ l.handle[3] = ckpt.slot
                          /\ entry[ckpt.slot].status = l.seq
       /\ ~entry[ckpt.slot].null
  /\ ckpt.at = "null" => entry[ckpt.slot].completed
=============================================================================
