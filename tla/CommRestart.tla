----------------------------- MODULE CommRestart -----------------------------
(***************************************************************************)
(* Communicators over several ranks: how they are made and freed, the gid  *)
(* that names one in the clocks (virtual_id.cpp), what a checkpoint finds, *)
(* and how a restart makes them again.  A restarted rank knows only its    *)
(* own table, and remakes its communicators one by one with                *)
(* MPI_Comm_create_group, which waits for the group's other members.       *)
(*                                                                         *)
(* calls[g] is the order of the collective calls on the communicator g,    *)
(* which MPI makes the same on all members; clock[r][g] is how many of     *)
(* them rank r has made.  The making calls of the MPI library wait for all *)
(* the ranks they involve.                                                 *)
(***************************************************************************)
EXTENDS Integers, Sequences, FiniteSets, Functions

CONSTANTS
  N,          \* g_world_size
  Splits,     \* what a making call may do: a sequence of disjoint groups
  Groups,     \* the groups of MPI_Comm_create_group
  MaxComms,   \* bound: communicators made
  MaxSlots,   \* bound: slots of a rank's table
  MaxCkpts    \* bound: restarts

Ranks == 0 .. N - 1
Members(group) == Range(group)
Involved(groups) == UNION {Members(groups[i]) : i \in DOMAIN groups}

ASSUME CommConstants ==
  /\ N \in Nat \ {0} /\ MaxComms \in Nat /\ MaxSlots \in Nat \ {0} /\ MaxCkpts \in Nat
  /\ \A groups \in Splits :
       /\ groups \in Seq(Seq(Ranks) \ {<<>>}) \ {<<>>}
       /\ \A i, j \in DOMAIN groups :
            Members(groups[i]) \cap Members(groups[j]) # {} => i = j
  /\ Groups \subseteq Seq(Ranks) \ {<<>>}

VARIABLES
  phase,      \* "run" or "restart"
  table,      \* table[r]: the communicators in r's virtual-ID table
  at,         \* at[r]: the making call that r is in
  calls,      \* calls[g]: the collective calls on g; Free is the last
  clock,      \* clock[r][g]: the clock of g at r
  gidsMade,   \* gids_made
  nextSeq,    \* virt_id_next_seq
  comms,      \* the communicators, in the order in which MPI made them
  made,       \* how many the libraries of all restarts have made
  todo,       \* todo[r]: the entries that the restart has not remade
  ckpts       \* restarts so far

vars == <<phase, table, at, calls, clock, gidsMade, nextSeq, comms, made, todo, ckpts>>

World == [i \in 1 .. N |-> i - 1]
Gids == 0 .. N * (MaxComms + 2) - 1
NoGid == -1
Free == <<>>
Idle == [op |-> "none", gid |-> NoGid, groups |-> <<>>, id |-> 0]

(* g_world_comm is the first communicator; MPI_COMM_SELF has taken a gid   *)
(* of every rank as well.                                                  *)
Init ==
  /\ phase = "run"
  /\ comms = <<[group |-> World, gid |-> 0, real |-> 1]>>
  /\ made = 1
  /\ table = [r \in Ranks |-> {[slot |-> 0, seq |-> 1, gid |-> 0, group |-> World, real |-> 1]}]
  /\ at = [r \in Ranks |-> Idle]
  /\ calls = [g \in Gids |-> <<>>]
  /\ clock = [r \in Ranks |-> [g \in Gids |-> 0]]
  /\ gidsMade = [r \in Ranks |-> IF r = 0 THEN 2 ELSE 1]
  /\ nextSeq = [r \in Ranks |-> 1]
  /\ todo = [r \in Ranks |-> {}]
  /\ ckpts = 0

-----------------------------------------------------------------------------
(* The next collective call of rank r on g: the one that a member has      *)
(* already made there, or else any.                                        *)
IsNextCall(r, g, call) ==
  /\ clock[r][g] < Len(calls[g]) => call = calls[g][clock[r][g] + 1]
  /\ calls' = IF clock[r][g] < Len(calls[g]) THEN calls
              ELSE [calls EXCEPT ![g] = Append(@, call)]

Tick(r, g) == [clock EXCEPT ![r][g] = @ + 1]

(* MPI_Comm_split, MPI_Comm_dup, MPI_Comm_create, MPI_Cart_create ...      *)
(* commit_begin counts the call.                                           *)
StartMaking(r, e, groups) ==
  /\ phase = "run" /\ at[r] = Idle
  /\ Involved(groups) \subseteq Members(e.group)
  /\ Len(comms) + Len(groups) <= MaxComms + 1
  /\ IsNextCall(r, e.gid, groups)
  /\ clock' = Tick(r, e.gid)
  /\ at' = [at EXCEPT ![r] = [op |-> "make", gid |-> e.gid, groups |-> groups, id |-> 0]]
  /\ UNCHANGED <<phase, table, gidsMade, nextSeq, comms, made, todo, ckpts>>

(* MPI_Comm_create_group: no clock counts it.                              *)
StartCreateGroup(r, group) ==
  /\ phase = "run" /\ at[r] = Idle /\ r \in Members(group)
  /\ Len(comms) <= MaxComms
  /\ at' = [at EXCEPT ![r] = [op |-> "group", gid |-> NoGid, groups |-> <<group>>, id |-> 0]]
  /\ UNCHANGED <<phase, table, calls, clock, gidsMade, nextSeq, comms, made, todo, ckpts>>

(* MPI_Comm_free: counted; the barrier it starts waits for nobody, and     *)
(* free_virt_id follows at once.                                           *)
FreeClock(r, g) == Tick(r, g)
MPI_Comm_free(r, e) ==
  /\ phase = "run" /\ at[r] = Idle
  /\ e.gid # 0
  /\ IsNextCall(r, e.gid, Free)
  /\ clock' = FreeClock(r, e.gid)
  /\ table' = [table EXCEPT ![r] = @ \ {e}]
  /\ UNCHANGED <<phase, at, gidsMade, nextSeq, comms, made, todo, ckpts>>

(* The MPI library, once every rank involved is in the call.               *)
MakeComms(call, ranks) ==
  /\ \A r \in ranks : at[r] = call
  /\ Len(comms) + Len(call.groups) <= MaxComms + 1
  /\ comms' = comms \o [i \in DOMAIN call.groups |->
       [group |-> call.groups[i], gid |-> NoGid, real |-> made + i]]
  /\ made' = made + Len(call.groups)
  /\ at' = [r \in Ranks |->
       IF r \notin ranks THEN at[r]
       ELSE LET mine == {i \in DOMAIN call.groups : r \in Members(call.groups[i])}
            IN IF mine = {} THEN Idle
               ELSE [Idle EXCEPT !.op = "name",
                                 !.id = Len(comms) + (CHOOSE i \in mine : TRUE)]]
  /\ UNCHANGED <<phase, table, calls, clock, gidsMade, nextSeq, todo, ckpts>>

LibraryMakes(e) ==
  \E r \in Ranks : at[r].op = "make" /\ at[r].gid = e.gid /\ MakeComms(at[r], Members(e.group))
LibraryCreatesGroup(group) ==
  \E r \in Ranks : at[r].op = "group" /\ at[r].groups = <<group>> /\ MakeComms(at[r], Members(group))

(* new_virt_comm: rank 0 of the communicator makes the gid, and the others *)
(* wait for its MPI_Bcast; then each adds an entry and leaves.             *)
CountOnly(r) == gidsMade[r] * N
MakeGid(r) == gidsMade[r] * N + r
Broadcast(c) == c.gid # NoGid
NewVirtComm(r, slot) ==
  /\ at[r].op = "name"
  /\ slot \notin {e.slot : e \in table[r]}
  /\ LET c == comms[at[r].id]
         root == r = Head(c.group)
         gid == IF root THEN MakeGid(r) ELSE c.gid
     IN /\ ~root => Broadcast(c)
        /\ gidsMade' = IF root THEN [gidsMade EXCEPT ![r] = @ + 1] ELSE gidsMade
        /\ comms' = [comms EXCEPT ![at[r].id].gid = gid]
        /\ table' = [table EXCEPT ![r] = @ \cup
             {[slot |-> slot, seq |-> nextSeq[r] + 1, gid |-> gid, group |-> c.group,
               real |-> c.real]}]
  /\ nextSeq' = [nextSeq EXCEPT ![r] = @ + 1]
  /\ at' = [at EXCEPT ![r] = Idle]
  /\ UNCHANGED <<phase, calls, clock, made, todo, ckpts>>

-----------------------------------------------------------------------------
(* A checkpoint is taken when no rank is in a call and the clocks of a     *)
(* communicator agree (CollectiveClock).  After a restart the library has  *)
(* no communicators, and the entries of the table have none.               *)
Drained ==
  /\ \A r \in Ranks : at[r] = Idle
  /\ \A i \in DOMAIN comms : \A r, s \in Members(comms[i].group) :
       clock[r][comms[i].gid] = clock[s][comms[i].gid]
Restart ==
  /\ phase = "run" /\ Drained /\ ckpts < MaxCkpts
  /\ phase' = "restart"
  /\ table' = [r \in Ranks |-> {[e EXCEPT !.real = 0] : e \in table[r]}]
  /\ todo' = table'
  /\ ckpts' = ckpts + 1
  /\ UNCHANGED <<at, calls, clock, gidsMade, nextSeq, comms, made>>

(* reconstruct_descriptors: in creation order, not in slot order.          *)
BySlot(e, f) == e.slot <= f.slot
Before(e, f) == e.seq <= f.seq
IsHead(r, e) == e \in todo[r] /\ \A f \in todo[r] : Before(e, f)

(* reconstruct_comm_desc: each member of e's group is at a communicator    *)
(* with that group (MPI_Comm_create_group of MPI_COMM_WORLD, tag 0, waits  *)
(* for them); MPI_Cart_create then has the same members.                   *)
Ready(e) == \A s \in Members(e.group) : \E f \in todo[s] : IsHead(s, f) /\ f.group = e.group
Rebuild(r, e) ==
  /\ phase = "restart"
  /\ IsHead(r, e) /\ Ready(e)
  /\ LET head == [s \in Members(e.group) |-> CHOOSE f \in todo[s] : IsHead(s, f)]
     IN /\ table' = [s \in Ranks |->
             IF s \notin Members(e.group) THEN table[s]
             ELSE (table[s] \ {head[s]}) \cup {[head[s] EXCEPT !.real = made + 1]}]
        /\ todo' = [s \in Ranks |->
             IF s \notin Members(e.group) THEN todo[s] ELSE todo[s] \ {head[s]}]
  /\ made' = made + 1
  /\ UNCHANGED <<phase, at, calls, clock, gidsMade, nextSeq, comms, ckpts>>

(* The global barrier at the end of the restart.                           *)
EndRestart ==
  /\ phase = "restart"
  /\ \A r \in Ranks : todo[r] = {}
  /\ phase' = "run"
  /\ UNCHANGED <<table, at, calls, clock, gidsMade, nextSeq, comms, made, todo, ckpts>>

Next ==
  \/ \E r \in Ranks, groups \in Splits : \E e \in table[r] : StartMaking(r, e, groups)
  \/ \E r \in Ranks, group \in Groups : StartCreateGroup(r, group)
  \/ \E r \in Ranks : \E e \in table[r] : MPI_Comm_free(r, e)
  \/ \E r \in Ranks : \E e \in table[r] : LibraryMakes(e)
  \/ \E group \in Groups : LibraryCreatesGroup(group)
  \/ \E r \in Ranks, slot \in 0 .. MaxSlots - 1 : NewVirtComm(r, slot)
  \/ Restart
  \/ \E r \in Ranks : \E e \in todo[r] : Rebuild(r, e)
  \/ EndRestart

Spec == Init /\ [][Next]_vars

-----------------------------------------------------------------------------

(* What make_gid and the restart are for: two ranks' entries have the same *)
(* gid exactly if they have the same communicator of the MPI library,      *)
(* before the checkpoint and after the restart.                            *)
GidNamesCommunicator ==
  \A r, s \in Ranks : \A e \in table[r], f \in table[s] :
    e.real # 0 /\ f.real # 0 =>
      /\ e.gid = f.gid <=> e.real = f.real
      /\ e.gid = f.gid => e.group = f.group

(* The restart never waits forever: while some rank has a communicator to  *)
(* remake, the members of some communicator are all at it.                 *)
RestartNeverStuck ==
  phase = "restart" =>
    \/ \A r \in Ranks : todo[r] = {}
    \/ \E r \in Ranks : \E e \in todo[r] : IsHead(r, e) /\ Ready(e)

-----------------------------------------------------------------------------
(* Why both hold: an inductive invariant.                                  *)

CommRecords == [group : Seq(Ranks), gid : Gids \cup {NoGid}, real : Nat]
Entries == [slot : Nat, seq : Nat, gid : Gids, group : Seq(Ranks), real : Nat]
CallRecords == [op : {"none", "make", "group", "name"}, gid : Gids \cup {NoGid},
                groups : Seq(Seq(Ranks)), id : Nat]

TypeOK ==
  /\ phase \in {"run", "restart"}
  /\ table \in [Ranks -> SUBSET Entries]
  /\ at \in [Ranks -> CallRecords]
  /\ calls \in [Gids -> Seq(Splits \cup {Free})]
  /\ clock \in [Ranks -> [Gids -> Nat]]
  /\ gidsMade \in [Ranks -> Nat] /\ nextSeq \in [Ranks -> Nat]
  /\ comms \in Seq(CommRecords) /\ Len(comms) <= MaxComms + 1
  /\ made \in Nat /\ ckpts \in Nat
  /\ todo \in [Ranks -> SUBSET Entries]

(* Rank r is to name the i-th communicator.                                *)
Naming(r, i) == at[r].op = "name" /\ at[r].id = i
(* Rank r has freed the communicator g.                                    *)
Freed(r, g) == \E k \in 1 .. clock[r][g] : calls[g][k] = Free

(* The ranks in a making call.                                             *)
CallInv ==
  \A r \in Ranks :
    /\ at[r].op = "make" =>
         /\ at[r].groups \in Splits /\ at[r].gid # NoGid
         /\ \E i \in DOMAIN comms : /\ comms[i].gid = at[r].gid
                                    /\ Involved(at[r].groups) \subseteq Members(comms[i].group)
    /\ at[r].op = "name" =>
         /\ at[r].id \in DOMAIN comms /\ nextSeq[r] < at[r].id
         /\ r \in Members(comms[at[r].id].group)
         /\ r = Head(comms[at[r].id].group) => comms[at[r].id].gid = NoGid
    /\ nextSeq[r] <= Len(comms)
    /\ gidsMade[r] <= nextSeq[r] + 1

(* A communicator has its gid once its rank 0 has named it; a gid tells    *)
(* which rank made it and when, so no two are the same.                    *)
NameInv ==
  /\ \A i \in DOMAIN comms :
       /\ comms[i].gid = NoGid => \A r \in Members(comms[i].group) : Naming(r, i)
       /\ comms[i].gid # NoGid =>
            \E r \in Ranks : \E k \in 0 .. gidsMade[r] - 1 : comms[i].gid = k * N + r
  /\ \A i, j \in DOMAIN comms : comms[i].gid = comms[j].gid /\ comms[i].gid # NoGid => i = j

(* An entry names a communicator that its rank is a member of, and a       *)
(* rank's entries are in the order in which MPI made the communicators.    *)
EntryInv ==
  \A r \in Ranks : \A e \in table[r] :
    /\ \E i \in DOMAIN comms : /\ comms[i].gid = e.gid /\ comms[i].group = e.group
                               /\ ~Naming(r, i)
                               /\ at[r].op = "name" => i < at[r].id
    /\ r \in Members(e.group) /\ e.seq <= nextSeq[r]
    /\ \A f \in table[r] :
         /\ e.seq = f.seq => e = f
         /\ \A i, j \in DOMAIN comms : comms[i].gid = e.gid /\ comms[j].gid = f.gid =>
              (i < j <=> e.seq < f.seq)

(* A member has an entry from naming the communicator to freeing it, and   *)
(* makes no call on it before.                                             *)
ClockInv ==
  \A r \in Ranks :
    /\ \A g \in Gids : clock[r][g] <= Len(calls[g])
    /\ \A g \in Gids : (\A i \in DOMAIN comms : comms[i].gid = g => Naming(r, i)) =>
                         clock[r][g] = 0
    /\ \A i \in DOMAIN comms : comms[i].gid # NoGid /\ r \in Members(comms[i].group) =>
         ((\E e \in table[r] : e.gid = comms[i].gid) <=>
            ~Naming(r, i) /\ ~Freed(r, comms[i].gid))

(* The library's communicators are all different, and an entry has the one *)
(* that its gid names.                                                     *)
LibraryInv ==
  /\ \A i \in DOMAIN comms : comms[i].real <= made /\ comms[i].real # 0
  /\ \A i, j \in DOMAIN comms : comms[i].real = comms[j].real => i = j
RealInv ==
  \A s \in Ranks : \A e \in table[s] :
    /\ e.real <= made
    /\ \A r \in Ranks : at[r].op = "name" =>
         (comms[at[r].id].gid = e.gid <=> comms[at[r].id].real = e.real)
    /\ \A r \in Ranks : \A f \in table[r] :
         e.real # 0 /\ f.real # 0 => (e.gid = f.gid <=> e.real = f.real)

(* The members of a communicator agree on whether it is yet to be remade.  *)
TodoInv ==
  /\ phase = "run" => \A r \in Ranks : todo[r] = {} /\ \A e \in table[r] : e.real # 0
  /\ phase = "restart" =>
       \A r \in Ranks :
         /\ at[r] = Idle
         /\ todo[r] = {e \in table[r] : e.real = 0}
         /\ \A e \in todo[r] : \A s \in Members(e.group) : \E f \in todo[s] : f.gid = e.gid

CommInv ==
  /\ TypeOK /\ CallInv /\ NameInv /\ EntryInv /\ ClockInv
  /\ LibraryInv /\ RealInv /\ TodoInv
=============================================================================
