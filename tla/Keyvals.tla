------------------------------- MODULE Keyvals -------------------------------
(***************************************************************************)
(* The attributes of communicators, which MANA keeps in the upper half of  *)
(* one rank (mpi_comm_wrappers.cpp): keyvals, their attributes, and the    *)
(* program's copy and delete callbacks, which MANA calls in the middle of  *)
(* its own operations.  A callback may create or free keyvals, and set or  *)
(* delete other attributes, before it succeeds or fails.                   *)
(*                                                                         *)
(* 'stack' has the operations under way, the innermost first.  Its head is *)
(* in a callback whenever the stack is not empty.                          *)
(***************************************************************************)
EXTENDS Integers, Sequences, FiniteSets, FiniteSetsExt

CONSTANTS
  Comms,             \* the communicators a program may use
  Self,              \* MPI_COMM_SELF
  NoComm,            \* MPI_COMM_NULL
  PredefinedKeyvals, \* the numbers of predefined keyvals
  MaxKeyvals,        \* bound: keyvals created
  MaxValues,         \* bound: attribute values set
  MaxDepth           \* bound: operations within each other

ASSUME KeyvalConstants ==
  /\ Self \in Comms /\ NoComm \notin Comms
  /\ IsFiniteSet(PredefinedKeyvals) /\ PredefinedKeyvals \subseteq Nat
  /\ MaxKeyvals \in Nat /\ MaxValues \in Nat

VARIABLES
  vec,          \* keyvalVec: -1 free, -2 predefined, else the keyval
  tuple,        \* tuple[k]: tupleMap's entry for the keyval k
  selfKeyvals,  \* the keyvals of Self's attributes, in the order set
  alive,        \* the communicators in use
  stack,        \* the operations under way
  created,      \* keyvals created so far
  values,       \* attribute values set so far
  owner,        \* owner[v]: the keyval (by creation) that v was set with
  deletions,    \* deletions[v]: delete callbacks of v that succeeded
  failedDup     \* communicators that a failing MPI_Comm_dup could not free

keyvalVars == <<vec, tuple, selfKeyvals, alive, stack, created, values, owner, deletions, failedDup>>

NoTuple == [number |-> 0, freed |-> FALSE, attr |-> [c \in Comms |-> 0]]
Numbers == 0 .. MaxKeyvals + Cardinality(PredefinedKeyvals) - 1
Keyvals == {k \in Numbers : tuple[k] # NoTuple}

KeyvalsInit ==
  /\ vec = <<>> /\ tuple = [k \in Numbers |-> NoTuple] /\ selfKeyvals = <<>>
  /\ alive = {Self} /\ stack = <<>> /\ created = 0 /\ values = 0
  /\ owner = [v \in 1 .. MaxValues |-> 0] /\ deletions = [v \in 1 .. MaxValues |-> 0]
  /\ failedDup = {}

(* The program runs at the top, and in a callback.                         *)
InProgram == Len(stack) < MaxDepth
Has(k, c) == tuple[k].attr[c] # 0
(* What the program must leave alone in a callback: the attribute that the *)
(* callback is for, and a communicator that is being made or freed.        *)
Busy(k, c) == \E f \in Range(stack) : f.keyval = k /\ f.comm = c
InUse(c) == \E f \in Range(stack) : c \in {f.comm, f.new}
BeingFreed(c) == \E f \in Range(stack) : f.op \in {"free", "undo"} /\ f.comm = c

-----------------------------------------------------------------------------
(* MPI_Comm_create_keyval: the first free number, or the next that is not  *)
(* predefined.                                                             *)
NotSkipped(k) == TRUE
Allowed(k) == k \notin PredefinedKeyvals
MPI_Comm_create_keyval ==
  /\ InProgram /\ created < MaxKeyvals
  /\ LET unused == {i \in DOMAIN vec : vec[i] = -1}
         new == {k \in Numbers : k >= Len(vec) /\ Allowed(k)}
         k == IF unused # {} THEN Min(unused) - 1 ELSE Min(new)
     IN /\ unused # {} \/ new # {}  \* there are Numbers enough
        /\ vec' = [i \in 1 .. Max({Len(vec), k + 1}) |->
                     IF i = k + 1 THEN k ELSE IF i <= Len(vec) THEN vec[i] ELSE -2]
        /\ tuple' = [tuple EXCEPT ![k] =
                      [number |-> created + 1, freed |-> FALSE, attr |-> NoTuple.attr]]
  /\ created' = created + 1
  /\ UNCHANGED <<selfKeyvals, alive, stack, values, owner, deletions, failedDup>>

(* remove_keyval_if_unused, of the keyval k in the map tp.                 *)
OnlyFreed(tp, k) == tp[k].freed
IsUnused(tp, k) == tp[k].freed /\ tp[k].attr = NoTuple.attr
RemoveIfUnused(tp, k) ==
  /\ tuple' = IF IsUnused(tp, k) THEN [tp EXCEPT ![k] = NoTuple] ELSE tp
  /\ vec' = IF IsUnused(tp, k) THEN [vec EXCEPT ![k + 1] = -1] ELSE vec

MPI_Comm_free_keyval(k) ==
  /\ InProgram /\ k \in Keyvals /\ ~tuple[k].freed
  /\ RemoveIfUnused([tuple EXCEPT ![k].freed = TRUE], k)
  /\ UNCHANGED <<selfKeyvals, alive, stack, created, values, owner, deletions, failedDup>>

(* A new value of the attribute of k at c.                                 *)
Attach(k, c) ==
  /\ values < MaxValues
  /\ values' = values + 1
  /\ owner' = [owner EXCEPT ![values + 1] = tuple[k].number]
  /\ tuple' = [tuple EXCEPT ![k].attr[c] = values + 1]

Frame(op, c, k) == [op |-> op, comm |-> c, keyval |-> k, todo |-> {}, new |-> NoComm]

(* MPI_Comm_set_attr, of a new attribute; for one that exists the delete   *)
(* callback comes first.                                                   *)
MPI_Comm_set_attr(k, c) ==
  /\ InProgram /\ k \in Keyvals /\ ~tuple[k].freed
  /\ c \in alive /\ ~Busy(k, c) /\ ~BeingFreed(c)
  /\ IF Has(k, c)
     THEN /\ stack' = <<Frame("set", c, k)>> \o stack
          /\ UNCHANGED <<tuple, selfKeyvals, values, owner>>
     ELSE /\ Attach(k, c)
          /\ selfKeyvals' = IF c = Self THEN Append(selfKeyvals, k) ELSE selfKeyvals
          /\ UNCHANGED stack
  /\ UNCHANGED <<vec, alive, created, deletions, failedDup>>

MPI_Comm_delete_attr(k, c) ==
  /\ InProgram /\ k \in Keyvals /\ ~tuple[k].freed
  /\ c \in alive /\ ~Busy(k, c) /\ Has(k, c)
  /\ stack' = <<Frame("delete", c, k)>> \o stack
  /\ UNCHANGED <<vec, tuple, selfKeyvals, alive, created, values, owner, deletions, failedDup>>

(* The loops of MPI_Comm_free and copy_comm_attributes look each keyval of *)
(* their list up again, and skip one that the communicator no longer has:  *)
(* the loop goes on to the first one that it has, or ends.  The list is in *)
(* the order of an unordered_map, that is, in any: 'todo' is what is left. *)
GoOn(tp, op, c, todo, n, rest) ==
  LET left == {k \in todo : tp[k].attr[c] # 0}
  IN IF left # {}
     THEN /\ \E k \in left, skipped \in SUBSET (todo \ left) :
               stack' = <<[op |-> op, comm |-> c, keyval |-> k,
                           todo |-> todo \ ({k} \cup skipped), new |-> n]>> \o rest
          /\ UNCHANGED alive
     ELSE /\ stack' = rest
          /\ alive' = IF op = "dup" THEN alive \cup {n} ELSE alive \ {c}

KeyvalsOf(c) == {k \in Numbers : Has(k, c)}

(* MPI_Comm_free, up to its commit_begin().                                *)
Comm_free(c) ==
  /\ InProgram /\ c \in alive \ {Self} /\ ~InUse(c)
  /\ GoOn(tuple, "free", c, KeyvalsOf(c), NoComm, stack)
  /\ UNCHANGED <<vec, tuple, selfKeyvals, created, values, owner, deletions, failedDup>>

(* MPI_Comm_dup, once the communicator n is made.                          *)
copy_comm_attributes(c, n) ==
  /\ InProgram /\ c \in alive /\ ~BeingFreed(c)
  /\ n \notin alive \cup failedDup /\ ~InUse(n)
  /\ GoOn(tuple, "dup", c, KeyvalsOf(c), n, stack)
  /\ UNCHANGED <<vec, tuple, selfKeyvals, created, values, owner, deletions, failedDup>>

(* delete_self_attributes, in MPI_Finalize: the last of the list is first. *)
NextSelf(s, rest) ==
  IF s = <<>> THEN stack' = rest /\ selfKeyvals' = s
  ELSE /\ stack' = <<Frame("finalize", Self, s[Len(s)])>> \o rest
       /\ selfKeyvals' = SubSeq(s, 1, Len(s) - 1)
delete_self_attributes ==
  /\ stack = <<>> /\ selfKeyvals # <<>>
  /\ NextSelf(selfKeyvals, stack)
  /\ UNCHANGED <<vec, tuple, alive, created, values, owner, deletions, failedDup>>

-----------------------------------------------------------------------------
(* The callback of the innermost operation returns.  A delete callback     *)
(* that succeeds takes the attribute away.                                 *)
F == stack[1]
Rest == Tail(stack)
Without(k, c) == [tuple EXCEPT ![k].attr[c] = 0]
CountDeletion == deletions' = [deletions EXCEPT ![tuple[F.keyval].attr[F.comm]] = @ + 1]

SetReturns ==
  /\ stack # <<>> /\ F.op = "set"
  /\ Attach(F.keyval, F.comm)
  /\ CountDeletion /\ stack' = Rest
  /\ UNCHANGED <<vec, selfKeyvals, alive, created, failedDup>>

(* std::remove and erase.                                                  *)
WithoutKeyval(s, k) ==
  LET kept[i \in 0 .. Len(s)] ==
        IF i = 0 THEN <<>> ELSE IF s[i] = k THEN kept[i - 1] ELSE Append(kept[i - 1], s[i])
  IN kept[Len(s)]
DeleteReturns ==
  /\ stack # <<>> /\ F.op = "delete"
  /\ RemoveIfUnused(Without(F.keyval, F.comm), F.keyval)
  /\ selfKeyvals' = IF F.comm = Self THEN WithoutKeyval(selfKeyvals, F.keyval) ELSE selfKeyvals
  /\ CountDeletion /\ stack' = Rest
  /\ UNCHANGED <<alive, created, values, owner, failedDup>>

FreeReturns ==
  /\ stack # <<>> /\ F.op \in {"free", "undo"}
  /\ RemoveIfUnused(Without(F.keyval, F.comm), F.keyval)
  /\ GoOn(Without(F.keyval, F.comm), F.op, F.comm, F.todo, NoComm, Rest)
  /\ CountDeletion
  /\ UNCHANGED <<selfKeyvals, created, values, owner, failedDup>>

(* The copy callback says whether the duplicate gets the attribute.        *)
CopyReturns(flag) ==
  /\ stack # <<>> /\ F.op = "dup"
  /\ IF flag THEN Attach(F.keyval, F.new) ELSE UNCHANGED <<tuple, values, owner>>
  /\ GoOn(tuple, "dup", F.comm, F.todo, F.new, Rest)
  /\ UNCHANGED <<vec, selfKeyvals, created, deletions, failedDup>>

FinalizeReturns ==
  /\ stack # <<>> /\ F.op = "finalize"
  /\ RemoveIfUnused(Without(F.keyval, Self), F.keyval)
  /\ NextSelf(WithoutKeyval(selfKeyvals, F.keyval), Rest)
  /\ CountDeletion
  /\ UNCHANGED <<alive, created, values, owner, failedDup>>

(* A callback fails, and so does the operation.  MPI_Comm_dup frees the    *)
(* duplicate, and ignores that MPI_Comm_free's result.                     *)
CallbackFails ==
  /\ stack # <<>> /\ F.op # "dup"
  /\ stack' = Rest
  /\ selfKeyvals' = IF F.op = "finalize" THEN Append(selfKeyvals, F.keyval) ELSE selfKeyvals
  /\ failedDup' = IF F.op = "undo" THEN failedDup \cup {F.comm} ELSE failedDup
  /\ UNCHANGED <<vec, tuple, alive, created, values, owner, deletions>>

CopyFails ==
  /\ stack # <<>> /\ F.op = "dup"
  /\ GoOn(tuple, "undo", F.new, KeyvalsOf(F.new), NoComm, Rest)
  /\ UNCHANGED <<vec, tuple, selfKeyvals, created, values, owner, deletions, failedDup>>

KeyvalsNext ==
  \/ MPI_Comm_create_keyval
  \/ \E k \in Numbers : MPI_Comm_free_keyval(k)
  \/ \E k \in Numbers, c \in Comms : MPI_Comm_set_attr(k, c) \/ MPI_Comm_delete_attr(k, c)
  \/ \E c \in Comms : Comm_free(c)
  \/ \E c, n \in Comms : copy_comm_attributes(c, n)
  \/ delete_self_attributes
  \/ SetReturns \/ DeleteReturns \/ FreeReturns \/ FinalizeReturns \/ CallbackFails
  \/ \E flag \in BOOLEAN : CopyReturns(flag)
  \/ CopyFails

KeyvalsSpec == KeyvalsInit /\ [][KeyvalsNext]_keyvalVars

-----------------------------------------------------------------------------
Finalizing(k) == \E f \in Range(stack) : f.op = "finalize" /\ f.keyval = k
Attached(v) == {u \in Numbers \X Comms : tuple[u[1]].attr[u[2]] = v}

(* keyvalVec and tupleMap agree on the keyvals in use; none is predefined; *)
(* a keyval the program has freed is kept exactly while an attribute uses  *)
(* it (remove_keyval_if_unused); and the list for MPI_Finalize names every *)
(* attribute of MPI_COMM_SELF once.                                        *)
KeyvalsAgree ==
  /\ \A k \in Numbers :
       /\ k \in Keyvals <=> k < Len(vec) /\ vec[k + 1] = k
       /\ k \in PredefinedKeyvals => k \notin Keyvals
       /\ tuple[k].freed => \E c \in Comms : Has(k, c)
       /\ Has(k, Self) <=> k \in Range(selfKeyvals) \/ Finalizing(k)
  /\ IsInjective(selfKeyvals)

(* Whatever callbacks do, an attribute's value is deleted with its own     *)
(* keyval's callback, once: a value is attached, once, under the keyval it *)
(* was set with, and not yet deleted, or it is gone and was deleted once.  *)
(* A communicator that was freed has left none behind, which a later one   *)
(* with the same handle would have.                                        *)
DeletedOnce ==
  /\ \A v \in 1 .. values :
       /\ deletions[v] + Cardinality(Attached(v)) = 1
       /\ \A u \in Attached(v) : tuple[u[1]].number = owner[v]
  /\ \A c \in Comms \ (alive \cup failedDup) :
       ~InUse(c) => \A k \in Numbers : ~Has(k, c)

-----------------------------------------------------------------------------
(* Why they hold: an inductive invariant.                                  *)

Frames == [op : {"set", "delete", "free", "undo", "dup", "finalize"}, comm : Comms,
           keyval : Numbers, todo : SUBSET Numbers, new : Comms \cup {NoComm}]
Tuples == [number : Nat, freed : BOOLEAN, attr : [Comms -> 0 .. MaxValues]]
KeyvalTypes ==
  /\ vec \in Seq(Int) /\ Len(vec) <= MaxKeyvals + Cardinality(PredefinedKeyvals)
  /\ tuple \in [Numbers -> Tuples]
  /\ selfKeyvals \in Seq(Numbers) /\ stack \in Seq(Frames)
  /\ alive \subseteq Comms /\ failedDup \subseteq Comms
  /\ created \in Nat /\ values \in 0 .. MaxValues
  /\ owner \in [1 .. MaxValues -> Nat] /\ deletions \in [1 .. MaxValues -> Nat]

(* keyvalVec has the keyval, or that it is free or predefined.             *)
VecInv ==
  /\ \A i \in DOMAIN vec :
       /\ vec[i] \in {-1, -2, i - 1}
       /\ vec[i] # -2 => i - 1 \notin PredefinedKeyvals
  /\ \A k \in Numbers :
       /\ k \in Keyvals <=> k < Len(vec) /\ vec[k + 1] = k
       /\ tuple[k].number = 0 => tuple[k] = NoTuple
       /\ tuple[k].freed => \E c \in Comms : Has(k, c)

(* The list for MPI_Finalize.                                              *)
SelfInv ==
  /\ Self \in alive
  /\ IsInjective(selfKeyvals)
  /\ \A k \in Numbers : Has(k, Self) <=> k \in Range(selfKeyvals) \/ Finalizing(k)

(* A value is at one place, or was deleted.                                *)
ValueInv ==
  /\ \A k \in Numbers, c \in Comms : Has(k, c) =>
       LET v == tuple[k].attr[c] IN
       /\ v <= values /\ deletions[v] = 0 /\ owner[v] = tuple[k].number
       /\ \A j \in Numbers, d \in Comms : tuple[j].attr[d] = v => j = k /\ d = c
  /\ \A v \in 1 .. values :
       deletions[v] = 1 \/ \E k \in Numbers, c \in Comms : tuple[k].attr[c] = v
  /\ \A v \in values + 1 .. MaxValues : deletions[v] = 0

(* A communicator that is neither in use nor left behind has no attribute. *)
CommInv ==
  \A c \in Comms \ (alive \cup failedDup) : ~InUse(c) => \A k \in Numbers : ~Has(k, c)

(* The attribute that a callback is for is there, and stays until the      *)
(* callback returns; a communicator that is being freed gets no more, and  *)
(* all it has are on the list; one that is being made is not in use, and   *)
(* has none of those on the list.                                          *)
FrameInv(f) ==
  /\ Has(f.keyval, f.comm)
  /\ f.comm \in alive <=> f.op # "undo"
  /\ f.op = "dup" =>
       /\ f.new \in Comms \ alive /\ f.keyval \notin f.todo
       /\ \A k \in f.todo \cup {f.keyval} : ~Has(k, f.new)
  /\ f.op # "dup" => f.new = NoComm
  /\ f.op \in {"free", "undo"} =>
       /\ f.comm # Self
       /\ \A k \in Numbers : Has(k, f.comm) => k \in f.todo \cup {f.keyval}
  /\ f.op = "finalize" => f.comm = Self /\ f.keyval \notin Range(selfKeyvals)

(* What an operation leaves to the ones it was called in.                  *)
Apart(inner, outer) ==
  /\ inner.op # "dup" => <<inner.keyval, inner.comm>> # <<outer.keyval, outer.comm>>
  /\ inner.op \in {"free", "undo"} => inner.comm \notin {outer.comm, outer.new}
  /\ inner.op = "dup" => inner.new \notin {outer.comm, outer.new}
  /\ inner.op # "finalize"
  /\ outer.op \in {"free", "undo"} /\ inner.comm = outer.comm => inner.op = "delete"
  /\ outer.op = "dup" => inner.comm # outer.new
Nested(s) == \A i, j \in DOMAIN s : i < j => Apart(s[i], s[j])
StackInv == Nested(stack) /\ \A f \in Range(stack) : FrameInv(f)

KeyvalInv ==
  KeyvalTypes /\ VecInv /\ SelfInv /\ ValueInv /\ CommInv /\ StackInv

-----------------------------------------------------------------------------
(* "Deletes MPI_COMM_SELF's attributes in the reverse order in which the   *)
(* program set them" (mpi_comm_wrappers.cpp line 222): MPI_Finalize takes  *)
(* the attribute whose value is the newest.                                *)
SelfReverseOrder ==
  [][delete_self_attributes => \A k \in Numbers :
       tuple[k].attr[Self] <= tuple[stack'[1].keyval].attr[Self]]_keyvalVars

(* "MPI_Comm_dup fails, so it returns no communicator.  Freeing it also    *)
(* deletes the attributes that were copied"                                *)
(* (mpi_collective_wrappers.cpp line 843).                                 *)
FailedDupLeavesNothing == failedDup = {}
=============================================================================
