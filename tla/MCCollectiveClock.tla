-------------------------- MODULE MCCollectiveClock --------------------------
(* Instances of CollectiveClock for TLC: the programs, and the             *)
(* communicators they use.                                                 *)
EXTENDS CollectiveClock, TLC

CONSTANTS r1, r2, r3,          \* ranks
          World, X, D          \* communicators; X exists after MPI_Init

Call(op, c) == [op |-> op, comm |-> c, new |-> c]
Make(op, c, d) == [op |-> op, comm |-> c, new |-> d]

-----------------------------------------------------------------------------
(* Two ranks.  World and X have the same group; D is made by a program.    *)
TwoRanks == {r1, r2}
TwoComms == {World, X, D}
TwoInitial == {World, X}
TwoMembers == [c \in TwoComms |-> TwoRanks]

(* The order of calls differs across communicators (test/nbc_order.c).     *)
NbcOrder ==
  (r1 :> <<Call("async", World), Call("async", X), Call("wait", World)>> @@
   r2 :> <<Call("async", X), Call("async", World), Call("wait", X)>>)

(* A communicator is made and freed; the free is a call on it.             *)
CreateFree ==
  (r1 :> <<Make("create", World, D), Call("free", D)>> @@
   r2 :> <<Make("create", World, D), Call("free", D)>>)

(* MPI_Comm_create_group: a member may be stopped outside the call while   *)
(* the other is in it, so attempts fail (test/comm_create_group.c).        *)
CreateGroup ==
  (r1 :> <<Make("group", World, D), Call("sync", D), Call("async", X)>> @@
   r2 :> <<Call("async", X), Make("group", World, D), Call("sync", D)>>)

(* The members free in different orders (test/comm_free_order.c).          *)
FreeOrder ==
  (r1 :> <<Call("free", X), Call("sync", World)>> @@
   r2 :> <<Call("sync", World), Call("free", X)>>)

TwoPrograms == {NbcOrder, CreateFree, CreateGroup, FreeOrder}

-----------------------------------------------------------------------------
(* Three ranks.  X joins r1 and r2, D joins r2 and r3: a raise on one      *)
(* makes a rank pass its target on the other.  World is not used.          *)
ThreeRanks == {r1, r2, r3}
ThreeComms == {X, D}
ThreeMembers == (X :> {r1, r2} @@ D :> {r2, r3})
RaiseChain ==
  (r1 :> <<Call("sync", X)>> @@
   r2 :> <<Call("async", D), Call("sync", X)>> @@
   r3 :> <<Call("sync", D)>>)
ThreePrograms == {RaiseChain}

-----------------------------------------------------------------------------
(* Liveness, with two ranks: an attempt that can only fail.                *)
GroupAgainstOrder ==
  (r1 :> <<Make("group", World, D), Call("async", X)>> @@
   r2 :> <<Call("async", X), Make("group", World, D)>>)
LivePrograms == {GroupAgainstOrder}
=============================================================================
