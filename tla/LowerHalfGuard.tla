---------------------------- MODULE LowerHalfGuard ----------------------------
(***************************************************************************)
(* The guard that keeps the application's threads out of the lower half    *)
(* (the MPI library, which a checkpoint discards) while a checkpoint is    *)
(* taken: src/lower_half_ckpt.h and src/lower_half_ckpt.cpp, and the order *)
(* in which mpi_plugin.cpp closes and opens the lower half.                *)
(*                                                                         *)
(* A thread that enters stores its nesting depth and then loads            *)
(* lower_half_closed, with no memory barrier in between; the checkpoint    *)
(* thread stores lower_half_closed, calls membarrier() and then loads each *)
(* depth.  So each thread has a store buffer: its stores reach memory      *)
(* later, in order.                                                        *)
(***************************************************************************)
EXTENDS Naturals, Sequences

CONSTANTS
  AppThreads,   \* the application's threads
  Ckpt,         \* the checkpoint thread
  NoThread,     \* NULL, as a value of closing_thread
  Blocking,     \* is MANA_P2P_WAIT=blocking?
  MaxDepth,     \* bound: how deep LOWER_HALF_DISABLE_CKPT() nests
  MaxStores     \* bound: stores that wait in a store buffer

Threads == AppThreads \cup {Ckpt}

ASSUME GuardAssumption ==
  /\ Ckpt \notin AppThreads
  /\ NoThread \notin Threads
  /\ Blocking \in BOOLEAN
  /\ MaxDepth \in Nat \ {0}
  /\ MaxStores \in Nat \ {0}

VARIABLES
  tpc,        \* tpc[t]: where thread t is in the guard
  own,        \* own[t]: its LowerHalfThread as the thread itself sees it
  buffer,     \* buffer[t]: the values own[t] had that are not in memory yet
  memory,     \* memory[t]: its LowerHalfThread as the others see it
  threads,    \* the registered threads
  lower_half_closed,
  closing_thread,
  cpc,        \* where the checkpoint thread is in the checkpoint
  skip_blocked,
  left,       \* the threads membarrier(), or the loop, has not come to yet
  skipped     \* the threads the loop passed because they were blocked

threadVars == <<tpc, own, buffer, memory, threads>>
ckptVars == <<lower_half_closed, closing_thread, cpc, skip_blocked, left, skipped>>
vars == <<threadVars, ckptVars>>

(* The fields of LowerHalfThread that the checkpoint thread reads.         *)
Fields == [depth : Nat, in_blocking_call : BOOLEAN]

TypeOK ==
  /\ tpc \in [Threads -> {"out", "check", "slow", "spin", "reenter", "in"}]
  /\ own \in [Threads -> Fields]
  /\ buffer \in [Threads -> Seq(Fields)]
  /\ memory \in [Threads -> Fields]
  /\ threads \subseteq Threads
  /\ lower_half_closed \in BOOLEAN
  /\ closing_thread \in {Ckpt, NoThread}
  /\ cpc \in {"idle", "stored", "fencing", "scan", "drain", "suspended", "opened"}
  /\ skip_blocked \in BOOLEAN
  /\ left \subseteq AppThreads
  /\ skipped \subseteq AppThreads

Init ==
  /\ tpc = [t \in Threads |-> "out"]
  /\ own = [t \in Threads |-> [depth |-> 0, in_blocking_call |-> FALSE]]
  /\ buffer = [t \in Threads |-> << >>]
  /\ memory = own
  /\ threads = {}
  /\ lower_half_closed = FALSE
  /\ closing_thread = NoThread
  /\ cpc = "idle"
  /\ skip_blocked = FALSE
  /\ left = {}
  /\ skipped = {}

(* The checkpoint thread holds threads_lock while it loops over them.      *)
LockFree == cpc # "scan"

(* The application's threads are suspended.  The checkpoint thread makes   *)
(* MPI calls only between the two, while the lower half is closed.         *)
MayRun(t) == IF t = Ckpt THEN cpc = "drain" ELSE cpc \notin {"suspended", "opened"}

-----------------------------------------------------------------------------
(* A thread in LOWER_HALF_DISABLE_CKPT() and LOWER_HALF_ENABLE_CKPT().     *)

Store(t, fields) ==
  /\ Len(buffer[t]) < MaxStores
  /\ own' = [own EXCEPT ![t] = fields]
  /\ buffer' = [buffer EXCEPT ![t] = Append(@, fields)]

(* The oldest store of the buffer reaches memory.                          *)
Flush(t) ==
  /\ buffer[t] # << >>
  /\ memory' = [memory EXCEPT ![t] = Head(buffer[t])]
  /\ buffer' = [buffer EXCEPT ![t] = Tail(@)]
  /\ UNCHANGED <<tpc, own, threads, ckptVars>>

(* Taking threads_lock is a full memory barrier, so the buffer is empty.   *)
register_lower_half_thread(t) ==
  /\ MayRun(t) /\ tpc[t] = "out" /\ t \notin threads
  /\ LockFree /\ buffer[t] = << >>
  /\ threads' = threads \cup {t}
  /\ UNCHANGED <<tpc, own, buffer, memory, ckptVars>>

unregister_lower_half_thread(t) ==
  /\ MayRun(t) /\ tpc[t] = "out" /\ t \in threads
  /\ t # Ckpt
  /\ LockFree /\ buffer[t] = << >>
  /\ threads' = threads \ {t}
  /\ UNCHANGED <<tpc, own, buffer, memory, ckptVars>>

(* lower_half_disable_ckpt(): the store, and then the load.                *)
lower_half_disable_ckpt(t) ==
  /\ MayRun(t) /\ tpc[t] \in {"out", "in"} /\ t \in threads
  /\ ~own[t].in_blocking_call
  /\ own[t].depth < MaxDepth
  /\ Store(t, [own[t] EXCEPT !.depth = @ + 1])
  /\ tpc' = [tpc EXCEPT ![t] = "check"]
  /\ UNCHANGED <<memory, threads, ckptVars>>

(* A mutant of PassesClosed: an outermost entry passes too.                *)
PassesClosedAlways(t) == own[t].depth > 0 \/ closing_thread = t

(* The entries wait_until_lower_half_open() does not block.                *)
PassesClosed(t) == own[t].depth > 1 \/ closing_thread = t

LoadClosed(t) ==
  /\ MayRun(t) /\ tpc[t] = "check"
  /\ tpc' = [tpc EXCEPT ![t] = IF lower_half_closed /\ ~PassesClosed(t) THEN "slow" ELSE "in"]
  /\ UNCHANGED <<own, buffer, memory, threads, ckptVars>>

(* A mutant of StepBack: the thread waits without stepping back out.       *)
SpinInside(t) ==
  /\ MayRun(t) /\ tpc[t] = "slow"
  /\ lower_half_closed
  /\ UNCHANGED vars

(* wait_until_lower_half_open(): the outer loop steps back out, ...        *)
StepBack(t) ==
  /\ MayRun(t) /\ tpc[t] = "slow"
  /\ lower_half_closed
  /\ Store(t, [own[t] EXCEPT !.depth = 0])
  /\ tpc' = [tpc EXCEPT ![t] = "spin"]
  /\ UNCHANGED <<memory, threads, ckptVars>>

(* ... the inner one waits, ...                                            *)
SeeOpen(t) ==
  /\ MayRun(t) /\ tpc[t] = "spin"
  /\ ~lower_half_closed
  /\ tpc' = [tpc EXCEPT ![t] = "reenter"]
  /\ UNCHANGED <<own, buffer, memory, threads, ckptVars>>

(* A mutant of Reenter: the entry is not checked again.                    *)
ReenterUnchecked(t) ==
  /\ MayRun(t) /\ tpc[t] = "reenter"
  /\ Store(t, [own[t] EXCEPT !.depth = 1])
  /\ tpc' = [tpc EXCEPT ![t] = "in"]
  /\ UNCHANGED <<memory, threads, ckptVars>>

(* ... and the entry is made and checked again.                            *)
Reenter(t) ==
  /\ MayRun(t) /\ tpc[t] = "reenter"
  /\ Store(t, [own[t] EXCEPT !.depth = 1])
  /\ tpc' = [tpc EXCEPT ![t] = "slow"]
  /\ UNCHANGED <<memory, threads, ckptVars>>

LeaveSlowPath(t) ==
  /\ MayRun(t) /\ tpc[t] = "slow"
  /\ ~lower_half_closed
  /\ tpc' = [tpc EXCEPT ![t] = "in"]
  /\ UNCHANGED <<own, buffer, memory, threads, ckptVars>>

(* MPI_Recv, MPI_Send and MPI_Rsend of the application block in the lower  *)
(* half.                                                                   *)
lower_half_blocking_call_begin(t) ==
  /\ Blocking /\ t # Ckpt
  /\ MayRun(t) /\ tpc[t] = "in" /\ ~own[t].in_blocking_call
  /\ Store(t, [own[t] EXCEPT !.in_blocking_call = TRUE])
  /\ UNCHANGED <<tpc, memory, threads, ckptVars>>

lower_half_blocking_call_end(t) ==
  /\ MayRun(t) /\ own[t].in_blocking_call
  /\ Store(t, [own[t] EXCEPT !.in_blocking_call = FALSE])
  /\ UNCHANGED <<tpc, memory, threads, ckptVars>>

(* A mutant of lower_half_enable_ckpt(): a nested exit leaves altogether.  *)
LeaveNested(t) ==
  /\ MayRun(t) /\ tpc[t] = "in" /\ ~own[t].in_blocking_call
  /\ Store(t, [own[t] EXCEPT !.depth = 0])
  /\ tpc' = [tpc EXCEPT ![t] = IF own[t].depth = 1 THEN "out" ELSE "in"]
  /\ UNCHANGED <<memory, threads, ckptVars>>

lower_half_enable_ckpt(t) ==
  /\ MayRun(t) /\ tpc[t] = "in" /\ ~own[t].in_blocking_call
  /\ Store(t, [own[t] EXCEPT !.depth = @ - 1])
  /\ tpc' = [tpc EXCEPT ![t] = IF own[t].depth = 1 THEN "out" ELSE "in"]
  /\ UNCHANGED <<memory, threads, ckptVars>>

-----------------------------------------------------------------------------
(* The checkpoint thread.                                                  *)

(* close_lower_half_and_wait(): the two stores.                            *)
StartClose(skip) ==
  /\ closing_thread' = Ckpt
  /\ skip_blocked' = skip
  /\ cpc' = "stored"
  /\ skipped' = {}
  /\ UNCHANGED <<threadVars, lower_half_closed, left>>

(* DMTCP_EVENT_PRESUSPEND: the first close after the collective drain.     *)
CloseFirst == cpc = "idle" /\ StartClose(Blocking)

(* The store becomes visible, at the latest when membarrier() starts.      *)
ClosedVisible ==
  /\ cpc = "stored"
  /\ lower_half_closed' = TRUE
  /\ left' = AppThreads
  /\ cpc' = "fencing"
  /\ UNCHANGED <<threadVars, closing_thread, skip_blocked, skipped>>

(* A mutant of FencePass: there is no membarrier().                        *)
NoFence(t) ==
  /\ cpc = "fencing"
  /\ t \in left
  /\ left' = left \ {t}
  /\ UNCHANGED <<threadVars, lower_half_closed, closing_thread, cpc, skip_blocked, skipped>>

(* membarrier() makes each thread pass a full memory barrier, at a moment  *)
(* of its own.                                                             *)
FencePass(t) ==
  /\ cpc = "fencing"
  /\ t \in left /\ buffer[t] = << >>
  /\ left' = left \ {t}
  /\ UNCHANGED <<threadVars, lower_half_closed, closing_thread, cpc, skip_blocked, skipped>>

(* membarrier() returns and the checkpoint thread takes threads_lock.      *)
StartScan ==
  /\ cpc = "fencing"
  /\ left = {}
  /\ left' = threads \ {Ckpt}
  /\ cpc' = "scan"
  /\ UNCHANGED <<threadVars, lower_half_closed, closing_thread, skip_blocked, skipped>>

(* The loop's wait for one thread ends.                                    *)
PassOutside(t) ==
  /\ cpc = "scan"
  /\ t \in left /\ memory[t].depth = 0
  /\ left' = left \ {t}
  /\ UNCHANGED <<threadVars, lower_half_closed, closing_thread, cpc, skip_blocked, skipped>>

PassBlocked(t) ==
  /\ cpc = "scan"
  /\ t \in left /\ memory[t].depth > 0
  /\ skip_blocked /\ memory[t].in_blocking_call
  /\ left' = left \ {t}
  /\ skipped' = skipped \cup {t}
  /\ UNCHANGED <<threadVars, lower_half_closed, closing_thread, cpc, skip_blocked>>

(* The lower half is closed: the checkpoint thread goes on, and makes MPI  *)
(* calls of its own.                                                       *)
EndScan ==
  /\ cpc = "scan"
  /\ left = {}
  /\ cpc' = "drain"
  /\ UNCHANGED <<threadVars, lower_half_closed, closing_thread, skip_blocked, left, skipped>>

(* The P2P drain is over: in blocking mode the lower half is closed again, *)
(* now for the threads that were blocked too.                              *)
CloseAgain ==
  /\ cpc = "drain" /\ tpc[Ckpt] = "out"
  /\ skip_blocked
  /\ StartClose(FALSE)

(* DMTCP suspends the threads.  The signal is a memory barrier.            *)
Suspend ==
  /\ cpc = "drain" /\ tpc[Ckpt] = "out"
  /\ ~skip_blocked
  /\ \A t \in AppThreads : buffer[t] = << >>
  /\ cpc' = "suspended"
  /\ UNCHANGED <<threadVars, lower_half_closed, closing_thread, skip_blocked, left, skipped>>

(* A mutant of allow_threads_to_enter_lower_half(): it stays closed.       *)
StayClosed ==
  /\ cpc = "suspended"
  /\ closing_thread' = NoThread
  /\ cpc' = "opened"
  /\ UNCHANGED <<threadVars, lower_half_closed, skip_blocked, left, skipped>>

(* DMTCP_EVENT_PRECHECKPOINT.                                              *)
allow_threads_to_enter_lower_half ==
  /\ cpc = "suspended"
  /\ closing_thread' = NoThread
  /\ lower_half_closed' = FALSE
  /\ cpc' = "opened"
  /\ UNCHANGED <<threadVars, skip_blocked, left, skipped>>

(* The threads run again, after a resume or a restart from the image.      *)
Resume ==
  /\ cpc = "opened"
  /\ cpc' = "idle"
  /\ UNCHANGED <<threadVars, lower_half_closed, closing_thread, skip_blocked, left, skipped>>

-----------------------------------------------------------------------------
(* The steps of a thread that is in the guard, or called by MPI to leave.  *)
Enter(t) == LoadClosed(t) \/ StepBack(t) \/ SeeOpen(t) \/ Reenter(t) \/ LeaveSlowPath(t)

Thread(t) ==
  \/ Flush(t) \/ register_lower_half_thread(t) \/ unregister_lower_half_thread(t)
  \/ lower_half_disable_ckpt(t) \/ Enter(t) \/ lower_half_enable_ckpt(t)
  \/ lower_half_blocking_call_begin(t) \/ lower_half_blocking_call_end(t)

Close ==
  \/ ClosedVisible \/ StartScan \/ EndScan
  \/ \E t \in AppThreads : FencePass(t) \/ PassOutside(t) \/ PassBlocked(t)

Next ==
  \/ \E t \in Threads : Thread(t)
  \/ CloseFirst \/ Close \/ CloseAgain \/ Suspend
  \/ allow_threads_to_enter_lower_half \/ Resume

Spec == Init /\ [][Next]_vars

(* Every thread runs on, memory takes every store, and a wrapper leaves    *)
(* the lower half again, also from a loop of nested entries.  A blocked    *)
(* call returns only once the P2P drain has served it; until then it may   *)
(* block for ever.  The checkpoint thread makes finitely many MPI calls.   *)
Fairness ==
  /\ \A t \in Threads :
       /\ WF_vars(Flush(t)) /\ WF_vars(Enter(t))
       /\ SF_vars(lower_half_enable_ckpt(t))
       /\ SF_vars(own[t].depth = 1 /\ lower_half_enable_ckpt(t))
       /\ WF_vars(~skip_blocked /\ cpc = "scan" /\ lower_half_blocking_call_end(t))
  /\ WF_vars(Close) /\ SF_vars(CloseAgain \/ Suspend)
  /\ WF_vars(allow_threads_to_enter_lower_half \/ Resume)

FairSpec == Spec /\ Fairness

-----------------------------------------------------------------------------
(* Properties.                                                             *)

(* Thread t has entered the lower half and not left it.  An outermost      *)
(* entry that has not passed the guard is not inside.                      *)
Inside(t) == own[t].depth > 1 \/ (own[t].depth = 1 /\ tpc[t] = "in")

(* The lower half is closed and the wait of the last close is over.        *)
Closed == cpc \in {"drain", "suspended"}

(* When wait_for_threads_to_leave_lower_half() has returned, no thread of  *)
(* the application is in the lower half until it is opened again ("No      *)
(* thread may be in the lower half when DMTCP suspends the threads").      *)
Exclusion ==
  Closed /\ ~skip_blocked => \A t \in AppThreads : ~Inside(t)

(* While the P2P drain runs in blocking mode, only threads that were seen  *)
(* in a blocking call are in the lower half, so only the checkpoint thread *)
(* tests requests.                                                         *)
OnlyBlockedInside ==
  Closed /\ skip_blocked => \A t \in AppThreads : Inside(t) => t \in skipped

(* From the return of membarrier() on, no thread of the application gets   *)
(* into the lower half before it is opened, also not one whose store and   *)
(* load raced with the close (close_lower_half_and_wait(): "either a       *)
(* thread's LOWER_HALF_DISABLE_CKPT() sees lower_half_closed, or we see    *)
(* its 'depth'").                                                          *)
NoLateEntry ==
  [][\A t \in AppThreads :
       (cpc \in {"scan", "drain", "suspended"} /\ Inside(t)' => Inside(t))]_vars

-----------------------------------------------------------------------------
(* Why these hold: an inductive invariant.                                 *)

(* The depth a thread stored last, by its place in the guard.              *)
DepthInv ==
  \A t \in Threads :
    /\ tpc[t] \in {"out", "spin", "reenter"} => own[t].depth = 0
    /\ tpc[t] = "slow" => own[t].depth = 1
    /\ tpc[t] \in {"check", "in"} => own[t].depth > 0
    /\ own[t].in_blocking_call => tpc[t] = "in"
    /\ tpc[t] # "out" => t \in threads

(* Memory lags behind the thread by the stores in its buffer.              *)
BufferInv ==
  \A t \in Threads :
    own[t] = IF buffer[t] = << >> THEN memory[t] ELSE buffer[t][Len(buffer[t])]

(* The checkpoint thread knows whether the lower half is closed.           *)
ClosedInv ==
  /\ cpc \in {"fencing", "scan", "drain", "suspended"} => lower_half_closed
  /\ cpc \in {"idle", "opened"} => ~lower_half_closed
  /\ closing_thread = (IF cpc \in {"idle", "opened"} THEN NoThread ELSE Ckpt)
  /\ cpc = "suspended" => ~skip_blocked

(* A thread that is inside although membarrier() has passed it shows a     *)
(* depth above 0, now and after each store that is still to reach memory.  *)
Fenced(t) == (cpc = "fencing" /\ t \notin left) \/ cpc \in {"scan", "drain", "suspended"}
VisibleInv ==
  \A t \in AppThreads : Fenced(t) /\ Inside(t) =>
    memory[t].depth > 0 /\ \A i \in 1..Len(buffer[t]) : buffer[t][i].depth > 0

(* A thread the loop has passed is outside, or was seen blocked.           *)
ScanInv ==
  /\ ~skip_blocked => skipped = {}
  /\ \A t \in AppThreads :
       Closed \/ (cpc = "scan" /\ t \notin left) => (Inside(t) => t \in skipped)

GuardInv == TypeOK /\ DepthInv /\ BufferInv /\ ClosedInv /\ VisibleInv /\ ScanInv

-----------------------------------------------------------------------------
(* Liveness.                                                               *)

(* A checkpoint never waits for ever for the lower half: threads in nested *)
(* entries, threads that wait at the guard and the checkpoint thread's own *)
(* MPI calls do not block it.                                              *)
CloseCompletes == cpc = "stored" ~> cpc = "suspended"

(* A thread that waits at the guard gets in once checkpoints are over.     *)
EntryCompletes ==
  <>[](cpc = "idle") => \A t \in AppThreads : (tpc[t] = "check" ~> tpc[t] = "in")
=============================================================================
