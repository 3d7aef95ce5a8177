------------------------------ MODULE MemLocks ------------------------------
(***************************************************************************)
(* The locks around mmap(), munmap() and mremap() of one process           *)
(* (uh_wrappers.cpp, lower-half/mem-wrapper.cpp) while checkpoints are     *)
(* taken.  The application's calls take DMTCP's lock, if mana_state is     *)
(* RUNNING, and then the lower half's own lock, with signals blocked.      *)
(* DMTCP suspends a thread with a signal; the suspended threads are in the *)
(* image as they are.  The checkpoint thread maps memory as well.          *)
(***************************************************************************)
EXTENDS Naturals

CONSTANTS
  Apps,       \* the application's threads
  Ckpt,       \* the checkpoint thread
  None        \* wrapper_owner 0

ASSUME LockConstants == Ckpt \notin Apps /\ None \notin Apps \cup {Ckpt}

Threads == Apps \cup {Ckpt}

VARIABLES
  mana_state,
  pc,         \* where each thread is in a call
  lock,       \* the local variable 'lock' of mmap() and munmap()
  readers,    \* the threads that hold DMTCP's lock against a checkpoint
  writer,     \* DMTCP's checkpoint has taken that lock
  masked,     \* the threads that have signals blocked
  owner,      \* wrapper_owner
  stopped,    \* the threads that DMTCP has suspended
  cpc         \* how far the checkpoint is

vars == <<mana_state, pc, lock, readers, writer, masked, owner, stopped, cpc>>

Init ==
  /\ mana_state = "RUNNING"
  /\ pc = [t \in Threads |-> "out"] /\ lock = [t \in Threads |-> FALSE]
  /\ readers = {} /\ writer = FALSE /\ masked = {} /\ owner = None
  /\ stopped = {} /\ cpc = "run"

Goes(t, from, to) ==
  /\ pc[t] = from /\ t \notin stopped
  /\ pc' = [pc EXCEPT ![t] = to]

-----------------------------------------------------------------------------
(* mmap() and munmap() of uh_wrappers.cpp: mana_state is read once.        *)
ByState == mana_state = "RUNNING"
Call(t) ==
  /\ Goes(t, "out", IF ByState THEN "lock" ELSE "block")
  /\ lock' = [lock EXCEPT ![t] = ByState]
  /\ UNCHANGED <<mana_state, readers, writer, masked, owner, stopped, cpc>>

(* libc's own calls, by the trampolines in it, go to the lower half at     *)
(* once.                                                                   *)
CallFromLibc(t) ==
  /\ Goes(t, "out", "block")
  /\ lock' = [lock EXCEPT ![t] = FALSE]
  /\ UNCHANGED <<mana_state, readers, writer, masked, owner, stopped, cpc>>

(* DMTCP_PLUGIN_DISABLE_CKPT: it waits for a checkpoint that has the lock. *)
(* It has no effect in the checkpoint thread.                              *)
NewReaders(t) == IF t = Ckpt THEN readers ELSE readers \cup {t}
DisableCkpt(t) ==
  /\ Goes(t, "lock", "block")
  /\ t # Ckpt => ~writer
  /\ readers' = NewReaders(t)
  /\ UNCHANGED <<mana_state, lock, writer, masked, owner, stopped, cpc>>

(* block_signals; JUMP_TO_LOWER_HALF.                                      *)
NotMasked(t) == masked
Masked(t) == masked \cup {t}
BlockSignals(t) ==
  /\ Goes(t, "block", "spin")
  /\ masked' = Masked(t)
  /\ UNCHANGED <<mana_state, lock, readers, writer, owner, stopped, cpc>>

(* lock_wrappers; the call changes the lists of blocks; unlock_wrappers.   *)
(* A wrapper called by the owner only counts wrapper_depth up and down     *)
(* again inside this step.                                                 *)
LockWrappers(t) ==
  /\ Goes(t, "spin", "in")
  /\ owner = None /\ owner' = t
  /\ UNCHANGED <<mana_state, lock, readers, writer, masked, stopped, cpc>>
UnlockWrappers(t) ==
  /\ Goes(t, "in", "restore")
  /\ owner' = None
  /\ UNCHANGED <<mana_state, lock, readers, writer, masked, stopped, cpc>>

(* RETURN_TO_UPPER_HALF; restore_signals.                                  *)
RestoreSignals(t) ==
  /\ Goes(t, "restore", "unlock")
  /\ masked' = masked \ {t}
  /\ UNCHANGED <<mana_state, lock, readers, writer, owner, stopped, cpc>>

(* DMTCP_PLUGIN_ENABLE_CKPT, if the lock was taken.                        *)
ReadAgain(t) == mana_state = "RUNNING"
WasTaken(t) == lock[t]
EnableCkpt(t) ==
  /\ Goes(t, "unlock", "out")
  /\ readers' = IF WasTaken(t) THEN readers \ {t} ELSE readers
  /\ lock' = [lock EXCEPT ![t] = FALSE]
  /\ UNCHANGED <<mana_state, writer, masked, owner, stopped, cpc>>

-----------------------------------------------------------------------------
(* The checkpoint thread: an event handler goes on when its own call of    *)
(* mmap() has returned.                                                    *)
At(from, to) == cpc = from /\ pc[Ckpt] = "out" /\ cpc' = to

(* DMTCP_EVENT_PRESUSPEND.                                                 *)
Presuspend ==
  /\ At("run", "drain")
  /\ mana_state' = "CKPT"
  /\ UNCHANGED <<pc, lock, readers, writer, masked, owner, stopped>>

(* DMTCP takes its lock when no thread holds it, and suspends the threads. *)
TakeLock ==
  /\ At("drain", "suspend")
  /\ readers = {}
  /\ writer' = TRUE
  /\ UNCHANGED <<mana_state, pc, lock, readers, masked, owner, stopped>>
Stop(t) ==
  /\ cpc = "suspend" /\ t \notin stopped \cup masked
  /\ stopped' = stopped \cup {t}
  /\ UNCHANGED <<mana_state, pc, lock, readers, writer, masked, owner, cpc>>
Suspended ==
  /\ At("suspend", "image")
  /\ stopped = Apps
  /\ UNCHANGED <<mana_state, pc, lock, readers, writer, masked, owner, stopped>>

(* DMTCP_EVENT_RESUME, or DMTCP_EVENT_RESTART on a new lower half, which   *)
(* has a wrapper_owner of its own.                                         *)
Resume ==
  /\ At("image", "resume")
  /\ mana_state' = "RUNNING"
  /\ UNCHANGED <<pc, lock, readers, writer, masked, owner, stopped>>
Restart ==
  /\ At("image", "resume")
  /\ mana_state' = "RUNNING" /\ owner' = None
  /\ UNCHANGED <<pc, lock, readers, writer, masked, stopped>>
ResumeThreads ==
  /\ At("resume", "run")
  /\ writer' = FALSE /\ stopped' = {}
  /\ UNCHANGED <<mana_state, pc, lock, readers, masked, owner>>

GoesOn(t) ==
  \/ DisableCkpt(t) \/ BlockSignals(t) \/ LockWrappers(t)
  \/ UnlockWrappers(t) \/ RestoreSignals(t) \/ EnableCkpt(t)
CheckpointGoesOn ==
  \/ TakeLock \/ (\E t \in Apps : Stop(t)) \/ Suspended
  \/ Resume \/ Restart \/ ResumeThreads
Next ==
  \/ \E t \in Threads : Call(t) \/ CallFromLibc(t) \/ GoesOn(t)
  \/ Presuspend \/ CheckpointGoesOn

Spec == Init /\ [][Next]_vars

-----------------------------------------------------------------------------
(* The variables' types.                                                   *)
TypeOK ==
  /\ mana_state \in {"RUNNING", "CKPT"}
  /\ pc \in [Threads -> {"out", "lock", "block", "spin", "in", "restore", "unlock"}]
  /\ lock \in [Threads -> BOOLEAN]
  /\ readers \subseteq Apps /\ writer \in BOOLEAN /\ masked \subseteq Threads
  /\ owner \in Threads \cup {None} /\ stopped \subseteq Apps
  /\ cpc \in {"run", "drain", "suspend", "image", "resume"}

InLowerHalf == {t \in Threads : pc[t] \in {"spin", "in", "restore"}}

(* No thread is suspended inside the lower half's wrappers, where it would *)
(* have the lower half's FS and could own wrapper_owner: the checkpoint    *)
(* thread's own calls would wait for it, and a restart would have its half *)
(* of a change of the lists without the lists.  Nor does a suspended       *)
(* thread hold DMTCP's lock.                                               *)
SuspendedOutside == stopped \cap (InLowerHalf \cup readers) = {} /\ owner \notin stopped

(* "the lock taken must be the lock released" (uh_wrappers.cpp line 68): a *)
(* thread holds DMTCP's lock exactly in a call that has taken it, whatever *)
(* checkpoints have done to mana_state meanwhile.                          *)
LockBalanced ==
  \A t \in Apps :
    t \in readers <=> lock[t] /\ pc[t] \in {"block", "spin", "in", "restore", "unlock"}

(* Both: what makes the wrappers' calls safe in a process that is being    *)
(* checkpointed.                                                           *)
LocksRight == SuspendedOutside /\ LockBalanced

(* Why they hold.  A thread in the lower half has signals blocked, so Stop *)
(* passes it by, and a suspended thread does not move; the owner is a      *)
(* thread that is in; a thread waits for DMTCP's lock only if its local    *)
(* variable says so; and DMTCP suspends only while it has the lock, which  *)
(* no thread shares with it.                                               *)
LockInv ==
  /\ TypeOK /\ LockBalanced
  /\ InLowerHalf \subseteq masked \ stopped
  /\ owner # None => pc[owner] = "in"
  /\ \A t \in Threads : pc[t] = "lock" => lock[t]
  /\ writer <=> cpc \in {"suspend", "image", "resume"}
  /\ writer => readers = {}
  /\ ~writer => stopped = {}
=============================================================================
