------------------------------- MODULE MCMemory -------------------------------
(***************************************************************************)
(* What one process has outside MPI and a restart puts back, for TLC: its  *)
(* memory (MemArena), the locks around changes of it (MemLocks) and its    *)
(* file descriptors (RestartFds).  They share no variable: MemLocks is why *)
(* a call in MemArena is one step.  So 'part' picks one at the start and   *)
(* the others stand still.                                                 *)
(***************************************************************************)
EXTENDS MemArena, MemLocks, RestartFds

CONSTANTS a, b, Parts
VARIABLE part

-----------------------------------------------------------------------------
(* The instance.  The stack is the page above the lower half's first.      *)
(* Three numbers are below DMTCP's and one above, over a soft limit.       *)
TwoApps == {a, b}
StackPage == [addr |-> 2, len |-> 1]
DmtcpNumbers == {7}
Launcher == {{}, {4}}
OtherHeaders == {{}, {5}}
AllParts == {"locks", "memory", "descriptors"}
OnlyMemory == {"memory"}
OnlyDescriptors == {"descriptors"}
Limits == {8, 9}

MemoryInit ==
  /\ part \in Parts
  /\ Init /\ ArenaInit /\ FdInit
  /\ part # "descriptors" => limit = HardLimit
LockStep == part = "locks" /\ Next /\ UNCHANGED <<part, arenaVars, fdVars>>
ArenaStep == part = "memory" /\ ArenaNext /\ UNCHANGED <<part, vars, fdVars>>
FdStep == part = "descriptors" /\ FdNext /\ UNCHANGED <<part, vars, arenaVars>>
MemoryNext == LockStep \/ ArenaStep \/ FdStep
MemorySpec == MemoryInit /\ [][MemoryNext]_<<part, vars, arenaVars, fdVars>>
=============================================================================
