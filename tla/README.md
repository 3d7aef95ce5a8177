# A TLA+ verification of MANA

MANA checkpoints an MPI job transparently.  Each process has an *upper half*
(the application, the wrappers of the MPI functions and the plugin), which goes
into the checkpoint image, and a *lower half* (the MPI library), which does not:
a restart brings the upper half back on top of a new MPI library.  So a
checkpoint may be taken only at a moment at which no process needs anything that
is in the lower half: no thread is inside it, no collective call was made by only
some of the members of its communicator, and no message is in flight.  The
modules here are about how MANA gets to such a moment, and about what the upper
half keeps so that a restart can put everything back: handles, communicators,
datatypes, pending calls, files, memory and descriptors.

All source paths below are relative to the repository's `src/`.

## The system's parts

| Part | Source | Modules | Proofs |
|---|---|---|---|
| Collective Clock | `seq_num.cpp` | `CollectiveClock`, `CollectiveCut` | `CollectiveClockProofs` |
| Lower-half guard | `lower_half_ckpt.{h,cpp}` | `LowerHalfGuard` | `LowerHalfGuardProofs` |
| Point-to-point drain | `p2p_drain.{h,cpp}` | `P2pDrain`, `P2pDelivery` | |
| Point-to-point and request wrappers | `mpi-wrappers/mpi_p2p_wrappers.cpp`, `mpi_request_wrappers.cpp` | `P2pDrain` | |
| The other wrappers, files | `mpi-wrappers/*.cpp` | `Wrappers` | `WrappersProofs` |
| Attributes | `mpi-wrappers/mpi_comm_wrappers.cpp` | `Keyvals` | `KeyvalsProofs` |
| Virtual IDs: the table | `virtual_id.{h,cpp}` | `VirtualIds` | `VirtualIdsProofs` |
| Virtual IDs: gids, reconstruction | `virtual_id.cpp`, `mpi_plugin.cpp` | `CommRestart`, `Datatypes` | `CommRestartProofs`, `DatatypesProofs` |
| Memory wrappers | `uh_wrappers.cpp`, `lower-half/mem-wrapper.cpp` | `MemLocks`, `MemArena` | `MemoryProofs` |
| Descriptors at restart | `lower-half/lower-half.cpp`, `mpi_plugin.cpp` | `RestartFds` | `MemoryProofs` |
| Plugin | `mpi_plugin.cpp` | each module has the event handlers for its part | |
| Loader, context switch, Fortran, stubs | `lower-half/`, `mpi-wrappers/` | not modelled | |

How they interact: a wrapper of a collective call is `commit_begin()`,
`LOWER_HALF_DISABLE_CKPT()`, the real call, `LOWER_HALF_ENABLE_CKPT()` and
`commit_finish()`.  When the coordinator asks for a checkpoint, the checkpoint
thread of each process handles `DMTCP_EVENT_PRESUSPEND`: it drains the
collectives, closes the lower half, drains the point-to-point messages, and
completes what is pending.  DMTCP then suspends the threads;
`DMTCP_EVENT_PRECHECKPOINT` opens the lower half for the time after; then
`DMTCP_EVENT_RESUME` or `DMTCP_EVENT_RESTART` follows.  Processes talk only
through MPI and through the coordinator (its key-value database, KVDB, and its
global barriers).

What is hard: application threads run on while the drains run, so every check of
a drain races with the wrappers; each process decides on its own when a drain has
ended; an attempt can fail and is retried; communicators appear and disappear
meanwhile; entering the lower half uses no memory barrier; and a restart keeps
the upper halves but loses everything that was in the MPI library.  The hazards,
with their source lines and the properties that would catch them, are listed in
`PROJECT.json`.

## The modules

### CollectiveClock: `seq_num.cpp`

Each rank has an application thread, which runs a program of calls (`prog`, `ip`,
`apc`), and a checkpoint thread (`cpc`).  A call is abstracted to what the clock
tells apart: `sync` returns only when every member made it (MPI_Barrier), `async`
may return at once (a rooted or non-blocking collective), `wait` is MPI_Wait for
the rank's non-blocking collectives, `create` makes a communicator on an existing
one, `group` is MPI_Comm_create_group (a critical section that no clock counts),
`free` is MPI_Comm_free.

| Actions | Code |
|---|---|
| BeginWait, SpinBegin, Begin | `begin_critical_section()`, `wait_while_targets_reached()` |
| StartCall, ReturnCall, AddCommClock | the wrapper's call into the MPI library; `new_virt_comm()` and `add_comm_clock()` |
| FinishReady, FinishWait, SpinFinish, FinishPass | `commit_finish()`: IS_READY without the lock, then the wait |
| EnterTest, TestFree, LeaveTest, CompleteFree | `test_comm_free_barriers()`, `complete_comm_free_barriers()`, `finish_free()` |
| WaitDone | MPI_Wait |
| RequestCkpt | the coordinator starts DMTCP_EVENT_PRESUSPEND |
| ShareUpload, ShareBarrier, DownloadTarget, DownloadDone | `drain_mpi_collective()`, `share_seq_nums()`, `download_targets()` |
| RoundAdded, Report, RoundBarrier | a round of `try_drain_mpi_collective()` up to its barrier |
| DecideDrained, DecideRaised, DecideAgain, GiveUp | the rest of the round; the failed attempt |
| CloseLowerHalf, Quiesce, Suspend, Restart, Resume | the event handlers of `mpi_plugin.cpp` |

`seq_num_lock` is held by the checkpoint thread between the steps named in
`HoldsLock`; a step of an application thread that takes the lock also releases
it.  A download goes clock by clock, because other ranks upload meanwhile.  The
KVDB is the maximum per gid (`seqMax`; the next attempt has a database of its own,
`shareMax`) and the reports of the round the ranks are in (`tally`) and of the
last complete one (`published`).  `targets_version` is abstracted to "it changed
since the wait began" (`woken`).  The MPI library is what each rank has started
(`started`, `creating`, `freeing`); a restart empties it.

Left out: `progress_mpi()`, which changes no state of MANA, and the barrier
`MPI:Drain-Send-Recv` between the close of the lower half and the P2P drain.
Without that barrier the model allows more interleavings than the code.

### CollectiveCut: what the clock promises

Ranks enter and leave calls, gain and lose communicators, and a checkpoint stops
all of them in one step, at which nobody is in a call and the members of each
communicator made the same number of calls on it.  `CollectiveClock` implements
it: the step `Stop` is the barrier of the round that ends the drain, although
each rank learns the outcome later and by itself (`StoppedRanks`).

### LowerHalfGuard: `lower_half_ckpt.{h,cpp}`

A thread that enters the lower half stores its depth and then loads
`lower_half_closed`; the checkpoint thread stores `lower_half_closed`, calls
membarrier() and then loads the depths.  Each thread has a store buffer (`buffer`),
so `own[t]`, what the thread sees of its `LowerHalfThread`, is ahead of
`memory[t]`, what others see; `FencePass` is the moment at which membarrier()
makes one thread pass a memory barrier.  Entries nest; in blocking mode the first
close skips threads that are in a blocking call, and a second close, after the
P2P drain, waits for them too.  The checkpoint thread itself enters the guard
while the lower half is closed.

The buffers give total store order, as on x86, the processor MANA's context switch
is written for.  A buffer of two stores is enough to separate any two of a
thread's stores; the proofs hold for any length.

### P2pDrain and P2pDelivery: `p2p_drain.{h,cpp}`, the send, receive and request wrappers

Each rank has an application thread, which runs a program of calls (`program`,
`app`), and a checkpoint thread (`drain`).  The module has the three forms of the
drain: MANA_P2P_WAIT=polling; blocking, where the checkpoint thread has a
lower-half TLS of its own; and blocking without one, with barriers (`mode`).
What the image saves of a rank is `mana[r]`: the counts, the pending-receive slot,
`p2p_dummy_phase`, the log of pending calls, the message buffer, the notices and
the acks of MPI_Issend.  The MPI library is external: `net` has the messages that
have not arrived, `lib` the posted receives and the unexpected messages; a large
message is moved in a step of its own (rendezvous).

| Actions | Code |
|---|---|
| MPI_Isend, MPI_Send, SendReturn | the four kinds of send; `countSendAfterIssends()` |
| MPI_Irecv, MPI_Recv, RecvPost, RecvReturn, RecvClassify, RecvStore, RecvLeave | receives, first from MANA's buffer; a blocking MPI_Recv in its steps: publish the slot, the library call, the one read of `p2p_dummy_phase`, the store, the retry after a dummy |
| MPI_Wait, MPI_Waitany, WaitForNull, MPI_Probe, MPI_Comm_free | the request wrappers, the probes, a freed communicator |
| CloseLowerHalf, DrainBarrier, DrainBegin | DMTCP_EVENT_PRESUSPEND up to `drainP2p()` |
| completePendingP2pRequests, DrainProbe, DrainWaitIrecv, DrainLeaveToRecv, DrainRecv, DrainRecvReturn | a round over the communicators: complete, probe, leave or buffer |
| DrainReadCount, DrainContribute, DrainReduce, DrainTest, DrainDecide, DrainAllDone | counts, MPI_Iallreduce, and the decision without barriers |
| InFlightDecide, completePendingIsends, InFlightMark, PassBarrier | the drain with barriers |
| DummyPublish, DummyPost, DummySend, CloseForAll | the dummies for the blocked MPI_Recvs; the second close |
| Resume, Restart, replayMpiP2pOnRestart, Running | afterwards: acks, pending receives posted again, counters reset |

MPI_Sendrecv and MPI_Sendrecv_replace are three calls under one guard
(`MPI_Sendrecv`, the field `fused`).  A wrapper that holds the guard and does not
block is one step: `LowerHalfGuard` shows that no step of the drain falls into it.

`P2pDelivery` says what MPI promises a program, with no checkpoint in it: a match
pairs one receive with one message, in order; a synchronous send completes only
after its match.  `P2pDrain` implements it (`ImplementsDelivery`).

### Wrappers: the rest of `mpi-wrappers/`

Each wrapper is an operator with its name, whose value is the list of its steps in
the code's order: commit, guard, translation of each handle, library call, new
handle, parameters saved, attributes copied or deleted.  The actions run one step
at a time, and a checkpoint, a resume or a restart may fall between any two of
them, as far as the guard (`depth`) and the clock (`critical`, `behind`) let it.
The application may call any wrapper for which it holds the arguments.  The state
is what the steps touch: the table, the handles the program holds, the objects of
the lower half with the number of the lower half they are from (`life`), the keys
of `g_params_map`.  A library call that can fail does both.  A checkpoint closes the
lower half, completes the requests, and, with the threads suspended, calls the file
wrappers for each key of `g_params_map` (`save_mpi_files`).

### Keyvals: attributes of communicators

`keyvalVec`, `tupleMap` and the list of MPI_COMM_SELF's attributes, with the
program's callbacks, which MANA calls in the middle of its loops over them.  A
callback may create and free keyvals and set and delete other attributes; `stack`
has the operations under way, and each `...Returns` action is the code after the
callback.

### VirtualIds: the table of handles

The application adds, uses and frees handles while the checkpoint thread scans for
a gid (`find_virt_comm`) and completes requests (`complete_virt_request`).  A step
is what the other thread can see between two atomic accesses: a free hides the
slot and then releases it, the scan loads the handle, then the descriptor, then
its gid.  A handle is its kind, the generation modulo `Gens` (16 in the code) and
the slot; slots whose handle could be a predefined constant are reserved.

### CommRestart and Datatypes: what a restart makes again

`CommRestart` has several ranks that make communicators (MPI_Comm_dup and
MPI_Comm_split as the list of the groups they give, MPI_Comm_create_group), get
their gids from one member by broadcast, free them, checkpoint at any consistent
cut, and remake them one by one in the order of `reconstruct_descriptors`.
`Datatypes` has one rank's derived datatypes: references from the program, from
other datatypes and from pending calls, the list of datatypes freed while a call is
pending, and the reconstruction before the pending receives are posted again.

### MemLocks, MemArena and RestartFds: the process outside MPI

`MemLocks` has the locks around mmap(), munmap() and mremap(): DMTCP's lock, taken
according to `mana_state`, signals blocked, `wrapper_owner`; and a checkpoint that
suspends threads with a signal.  It is why a call is one step in `MemArena`, which
has the lists of blocks, the search for a free address with its retries after
collisions, the ranges the image saves, and the restore.  Addresses are page
numbers.  `RestartFds` has the descriptors by number and owner: the header's list,
the placeholders of `reserve_restart_fds`, DMTCP's restore and `closeReservedFds`.
The header is emptied, written and followed by the image in three steps, over the
files of the last checkpoint, and the job may be killed and restarted between any
two (`files`).

In `MemArena` the kernel may refuse each of its calls, in `mremap_wrapper` each of the
three the wrapper makes (`refuses`).  The range recorded as the stack counts as
mapped from the start: the kernel maps what is below the copied top as it grows.
`wrapper_depth` of the lock is not a variable of `MemLocks`: a nested call counts it
up and down within the owner's step.

### The MC modules

`MCCollectiveClock`, `MCLowerHalfGuard`, `MCP2pDrain`, `MCVirtualIds` and
`MCKeyvals` hold instances; the `.cfg` files choose one.  Three MC modules put together components of one process that share no
variable: `MCObjects` (`VirtualIds`, `Wrappers`, `Keyvals`), `MCRestart`
(`CommRestart`, `Datatypes`) and `MCMemory` (`MemLocks`, `MemArena`,
`RestartFds`).  There a variable `part` picks a component in the initial state and
the others stand still, so a run's states are the sum of the components' states
and not their product.  It is a way to run them, not a composition: what one
component takes from another is written in its header (the table in `Wrappers` is
what `VirtualIds` promises, the guard in `P2pDrain` what `LowerHalfGuard`
promises).

## The runs

| Run | Instance | Shows |
|---|---|---|
| `cc_two` | two ranks, four programs, one checkpoint at any moment, two rounds without a raise before an attempt fails | `TypeOK`; `ConsistentCut`: the drain ends only when members agree and nobody is in a call; `NothingHalfStarted`: the images need nothing of the old MPI library; `SameDecision`: all ranks come to the same decision; `CutInv`: the inductive invariant; `ImplementsCut` |
| `cc_three` | three ranks, two overlapping communicators | `ImplementsCut` when a raise on one communicator forces a raise on another, so that the drain follows a chain over several rounds |
| `cc_live` | two ranks, MPI_Comm_create_group crossing a collective call | `DrainTerminates`: each checkpoint is taken, although attempts fail; `ProgramsEnd` |
| `guard_blocking` | two application threads, depth 2, two buffered stores, blocking mode, any number of checkpoints | `Exclusion`, `OnlyBlockedInside`, `NoLateEntry`, `GuardInv` |
| `guard_live` | one application thread | `CloseCompletes`, `EntryCompletes` |
| `p2p` | two ranks, seven programs in polling mode with two checkpoints, four in each blocking form with one | `ImplementsDelivery`; `NothingLeftInLibrary`: the drain ends with every message received or buffered; `DummyReadIsRight`: a receive knows a dummy from a message; `AckMarksItsIssend`: the buffered message found by counting the later sends is the one whose MPI_Issend waits for the ack; `ProbeFindsNext` |
| `p2p_live` | two ranks, one checkpoint, the three forms | `CheckpointEnds`, `ProgramsEnd` |
| `objects` | two usable slots and a reserved one, two generations, four handles; all wrappers with two checkpoints; two keyvals, three values, callbacks within callbacks | `LiveHandlesResolve`, `StaleDetectedUntilWrap`, `ScanIsRight`, `NullMeansCompleted` (the table); `CallsUseLiveObjects` (also by `save_mpi_files` for the files that are open), `NothingLost`, `CommitsOutside` (the wrappers); `DeletedOnce`, `KeyvalsAgree` (attributes) |
| `restart` | three ranks, three communicators, one restart; three datatypes, structs of two, one request | `GidNamesCommunicator`, `RestartNeverStuck`; `RefsRight`, `RestartInOrder` |
| `memory` | two threads and the checkpoint thread; an arena of two pages, one try, one restart; five descriptor numbers, two checkpoints, a crash anywhere | `LocksRight`; `ListsMatchMemory`, `ImageIsUpperHalf`, `RefusedForCause`: the arena refuses a request only without room, or after all its tries, each of which took a mapping out of its way for good; `FdsRestored` |
| `p2p_probe_race` | as `p2p`, blocking | `DrainRecvHasMessage` is violated, see below |
| `wrappers_files_restart` | the file calls, one checkpoint | `FilesRestored` is violated, see below |

Further configurations, for the reader who wants to see a case by itself:
`P2pAnySource.cfg` (three ranks; a receive from MPI_ANY_SOURCE gets its dummy from a
rank that is not blocked; passes), `CollectiveClockRounds.cfg`, `RestartInv.cfg`,
`VirtualIdsInv.cfg`, `KeyvalsInv.cfg` and `MemoryInv.cfg` (the inductive invariants of
the proofs, with `MCCollectiveClock`, `MCRestart`, `MCVirtualIds`, `MCKeyvals` and
`MCMemory`; pass), and those of
the section on disagreements.

**Bounds.**  Two ranks suffice for every race between one rank's wrapper and another
rank's drain; the third rank is there for the chain of raises, which needs two
communicators that share only one member.  The four programs of `cc_two` are
those for which the code has special cases: calls in different orders on two
communicators, a communicator made and freed, MPI_Comm_create_group, frees in
different orders (compare `test/nbc_order.c`, `test/comm_create_group.c`,
`test/comm_free_order.c`).  `MAX_DRAIN_ROUNDS` is 1 or 2, so that attempts do
fail.  `MaxCkpts` bounds the requests; attempts within one are not bounded.  In
the guard, depth 2 is the first nested one, and checkpoints are not bounded, so a
thread meets a close while it is anywhere in the slow path of the last one.

The programs of `MCP2pDrain` are named for what they make happen: two messages of
one envelope with one receive posted (`Overtake`), a probe and what is left after it
(`ProbeFirst`), exchanges, MPI_Issend before a plain send of the same envelope
(`Synchronous`), two pending ones (`TwoIssends`, with four ack tags), a freed
communicator, MPI_PROC_NULL, and for the blocking forms a receive whose message
comes after the checkpoint (`LateSend`) and large messages both ways (`BothWays`).
A second checkpoint meets what the first one buffered.

Two usable slots and two generations let a slot be reused, wrap, and be reused while
the scan is between its loads; the reserved slot in the middle makes `alloc_slot`
skip.  Five objects and two checkpoints let any wrapper work on an object made
before a restart.  Three communicators on three ranks are the first instance in
which the order by slot and the order by creation can disagree on two ranks.  Three
datatypes are a chain with a struct that uses one twice.  An arena of two pages,
with the stack and a page of the lower half in its way, has every overlap of a
request with a block: before, after, inside, across.  It makes one try for a request
and not sixteen, so that a request is refused although there is room behind the one
mapping of the lower half; `MemoryInv.cfg` has sixteen.  `FirstNumber` and `Room` are
small enough that placeholders, the limit and DMTCP's own numbers meet.

**Deadlock** is checked in all runs but `restart`: there the ranks may make calls
that do not match, as an erroneous program does, and wait for each other.
`RestartNeverStuck` states what must not wait.

**Fairness.**  The checkpoint thread, the barriers and the application threads are
weakly fair: nothing in the code stops them.  Strong fairness is used where the
code depends on being given a turn.  An application thread that needs
`seq_num_lock` gets it at some time, as a mutex under a scheduler that is fair
does.  A thread that spins sees `ckpt_pending` false in the pause of one second
between two attempts, and enters its call in it (the comment in
`PMPI_Comm_create_group()` relies on the same).  In the guard, a wrapper leaves the
lower half, also out of a sequence of nested entries, and the checkpoint thread
makes finitely many MPI calls of its own.  A blocking call returns only once the
P2P drain has served it.

In `P2pDrain` a message leaves its sender, and a large one is moved, only while the
sender's rank is inside MPI (`InMpi`), as the comment in `drainWithoutBarriers()`
says of providers without a progress thread; it is strongly fair, because a rank
may go in and out.  Of the sums that `drainWithoutBarriers()` compares, the
module has no pending non-blocking collectives (`sums[3]`): `CollectiveClock` has
them, and they delay the end of the drain only.  The drain with barriers makes no MPI call after its last
barrier, so there small messages arrive by themselves: it needs a provider that
delivers them eagerly.  The liveness properties leave out the one known hang of
`p2p_probe_race` (`AnyHangs`), which is a stuttering step of the model: they say
nothing of that race.

**Assumptions about what is outside.**

* MPI library: messages between two ranks arrive in order; a call that makes a
  communicator returns on a rank only after all ranks it involves have made it
  (`CommRestart`).
* DMTCP: suspends a thread with a signal, and takes its lock before that; its
  plugin macro DMTCP_PLUGIN_DISABLE_CKPT has no effect in the checkpoint thread
  (`MemLocks`); it restores exactly the upper half's descriptors with dup2(), and
  then the checkpointed limit, before the threads run at DMTCP_EVENT_RUNNING
  (`RestartFds`).  It writes an image under another name and renames it, and
  `mana_restart` refuses to start while there is such a file, so the image is whole.
* Kernel: merges adjacent areas of equal permissions; gives the lowest free
  descriptor number; membarrier() makes each thread pass a barrier.
* Program: uses MAP_FIXED only over its own or free memory; MPI_Init opens fewer
  descriptors than `Room`; a callback leaves the attribute it is called for alone.
* The MPI library's helper threads map no memory between the release of the reserved
  areas and their restore; a page already taken stops the restart in
  `reserve_memory_areas`.

## Where the code and its words disagree

Two disagreements are runs of `PROJECT.json`:

* `p2p_probe_race`.  In blocking mode the drain probes a message
  (`p2p_drain.cpp:395`) while an MPI_Recv of the application is published and not
  yet in the library.  The MPI_Recv takes the message and leaves its slot; the drain
  finds no pending receive and calls MPI_Recv for a message that is gone.  The
  comment there says it leaves such a message to the MPI_Recv.
* `wrappers_files_restart`.  MPI_File_open makes two virtual handles, returns one and
  saves the parameters under the other (`mpi_file_wrappers.cpp:57`), and
  `restore_mpi_files()` passes a real handle to wrappers that translate virtual
  ones.  A restart does not restore the program's file.

Each of the others has a configuration that TLC ends with a counterexample:

| Configuration | Module | Property | Code | What it says |
|---|---|---|---|---|
| `P2pSubComm.cfg` | `MCP2pDrain` | `NoAssertionFails` | `p2p_drain.cpp:769` | for a receive from MPI_ANY_SOURCE some member is not blocked: "A deadlock-free program has one".  Not if the only other member waits for a rank outside the communicator: the assertion fails |
| `P2pIrecvRecv.cfg` | `MCP2pDrain` | `OnlyRecvTakesDummy` | `p2p_drain.cpp:1021` | "a blocked MPI_Recv can receive only its dummy".  An MPI_Irecv posted earlier with an envelope that fits takes the dummy.  The programs of `p2p` have no such MPI_Irecv |
| `WrappersElements.cfg` | `Wrappers` | `CallsUseLiveObjects` | `mpi_request_wrappers.cpp:442` | MPI_Get_elements and MPI_Get_elements_x pass the program's datatype handle untranslated |
| `WrappersFilesClosed.cfg` | `Wrappers` | `SavesOpenFiles` | `mpi_file_wrappers.cpp:373` | "Remove closed file from virtual to real mapping".  The parameters are under the other handle, which stays: each later checkpoint calls MPI_File_get_position() and others for a closed file.  `CallsUseLiveObjects` excepts these calls |
| `VirtualIdsStale.cfg` | `MCVirtualIds` | `StaleDetected` | `virtual_id.h:20` | "stale handles are detected".  After sixteen reuses of the slot a stale handle equals a live one; `StaleDetectedUntilWrap` is what holds |
| `KeyvalsSelfOrder.cfg` | `MCKeyvals` | `SelfReverseOrder` | `mpi_comm_wrappers.cpp:222` | attributes of MPI_COMM_SELF are deleted "in the reverse order in which the program set them".  One set a second time keeps its first place |
| `KeyvalsFailedDup.cfg` | `MCKeyvals` | `FailedDupLeavesNothing` | `mpi_collective_wrappers.cpp:843` | "Freeing it also deletes the attributes that were copied".  Not if a delete callback fails as well |
| `MemArenaRegions.cfg` | `MCMemory` | `RegionsMerged` | `mpi_plugin.cpp:278` | "touching regions are merged".  mremap() with an old size of zero adds a block unmerged; the image is right all the same (`ImageIsUpperHalf`) |
| `RestartFdsRoom.cfg` | `MCMemory` | `RoomIsKept` | `lower-half.cpp:363` | "keep at least `room` numbers below them free".  memfd_create() takes one after they were counted |
| `RestartFdsTorn.cfg` | `MCMemory` | `LowerHalfKept` | `lower-half.cpp:353` | "A placeholder keeps each of those numbers ... free of this lower half's fds".  If the job was killed after header.mana was opened and before the image was replaced, the header does not have the numbers of the image: the restore closes descriptors of the MPI library, without a warning.  `FdsRestored` is what holds |

## The proofs

Proved with TLAPS for every value of the constants.

`CollectiveClockProofs` (from `ConstantsAssumption`: finite sets of ranks and
communicators, programs are sequences of calls; one lemma per action, and
`CpcStepCut` for the actions that only move the checkpoint thread):

* `TypeCorrect`: `Spec => []TypeOK`.
* `CutInvariant`: `Spec => []CutInv`.  `ConsistentCut` alone is not inductive: it
  says nothing until the drain has ended.  `CutInv` follows a sequence number
  from the call to the other members: the database knows of it, or
  `raised_clocks` still has the gid (`UploadInv`); a target is a number somebody
  uploaded or the rank has reached (`TargetInv`); a target below the database's
  number will be downloaded again, because the clock is new, because the gid is in
  a round's list, or because the download has not come to it yet (`StaleInv`); a
  rank that reported to have reached its targets outside a critical section cannot
  do anything until its targets rise (`ReportInv`); so a round in which all ranks
  did and none raised a target leaves all of them so (`DrainedInv`).

* `DrainIsConsistent`: `Spec => []ConsistentCut`, from that invariant.
* `DrainImplementsCut`: `Spec => ImplementsCut`, the refinement: each step is a
  step of `CollectiveCut` or a stutter.
* `RoundInvariant`: `Spec => []RoundInv`.  The ranks are within one round of each
  other (`TogetherInv`), have counted the same rounds without a raise, and those that
  have yet to read a round's reports will read what the others did (`CountInv`).
* `DecisionsAgree`: `Spec => []SameDecision` follows from it.

`LowerHalfGuardProofs` (from `GuardAssumption`):

* `GuardInvariant`: `Spec => []GuardInv`.  The depth follows from the place in the
  guard (`DepthInv`), memory lags by the buffered stores (`BufferInv`), and,
  the heart of it, a thread that is inside although membarrier() has passed it
  shows a depth above 0 now and after each buffered store (`VisibleInv`), so the
  loop waits for it (`ScanInv`).
* `LowerHalfEmpty`, `OnlyBlockedThreads`, `NoEntryAfterClose`: `Exclusion`,
  `OnlyBlockedInside` and `NoLateEntry` follow from it.

`VirtualIdsProofs` (from `TableConstants`: at least one slot and one generation, the
kinds include communicators and requests, and a predefined constant has the shape of
a handle):

* `TableInvariant`: `Spec => []TableInv`, with `TableInv == SlotInv /\ GenerationInv`.
  That a live handle resolves is not inductive: a slot on the free list twice, or
  on it while a call is between its two stores, would be given away.  So `SlotInv`
  says the free list names each slot once, and none that a handle in use or a call
  under way has, and that only slots `alloc_slot` gives out are in use.
  `GenerationInv` says a handle has its slot's generation, or the one before while
  it is being hidden, and freed handles have earlier ones.
* `LiveHandlesAreRight`: `Spec => []LiveHandlesResolve`.
* `StaleHandlesAreDetected`: `Spec => []StaleDetectedUntilWrap`.  Two generations
  that differ by less than `Gens` differ modulo `Gens` (`DifferentMod`).
* `ThreadInvariant`: `Spec => []ThreadInv`, what the two threads know of each other.
  A published communicator's descriptor is allocated, and it is freed only with
  `comm_desc_lock`, which the scan holds (`DescInv`).  The scan has passed no slot
  with a communicator of its gid, and what it has loaded is still there (`ScanInv`).
  A request has its status before it is marked completed, and is marked before its
  real id becomes MPI_REQUEST_NULL (`CompletionInv`).
* `ScansAreRight`: `Spec => []ScanIsRight`.
* `NullIsCompleted`: `Spec => []NullMeansCompleted`.

`WrappersProofs` (for the workloads `"all"` and `"files"`; the
workload `"elements"` has the two wrappers that pass a handle untranslated), for any
number of objects and checkpoints:

* The first part is about the wrappers as lists of steps and not about states.  It
  gives each point of a wrapper a *mode*: the depth of the guard, whether it is in a
  critical section, a stage (outside, nothing looked up, looking up, object made,
  handle made, object freed ...), the kind of the object it frees, and what it has
  yet to do with a communicator it has made.  `Allowed` says which step may come next
  in a mode and where it leads.  Each of the wrappers leads from the mode outside back
  to it (`CallsAreGood`), with or without the call of a callback in front of what is
  left (`CallbackIsGood`).  A wrapper that looked up a handle before the guard, named
  an object after it, or came to commit_begin() in it, would have no such modes.
* `WrapperInvariant`: `WrappersSpec => []WrapperInv`.  `TableInv` is what always holds
  of the table: handles and objects have numbers given out so far, two of the
  program's handles are not the same object, requests are complete in a closed lower
  half, and `g_params_map` has a key while the program has a file.  `Match` says what
  each mode means: the ids looked up are alive, the object that was freed is the one
  of the only handle looked up, an object without a handle exists only between the
  library call and new_virt_...().  So each action needs only the mode of its step.
* `CommitsAreOutside`, `CallsAreLive`, `NothingIsLost`: `CommitsOutside`,
  `CallsUseLiveObjects` and `NothingLost` follow from it.  `CallsAreLive` does not
  speak of MPI_Get_elements and MPI_Get_elements_x (`WrappersElements.cfg`), nor of
  the calls that `save_mpi_files` makes for closed files (`WrappersFilesClosed.cfg`).

`CommRestartProofs` (from `CommConstants`: there is a rank, groups are not empty, and
the groups of a split are disjoint), for any number of ranks, communicators and
restarts:

* `CommInvariant`: `Spec => []CommInv`.  A rank in a making call is in one on a
  communicator that has all involved ranks as members, or has yet to name what it
  made (`CallInv`); a communicator has its gid once its rank 0 has named it, from that
  rank's own count, and no two have the same (`NameInv`); a rank's entries are in the
  order in which MPI made the communicators (`EntryInv`); a member has an entry from
  the naming to its free, and makes no call on it before (`ClockInv`); two entries
  have the same communicator of the library exactly if they have the same gid
  (`LibraryInv`, `RealInv`); what is left to remake at a rank is left at all members
  (`TodoInv`).
* `GidsNameCommunicators`: `Spec => []GidNamesCommunicator`.
* `RestartGoesOn`: `Spec => []RestartNeverStuck`.  Among all communicators left, the
  one the library made first is the next one at each of its members: a least element,
  taken with the well-founded order of the naturals.

`KeyvalsProofs` (from `KeyvalConstants`: MPI_COMM_SELF is a communicator, MPI_COMM_NULL
is none, the predefined keyvals are finitely many numbers), for any number of keyvals,
communicators and values and any depth of callbacks:

* `KeyvalsAgreement`: `KeyvalsSpec => []KeyvalsAgree`, and `ValuesDeletedOnce`:
  `KeyvalsSpec => []DeletedOnce`.  Neither is inductive: after a callback the code goes
  on with what it read before it.  `KeyvalInv` adds what each operation under way
  relies on when its callback returns (`FrameInv`): the attribute the callback is for
  is still there, a communicator being freed has no attribute that is not on the list,
  one being made has none of those yet to copy.  It is kept because an inner operation
  is apart from every outer one (`Apart`): it is for another attribute, frees no
  communicator in use, and only deletes on one that is being freed.  Returning to an
  outer operation needs nothing else, so the depth does not matter.

`DatatypesProofs` (from `TypeConstants`: the bounds are numbers), for any number of
datatypes, requests, members of a struct and restarts:

* `ReferencesRight`: `DatatypesSpec => []RefsRight`, and `RestartsInOrder`:
  `DatatypesSpec => []RestartInOrder`.  `DatatypeInv` adds that a datatype is made of
  older ones, which are in the table as long as it is (`OldsInv`), that what the program
  holds or a pending call uses is in the table (`HeldInv`, `PendingInv`), and what the
  new lower half has so far (`RemadeInv`).  release_datatype() calls itself for the old
  types: the lemmas on `ReleaseTypes` follow the loop from the newest datatype down, and
  show that each step takes from the counts exactly the uses of what has left the table.

`MemoryProofs` (for the locks from `LockConstants`: the checkpoint thread is none of
the others; for the descriptors from nothing; for the arena from `ArenaConstants`: the
bounds are numbers and the stack lies between the first and the last page):

* `LockInvariant`: `Spec => []LockInv`.  A thread in the lower half has signals
  blocked, so it is not suspended there; DMTCP suspends only while it has its lock,
  which no thread then holds; a thread waits for the lock only if its local
  variable says so.
* `LocksAreRight`: `Spec => []LocksRight`.
* `FdInvariant`: `FdSpec => []FdInv`.  The header has the image's numbers if both are
  of one checkpoint, which a crash between their writes undoes.  Between
  reserve_restart_fds() and the restore, each number of the header is taken by a
  placeholder or is past the limit, or the lower half has none and gets none (`Safe`),
  unless the code has warned.
* `DescriptorsRestored`: `FdSpec => FdsRestored`, an action property.
* `ListsAreRight`: `ArenaSpec => []ListsMatchMemory`.  `ArenaInv` adds that both lists
  are sorted and their blocks apart (`IsBlocks`), which every loop over them relies on,
  and that the image and the new lower half are apart until the restore.  There is one
  lemma for each loop of the code, for lists of any length: `MergeAdds` and
  `RemoveTakes` (merging adds the block's pages, removing takes them, and both keep the
  list sorted), `CollidedThins` (a collision takes only mapped pages from the free
  list), `NextFits` and `ArenaFinds` (an address found is in a free block, and free),
  `RestoredIs` (the restored list covers the image).  The actions follow from these by
  reasoning about sets of pages.
* `RefusalsHaveCause`: `ArenaSpec => RefusedForCause`, for any number of tries.  Each
  try that collides takes at least one area of the lower half out of the free list
  for good, and another one each time (`TriedOnce`, `ArenaTries`); if no block fits,
  none has room (`NoFitNoRoom`).
* `ImagesAreRight`: `ArenaSpec => []ImageIsUpperHalf`.  From each address DMTCP has
  reached in an area, `Saved` gives the upper half's pages from there on: the next
  range of `nextUpperHalfRange` is the first one that ends above it (`RangeIsNext`,
  `SavedIs`); and the kernel's areas cover what is mapped (`RunsShow`).

Loops and recursive functions over lists of any length are reasoned about with
induction over a *set* of naturals (`NatSetInduction`, from the library's well-founded
orders): the theorem needs no operator as a parameter.

Only model-checked, and why:

* The liveness properties: the prover has no rules for fairness and ENABLED.
* `NothingHalfStarted`, of the clock: it holds for programs whose members of a
  communicator make the same calls on it, and needs, for each communicator and member,
  how many of them the library has started and completed.
* `P2pDrain`: that a dummy reaches the MPI_Recv it is for, and what rests on it in the
  blocking forms, does not hold for every program (see `P2pIrecvRecv.cfg`), and neither
  does `ProbeFindsNext`, if another receive of the program may take the message.  The
  properties are checked for the programs of `MCP2pDrain`.

## Not modelled

* The table of predefined constants (`virtual_id.cpp`): data.  Only its effect on the
  slots is modelled.
* `uhSbrk()`, the heap inside its reserved area, and the patches of libc.
* The wrappers of sigaction() and signal(), among them the moment between the
  installation of MANA's handler and the record of the program's; and
  `g_upper_half_fsbase_lock`.  What a signal's handler does is the program's, and
  nothing in the repository says what should happen in that window.
* Error handlers, which live in the lower half only and are not set again at restart.
* mpi_files.mana as a file: `Wrappers` restores the table that its checkpoint saved.
  In the code the file is apart from the image, as header.mana is, and is not
  overwritten when the table is empty, so a restart may read that of another
  checkpoint.
* Callbacks that set or delete the very attribute, or free the communicator, that
  their caller has in hand (`Busy`, `InUse` in `Keyvals`).
* What the library does with a datatype after MPI_Type_free: the code names it no more.
* The array of statuses of MPI_Waitall and MPI_Testall; statistics and logging.
* The loader (`lower-half/`), apart from memory and descriptors: it reads and
  relocates ELF files, copies a stack and patches code, sequential work on formats.
* The context switch (one assignment to the FS register), the Fortran interface
  (argument conversion, mostly generated), the stubs (generated), and the window and
  tool wrappers (they report that the function is not supported).
