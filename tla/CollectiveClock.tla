---------------------------- MODULE CollectiveClock ----------------------------
(***************************************************************************)
(* The Collective Clock of MANA (src/seq_num.cpp): how the ranks of an MPI *)
(* job stop at a point where every collective call was either made by all  *)
(* members of its communicator or by none.                                 *)
(*                                                                         *)
(* Each rank has an application thread, which runs its program of          *)
(* collective calls, and a checkpoint thread, which runs                   *)
(* drain_mpi_collective() when the coordinator asks for a checkpoint.  The *)
(* ranks talk only through the coordinator: its key-value database (KVDB)  *)
(* and its global barriers.  seq_num_lock is held by the checkpoint thread *)
(* for the steps named in HoldsLock; each step of the application thread   *)
(* that takes the lock also releases it, so it only needs the lock free.   *)
(***************************************************************************)
EXTENDS Integers, Sequences, FiniteSets

CONSTANTS
  Ranks,             \* the processes of MPI_COMM_WORLD
  Comms,             \* the gids of all communicators the programs ever use
  Members,           \* Members[c]: the ranks of communicator c
  InitialComms,      \* the communicators that exist after MPI_Init
  Programs,          \* the programs: each gives every rank its calls
  MAX_DRAIN_ROUNDS,  \* rounds without a raise before an attempt fails
  MaxCkpts           \* bound: checkpoints the coordinator asks for

(* A call of the application.  "sync" returns only when every member made  *)
(* the call (MPI_Barrier, MPI_Allreduce); "async" may return at once (a    *)
(* rooted or non-blocking collective); "wait" is MPI_Wait for the rank's   *)
(* non-blocking collectives on comm; "create" is a collective on comm that *)
(* makes the communicator new (MPI_Comm_dup, MPI_Comm_split); "group" is   *)
(* MPI_Comm_create_group, which only the members of new call and which no  *)
(* clock counts; "free" is MPI_Comm_free.                                  *)
CriticalOps == {"sync", "async", "create", "group", "free"}
Ops == CriticalOps \cup {"wait"}
Calls == [op : Ops, comm : Comms, new : Comms]

ASSUME ConstantsAssumption ==
  /\ IsFiniteSet(Ranks)
  /\ IsFiniteSet(Comms)
  /\ Members \in [Comms -> SUBSET Ranks]
  /\ InitialComms \subseteq Comms
  /\ Programs \subseteq [Ranks -> Seq(Calls)]
  /\ MAX_DRAIN_ROUNDS \in Nat \ {0}
  /\ MaxCkpts \in Nat

VARIABLES
  \* The application threads.
  prog,            \* the program of the job, fixed at the start
  ip,              \* ip[r]: index of the call rank r makes now
  apc,             \* apc[r]: where in that call it is
  \* The upper half's globals in seq_num.cpp.
  clocks,          \* clocks[r]: the gids that have a clock
  seq,             \* seq[r][c]: the clock's sequence number
  target,          \* target[r][c]: the clock's target
  raised_clocks,   \* raised_clocks[r]: clocks whose target this rank raised
  added_clock,
  ckpt_pending,
  current_phase,
  woken,           \* woken[r]: targets_version changed since the wait began
  pending_frees,   \* pending_frees[r]: freed, barrier not yet seen complete
  \* The checkpoint threads.
  cpc,             \* cpc[r]: where in the drain the thread is
  todo,            \* todo[r]: clocks whose target is yet to be downloaded
  rounds_without_raise,
  ckpts,           \* checkpoints asked for so far
  \* The coordinator's KVDB.
  shareMax,        \* the sequence numbers uploaded for the next attempt
  seqMax,          \* the database "comm-seq-max" of this attempt
  tally,           \* what the ranks report in the round they are in
  published,       \* the tally of the last round whose barrier all reached
  \* The lower half (the MPI library), lost at a restart.
  started,         \* started[r][c]: collectives r started on c
  creating,        \* <<r, d>>: r entered the call that makes d
  freeing          \* <<r, c>>: r started the MPI_Comm_free barrier of c

appVars   == <<ip, apc, current_phase, woken>>
clockVars == <<clocks, seq, target, raised_clocks, added_clock>>
drainVars == <<cpc, todo, rounds_without_raise, ckpts, ckpt_pending>>
kvdbVars  == <<shareMax, seqMax, tally, published>>
mpiVars   == <<started, creating, freeing, pending_frees>>
vars == <<prog, appVars, clockVars, drainVars, kvdbVars, mpiVars>>

-----------------------------------------------------------------------------
(* A key the database does not have.                                       *)
NoKey == -1

(* The KVDB request MAX: the database keeps the larger value.              *)
KvdbMax(old, value) == IF value > old THEN value ELSE old

(* One round's keys: who reported its targets reached, who reported to be  *)
(* in a critical section, and the list of raised gids, each with the rank  *)
(* that put it there.  Every attempt and round has keys of its own, so a   *)
(* round starts from nothing.                                              *)
NoReports == [converged |-> {}, in_cs |-> {}, raised |-> {}]

(* A mutant: the drain ends although a target was raised in the round.     *)
DrainEndsDespiteRaise(report) == report.in_cs = {} /\ report.converged = Ranks

(* The condition under which try_drain_mpi_collective() returns true.      *)
DrainEnds(report) ==
  /\ report.in_cs = {}
  /\ report.converged = Ranks
  /\ report.raised = {}

(* Where the checkpoint thread holds seq_num_lock between steps.           *)
HoldsLock == {"shareWait", "shareGet", "addGet", "raiseGet"}
LockFree(r) == cpc[r] \notin HoldsLock

(* The attempt has ended and the lower half is not yet open again.         *)
Drained == {"drained", "closed", "quiet"}
LowerHalfClosed(r) == cpc[r] \in {"closed", "quiet", "suspended"}

CurrentCall(r) == prog[r][ip[r]]
AtCall(r, ops) ==
  /\ apc[r] = "idle"
  /\ ip[r] <= Len(prog[r])
  /\ CurrentCall(r).op \in ops
(* A mutant: the clocks do not count MPI_Comm_free.                        *)
CountedExceptFree(call) == call.op \notin {"group", "free"}
Counted(call) == call.op # "group"

check_seq_nums(r) == \A c \in clocks[r] : target[r][c] <= seq[r][c]

(* The condition of the loop in wait_while_targets_reached().              *)
MustWait(r) == ckpt_pending[r] /\ check_seq_nums(r)

(* Every member made as many collective calls on c as rank r.              *)
AllStarted(r, c) == \A q \in Members[c] : started[q][c] >= started[r][c]

FreeBarrierDone(c) == \A q \in Members[c] : <<q, c>> \in freeing

TypeOK ==
  /\ prog \in Programs
  /\ ip \in [Ranks -> Nat \ {0}]
  /\ apc \in [Ranks -> {"idle", "spinBegin", "entering", "inCall", "leaving",
                        "finish", "spinFinish", "test", "testing"}]
  /\ \A r \in Ranks : apc[r] # "idle" => ip[r] <= Len(prog[r])
  /\ clocks \in [Ranks -> SUBSET Comms]
  /\ seq \in [Ranks -> [Comms -> Nat]]
  /\ target \in [Ranks -> [Comms -> Nat]]
  /\ raised_clocks \in [Ranks -> SUBSET Comms]
  /\ added_clock \in [Ranks -> BOOLEAN]
  /\ ckpt_pending \in [Ranks -> BOOLEAN]
  /\ current_phase \in [Ranks -> {"IS_READY", "IN_CS"}]
  /\ woken \in [Ranks -> BOOLEAN]
  /\ pending_frees \in [Ranks -> SUBSET Comms]
  /\ cpc \in [Ranks -> {"run", "presuspend", "shareWait", "shareGet", "round",
                        "addGet", "roundWait", "decide", "raiseGet", "failed",
                        "pause", "drained", "closed", "quiet", "suspended"}]
  /\ todo \in [Ranks -> SUBSET Comms]
  /\ rounds_without_raise \in [Ranks -> Nat]
  /\ ckpts \in Nat
  /\ shareMax \in [Comms -> Nat \cup {NoKey}]
  /\ seqMax \in [Comms -> Nat \cup {NoKey}]
  /\ tally \in [converged : SUBSET Ranks, in_cs : SUBSET Ranks,
                raised : SUBSET (Ranks \X Comms)]
  /\ published \in [converged : SUBSET Ranks, in_cs : SUBSET Ranks,
                    raised : SUBSET (Ranks \X Comms)]
  /\ started \in [Ranks -> [Comms -> Nat]]
  /\ creating \subseteq Ranks \X Comms
  /\ freeing \subseteq Ranks \X Comms

Init ==
  /\ prog \in Programs
  /\ ip = [r \in Ranks |-> 1]
  /\ apc = [r \in Ranks |-> "idle"]
  /\ clocks = [r \in Ranks |-> {c \in InitialComms : r \in Members[c]}]
  /\ seq = [r \in Ranks |-> [c \in Comms |-> 0]]
  /\ target = [r \in Ranks |-> [c \in Comms |-> 0]]
  /\ raised_clocks = [r \in Ranks |-> {}]
  /\ added_clock = [r \in Ranks |-> FALSE]
  /\ ckpt_pending = [r \in Ranks |-> FALSE]
  /\ current_phase = [r \in Ranks |-> "IS_READY"]
  /\ woken = [r \in Ranks |-> FALSE]
  /\ pending_frees = [r \in Ranks |-> {}]
  /\ cpc = [r \in Ranks |-> "run"]
  /\ todo = [r \in Ranks |-> {}]
  /\ rounds_without_raise = [r \in Ranks |-> 0]
  /\ ckpts = 0
  /\ shareMax = [c \in Comms |-> NoKey]
  /\ seqMax = [c \in Comms |-> NoKey]
  /\ tally = NoReports
  /\ published = NoReports
  /\ started = [r \in Ranks |-> [c \in Comms |-> 0]]
  /\ creating = {}
  /\ freeing = {}

-----------------------------------------------------------------------------
(* The application thread of rank r.                                       *)

(* begin_critical_section(): under the lock it finds that a drain attempt  *)
(* runs and all targets are reached, releases the lock and spins.          *)
BeginWait(r) ==
  /\ AtCall(r, CriticalOps)
  /\ LockFree(r)
  /\ MustWait(r)
  /\ apc' = [apc EXCEPT ![r] = "spinBegin"]
  /\ woken' = [woken EXCEPT ![r] = FALSE]
  /\ UNCHANGED <<prog, ip, current_phase, clockVars, drainVars, kvdbVars, mpiVars>>

SpinBegin(r) ==
  /\ apc[r] = "spinBegin"
  /\ ~ckpt_pending[r] \/ woken[r]
  /\ apc' = [apc EXCEPT ![r] = "idle"]
  /\ UNCHANGED <<prog, ip, current_phase, woken, clockVars, drainVars, kvdbVars, mpiVars>>

(* A counted call advances the clock of its communicator; during a drain   *)
(* attempt it raises the target if it passes it.                           *)
(* A mutant compares the number before the call.                           *)
RaisesTargetLate(r, c) == ckpt_pending[r] /\ seq[r][c] > target[r][c]
RaisesTarget(r, c) == ckpt_pending[r] /\ seq[r][c] + 1 > target[r][c]
CountCall(r, c) ==
  /\ seq' = [seq EXCEPT ![r][c] = @ + 1]
  /\ target' = IF RaisesTarget(r, c) THEN [target EXCEPT ![r][c] = seq[r][c] + 1]
                                     ELSE target
  /\ raised_clocks' = IF RaisesTarget(r, c) /\ Cardinality(Members[c]) > 1
                      THEN [raised_clocks EXCEPT ![r] = @ \cup {c}]
                      ELSE raised_clocks

(* begin_critical_section(): the thread enters its critical section.       *)
Begin(r) ==
  /\ AtCall(r, CriticalOps)
  /\ LockFree(r)
  /\ ~MustWait(r)
  /\ apc' = [apc EXCEPT ![r] = "entering"]
  /\ current_phase' = [current_phase EXCEPT ![r] = "IN_CS"]
  /\ IF Counted(CurrentCall(r)) THEN CountCall(r, CurrentCall(r).comm)
                                ELSE UNCHANGED <<seq, target, raised_clocks>>
  /\ UNCHANGED <<prog, ip, woken, clocks, added_clock, drainVars, kvdbVars, mpiVars>>

(* The wrapper passes the lower-half guard and calls the MPI library.  For *)
(* MPI_Comm_free that call is the start of the MPI_Comm_free barrier.      *)
StartCall(r) ==
  LET call == CurrentCall(r) IN
  /\ apc[r] = "entering"
  /\ ~LowerHalfClosed(r)
  /\ apc' = [apc EXCEPT ![r] = "inCall"]
  /\ started' = IF Counted(call) THEN [started EXCEPT ![r][call.comm] = @ + 1]
                                 ELSE started
  /\ creating' = IF call.op \in {"create", "group"}
                 THEN creating \cup {<<r, call.new>>} ELSE creating
  /\ freeing' = IF call.op = "free" THEN freeing \cup {<<r, call.comm>>}
                                    ELSE freeing
  /\ pending_frees' = IF call.op = "free"
                      THEN [pending_frees EXCEPT ![r] = @ \cup {call.comm}]
                      ELSE pending_frees
  /\ UNCHANGED <<prog, ip, current_phase, woken, clockVars, drainVars, kvdbVars>>

(* The MPI library returns from a call that makes no communicator.         *)
ReturnCall(r) ==
  LET call == CurrentCall(r) IN
  /\ apc[r] = "inCall"
  /\ \/ call.op \in {"async", "free"}
     \/ call.op = "sync" /\ AllStarted(r, call.comm)
     \/ call.op = "create" /\ r \notin Members[call.new] /\ AllStarted(r, call.comm)
  /\ apc' = [apc EXCEPT ![r] = "leaving"]
  /\ UNCHANGED <<prog, ip, current_phase, woken, clockVars, drainVars, kvdbVars, mpiVars>>

(* A mutant of AddCommClock: the drain does not learn of the new clock.    *)
AddCommClockSilently(r) ==
  LET d == CurrentCall(r).new IN
  /\ apc[r] = "inCall"
  /\ CurrentCall(r).op \in {"create", "group"}
  /\ r \in Members[d]
  /\ \A q \in Members[d] : <<q, d>> \in creating
  /\ LockFree(r)
  /\ clocks' = [clocks EXCEPT ![r] = @ \cup {d}]
  /\ seq' = [seq EXCEPT ![r][d] = 0]
  /\ target' = [target EXCEPT ![r][d] = 0]
  /\ apc' = [apc EXCEPT ![r] = "leaving"]
  /\ UNCHANGED <<prog, ip, current_phase, woken, raised_clocks, added_clock, drainVars,
                 kvdbVars, mpiVars>>

(* The MPI library returns the new communicator, its rank 0 sends the gid  *)
(* to the members, and add_comm_clock() adds the clock under the lock.     *)
AddCommClock(r) ==
  LET d == CurrentCall(r).new IN
  /\ apc[r] = "inCall"
  /\ CurrentCall(r).op \in {"create", "group"}
  /\ r \in Members[d]
  /\ \A q \in Members[d] : <<q, d>> \in creating
  /\ LockFree(r)
  /\ clocks' = [clocks EXCEPT ![r] = @ \cup {d}]
  /\ seq' = [seq EXCEPT ![r][d] = 0]
  /\ target' = [target EXCEPT ![r][d] = 0]
  /\ added_clock' = [added_clock EXCEPT ![r] = @ \/ ckpt_pending[r]]
  /\ apc' = [apc EXCEPT ![r] = "leaving"]
  /\ UNCHANGED <<prog, ip, current_phase, woken, raised_clocks, drainVars, kvdbVars, mpiVars>>

(* commit_finish(): current_phase changes before, and without, the lock.   *)
FinishReady(r) ==
  /\ apc[r] = "leaving"
  /\ current_phase' = [current_phase EXCEPT ![r] = "IS_READY"]
  /\ apc' = [apc EXCEPT ![r] = "finish"]
  /\ UNCHANGED <<prog, ip, woken, clockVars, drainVars, kvdbVars, mpiVars>>

FinishWait(r) ==
  /\ apc[r] = "finish"
  /\ LockFree(r)
  /\ MustWait(r)
  /\ apc' = [apc EXCEPT ![r] = "spinFinish"]
  /\ woken' = [woken EXCEPT ![r] = FALSE]
  /\ UNCHANGED <<prog, ip, current_phase, clockVars, drainVars, kvdbVars, mpiVars>>

SpinFinish(r) ==
  /\ apc[r] = "spinFinish"
  /\ ~ckpt_pending[r] \/ woken[r]
  /\ apc' = [apc EXCEPT ![r] = "finish"]
  /\ UNCHANGED <<prog, ip, current_phase, woken, clockVars, drainVars, kvdbVars, mpiVars>>

FinishPass(r) ==
  /\ apc[r] = "finish"
  /\ ~ckpt_pending[r] \/ (LockFree(r) /\ ~MustWait(r))
  /\ IF pending_frees[r] = {}
     THEN /\ apc' = [apc EXCEPT ![r] = "idle"]
          /\ ip' = [ip EXCEPT ![r] = @ + 1]
     ELSE /\ apc' = [apc EXCEPT ![r] = "test"]
          /\ ip' = ip
  /\ UNCHANGED <<prog, current_phase, woken, clockVars, drainVars, kvdbVars, mpiVars>>

(* test_comm_free_barriers(), inside the lower-half guard.  MPI_Test may   *)
(* or may not report a barrier that has completed.                         *)
EnterTest(r) ==
  /\ apc[r] = "test"
  /\ ~LowerHalfClosed(r)
  /\ apc' = [apc EXCEPT ![r] = "testing"]
  /\ UNCHANGED <<prog, ip, current_phase, woken, clockVars, drainVars, kvdbVars, mpiVars>>

(* finish_free(): the real communicator is freed and the clock erased.     *)
FinishFree(r, c) ==
  /\ c \in pending_frees[r]
  /\ FreeBarrierDone(c)
  /\ LockFree(r)
  /\ clocks' = [clocks EXCEPT ![r] = @ \ {c}]
  /\ pending_frees' = [pending_frees EXCEPT ![r] = @ \ {c}]
  /\ UNCHANGED <<prog, appVars, seq, target, raised_clocks, added_clock, drainVars,
                 kvdbVars, started, creating, freeing>>

TestFree(r, c) == apc[r] = "testing" /\ FinishFree(r, c)

LeaveTest(r) ==
  /\ apc[r] = "testing"
  /\ apc' = [apc EXCEPT ![r] = "idle"]
  /\ ip' = [ip EXCEPT ![r] = @ + 1]
  /\ UNCHANGED <<prog, current_phase, woken, clockVars, drainVars, kvdbVars, mpiVars>>

(* MPI_Wait for the rank's non-blocking collectives on a communicator: an  *)
(* MPI_Test loop outside any critical section.                             *)
WaitDone(r) ==
  /\ AtCall(r, {"wait"})
  /\ ~LowerHalfClosed(r)
  /\ AllStarted(r, CurrentCall(r).comm)
  /\ ip' = [ip EXCEPT ![r] = @ + 1]
  /\ UNCHANGED <<prog, apc, current_phase, woken, clockVars, drainVars, kvdbVars, mpiVars>>

-----------------------------------------------------------------------------
(* The checkpoint thread of rank r, and the coordinator.                   *)

(* The coordinator starts a checkpoint: DMTCP_EVENT_PRESUSPEND everywhere. *)
RequestCkpt ==
  /\ \A r \in Ranks : cpc[r] = "run"
  /\ ckpts < MaxCkpts
  /\ ckpts' = ckpts + 1
  /\ cpc' = [r \in Ranks |-> "presuspend"]
  /\ UNCHANGED <<prog, appVars, clockVars, todo, rounds_without_raise, ckpt_pending,
                 kvdbVars, mpiVars>>

(* drain_mpi_collective() takes the lock, starts an attempt and uploads    *)
(* its sequence numbers; it keeps the lock until it has the targets.       *)
ShareUpload(r) ==
  /\ cpc[r] \in {"presuspend", "pause"}
  /\ cpc' = [cpc EXCEPT ![r] = "shareWait"]
  /\ ckpt_pending' = [ckpt_pending EXCEPT ![r] = TRUE]
  /\ raised_clocks' = [raised_clocks EXCEPT ![r] = {}]
  /\ added_clock' = [added_clock EXCEPT ![r] = FALSE]
  /\ shareMax' = [c \in Comms |-> IF c \in clocks[r]
                                  THEN KvdbMax(shareMax[c], seq[r][c])
                                  ELSE shareMax[c]]
  /\ UNCHANGED <<prog, appVars, clocks, seq, target, todo, rounds_without_raise, ckpts,
                 seqMax, tally, published, mpiVars>>

(* dmtcp_global_barrier("MANA-SHARE-SEQ-NUM-..."): the attempt's database  *)
(* holds what all ranks uploaded, and its rounds start.                    *)
ShareBarrier ==
  /\ \A r \in Ranks : cpc[r] = "shareWait"
  /\ cpc' = [r \in Ranks |-> "shareGet"]
  /\ todo' = clocks
  /\ rounds_without_raise' = [r \in Ranks |-> 0]
  /\ seqMax' = shareMax
  /\ shareMax' = [c \in Comms |-> NoKey]
  /\ tally' = NoReports
  /\ published' = NoReports
  /\ UNCHANGED <<prog, appVars, clockVars, ckpts, ckpt_pending, mpiVars>>

(* A mutant of DownloadTarget: KEY_NOT_FOUND is taken for a value.         *)
DownloadMissingKey(r, c) ==
  /\ cpc[r] \in {"shareGet", "addGet", "raiseGet"}
  /\ c \in todo[r]
  /\ todo' = [todo EXCEPT ![r] = @ \ {c}]
  /\ target' = [target EXCEPT ![r][c] = seqMax[c]]
  /\ UNCHANGED <<prog, appVars, clocks, seq, raised_clocks, added_clock, cpc,
                 rounds_without_raise, ckpts, ckpt_pending, kvdbVars, mpiVars>>

(* One pass of the loops in download_targets() and                         *)
(* download_raised_targets(): other ranks upload between two passes.       *)
DownloadTarget(r, c) ==
  /\ cpc[r] \in {"shareGet", "addGet", "raiseGet"}
  /\ c \in todo[r]
  /\ todo' = [todo EXCEPT ![r] = @ \ {c}]
  /\ target' = IF seqMax[c] # NoKey THEN [target EXCEPT ![r][c] = seqMax[c]]
                                    ELSE target
  /\ UNCHANGED <<prog, appVars, clocks, seq, raised_clocks, added_clock, cpc,
                 rounds_without_raise, ckpts, ckpt_pending, kvdbVars, mpiVars>>

(* The download ends: targets_version changes and the lock is released.    *)
DownloadDone(r) ==
  /\ cpc[r] \in {"shareGet", "raiseGet"}
  /\ todo[r] = {}
  /\ cpc' = [cpc EXCEPT ![r] = "round"]
  /\ woken' = [woken EXCEPT ![r] = TRUE]
  /\ UNCHANGED <<prog, ip, apc, current_phase, clockVars, todo, rounds_without_raise,
                 ckpts, ckpt_pending, kvdbVars, mpiVars>>

(* A round that finds added_clock set first downloads all targets.         *)
RoundAdded(r) ==
  /\ cpc[r] = "round"
  /\ added_clock[r]
  /\ cpc' = [cpc EXCEPT ![r] = "addGet"]
  /\ todo' = [todo EXCEPT ![r] = clocks[r]]
  /\ UNCHANGED <<prog, appVars, clockVars, rounds_without_raise, ckpts, ckpt_pending,
                 kvdbVars, mpiVars>>

(* What upload_raised_targets() adds to the round's list: not the clocks   *)
(* that were erased since.                                                 *)
RaisedGids(r) == raised_clocks[r] \cap clocks[r]

(* The rest of the locked part of a round and its reports to the KVDB:     *)
(* upload_raised_targets(), check_seq_nums() and current_phase.            *)
Report(r) ==
  /\ \/ cpc[r] = "round" /\ ~added_clock[r] /\ woken' = woken
     \/ /\ cpc[r] = "addGet" /\ todo[r] = {}
        /\ woken' = [woken EXCEPT ![r] = TRUE]
  /\ added_clock' = [added_clock EXCEPT ![r] = FALSE]
  /\ raised_clocks' = [raised_clocks EXCEPT ![r] = {}]
  /\ seqMax' = [c \in Comms |-> IF c \in RaisedGids(r)
                                THEN KvdbMax(seqMax[c], seq[r][c]) ELSE seqMax[c]]
  /\ tally' = [converged |-> tally.converged \cup
                               (IF check_seq_nums(r) THEN {r} ELSE {}),
               in_cs |-> tally.in_cs \cup
                           (IF current_phase[r] = "IN_CS" THEN {r} ELSE {}),
               raised |-> tally.raised \cup ({r} \X RaisedGids(r))]
  /\ cpc' = [cpc EXCEPT ![r] = "roundWait"]
  /\ UNCHANGED <<prog, ip, apc, current_phase, clocks, seq, target, todo,
                 rounds_without_raise, ckpts, ckpt_pending, shareMax, published, mpiVars>>

(* dmtcp_global_barrier("MANA-PRESUSPEND-..."): the round's reports are    *)
(* complete, and the next round has keys of its own.                       *)
RoundBarrier ==
  /\ \A r \in Ranks : cpc[r] = "roundWait"
  /\ cpc' = [r \in Ranks |-> "decide"]
  /\ published' = tally
  /\ tally' = NoReports
  /\ UNCHANGED <<prog, appVars, clockVars, todo, rounds_without_raise, ckpts,
                 ckpt_pending, shareMax, seqMax, mpiVars>>

(* A mutant of DecideDrained: the rank looks at its own report only.       *)
DecideDrainedAlone(r) ==
  /\ cpc[r] = "decide"
  /\ r \in published.converged \ published.in_cs
  /\ published.raised = {}
  /\ cpc' = [cpc EXCEPT ![r] = "drained"]
  /\ UNCHANGED <<prog, appVars, clockVars, todo, rounds_without_raise, ckpts,
                 ckpt_pending, kvdbVars, mpiVars>>

(* try_drain_mpi_collective() returns true.                                *)
DecideDrained(r) ==
  /\ cpc[r] = "decide"
  /\ DrainEnds(published)
  /\ cpc' = [cpc EXCEPT ![r] = "drained"]
  /\ UNCHANGED <<prog, appVars, clockVars, todo, rounds_without_raise, ckpts,
                 ckpt_pending, kvdbVars, mpiVars>>

(* A mutant of DecideRaised: the raised targets are not downloaded.        *)
DecideRaisedNoDownload(r) ==
  /\ cpc[r] = "decide"
  /\ published.raised # {}
  /\ cpc' = [cpc EXCEPT ![r] = "raiseGet"]
  /\ todo' = [todo EXCEPT ![r] = {}]
  /\ rounds_without_raise' = [rounds_without_raise EXCEPT ![r] = 0]
  /\ UNCHANGED <<prog, appVars, clockVars, ckpts, ckpt_pending, kvdbVars, mpiVars>>

(* The clocks download_raised_targets() goes over: all, if the round's     *)
(* list is not shorter than the clocks.                                    *)
RaisedTodo(r) ==
  IF Cardinality(published.raised) >= Cardinality(clocks[r])
  THEN clocks[r]
  ELSE {c \in clocks[r] : \E q \in Ranks : <<q, c>> \in published.raised}

(* Some rank raised a target: the raised targets are downloaded, under the *)
(* lock.                                                                   *)
DecideRaised(r) ==
  /\ cpc[r] = "decide"
  /\ published.raised # {}
  /\ cpc' = [cpc EXCEPT ![r] = "raiseGet"]
  /\ todo' = [todo EXCEPT ![r] = RaisedTodo(r)]
  /\ rounds_without_raise' = [rounds_without_raise EXCEPT ![r] = 0]
  /\ UNCHANGED <<prog, appVars, clockVars, ckpts, ckpt_pending, kvdbVars, mpiVars>>

(* A mutant of DecideAgain: the rounds are not counted.                    *)
DecideAgainForever(r) ==
  /\ cpc[r] = "decide"
  /\ ~DrainEnds(published)
  /\ published.raised = {}
  /\ cpc' = [cpc EXCEPT ![r] = "round"]
  /\ UNCHANGED <<prog, appVars, clockVars, todo, rounds_without_raise, ckpts,
                 ckpt_pending, kvdbVars, mpiVars>>

(* No rank raised a target: the next round, or the attempt has failed.     *)
DecideAgain(r) ==
  /\ cpc[r] = "decide"
  /\ ~DrainEnds(published)
  /\ published.raised = {}
  /\ rounds_without_raise' = [rounds_without_raise EXCEPT ![r] = @ + 1]
  /\ cpc' = [cpc EXCEPT ![r] = IF rounds_without_raise[r] + 1 < MAX_DRAIN_ROUNDS
                               THEN "round" ELSE "failed"]
  /\ UNCHANGED <<prog, appVars, clockVars, todo, ckpts, ckpt_pending, kvdbVars, mpiVars>>

(* A mutant of GiveUp: the application stays stopped between attempts.     *)
GiveUpStillPending(r) ==
  /\ cpc[r] = "failed"
  /\ cpc' = [cpc EXCEPT ![r] = "pause"]
  /\ UNCHANGED <<prog, appVars, clockVars, todo, rounds_without_raise, ckpts, ckpt_pending,
                 kvdbVars, mpiVars>>

(* The attempt failed: the application may go on until the next attempt,   *)
(* which starts after sleep(1).                                            *)
GiveUp(r) ==
  /\ cpc[r] = "failed"
  /\ cpc' = [cpc EXCEPT ![r] = "pause"]
  /\ ckpt_pending' = [ckpt_pending EXCEPT ![r] = FALSE]
  /\ UNCHANGED <<prog, appVars, clockVars, todo, rounds_without_raise, ckpts, kvdbVars,
                 mpiVars>>

(* The guard closes once no application thread is in the lower half.       *)
CloseLowerHalf(r) ==
  /\ cpc[r] = "drained"
  /\ apc[r] \notin {"inCall", "testing"}
  /\ cpc' = [cpc EXCEPT ![r] = "closed"]
  /\ UNCHANGED <<prog, appVars, clockVars, todo, rounds_without_raise, ckpts,
                 ckpt_pending, kvdbVars, mpiVars>>

(* One pass of complete_comm_free_barriers().                              *)
CompleteFree(r, c) == cpc[r] = "closed" /\ FinishFree(r, c)

(* The rank's non-blocking collectives and MPI_Comm_free barriers have all *)
(* completed: complete_pending_nonblocking_collectives() and               *)
(* complete_comm_free_barriers() return.                                   *)
Quiesce(r) ==
  /\ cpc[r] = "closed"
  /\ pending_frees[r] = {}
  /\ \A c \in Comms : r \in Members[c] => AllStarted(r, c)
  /\ cpc' = [cpc EXCEPT ![r] = "quiet"]
  /\ UNCHANGED <<prog, appVars, clockVars, todo, rounds_without_raise, ckpts,
                 ckpt_pending, kvdbVars, mpiVars>>

(* DMTCP suspends every process and writes the images.                     *)
Suspend ==
  /\ \A r \in Ranks : cpc[r] = "quiet"
  /\ cpc' = [r \in Ranks |-> "suspended"]
  /\ UNCHANGED <<prog, appVars, clockVars, todo, rounds_without_raise, ckpts,
                 ckpt_pending, kvdbVars, mpiVars>>

(* The job ends and restarts from the images: the upper halves are as they *)
(* were, and the MPI library is new.                                       *)
Restart ==
  /\ \A r \in Ranks : cpc[r] = "suspended"
  /\ started' = [r \in Ranks |-> [c \in Comms |-> 0]]
  /\ creating' = {}
  /\ freeing' = {}
  /\ UNCHANGED <<prog, appVars, clockVars, drainVars, kvdbVars, pending_frees>>

(* seq_num_reset() at DMTCP_EVENT_RESUME or DMTCP_EVENT_RESTART, which     *)
(* each rank handles by itself.                                            *)
Resume(r) ==
  /\ cpc[r] = "suspended"
  /\ cpc' = [cpc EXCEPT ![r] = "run"]
  /\ ckpt_pending' = [ckpt_pending EXCEPT ![r] = FALSE]
  /\ UNCHANGED <<prog, appVars, clockVars, todo, rounds_without_raise, ckpts, kvdbVars,
                 mpiVars>>

(* The job is over: every program ended and no more checkpoint comes.      *)
ProgramDone(r) == apc[r] = "idle" /\ ip[r] > Len(prog[r])
JobDone ==
  /\ \A r \in Ranks : ProgramDone(r) /\ cpc[r] = "run"
  /\ ckpts = MaxCkpts
  /\ UNCHANGED vars

-----------------------------------------------------------------------------
App(r) ==
  \/ BeginWait(r) \/ SpinBegin(r) \/ Begin(r) \/ StartCall(r) \/ ReturnCall(r)
  \/ AddCommClock(r) \/ FinishReady(r) \/ FinishWait(r) \/ SpinFinish(r)
  \/ FinishPass(r) \/ EnterTest(r) \/ LeaveTest(r) \/ WaitDone(r)
  \/ \E c \in Comms : TestFree(r, c)

Drain(r) ==
  \/ ShareUpload(r) \/ DownloadDone(r) \/ RoundAdded(r) \/ Report(r)
  \/ DecideDrained(r) \/ DecideRaised(r) \/ DecideAgain(r) \/ GiveUp(r)
  \/ CloseLowerHalf(r) \/ Quiesce(r) \/ Resume(r)
  \/ \E c \in Comms : DownloadTarget(r, c) \/ CompleteFree(r, c)

Barrier == ShareBarrier \/ RoundBarrier \/ Suspend

Next ==
  \/ \E r \in Ranks : App(r) \/ Drain(r)
  \/ Barrier \/ RequestCkpt \/ Restart \/ JobDone

Spec == Init /\ [][Next]_vars

(* The checkpoint thread and the coordinator never stop.  An application   *)
(* thread that needs seq_num_lock, or that may go on only between two      *)
(* attempts, gets its turn: the mutex is granted, and the pause of one     *)
(* second between attempts is long enough for a spinning thread to see     *)
(* that ckpt_pending is false and to go on.                                *)
LeaveSpin(r) == ~ckpt_pending[r] /\ (SpinBegin(r) \/ SpinFinish(r))
Fairness ==
  /\ WF_vars(Barrier)
  /\ \A r \in Ranks :
       /\ WF_vars(Drain(r))
       /\ WF_vars(App(r))
       /\ SF_vars(LeaveSpin(r))
       /\ SF_vars(Begin(r) \/ AddCommClock(r) \/ FinishPass(r))

FairSpec == Spec /\ Fairness

-----------------------------------------------------------------------------
(* Properties.                                                             *)

(* From the end of the drain on some rank until the images are written:    *)
(* the members that have a clock for a communicator made the same number   *)
(* of collective calls on it, and no rank is in a collective call (the     *)
(* comment at make_gid() in virtual_id.cpp: "all members made the same     *)
(* number of calls on the communicator").                                  *)
ConsistentCut ==
  (\E r \in Ranks : cpc[r] \in Drained) =>
    /\ \A p, q \in Ranks : \A c \in clocks[p] \cap clocks[q] : seq[p][c] = seq[q][c]
    /\ \A r \in Ranks : current_phase[r] # "IN_CS"

(* In the images no collective, no creation and no MPI_Comm_free barrier   *)
(* is left that only some members started, so a restart with a new MPI     *)
(* library loses none (complete_pending_nonblocking_collectives(): "all    *)
(* ranks have then initiated the same collectives").                       *)
NothingHalfStarted ==
  (\E r \in Ranks : cpc[r] = "quiet") =>
    \A c \in Comms :
      /\ \A p, q \in Members[c] : started[p][c] = started[q][c]
      /\ \A p, q \in Members[c] : <<p, c>> \in creating <=> <<q, c>> \in creating
      /\ \A p, q \in Members[c] : <<p, c>> \in freeing <=> <<q, c>> \in freeing

(* All ranks come to the same decision in each round: none starts a new    *)
(* attempt, or ends the drain, while another goes on with the old one.     *)
SameDecision ==
  \A p, q \in Ranks :
    /\ cpc[p] \in {"failed", "pause", "shareWait"} =>
         cpc[q] \notin {"shareGet", "round", "addGet", "roundWait", "raiseGet"} \cup Drained
    /\ cpc[p] \in Drained => cpc[q] \in Drained \cup {"decide"}

(* The drain implements CollectiveCut: the barrier of the round that ends  *)
(* the drain stops all ranks at once, at a consistent cut, although each   *)
(* rank learns of it later and by itself; from then on no rank enters a    *)
(* collective call until its seq_num_reset().                              *)
StoppedRanks ==
  IF DrainEnds(published) /\ \A q \in Ranks : cpc[q] \in Drained \cup {"decide"}
  THEN Ranks ELSE {r \in Ranks : cpc[r] = "suspended"}
Cut == INSTANCE CollectiveCut WITH
         calls <- seq, comms <- clocks, stopped <- StoppedRanks,
         inside <- {r \in Ranks : current_phase[r] = "IN_CS"}
ImplementsCut == Cut!Spec

-----------------------------------------------------------------------------
(* Why ConsistentCut holds: an inductive invariant.                        *)

(* The attempt's database is shared, and the attempt has not failed.       *)
Attempt == {"shareGet", "round", "addGet", "roundWait", "decide", "raiseGet"} \cup Drained

(* Nothing is left for this rank to do, and it cannot enter a call.        *)
Quiet(r) ==
  /\ check_seq_nums(r)
  /\ current_phase[r] # "IN_CS"
  /\ raised_clocks[r] = {}
  /\ ~added_clock[r]

(* During an attempt the application thread knows of it.                   *)
PendingInv ==
  \A r \in Ranks :
    cpc[r] \in {"shareWait", "failed", "suspended"} \cup Attempt => ckpt_pending[r]

(* current_phase tells whether the thread is in a collective call.         *)
PhaseInv ==
  \A r \in Ranks :
    current_phase[r] = "IN_CS" <=> apc[r] \in {"entering", "inCall", "leaving"}

(* A process has clocks only of communicators it is a member of.           *)
MemberInv == \A r \in Ranks : \A c \in clocks[r] : r \in Members[c]

(* The database knows of every call, or the next round tells it.           *)
UploadInv ==
  \A r \in Ranks : \A c \in clocks[r] :
    /\ cpc[r] = "shareWait" => seq[r][c] <= shareMax[c]
    /\ cpc[r] = "shareGet" => seq[r][c] <= seqMax[c]
    /\ cpc[r] \in Attempt /\ Cardinality(Members[c]) > 1 =>
         seq[r][c] = 0 \/ seq[r][c] <= seqMax[c] \/ c \in raised_clocks[r]

(* A target is a number some member uploaded, or one the rank has reached. *)
TargetInv ==
  \A r \in Ranks : \A c \in clocks[r] :
    cpc[r] \in Attempt /\ ~(cpc[r] = "shareGet" /\ c \in todo[r]) =>
      target[r][c] <= seqMax[c] \/ target[r][c] <= seq[r][c]

(* A target below the database's number will be downloaded again.          *)
StaleInv ==
  \A r \in Ranks : \A c \in clocks[r] :
    cpc[r] \in Attempt /\ target[r][c] < seqMax[c] =>
      \/ added_clock[r] /\ cpc[r] # "addGet"
      \/ cpc[r] \in {"shareGet", "addGet", "raiseGet"} /\ c \in todo[r]
      \/ cpc[r] = "decide" /\ \E q \in Ranks : <<q, c>> \in published.raised
      \/ \E q \in Ranks : <<q, c>> \in tally.raised

(* Only ranks that wait at the round's barrier have reported in it, and    *)
(* one that reported to be quiet still is.                                 *)
ReportInv ==
  \A r \in Ranks :
    /\ r \in tally.converged \/ (\E c \in Comms : <<r, c>> \in tally.raised) =>
         cpc[r] = "roundWait"
    /\ r \in tally.converged \ tally.in_cs => Quiet(r)

(* A round that ends the drain does so for all ranks, and all stay quiet.  *)
DrainedInv ==
  \A r \in Ranks :
    /\ cpc[r] \in Drained => DrainEnds(published)
    /\ cpc[r] \in Drained \cup {"decide"} /\ DrainEnds(published) =>
         Quiet(r) /\ \A q \in Ranks : cpc[q] \in Drained \cup {"decide"}
    /\ cpc[r] = "suspended" => Quiet(r)

CutInv ==
  /\ PendingInv /\ PhaseInv /\ MemberInv /\ UploadInv /\ TargetInv /\ StaleInv
  /\ ReportInv /\ DrainedInv

-----------------------------------------------------------------------------
(* Why SameDecision holds: an inductive invariant.                         *)

(* In a round of the attempt, before its barrier.                          *)
InRound == {"shareGet", "round", "addGet", "roundWait", "raiseGet"}

(* Where the other ranks may be, given where rank p is.                    *)
TogetherInv ==
  \A p, q \in Ranks :
    /\ cpc[p] \in {"run", "suspended"} => cpc[q] \in {"run", "suspended"}
    /\ cpc[p] = "presuspend" => cpc[q] \in {"presuspend", "shareWait"}
    /\ cpc[p] = "shareWait" =>
         cpc[q] \in {"presuspend", "shareWait", "failed", "pause", "decide"}
    /\ cpc[p] \in {"failed", "pause"} => cpc[q] \in {"shareWait", "failed", "pause", "decide"}
    /\ cpc[p] \in InRound => cpc[q] \in InRound \cup {"decide"}
    /\ cpc[p] \in Drained => cpc[q] \in Drained \cup {"decide"}

(* Ranks at the same point of the round counted the same rounds without a  *)
(* raise, and one that has yet to decide will follow the one that has.     *)
CountInv ==
  \A p, q \in Ranks :
    /\ cpc[p] = "decide" /\ cpc[q] = "decide" =>
         rounds_without_raise[p] = rounds_without_raise[q]
    /\ cpc[p] \in InRound /\ cpc[q] \in InRound =>
         rounds_without_raise[p] = rounds_without_raise[q]
    /\ cpc[p] \in InRound /\ cpc[q] = "decide" =>
         /\ ~DrainEnds(published)
         /\ published.raised # {} => rounds_without_raise[p] = 0
         /\ published.raised = {} => /\ rounds_without_raise[p] = rounds_without_raise[q] + 1
                                    /\ rounds_without_raise[p] < MAX_DRAIN_ROUNDS
    /\ cpc[p] \in {"failed", "pause", "shareWait"} /\ cpc[q] = "decide" =>
         /\ ~DrainEnds(published) /\ published.raised = {}
         /\ rounds_without_raise[q] + 1 >= MAX_DRAIN_ROUNDS
    /\ cpc[p] \in Drained /\ cpc[q] = "decide" => DrainEnds(published)

RoundInv == TogetherInv /\ CountInv

-----------------------------------------------------------------------------
(* Liveness.                                                               *)

(* Every checkpoint the coordinator asks for is taken, whatever collective *)
(* calls the programs were in (drain_mpi_collective() returns, also when   *)
(* attempts fail, and the calls it then waits for complete).               *)
DrainTerminates ==
  \A r \in Ranks : cpc[r] = "presuspend" ~> cpc[r] = "suspended"

(* Checkpoints never make the programs hang: every program ends.           *)
ProgramsEnd == <>[](\A r \in Ranks : ProgramDone(r))

=============================================================================
