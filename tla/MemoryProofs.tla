---------------------------- MODULE MemoryProofs ----------------------------
(***************************************************************************)
(* The locks around a change of the memory map (MemLocks), for any number  *)
(* of threads: LockInv is inductive, and LocksRight follows from it.  The  *)
(* file descriptors (RestartFds), for any numbers and limits: FdInv is     *)
(* inductive, and FdsRestored follows from it.  The memory (MemArena), for *)
(* any number of pages, any stack and any number of tries: ArenaInv is     *)
(* inductive, and ListsMatchMemory and ImageIsUpperHalf follow from it;    *)
(* RefusedForCause follows from what each try does to the free list.       *)
(***************************************************************************)
EXTENDS MemArena, MemLocks, RestartFds, TLAPS, FiniteSetTheorems, WellFoundedInduction

LEMMA InitLockInv == Init => LockInv
<1> SUFFICES ASSUME Init PROVE LockInv
  OBVIOUS
<1>1. ~writer /\ writer \in BOOLEAN /\ lock \in [Threads -> BOOLEAN]
  BY Zenon DEF Init
<1>2. TypeOK
  BY <1>1, SMT DEF Init, TypeOK
<1>3. LockBalanced /\ InLowerHalf = {}
  BY SMT DEF Init, LockBalanced, InLowerHalf, Threads
<1>4. QED
  BY <1>1, <1>2, <1>3, SMT DEF Init, LockInv

(* A step of a call of thread t keeps LockInv.                             *)
LEMMA CallKeeps ==
  ASSUME LockInv, NEW t \in Threads,
         Call(t) \/ CallFromLibc(t) \/ GoesOn(t)
  PROVE  LockInv'
<1> USE LockConstants DEF LockInv, TypeOK, LockBalanced, InLowerHalf, Threads, Goes
<1>1. CASE Call(t)
  <2>1. CASE mana_state = "RUNNING"
    <3>1. lock' = [lock EXCEPT ![t] = TRUE]
      BY <1>1, <2>1, Zenon DEF Call, ByState
    <3>2. QED
      BY <1>1, <2>1, <3>1, SMT DEF Call, ByState
  <2>2. CASE mana_state # "RUNNING"
    <3>1. lock' = [lock EXCEPT ![t] = FALSE]
      BY <1>1, <2>2, Zenon DEF Call, ByState
    <3>2. QED
      BY <1>1, <2>2, <3>1, SMT DEF Call, ByState
  <2>3. QED
    BY <2>1, <2>2
<1>2. CASE CallFromLibc(t)
  BY <1>2, SMT DEF CallFromLibc
<1>3. CASE DisableCkpt(t)
  BY <1>3, SMT DEF DisableCkpt, NewReaders
<1>4. CASE BlockSignals(t)
  BY <1>4, SMT DEF BlockSignals, Masked
<1>5. CASE LockWrappers(t)
  BY <1>5, SMT DEF LockWrappers
<1>6. CASE UnlockWrappers(t)
  BY <1>6, SMT DEF UnlockWrappers
<1>7. CASE RestoreSignals(t)
  BY <1>7, SMT DEF RestoreSignals
<1>8. CASE EnableCkpt(t)
  BY <1>8, SMT DEF EnableCkpt, WasTaken
<1> HIDE DEF LockInv, TypeOK, LockBalanced, InLowerHalf, Threads, At
<1>9. QED
  BY <1>1, <1>2, <1>3, <1>4, <1>5, <1>6, <1>7, <1>8 DEF GoesOn

(* So does a step of the checkpoint.                                       *)
LEMMA CheckpointKeeps ==
  ASSUME LockInv, Presuspend \/ CheckpointGoesOn
  PROVE  LockInv'
<1> USE LockConstants DEF LockInv, TypeOK, LockBalanced, InLowerHalf, Threads, At
<1>1. CASE Presuspend
  BY <1>1, SMT DEF Presuspend
<1>2. CASE TakeLock
  BY <1>2, SMT DEF TakeLock
<1>3. ASSUME NEW t \in Apps, Stop(t) PROVE LockInv'
  BY <1>3, SMT DEF Stop
<1>4. CASE Suspended
  BY <1>4, SMT DEF Suspended
<1>5. CASE Resume
  BY <1>5, SMT DEF Resume
<1>6. CASE Restart
  BY <1>6, SMT DEF Restart
<1>7. CASE ResumeThreads
  <2>1. ~writer' /\ writer' \in BOOLEAN
    BY <1>7, Zenon DEF ResumeThreads
  <2>2. QED
    BY <1>7, <2>1, SMT DEF ResumeThreads
<1> HIDE DEF LockInv, TypeOK, LockBalanced, InLowerHalf, Threads, At
<1>8. QED
  BY <1>1, <1>2, <1>3, <1>4, <1>5, <1>6, <1>7 DEF CheckpointGoesOn

(* LockInv holds in every state.                                           *)
THEOREM LockInvariant == Spec => []LockInv
<1>1. LockInv /\ [Next]_vars => LockInv'
  <2> SUFFICES ASSUME LockInv, [Next]_vars PROVE LockInv'
    OBVIOUS
  <2>1. CASE Next
    BY <2>1, CallKeeps, CheckpointKeeps DEF Next
  <2>2. CASE UNCHANGED vars
    BY <2>2, SMT DEF vars, LockInv, TypeOK, LockBalanced, InLowerHalf
  <2>3. QED
    BY <2>1, <2>2
<1>2. QED
  BY <1>1, InitLockInv, PTL DEF Spec

(* However many threads map memory during checkpoints and restarts, none   *)
(* is suspended in the lower half or with DMTCP's lock, and each releases  *)
(* the lock that it has taken.                                             *)
THEOREM LocksAreRight == Spec => []LocksRight
<1>1. LockInv => LocksRight
  <2> SUFFICES ASSUME LockInv PROVE LocksRight
    OBVIOUS
  <2>1. stopped \cap InLowerHalf = {}
    BY SMT DEF LockInv
  <2>2. stopped \cap readers = {}
    BY SMT DEF LockInv, TypeOK
  <2>3. owner \notin stopped
    BY LockConstants, SMT DEF LockInv, TypeOK, InLowerHalf, Threads
  <2>4. QED
    BY <2>1, <2>2, <2>3 DEF LocksRight, SuspendedOutside, LockInv
<1>2. QED
  BY <1>1, LockInvariant, PTL

-----------------------------------------------------------------------------
(* The file descriptors.  From here on Zenon proves the leaves that name   *)
(* no prover.                                                              *)
USE Zenon

LEMMA InitFds ==
  ASSUME FdInit
  PROVE  FdInv
<1>1. /\ fdPhase = "run" /\ fdImage = [n \in {} |-> ""] /\ files = "none"
      /\ fd = With([n \in {FirstNumber} |-> "lower"], {Max(Protected)}, "dmtcp")
  BY DEF FdInit
<1>2. \A n \in DOMAIN fd : fd[n] \in {"lower", "dmtcp"}
  <2>1. PICK f : f = [n \in {FirstNumber} |-> "lower"]
    OBVIOUS
  <2>2. fd = With(f, {Max(Protected)}, "dmtcp")
    BY <1>1, <2>1
  <2>3. \A n \in DOMAIN f : f[n] = "lower"
    BY <2>1
  <2>4. \A n \in DOMAIN fd :
           \/ n \in {Max(Protected)} /\ fd[n] = "dmtcp"
           \/ n \in DOMAIN f /\ n \notin {Max(Protected)} /\ fd[n] = f[n]
    BY <2>2 DEF With
  <2> QED
    BY <2>3, <2>4
<1>3. \A n \in DOMAIN fd : fd[n] \notin {"program", "ckptfile", "placeholder"}
  BY <1>2, SMT
<1>4. DOMAIN fdImage = {}
  BY <1>1
<1>5. fdPhase \notin {"open", "header", "start", "init", "restored"}
  BY <1>1, SMT
<1> QED
  BY <1>3, <1>4, <1>5 DEF FdInv, Placeholders, Of

(* The phases in which the process goes on that made the checkpoint.       *)
RunPhases == {"run", "presuspend", "open", "header", "image"}
(* The image holds what the upper half opened, at numbers in the header.   *)
ImageRight ==
  /\ \A n \in DOMAIN fdImage : fdImage[n] \in {"program", "ckptfile"} /\ n \notin Protected
  /\ files = "whole" => DOMAIN fdImage \subseteq header
(* The upper half never has DMTCP's numbers.                               *)
TableRight == \A n \in DOMAIN fd : fd[n] \in {"program", "ckptfile"} => n \notin Protected

LEMMA FdParts ==
  ASSUME FdInv
  PROVE  /\ TableRight /\ ImageRight
         /\ fdPhase \in RunPhases \/ ~reserving =>
              \A n \in DOMAIN fd : fd[n] # "placeholder"
  BY DEF FdInv, TableRight, ImageRight, Placeholders, Of, RunPhases

LEMMA RunKeeps ==
  ASSUME fdPhase' \in RunPhases, TableRight', ImageRight',
         fdPhase' = "open" => files' # "whole", fdPhase' = "header" => header' = Listed',
         \A n \in DOMAIN fd' : fd'[n] # "placeholder"
  PROVE  FdInv'
<1>1. fdPhase' \notin {"start", "init", "restored"}
  BY SMT DEF RunPhases
<1> QED
  BY <1>1 DEF FdInv, TableRight, ImageRight, Placeholders, Of

LEMMA ProgramKeeps ==
  ASSUME FdInv, \/ ProgramOpens
                \/ \E n \in Numbers : ProgramDups(n) \/ ProgramCloses(n)
  PROVE  FdInv'
<1>1. /\ ProgramRuns
      /\ UNCHANGED <<fdPhase, limit, header, fdImage, files, reserving, warned, closed, fdCkpts>>
  BY DEF ProgramOpens, ProgramDups, ProgramCloses, disk
<1>2. fdPhase \in RunPhases /\ fdPhase # "open" /\ fdPhase # "header"
  BY <1>1, SMT DEF ProgramRuns, RunPhases
<1>3. TableRight /\ ImageRight /\ \A n \in DOMAIN fd : fd[n] # "placeholder"
  BY <1>2, FdParts
<1>4. ASSUME NEW n, n \notin Protected, fd' = With(fd, {n}, "program")
      PROVE  TableRight' /\ \A m \in DOMAIN fd' : fd'[m] # "placeholder"
  <2>1. \A m \in DOMAIN fd' : (m = n /\ fd'[m] = "program") \/ (m \in DOMAIN fd /\ fd'[m] = fd[m])
    BY <1>4 DEF With
  <2> QED
    BY <1>3, <1>4, <2>1, SMT DEF TableRight
<1>5. ASSUME NEW n, fd' = Without(fd, {n})
      PROVE  TableRight' /\ \A m \in DOMAIN fd' : fd'[m] # "placeholder"
  <2>1. \A m \in DOMAIN fd' : m \in DOMAIN fd /\ fd'[m] = fd[m]
    BY <1>5 DEF Without
  <2> QED
    BY <1>3, <2>1 DEF TableRight
<1>6. TableRight' /\ \A m \in DOMAIN fd' : fd'[m] # "placeholder"
  BY <1>4, <1>5 DEF ProgramOpens, ProgramDups, ProgramCloses
<1>7. ImageRight'
  BY <1>1, <1>3 DEF ImageRight
<1>8. fdPhase' \in RunPhases /\ fdPhase' # "open" /\ fdPhase' # "header"
  BY <1>1, <1>2
<1> QED
  BY <1>6, <1>7, <1>8, RunKeeps

LEMMA SaveKeeps ==
  ASSUME FdInv, openCkptFileFds \/ OpenHeader \/ save_mana_header \/ WriteImage
  PROVE  FdInv'
<1>1. fdPhase \in RunPhases /\ fdPhase' \in RunPhases
  BY SMT DEF openCkptFileFds, OpenHeader, save_mana_header, WriteImage, RunPhases
<1>2. TableRight /\ ImageRight /\ \A n \in DOMAIN fd : fd[n] # "placeholder"
  BY <1>1, FdParts
<1>3. CASE openCkptFileFds
  <2>1. PICK opened \in SUBSET (Lowest(fd, limit) \ Protected) :
          fd' = With(fd, opened, "ckptfile")
    BY <1>3 DEF openCkptFileFds
  <2>2. \A m \in DOMAIN fd' : \/ m \notin Protected /\ fd'[m] = "ckptfile"
                              \/ m \in DOMAIN fd /\ fd'[m] = fd[m]
    BY <2>1 DEF With
  <2>3. TableRight' /\ \A m \in DOMAIN fd' : fd'[m] # "placeholder"
    BY <1>2, <2>2, SMT DEF TableRight
  <2>4. ImageRight'
    BY <1>2, <1>3 DEF ImageRight, openCkptFileFds, disk
  <2>5. fdPhase' # "open" /\ fdPhase' # "header"
    BY <1>3, SMT DEF openCkptFileFds
  <2> QED
    BY <1>1, <2>3, <2>4, <2>5, RunKeeps
<1>4. CASE OpenHeader
  <2>1. TableRight' /\ \A m \in DOMAIN fd' : fd'[m] # "placeholder"
    BY <1>2, <1>4 DEF TableRight, OpenHeader
  <2>2. files' # "whole" /\ fdPhase' # "header" /\ fdImage' = fdImage
    BY <1>4, SMT DEF OpenHeader
  <2>3. ImageRight'
    BY <1>2, <2>2 DEF ImageRight
  <2> QED
    BY <1>1, <2>1, <2>2, <2>3, RunKeeps
<1>5. CASE save_mana_header
  <2>1. TableRight' /\ \A m \in DOMAIN fd' : fd'[m] # "placeholder"
    BY <1>2, <1>5 DEF TableRight, save_mana_header
  <2>2. header' = Listed' /\ fdImage' = fdImage /\ files' # "whole"
    BY <1>5 DEF FdInv, save_mana_header, Listed
  <2>3. ImageRight'
    BY <1>2, <2>2 DEF ImageRight
  <2> QED
    BY <1>1, <2>1, <2>2, <2>3, RunKeeps
<1>6. CASE WriteImage
  <2>1. TableRight' /\ \A m \in DOMAIN fd' : fd'[m] # "placeholder"
    BY <1>2, <1>6 DEF TableRight, WriteImage
  <2>2. /\ header' = DOMAIN fd \ Protected
        /\ fdImage' = Without(fd, DOMAIN fd \ (Of(fd, "program") \cup Of(fd, "ckptfile")))
    BY <1>6 DEF FdInv, WriteImage, Listed
  <2>3. \A m \in DOMAIN fdImage' :
          m \in DOMAIN fd /\ fdImage'[m] = fd[m] /\ fd[m] \in {"program", "ckptfile"}
    BY <2>2 DEF Without, Of
  <2>4. ImageRight'
    BY <1>2, <2>2, <2>3 DEF ImageRight, TableRight
  <2>5. fdPhase' # "open" /\ fdPhase' # "header"
    BY <1>6, SMT DEF WriteImage
  <2> QED
    BY <1>1, <2>1, <2>4, <2>5, RunKeeps
<1> QED
  BY <1>3, <1>4, <1>5, <1>6

LEMMA RunningKeeps ==
  ASSUME FdInv, Running
  PROVE  FdInv'
<1>1. /\ fdPhase' \in RunPhases /\ fdPhase' # "open" /\ fdPhase' # "header"
      /\ fd' = Without(fd, Of(fd, "ckptfile") \cup closeReservedFds)
      /\ UNCHANGED <<header, fdImage, files>>
  BY SMT DEF Running, RunPhases, disk
<1>2. TableRight /\ ImageRight
  BY FdParts
<1>3. \A m \in DOMAIN fd' : m \in DOMAIN fd /\ fd'[m] = fd[m] /\ m \notin closeReservedFds
  BY <1>1 DEF Without
<1>4. \A m \in DOMAIN fd' : fd'[m] # "placeholder"
  <2>1. CASE reserving
    BY <1>3, <2>1 DEF closeReservedFds, Placeholders, Of
  <2>2. CASE ~reserving
    BY <1>3, <2>2, FdParts
  <2> QED
    BY <2>1, <2>2
<1>5. TableRight' /\ ImageRight'
  BY <1>1, <1>2, <1>3 DEF TableRight, ImageRight
<1> QED
  BY <1>1, <1>4, <1>5, RunKeeps

LEMMA RestartFdsKeeps ==
  ASSUME FdInv, NewProcess
  PROVE  FdInv'
<1>1. fdPhase' = "start" /\ fdPhase' \notin {"open", "header", "init", "restored"}
  BY SMT DEF NewProcess
<1>2. UNCHANGED <<header, fdImage, files>>
  BY DEF NewProcess, disk
<1>3. PICK numbers \in Inherited : fd' = With([n \in {} |-> ""], numbers, "launcher")
  BY DEF NewProcess
<1>4. \A n \in DOMAIN fd' : fd'[n] = "launcher"
  BY <1>3 DEF With
<1>5. \A n \in DOMAIN fd' : fd'[n] \notin {"program", "ckptfile", "placeholder"}
  BY <1>4, SMT
<1>6. TableRight' /\ Placeholders' = {}
  BY <1>5 DEF TableRight, Placeholders, Of
<1>7. ImageRight'
  BY <1>2, FdParts DEF ImageRight
<1> QED
  BY <1>1, <1>4, <1>6, <1>7 DEF FdInv, TableRight, ImageRight

(* reserve_restart_fds leaves no saved number to the lower half, or warns. *)
LEMMA StartKeeps ==
  ASSUME FdInv, Start
  PROVE  FdInv'
<1>0. PICK list \in Reserved : reserve_restart_fds(Wanted(list))
  BY DEF Start
<1> DEFINE fds == Wanted(list)
           enough == Cardinality(FreeBelow(fd, fds)) >= Room
           newLimit == IF fds = {} \/ ~enough THEN limit ELSE RaisedLimit(Max(fds))
           memfd == IF fds = {} \/ ~enough THEN {} ELSE Lowest(fd, newLimit)
           copies == IF memfd = {} THEN {} ELSE {n \in fds : n < newLimit}
<1>1. /\ fdPhase = "start" /\ fdPhase' = "init"
      /\ fdPhase' \notin {"run", "presuspend", "open", "header", "image", "start", "restored"}
      /\ UNCHANGED <<header, fdImage, files>>
  BY SMT DEF Start, disk
<1>2. /\ limit' = newLimit
      /\ warned' = (fds # {} /\ ~enough)
      /\ reserving' = (memfd # {})
      /\ fd' = With(fd, memfd \cup copies, "placeholder")
  BY <1>0 DEF reserve_restart_fds
<1>3. \A n \in DOMAIN fd : fd[n] = "launcher"
  BY <1>1 DEF FdInv
<1>4. /\ memfd = {} => copies = {}
      /\ memfd # {} => copies = {n \in fds : n < limit'}
      /\ fds # {} /\ enough => memfd = Lowest(fd, limit')
  BY <1>2
<1> HIDE DEF fds, newLimit, memfd, copies
<1>5. \A n \in DOMAIN fd' : fd'[n] \in {"launcher", "placeholder"}
  BY <1>2, <1>3 DEF With
<1>6. \A n \in DOMAIN fd' : fd'[n] \notin {"program", "ckptfile", "lower"}
  BY <1>5, SMT
<1>7. TableRight' /\ Of(fd', "program") = {} /\ Of(fd', "ckptfile") = {}
  BY <1>6 DEF TableRight, Of
<1>8. ImageRight'
  BY <1>1, FdParts DEF ImageRight
<1>9. ASSUME ~reserving' PROVE fd' = With(fd, {}, "placeholder") /\ Placeholders' = {}
  <2>1. memfd \cup copies = {}
    BY <1>2, <1>4, <1>9
  <2>2. fd' = With(fd, {}, "placeholder")
    BY <1>2, <2>1
  <2>3. \A n \in DOMAIN fd' : fd'[n] = "launcher"
    BY <1>3, <2>2 DEF With
  <2>4. \A n \in DOMAIN fd' : fd'[n] # "placeholder"
    BY <2>3, SMT
  <2> QED
    BY <2>2, <2>4 DEF Placeholders, Of
<1>10. ASSUME ~warned', NEW n \in header \ Protected
       PROVE  Safe(n)'
  <2>1. CASE n \in DOMAIN fd
    <3>1. n \in DOMAIN fd'
      BY <1>2, <2>1 DEF With
    <3> QED
      BY <1>6, <3>1 DEF Safe, IsOpen
  <2>2. CASE n \notin DOMAIN fd
    <3>0. n \in list
      BY <1>0 DEF Reserved
    <3>1. n \in fds
      BY <2>2, <3>0 DEF fds, Wanted, IsOpen
    <3>2. enough
      BY <1>2, <1>10, <3>1
    <3>3. memfd = Lowest(fd, limit')
      BY <1>4, <3>1, <3>2
    <3>4. CASE memfd = {}
      <4>1. DOMAIN fd' = DOMAIN fd
        <5>1. memfd \cup copies = {}
          BY <1>4, <3>4
        <5> QED
          BY <1>2, <5>1 DEF With
      <4>2. Lowest(fd', limit') = Lowest(fd, limit')
        BY <4>1 DEF Lowest
      <4>3. Of(fd', "lower") = {}
        BY <1>6 DEF Of
      <4> QED
        BY <3>3, <3>4, <4>2, <4>3 DEF Safe
    <3>5. CASE memfd # {} /\ n < limit'
      <4>1. n \in copies
        BY <1>4, <3>1, <3>5
      <4>2. n \in DOMAIN fd'
        BY <1>2, <4>1 DEF With
      <4> QED
        BY <1>6, <4>2 DEF Safe, IsOpen
    <3>6. CASE memfd # {} /\ ~(n < limit')
      <4>1. CASE n \in DOMAIN fd'
        BY <1>6, <4>1 DEF Safe, IsOpen
      <4>2. CASE n \notin DOMAIN fd'
        BY <3>6, <4>2 DEF Safe, IsOpen
      <4> QED
        BY <4>1, <4>2
    <3> QED
      BY <3>4, <3>5, <3>6
  <2> QED
    BY <2>1, <2>2
<1> QED
  BY <1>1, <1>7, <1>8, <1>9, <1>10 DEF FdInv, TableRight, ImageRight

LEMMA LowerOpensKeeps ==
  ASSUME FdInv, LowerOpens
  PROVE  FdInv'
<1>1. /\ fdPhase \in {"run", "init", "restored"} /\ fdPhase \notin {"start", "open", "header"}
      /\ UNCHANGED <<fdPhase, limit, header, fdImage, files, reserving, warned, closed, fdCkpts>>
  BY SMT DEF LowerOpens, disk
<1>2. PICK n \in Lowest(fd, limit) : fd' = With(fd, {n}, "lower")
  BY DEF LowerOpens
<1>3. n \notin DOMAIN fd /\ n < limit
  BY DEF Lowest
<1>4. \A m \in DOMAIN fd' : (m = n /\ fd'[m] = "lower") \/ (m \in DOMAIN fd /\ fd'[m] = fd[m])
  BY <1>2 DEF With
<1>5. \A m \in DOMAIN fd : m \in DOMAIN fd' /\ fd'[m] = fd[m]
  BY <1>2, <1>3 DEF With
<1>6. ASSUME NEW kind, kind # "lower"
      PROVE  Of(fd', kind) = Of(fd, kind)
  BY <1>4, <1>5, <1>6 DEF Of
<1>7. "program" # "lower" /\ "ckptfile" # "lower" /\ "placeholder" # "lower"
  BY SMT
<1>8. TableRight'
  BY <1>4, FdParts, SMT DEF TableRight
<1>9. ImageRight'
  BY <1>1, FdParts DEF ImageRight
<1>10. ASSUME fdPhase = "init", ~warned, NEW m \in header \ Protected
       PROVE  Safe(m)'
  <2>1. Safe(m)
    BY <1>10 DEF FdInv
  <2>2. Lowest(fd, limit) # {}
    OBVIOUS
  <2>3. CASE m \in DOMAIN fd /\ fd[m] # "lower"
    BY <1>5, <2>3 DEF Safe, IsOpen
  <2>4. CASE m \notin DOMAIN fd /\ ~(m < limit)
    <3>1. m # n
      BY <1>3, <2>4
    <3>2. m \notin DOMAIN fd'
      BY <1>4, <2>4, <3>1
    <3> QED
      BY <1>1, <2>4, <3>2 DEF Safe, IsOpen
  <2> QED
    BY <2>1, <2>2, <2>3, <2>4 DEF Safe, IsOpen
<1>11. Placeholders' = Placeholders
  BY <1>6, <1>7 DEF Placeholders
<1>12. fdPhase = "init" => Of(fd', "program") = {} /\ Of(fd', "ckptfile") = {}
  BY <1>6, <1>7 DEF FdInv
<1>13. fdPhase = "restored" =>
         /\ Of(fd', "program") = Of(fdImage', "program")
         /\ closed' \subseteq DOMAIN fdImage'
         /\ ~warned' => closed' \cap header' = {}
  BY <1>1, <1>6, <1>7 DEF FdInv
<1>14. fdPhase \in {"run", "presuspend", "open", "header", "image"} \/ ~reserving =>
         Placeholders = {}
  BY DEF FdInv
<1> QED
  BY <1>1, <1>8, <1>9, <1>10, <1>11, <1>12, <1>13, <1>14 DEF FdInv, TableRight, ImageRight

LEMMA RestoreFdsKeeps ==
  ASSUME FdInv, RestoreFds
  PROVE  FdInv'
<1>1. /\ fdPhase = "init" /\ fdPhase' = "restored"
      /\ fdPhase' \notin {"run", "presuspend", "open", "header", "image", "start", "init"}
      /\ UNCHANGED <<header, fdImage, files, reserving, warned>>
      /\ closed' = Of(fd, "lower") \cap DOMAIN fdImage
  BY SMT DEF RestoreFds, disk
<1>2. /\ \A n \in DOMAIN fdImage : n \in DOMAIN fd' /\ fd'[n] = fdImage[n]
      /\ \A n \in DOMAIN fd' : \/ n \in DOMAIN fdImage
                               \/ fd'[n] = "dmtcp"
                               \/ n \in DOMAIN fd /\ fd'[n] = fd[n]
  BY DEF RestoreFds
<1>3. /\ Of(fd, "program") = {} /\ Of(fd, "ckptfile") = {}
      /\ ~warned => \A n \in header \ Protected : Safe(n)
  BY <1>1 DEF FdInv
<1>4. TableRight /\ ImageRight
  BY FdParts
<1>5. \A n \in DOMAIN fd : fd[n] # "program" /\ fd[n] # "ckptfile"
  BY <1>3 DEF Of
<1>6. /\ "dmtcp" # "program" /\ "dmtcp" # "ckptfile" /\ "dmtcp" # "placeholder"
      /\ "program" # "placeholder" /\ "ckptfile" # "placeholder"
  BY SMT
<1>7. Of(fd', "program") = Of(fdImage', "program")
  BY <1>1, <1>2, <1>5, <1>6 DEF Of
<1>8. TableRight'
  BY <1>2, <1>4, <1>5, <1>6 DEF TableRight, ImageRight
<1>9. ImageRight'
  BY <1>1, <1>4 DEF ImageRight
<1>10. ASSUME ~reserving' PROVE Placeholders' = {}
  <2>1. \A n \in DOMAIN fd : fd[n] # "placeholder"
    BY <1>1, <1>10, FdParts
  <2>2. \A n \in DOMAIN fdImage : fdImage[n] # "placeholder"
    BY <1>4, <1>6 DEF ImageRight
  <2>3. \A n \in DOMAIN fd' : fd'[n] # "placeholder"
    BY <1>2, <1>6, <2>1, <2>2
  <2> QED
    BY <2>3 DEF Placeholders, Of
<1>11. ~warned' => closed' \cap header' = {}
  <2> SUFFICES ASSUME ~warned, NEW n \in Of(fd, "lower"), n \in DOMAIN fdImage, n \in header
               PROVE  FALSE
    BY <1>1
  <2>1. n \in header \ Protected
    BY <1>4 DEF ImageRight
  <2>2. Safe(n)
    BY <1>3, <2>1
  <2>3. n \in DOMAIN fd /\ fd[n] = "lower"
    BY DEF Of
  <2> QED
    BY <2>2, <2>3 DEF Safe, IsOpen
<1> QED
  BY <1>1, <1>7, <1>8, <1>9, <1>10, <1>11 DEF FdInv, TableRight, ImageRight

LEMMA FdStepKeeps ==
  ASSUME FdInv, [FdNext]_fdVars
  PROVE  FdInv'
<1>1. CASE UNCHANGED fdVars
  <2> USE <1>1 DEF fdVars
  <2>1. TableRight' /\ ImageRight' /\ Placeholders' = Placeholders
    BY FdParts DEF TableRight, ImageRight, Placeholders, Of
  <2>2. \A n : Safe(n)' <=> Safe(n)
    BY DEF Safe, IsOpen, Lowest, Of
  <2>3. Listed' = Listed
    BY DEF Listed
  <2> QED
    BY <2>1, <2>2, <2>3 DEF FdInv, TableRight, ImageRight, Of
<1>2. CASE FdNext
  BY <1>2, ProgramKeeps, LowerOpensKeeps, SaveKeeps, RunningKeeps, RestartFdsKeeps,
     StartKeeps, RestoreFdsKeeps DEF FdNext
<1> QED
  BY <1>1, <1>2

(* FdInv holds in every state, whatever numbers the program, the launcher  *)
(* and the lower half use, and whatever the limits on numbers are.         *)
THEOREM FdInvariant == FdSpec => []FdInv
<1>1. FdInit => FdInv
  BY InitFds
<1>2. FdInv /\ [FdNext]_fdVars => FdInv'
  BY FdStepKeeps
<1> QED
  BY <1>1, <1>2, PTL DEF FdSpec

(* However often the job is checkpointed, killed at any moment, between    *)
(* header and image included, and restarted: closeReservedFds leaves the   *)
(* program the descriptors of the image, no placeholder and no file of     *)
(* openCkptFileFds is left, and unless reserve_restart_fds has warned, the *)
(* restore closes none of the lower half's descriptors at a number in the  *)
(* header, and none at all if the header is of the image's checkpoint.     *)
THEOREM DescriptorsRestored == FdSpec => FdsRestored
<1> DEFINE Step == fdPhase = "restored" /\ fdPhase' = "run" =>
                     /\ Of(fd', "program") = Of(fdImage, "program")
                     /\ Of(fd', "placeholder") \cup Of(fd', "ckptfile") = {}
                     /\ ~warned => closed \cap header = {} /\ (files = "whole" => closed = {})
<1>1. ASSUME FdInv, [FdNext]_fdVars
      PROVE  [Step]_fdVars
  <2> SUFFICES ASSUME fdPhase = "restored", fdPhase' = "run"
               PROVE  Step
    OBVIOUS
  <2>1. Running
    BY <1>1, SMT DEF fdVars, FdNext, ProgramOpens,
       LowerOpens, ProgramDups, ProgramCloses, openCkptFileFds, OpenHeader, save_mana_header,
       WriteImage, NewProcess, Start, RestoreFds
  <2>2. fd' = Without(fd, Of(fd, "ckptfile") \cup closeReservedFds)
    BY <2>1 DEF Running
  <2>3. /\ Of(fd, "program") = Of(fdImage, "program")
        /\ ~warned => closed \cap header = {}
        /\ files = "whole" => closed \subseteq header
        /\ ~reserving => Placeholders = {}
    BY <1>1 DEF FdInv
  <2>4. "program" # "placeholder" /\ "program" # "ckptfile"
    BY SMT
  <2>5. \A n : n \in DOMAIN fd' <=> n \in DOMAIN fd /\ n \notin Of(fd, "ckptfile") \cup closeReservedFds
    BY <2>2 DEF Without
  <2>6. \A n \in DOMAIN fd' : fd'[n] = fd[n]
    BY <2>2 DEF Without
  <2>7. closeReservedFds = Of(fd, "placeholder")
    BY <2>3 DEF closeReservedFds, Placeholders
  <2>8. Of(fd', "program") = Of(fd, "program")
    BY <2>4, <2>5, <2>6, <2>7 DEF Of
  <2>9. Of(fd', "placeholder") = {} /\ Of(fd', "ckptfile") = {}
    BY <2>5, <2>6, <2>7 DEF Of
  <2> QED
    BY <2>3, <2>8, <2>9
<1> QED
  BY <1>1, FdInvariant, PTL DEF FdSpec, FdsRestored

-----------------------------------------------------------------------------
(* The memory.  First, induction over the numbers, with the property as a  *)
(* set.                                                                    *)

LEMMA Least ==
  ASSUME NEW T, T \subseteq Nat, T # {}
  PROVE  \E m \in T : \A n \in T : m <= n
<1> DEFINE Less == OpToRel(<, Nat)
<1>1. IsWellFoundedOn(Less, Nat)
  BY NatLessThanWellFounded, Zenon
<1>2. \A x, y \in Nat : x < y => <<x, y>> \in Less
  BY SMT DEF OpToRel
<1> HIDE DEF Less
<1>3. PICK m \in T : \A n \in T : ~ (<<n, m>> \in Less)
  BY <1>1, WFMin, Zenon
<1>4. ASSUME NEW n \in T PROVE m <= n
  <2>1. n \in Nat /\ m \in Nat
    OBVIOUS
  <2>2. ~(n < m)
    BY <1>2, <1>3, <2>1, Zenon
  <2> QED
    BY <2>1, <2>2, SMT
<1> QED
  BY <1>4, Zenon

LEMMA NatSetInduction ==
  ASSUME NEW P, 0 \in P, \A n \in Nat : n \in P => n + 1 \in P
  PROVE  Nat \subseteq P
<1> SUFFICES ASSUME NEW k \in Nat, k \notin P PROVE FALSE
  OBVIOUS
<1> DEFINE T == {n \in Nat : n \notin P}
<1>1. PICK m \in T : \A n \in T : m <= n
  <2> T \subseteq Nat /\ T # {}
    OBVIOUS
  <2> HIDE DEF T
  <2> QED BY Least, Zenon
<1>2. m # 0 /\ m \in Nat /\ m \notin P
  OBVIOUS
<1>3. m - 1 \in Nat /\ m - 1 + 1 = m /\ ~(m <= m - 1)
  BY <1>2, SMT
<1>4. m - 1 \in P
  BY <1>1, <1>3, Zenon
<1> QED
  BY <1>2, <1>3, <1>4

LEMMA Greatest ==
  ASSUME NEW T, T \subseteq Nat, T # {}, NEW k \in Nat, \A n \in T : n <= k
  PROVE  \E m \in T : \A n \in T : n <= m
<1> DEFINE U == {j \in Nat : k - j \in T}
<1>1. PICK n \in T : TRUE
  OBVIOUS
<1>2. k - n \in Nat /\ k - (k - n) = n
  BY SMT
<1>3. U \subseteq Nat /\ U # {}
  BY <1>1, <1>2
<1>4. PICK j \in U : \A i \in U : j <= i
  <2> HIDE DEF U
  <2> QED  BY <1>3, Least
<1>5. ASSUME NEW m \in T  PROVE m <= k - j
  <2>1. m \in Nat /\ m <= k
    OBVIOUS
  <2>2. k - m \in Nat /\ k - (k - m) = m
    BY <2>1, SMT
  <2>3. k - m \in U
    BY <2>2
  <2>4. j <= k - m /\ j \in Nat
    BY <1>4, <2>3
  <2> QED  BY <2>1, <2>4, SMT
<1> QED
  BY <1>4, <1>5

LEMMA MinIs ==
  ASSUME NEW T, T \subseteq Nat, T # {}
  PROVE  Min(T) \in T /\ \A n \in T : Min(T) <= n
<1>1. \E m \in T : \A n \in T : m <= n
  BY Least
<1> QED
  BY <1>1 DEF Min

LEMMA MaxIs ==
  ASSUME NEW T, T \subseteq Nat, T # {}, NEW k \in Nat, \A n \in T : n <= k
  PROVE  Max(T) \in T /\ \A n \in T : n <= Max(T)
<1>1. \E m \in T : \A n \in T : n <= m
  BY Greatest
<1>2. \A m, n \in Nat : n <= m <=> m >= n
  BY SMT
<1>3. \E m \in T : \A n \in T : m >= n
  BY <1>1, <1>2
<1>4. Max(T) \in T /\ \A n \in T : Max(T) >= n
  BY <1>3 DEF Max
<1> QED
  BY <1>2, <1>4

-----------------------------------------------------------------------------
(* Sorted lists.                                                           *)
BlockSet == [addr : Nat, len : Nat]

(* Blocks that are apart, and the list of them.                            *)
Apart(S) ==
  /\ S \subseteq BlockSet /\ IsFiniteSet(S)
  /\ \A x, y \in S : x = y \/ Before(x, y) \/ Before(y, x)
IsListOf(list, S) == IsBlocks(list) /\ S = {list[i] : i \in DOMAIN list}

LEMMA BlockFacts ==
  ASSUME NEW x \in BlockSet
  PROVE  x.addr \in Nat /\ x.len \in Nat /\ End(x) \in Nat /\ x.addr <= End(x)
BY SMT DEF BlockSet, End

LEMMA SortedIs ==
  ASSUME NEW S, Apart(S)
  PROVE  IsListOf(InOrder(S), S)
<1> DEFINE n == Cardinality(S)
           Lower(x) == {y \in S : mem_compare(y, x)}
           rank == [x \in S |-> Cardinality(Lower(x))]
<1>1. n \in Nat
  BY FS_CardinalityType DEF Apart
<1>2. ASSUME NEW x \in S
      PROVE  IsFiniteSet(Lower(x)) /\ rank[x] \in 0 .. n - 1
  <2>1. IsFiniteSet(Lower(x)) /\ Lower(x) \in SUBSET S
    BY FS_Subset DEF Apart
  <2>2. x \notin Lower(x)
    BY BlockFacts, SMT DEF mem_compare, Apart
  <2>3. Cardinality(Lower(x)) <= n /\ Cardinality(Lower(x)) # n
    <3>1. Lower(x) # S
      BY <2>2
    <3> HIDE DEF Lower
    <3> QED  BY <2>1, <3>1, FS_Subset DEF Apart
  <2>4. Cardinality(Lower(x)) \in Nat
    BY <2>1, FS_CardinalityType
  <2>5. Cardinality(Lower(x)) \in 0 .. n - 1
    BY <1>1, <2>3, <2>4, SMT
  <2> QED  BY <2>1, <2>5
<1>3. ASSUME NEW x \in S, NEW y \in S, x.addr < y.addr
      PROVE  rank[x] < rank[y]
  <2>1. Lower(x) \subseteq Lower(y) /\ x \in Lower(y) /\ x \notin Lower(x)
    BY <1>3, BlockFacts, SMT DEF mem_compare, Apart
  <2>2. IsFiniteSet(Lower(y))
    BY <1>2
  <2>3. rank[x] <= rank[y] /\ rank[x] # rank[y]
    <3>1. Lower(x) # Lower(y)
      BY <2>1
    <3> HIDE DEF Lower
    <3> QED  BY <2>1, <2>2, <3>1, FS_Subset
  <2>4. rank[x] \in 0 .. n - 1 /\ rank[y] \in 0 .. n - 1
    BY <1>2
  <2> HIDE DEF rank, n
  <2> QED  BY <1>1, <2>3, <2>4, SMT
<1>4. ASSUME NEW x \in S, NEW y \in S, x # y
      PROVE  x.addr < y.addr \/ y.addr < x.addr
  BY <1>4 DEF Apart, Before
<1>5. rank \in [S -> 0 .. n - 1]
  BY <1>2
<1> HIDE DEF rank
<1>6. \A x, y \in S : rank[x] = rank[y] => x = y
  <2> SUFFICES ASSUME NEW x \in S, NEW y \in S, rank[x] = rank[y], x # y  PROVE FALSE
    OBVIOUS
  <2>1. rank[x] < rank[y] \/ rank[y] < rank[x]
    BY <1>3, <1>4
  <2>2. rank[x] \in 0 .. n - 1
    BY <1>5
  <2> HIDE DEF n
  <2> QED  BY <1>1, <2>1, <2>2, SMT
<1>7. \A k \in 0 .. n - 1 : \E x \in S : rank[x] = k
  <2>1. rank \in Injection(S, 0 .. n - 1)
    BY <1>5, <1>6 DEF Injection, IsInjective
  <2>2. IsFiniteSet(0 .. n - 1) /\ Cardinality(0 .. n - 1) = n
    <3>1. n - 1 \in Int /\ 0 \in Int
      BY <1>1, SMT
    <3>2. IsFiniteSet(0 .. n - 1) /\ Cardinality(0 .. n - 1) = IF 0 > n - 1 THEN 0 ELSE (n - 1) - 0 + 1
      BY <3>1, FS_Interval
    <3>3. n = IF 0 > n - 1 THEN 0 ELSE (n - 1) - 0 + 1
      BY <1>1, SMT
    <3> HIDE DEF n
    <3> QED  BY <3>2, <3>3, SMT
  <2>3. rank \in Surjection(S, 0 .. n - 1)
    BY <2>1, <2>2, FS_Injection
  <2> QED  BY <2>3 DEF Surjection
<1>8. PICK list : list = InOrder(S)
  OBVIOUS
<1>9. list = [i \in 1 .. n |-> CHOOSE x \in S : Cardinality(Lower(x)) = i - 1]
  BY <1>8 DEF InOrder
<1>10. ASSUME NEW i \in 1 .. n
       PROVE  list[i] \in S /\ rank[list[i]] = i - 1
  <2>1. i - 1 \in 0 .. n - 1
    BY <1>1, SMT
  <2>2. \E x \in S : Cardinality(Lower(x)) = i - 1
    BY <1>7, <2>1 DEF rank
  <2>3. list[i] \in S /\ Cardinality(Lower(list[i])) = i - 1
    <3> HIDE DEF Lower
    <3> QED  BY <1>9, <2>2
  <2> QED  BY <2>3 DEF rank
<1>11. list \in Seq(BlockSet) /\ DOMAIN list = 1 .. n
  <2>1. list \in [1 .. n -> BlockSet]
    BY <1>9, <1>10 DEF Apart
  <2> HIDE DEF n
  <2> QED  BY <1>1, <2>1, SMT
<1>12. ASSUME NEW i \in 1 .. n, NEW j \in 1 .. n, i < j
       PROVE  Before(list[i], list[j])
  <2>1. list[i] \in S /\ list[j] \in S /\ rank[list[i]] = i - 1 /\ rank[list[j]] = j - 1
    BY <1>10
  <2>2. ~(rank[list[j]] < rank[list[i]]) /\ rank[list[i]] # rank[list[j]]
    BY <1>1, <1>12, <2>1, SMT
  <2>3. ~(list[j].addr < list[i].addr) /\ list[i] # list[j]
    BY <1>3, <2>1, <2>2
  <2> QED  BY <2>1, <2>3 DEF Apart, Before
<1>13. ASSUME NEW x \in S  PROVE \E i \in DOMAIN list : list[i] = x
  <2>1. PICK i : i = rank[x] + 1
    OBVIOUS
  <2>2. rank[x] \in 0 .. n - 1
    BY <1>5
  <2>3. i \in 1 .. n /\ i - 1 = rank[x]
    BY <1>1, <2>1, <2>2, SMT
  <2>4. list[i] \in S /\ rank[list[i]] = rank[x]
    BY <1>10, <2>3
  <2> QED  BY <1>6, <1>11, <2>3, <2>4
<1>14. S = {list[i] : i \in DOMAIN list}
  BY <1>10, <1>11, <1>13
<1>15. IsBlocks(list)
  BY <1>11, <1>12 DEF IsBlocks, BlockSet
<1> QED
  BY <1>8, <1>14, <1>15 DEF IsListOf

LEMMA PagesIs ==
  ASSUME NEW x \in BlockSet, NEW p
  PROVE  p \in PagesOf(x) <=> p \in Nat /\ x.addr <= p /\ p < End(x)
<1>1. x.addr \in Nat /\ End(x) \in Nat
  BY BlockFacts
<1> QED
  BY <1>1, SMT DEF PagesOf

LEMMA CoveredIs ==
  ASSUME NEW list, NEW S, IsListOf(list, S), NEW p
  PROVE  p \in Covered(list) <=> \E x \in S : p \in PagesOf(x)
BY DEF IsListOf, Covered

LEMMA ListFacts ==
  ASSUME NEW list, IsBlocks(list)
  PROVE  /\ Len(list) \in Nat /\ DOMAIN list = 1 .. Len(list)
         /\ \A i \in DOMAIN list : list[i] \in BlockSet
         /\ \A i, j \in DOMAIN list : i < j => Before(list[i], list[j])
<1>1. list \in Seq(BlockSet)
  BY DEF IsBlocks, BlockSet
<1>2. Len(list) \in Nat /\ DOMAIN list = 1 .. Len(list) /\ \A i \in DOMAIN list : list[i] \in BlockSet
  BY <1>1, SMT
<1> QED
  BY <1>2 DEF IsBlocks

(* The blocks of a list, and any of them, are apart.                       *)
LEMMA ListApart ==
  ASSUME NEW list, IsBlocks(list), NEW S, S \subseteq {list[i] : i \in DOMAIN list}
  PROVE  Apart(S)
<1> DEFINE T == {list[i] : i \in DOMAIN list}
<1>1. /\ Len(list) \in Nat /\ DOMAIN list = 1 .. Len(list)
      /\ \A i \in DOMAIN list : list[i] \in BlockSet
      /\ \A i, j \in DOMAIN list : i < j => Before(list[i], list[j])
  BY ListFacts
<1>2. IsFiniteSet(T)
  <2>1. IsFiniteSet(1 .. Len(list))
    <3>1. 1 \in Int /\ Len(list) \in Int
      BY <1>1, SMT
    <3> QED  BY <3>1, FS_Interval
  <2>2. list \in Surjection(1 .. Len(list), T)
    <3>1. list \in [1 .. Len(list) -> T]
      <4>1. list \in Seq(BlockSet)
        BY DEF IsBlocks, BlockSet
      <4>2. list = [i \in 1 .. Len(list) |-> list[i]]
        BY <4>1, SMT
      <4> QED  BY <1>1, <4>2
    <3> QED  BY <1>1, <3>1 DEF Surjection
  <2> HIDE DEF T
  <2> QED  BY <2>1, <2>2, FS_Surjection
<1>3. IsFiniteSet(S)
  <2>1. S \in SUBSET T
    OBVIOUS
  <2> HIDE DEF T
  <2> QED  BY <1>2, <2>1, FS_Subset
<1>4. \A i, j \in 1 .. Len(list) : i < j \/ i = j \/ j < i
  BY <1>1, SMT
<1>5. ASSUME NEW x \in S, NEW y \in S  PROVE x = y \/ Before(x, y) \/ Before(y, x)
  <2>1. PICK i \in DOMAIN list : x = list[i]
    OBVIOUS
  <2>2. PICK j \in DOMAIN list : y = list[j]
    OBVIOUS
  <2> QED  BY <1>1, <1>4, <2>1, <2>2
<1> QED
  BY <1>1, <1>3, <1>5 DEF Apart

LEMMA EmptyList ==
  /\ IsBlocks(<<>>) /\ Covered(<<>>) = {} /\ DOMAIN <<>> = {} /\ IsListOf(<<>>, {})
<1>1. <<>> \in Seq([addr : Nat, len : Nat]) /\ DOMAIN <<>> = {}
  BY SMT
<1> QED
  BY <1>1 DEF IsBlocks, Covered, IsListOf

-----------------------------------------------------------------------------
(* merge_overlap_blocks.                                                   *)

(* The block of m and the one that it meets.                               *)
Joins(new, m, x) ==
  /\ new \in BlockSet /\ new.addr \in {m.addr, x.addr} /\ End(new) \in {End(m), End(x)}
  /\ new.addr <= m.addr /\ new.addr <= x.addr /\ End(m) <= End(new) /\ End(x) <= End(new)

LEMMA AbsorbIs ==
  ASSUME NEW m \in BlockSet, NEW x \in BlockSet, Meets(x, m)
  PROVE  Joins(Absorb(m, x), m, x)
<1>1. m.addr \in Nat /\ End(m) \in Nat /\ x.addr \in Nat /\ End(x) \in Nat /\ m.addr <= End(m)
      /\ x.addr <= End(x)
  BY BlockFacts
<1>2. PICK lo : lo = Min({x.addr, m.addr})
  OBVIOUS
<1>3. lo \in {x.addr, m.addr} /\ lo <= x.addr /\ lo <= m.addr
  <2>1. PICK T : T = {x.addr, m.addr}
    OBVIOUS
  <2>2. T \subseteq Nat /\ T # {}
    BY <1>1, <2>1
  <2>3. Min(T) \in T /\ \A n \in T : Min(T) <= n
    BY <2>2, MinIs
  <2> QED  BY <1>2, <2>1, <2>3
<1>4. PICK hi : hi = Max({End(x), End(m)})
  OBVIOUS
<1>5. hi \in {End(x), End(m)} /\ End(x) <= hi /\ End(m) <= hi
  <2>1. PICK T : T = {End(x), End(m)}
    OBVIOUS
  <2>2. T \subseteq Nat /\ T # {}
    BY <1>1, <2>1
  <2>3. PICK k \in Nat : \A n \in T : n <= k
    <3>1. End(x) + End(m) \in Nat /\ End(x) <= End(x) + End(m) /\ End(m) <= End(x) + End(m)
      BY <1>1, SMT
    <3> QED  BY <2>1, <3>1
  <2>4. Max(T) \in T /\ \A n \in T : n <= Max(T)
    BY <2>2, <2>3, MaxIs
  <2> QED  BY <1>4, <2>1, <2>4
<1>6. Absorb(m, x) = [addr |-> lo, len |-> hi - lo]
  BY <1>2, <1>4 DEF Absorb, Block
<1>7. lo \in Nat /\ hi \in Nat /\ hi - lo \in Nat /\ lo + (hi - lo) = hi
  BY <1>1, <1>3, <1>5, SMT
<1>8. PICK new : new = Absorb(m, x)
  OBVIOUS
<1>9. new \in BlockSet /\ new.addr = lo /\ End(new) = hi
  BY <1>6, <1>7, <1>8, SMT DEF BlockSet, End
<1> QED
  BY <1>3, <1>5, <1>8, <1>9 DEF Joins

LEMMA JoinsPages ==
  ASSUME NEW m \in BlockSet, NEW x \in BlockSet, Meets(x, m), NEW new, Joins(new, m, x), NEW p
  PROVE  p \in PagesOf(new) <=> p \in PagesOf(m) \/ p \in PagesOf(x)
<1>1. /\ p \in PagesOf(m) <=> p \in Nat /\ m.addr <= p /\ p < End(m)
      /\ p \in PagesOf(x) <=> p \in Nat /\ x.addr <= p /\ p < End(x)
      /\ p \in PagesOf(new) <=> p \in Nat /\ new.addr <= p /\ p < End(new)
  BY PagesIs DEF Joins
<1>2. m.addr \in Nat /\ End(m) \in Nat /\ x.addr \in Nat /\ End(x) \in Nat /\ m.addr <= End(m)
      /\ x.addr <= End(x)
  BY BlockFacts
<1>3. End(x) >= m.addr /\ x.addr <= End(m)
  BY DEF Meets
<1>4. /\ new.addr \in {m.addr, x.addr} /\ End(new) \in {End(m), End(x)}
      /\ new.addr <= m.addr /\ new.addr <= x.addr /\ End(m) <= End(new) /\ End(x) <= End(new)
  BY DEF Joins
<1> QED
  BY <1>1, <1>2, <1>3, <1>4, SMT

(* After n blocks of the list.                                             *)
MergedTo(acc, new, list, n) ==
  /\ acc.merged \in BlockSet
  /\ acc.kept \subseteq {list[k] : k \in 1 .. n}
  /\ \A p : (p \in PagesOf(acc.merged) \/ \E x \in acc.kept : p \in PagesOf(x))
              <=> (p \in PagesOf(new) \/ \E k \in 1 .. n : p \in PagesOf(list[k]))
  /\ \A x \in acc.kept : Before(x, acc.merged) \/ End(acc.merged) < x.addr
  /\ new.len > 0 => acc.merged.len > 0

LEMMA MergeOne ==
  ASSUME NEW list, IsBlocks(list), NEW new \in BlockSet, NEW n \in Nat, n + 1 <= Len(list),
         NEW acc, MergedTo(acc, new, list, n)
  PROVE  MergedTo(MergeStep(acc, list[n + 1]), new, list, n + 1)
<1>1. /\ Len(list) \in Nat /\ DOMAIN list = 1 .. Len(list)
      /\ \A i \in DOMAIN list : list[i] \in BlockSet
      /\ \A i, j \in DOMAIN list : i < j => Before(list[i], list[j])
  BY ListFacts
<1>2. /\ n + 1 \in DOMAIN list /\ \A k \in 1 .. n : k \in DOMAIN list /\ k < n + 1
      /\ \A k : k \in 1 .. n + 1 <=> k \in 1 .. n \/ k = n + 1
  BY <1>1, SMT
<1>3. PICK x, m : x = list[n + 1] /\ m = acc.merged
  OBVIOUS
<1>4. /\ m \in BlockSet /\ x \in BlockSet /\ acc.kept \subseteq {list[k] : k \in 1 .. n}
      /\ \A p : (p \in PagesOf(m) \/ \E y \in acc.kept : p \in PagesOf(y))
              <=> (p \in PagesOf(new) \/ \E k \in 1 .. n : p \in PagesOf(list[k]))
      /\ \A y \in acc.kept : Before(y, m) \/ End(m) < y.addr
      /\ new.len > 0 => m.len > 0
  BY <1>1, <1>2, <1>3 DEF MergedTo
<1>5. \A y \in acc.kept : y \in BlockSet /\ Before(y, x)
  BY <1>1, <1>2, <1>3, <1>4
<1>6. \A p : (p \in PagesOf(m) \/ p \in PagesOf(x) \/ \E y \in acc.kept : p \in PagesOf(y))
              <=> (p \in PagesOf(new) \/ \E k \in 1 .. n + 1 : p \in PagesOf(list[k]))
  BY <1>2, <1>3, <1>4
<1>7. PICK next : next = MergeStep(acc, x)
  OBVIOUS
<1>8. m.addr \in Nat /\ End(m) \in Nat /\ x.addr \in Nat /\ End(x) \in Nat /\ m.addr <= End(m)
      /\ x.addr <= End(x) /\ \A y \in acc.kept : y.addr \in Nat /\ End(y) \in Nat /\ y.addr <= End(y)
  BY <1>4, <1>5, BlockFacts
<1>9. CASE Meets(x, m)
  <2>1. PICK j : j = Absorb(m, x)
    OBVIOUS
  <2>2. next.merged = j /\ next.kept = acc.kept
    BY <1>3, <1>7, <1>9, <2>1 DEF MergeStep
  <2>3. Joins(j, m, x)
    BY <1>4, <1>9, <2>1, AbsorbIs
  <2>4. \A p : p \in PagesOf(j) <=> p \in PagesOf(m) \/ p \in PagesOf(x)
    BY <1>4, <1>9, <2>3, JoinsPages
  <2>5. ASSUME NEW y \in acc.kept  PROVE Before(y, j)
    <3>1. Before(y, x) /\ (Before(y, m) \/ End(m) < y.addr)
      BY <1>4, <1>5
    <3>2. x.addr <= End(m)
      BY <1>9 DEF Meets
    <3>3. y.addr \in Nat /\ End(y) \in Nat
      BY <1>8
    <3>4. y.addr < x.addr /\ End(y) <= x.addr
      BY <3>1 DEF Before
    <3>5. ~(End(m) < y.addr)
      <4>1. y.addr \in Nat /\ x.addr \in Nat /\ End(m) \in Nat
        BY <1>8, <3>3
      <4>2. y.addr < x.addr /\ x.addr <= End(m)
        BY <3>2, <3>4
      <4> QED  BY <4>1, <4>2, SMT
    <3>6. y.addr < m.addr /\ End(y) <= m.addr
      BY <3>1, <3>5 DEF Before
    <3>7. j.addr = m.addr \/ j.addr = x.addr
      BY <2>3 DEF Joins
    <3> QED  BY <3>4, <3>6, <3>7 DEF Before
  <2>6. ASSUME new.len > 0  PROVE j.len > 0
    <3>1. m.len > 0 /\ j \in BlockSet /\ j.addr <= m.addr /\ End(m) <= End(j)
      BY <1>4, <2>3, <2>6 DEF Joins
    <3>2. j.addr \in Nat /\ j.len \in Nat /\ m.len \in Nat
      BY <1>4, <3>1, BlockFacts
    <3>3. m.addr \in Nat /\ m.addr + m.len <= j.addr + j.len /\ j.addr <= m.addr
      BY <1>8, <3>1 DEF End
    <3>4. m.len > 0
      BY <3>1
    <3> QED  BY <3>2, <3>3, <3>4, SMT
  <2>7. \A p : (p \in PagesOf(j) \/ \E y \in acc.kept : p \in PagesOf(y))
              <=> (p \in PagesOf(new) \/ \E k \in 1 .. n + 1 : p \in PagesOf(list[k]))
    BY <1>6, <2>4
  <2>8. acc.kept \subseteq {list[k] : k \in 1 .. n + 1}
    BY <1>2, <1>4
  <2>9. j \in BlockSet
    BY <2>3 DEF Joins
  <2>10. MergedTo(next, new, list, n + 1)
    BY <2>2, <2>5, <2>6, <2>7, <2>8, <2>9 DEF MergedTo
  <2> QED  BY <1>3, <1>7, <2>10
<1>10. CASE ~Meets(x, m)
  <2>1. next.merged = m /\ next.kept = acc.kept \cup {x}
    BY <1>3, <1>7, <1>10 DEF MergeStep
  <2>2. Before(x, m) \/ End(m) < x.addr
    BY <1>8, <1>10, SMT DEF Meets, Before
  <2>3. \A y \in next.kept : Before(y, m) \/ End(m) < y.addr
    BY <1>4, <2>1, <2>2
  <2>4. next.kept \subseteq {list[k] : k \in 1 .. n + 1}
    BY <1>2, <1>3, <1>4, <2>1
  <2>5. \A p : (p \in PagesOf(m) \/ \E y \in next.kept : p \in PagesOf(y))
              <=> (p \in PagesOf(new) \/ \E k \in 1 .. n + 1 : p \in PagesOf(list[k]))
    BY <1>6, <2>1
  <2>6. MergedTo(next, new, list, n + 1)
    BY <1>4, <2>1, <2>3, <2>4, <2>5 DEF MergedTo
  <2> QED  BY <1>3, <1>7, <2>6
<1> QED
  BY <1>9, <1>10

(* What the list has after a block is added.                               *)
Full(list) == \A i \in DOMAIN list : list[i].len > 0
Adds(new, list, after) ==
  /\ IsBlocks(after) /\ Covered(after) = Covered(list) \cup PagesOf(new)
  /\ new.len > 0 /\ Full(list) => Full(after)

LEMMA MergeAdds ==
  ASSUME NEW list, IsBlocks(list), NEW new \in BlockSet
  PROVE  Adds(new, list, merge_overlap_blocks(new, list))
<1> DEFINE first == [merged |-> new, kept |-> {}]
           last == Len(list)
           Step(f, n) == IF n = 0 THEN first ELSE MergeStep(f[n - 1], list[n])
           Is(f, n) == f = [i \in 0 .. n |-> Step(f, i)]
           P == {n \in Nat : \E f : Is(f, n)}
<1>0. /\ last \in Nat /\ DOMAIN list = 1 .. last
      /\ \A i \in DOMAIN list : list[i] \in BlockSet
  BY ListFacts
<1> HIDE DEF first
<1>1. 0 \in P
  <2>1. PICK f : f = [i \in 0 .. 0 |-> first]
    OBVIOUS
  <2>2. Is(f, 0) /\ 0 \in Nat
    BY <2>1, SMT
  <2> HIDE DEF Is
  <2> QED  BY <2>2
<1>2. ASSUME NEW n \in Nat, n \in P  PROVE n + 1 \in P
  <2>1. PICK f : Is(f, n)
    BY <1>2
  <2>2. PICK g : g = [i \in 0 .. n + 1 |-> IF i = n + 1 THEN Step(f, i) ELSE f[i]]
    OBVIOUS
  <2>3. ASSUME NEW i \in 0 .. n + 1  PROVE g[i] = Step(g, i)
    <3>1. i # n + 1 => i \in 0 .. n
      BY SMT
    <3>2. i # 0 => i - 1 \in 0 .. n /\ i - 1 \in 0 .. n + 1 /\ i - 1 # n + 1
      BY SMT
    <3>3. i # 0 => g[i - 1] = f[i - 1]
      BY <2>2, <3>2
    <3>4. Step(g, i) = Step(f, i)
      BY <3>3
    <3>5. i # n + 1 => f[i] = Step(f, i)
      BY <2>1, <3>1
    <3> QED  BY <2>2, <3>4, <3>5
  <2>4. g = [i \in 0 .. n + 1 |-> Step(g, i)]
    <3> HIDE DEF Step
    <3> QED  BY <2>2, <2>3
  <2>5. n + 1 \in Nat
    BY SMT
  <2> QED  BY <2>4, <2>5
<1>3. last \in P
  <2> HIDE DEF P
  <2> QED  BY <1>0, <1>1, <1>2, NatSetInduction
<1>4. PICK after : Is(after, last)
             /\ merge_overlap_blocks(new, list) = InOrder(after[last].kept \cup {after[last].merged})
  BY <1>3 DEF merge_overlap_blocks, first
<1> HIDE DEF P
<1>5. after[0] = first
  BY <1>0, <1>4, SMT
<1>6. ASSUME NEW n \in Nat, n + 1 <= last
      PROVE  after[n + 1] = MergeStep(after[n], list[n + 1])
  <2>1. n + 1 \in 0 .. last /\ n + 1 # 0 /\ (n + 1) - 1 = n
    BY <1>0, <1>6, SMT
  <2> QED  BY <1>4, <2>1
<1> HIDE DEF Is, Step
<1> DEFINE Q == {n \in Nat : n <= last => MergedTo(after[n], new, list, n)}
<1>7. 0 \in Q
  <2>1. first.merged = new /\ first.kept = {}
    BY DEF first
  <2>2. 1 .. 0 = {} /\ 0 \in Nat
    BY SMT
  <2>3. MergedTo(first, new, list, 0)
    BY <2>1, <2>2 DEF MergedTo
  <2> QED  BY <1>5, <2>2, <2>3
<1>8. ASSUME NEW n \in Nat, n \in Q  PROVE n + 1 \in Q
  <2> SUFFICES ASSUME n + 1 <= last
               PROVE  MergedTo(after[n + 1], new, list, n + 1)
    BY SMT
  <2>1. n <= last
    BY <1>0, SMT
  <2>2. MergedTo(after[n], new, list, n)
    BY <1>8, <2>1
  <2>3. PICK acc : acc = after[n]
    OBVIOUS
  <2>4. MergedTo(MergeStep(acc, list[n + 1]), new, list, n + 1)
    BY <2>2, <2>3, MergeOne
  <2> QED  BY <1>6, <2>3, <2>4
<1>9. last \in Q
  <2> HIDE DEF Q, last
  <2> QED  BY <1>0, <1>7, <1>8, NatSetInduction
<1>10. PICK acc : acc = after[last]
  OBVIOUS
<1>11. MergedTo(acc, new, list, last)
  <2>1. last <= last
    BY <1>0, SMT
  <2> QED  BY <1>9, <1>10, <2>1
<1>12. PICK S : S = acc.kept \cup {acc.merged}
  OBVIOUS
<1>13. /\ acc.merged \in BlockSet
       /\ acc.kept \subseteq {list[k] : k \in DOMAIN list}
       /\ \A p : (p \in PagesOf(acc.merged) \/ \E x \in acc.kept : p \in PagesOf(x))
                   <=> (p \in PagesOf(new) \/ \E k \in DOMAIN list : p \in PagesOf(list[k]))
       /\ \A x \in acc.kept : Before(x, acc.merged) \/ End(acc.merged) < x.addr
       /\ new.len > 0 => acc.merged.len > 0
  BY <1>0, <1>11 DEF MergedTo
<1>14. Apart(acc.kept)
  BY <1>13, ListApart
<1>15. Apart(S)
  <2>1. IsFiniteSet(S)
    BY <1>12, <1>14, FS_AddElement DEF Apart
  <2>2. ASSUME NEW x \in acc.kept  PROVE Before(x, acc.merged) \/ Before(acc.merged, x)
    <3>1. x \in BlockSet
      BY <1>14 DEF Apart
    <3>2. /\ acc.merged.addr \in Nat /\ End(acc.merged) \in Nat /\ acc.merged.addr <= End(acc.merged)
          /\ x.addr \in Nat
      BY <1>13, <3>1, BlockFacts
    <3>3. End(acc.merged) < x.addr => acc.merged.addr < x.addr /\ End(acc.merged) <= x.addr
      BY <3>2, SMT
    <3> QED  BY <1>13, <3>3 DEF Before
  <2> QED  BY <1>12, <1>13, <1>14, <2>1, <2>2 DEF Apart
<1>16. PICK res : res = merge_overlap_blocks(new, list)
  OBVIOUS
<1>17. IsListOf(res, S)
  BY <1>4, <1>10, <1>12, <1>15, <1>16, SortedIs
<1>18. Covered(res) = Covered(list) \cup PagesOf(new)
  <2>1. \A p : p \in Covered(res) <=> \E x \in S : p \in PagesOf(x)
    BY <1>17, CoveredIs
  <2>2. \A p : p \in Covered(list) <=> \E k \in DOMAIN list : p \in PagesOf(list[k])
    BY DEF Covered
  <2>3. \A p : p \in Covered(res) <=> p \in Covered(list) \/ p \in PagesOf(new)
    BY <1>12, <1>13, <2>1, <2>2
  <2> QED  BY <2>3
<1>19. new.len > 0 /\ Full(list) => Full(res)
  <2> SUFFICES ASSUME new.len > 0, Full(list)  PROVE Full(res)
    OBVIOUS
  <2>1. \A x \in S : x.len > 0
    BY <1>12, <1>13 DEF Full
  <2> QED  BY <1>17, <2>1 DEF Full, IsListOf
<1>20. IsBlocks(res)
  BY <1>17 DEF IsListOf
<1> QED
  BY <1>16, <1>18, <1>19, <1>20 DEF Adds

-----------------------------------------------------------------------------
(* remove_overlap_blocks.                                                  *)

(* A part of x that new leaves.                                            *)
PartOf(y, x) ==
  y \in BlockSet /\ x.addr <= y.addr /\ End(y) <= End(x) /\ (y = x \/ y.len > 0)

LEMMA FrontIs ==
  ASSUME NEW x \in BlockSet, NEW new \in BlockSet, ~Misses(x, new), Front(x, new).len > 0
  PROVE  /\ PartOf(Front(x, new), x)
         /\ Front(x, new).addr = x.addr /\ End(Front(x, new)) = new.addr
<1>1. x.addr \in Nat /\ End(x) \in Nat /\ new.addr \in Nat /\ End(new) \in Nat
  BY BlockFacts
<1>2. PICK y : y = Front(x, new)
  OBVIOUS
<1>3. y.addr = x.addr /\ y.len = new.addr - x.addr /\ y = [addr |-> x.addr, len |-> new.addr - x.addr]
  BY <1>2 DEF Front, Block
<1>4. y.len > 0 /\ End(x) > new.addr
  BY <1>1, <1>2, SMT DEF Misses
<1>5. new.addr - x.addr \in Nat /\ x.addr + (new.addr - x.addr) = new.addr /\ new.addr <= End(x)
      /\ x.addr <= x.addr
  BY <1>1, <1>3, <1>4, SMT
<1>6. y \in BlockSet /\ End(y) = new.addr
  BY <1>1, <1>3, <1>5 DEF BlockSet, End
<1> QED
  BY <1>2, <1>3, <1>4, <1>5, <1>6 DEF PartOf

LEMMA BehindIs ==
  ASSUME NEW x \in BlockSet, NEW new \in BlockSet, ~Misses(x, new), Behind(x, new).len > 0
  PROVE  /\ PartOf(Behind(x, new), x)
         /\ Behind(x, new).addr = End(new) /\ End(Behind(x, new)) = End(x)
<1>1. x.addr \in Nat /\ End(x) \in Nat /\ new.addr \in Nat /\ End(new) \in Nat
  BY BlockFacts
<1>2. PICK y : y = Behind(x, new)
  OBVIOUS
<1>3. y.addr = End(new) /\ y.len = End(x) - End(new) /\ y = [addr |-> End(new), len |-> End(x) - End(new)]
  BY <1>2 DEF Behind, Block
<1>4. y.len > 0 /\ x.addr < End(new)
  BY <1>1, <1>2, SMT DEF Misses
<1>5. End(x) - End(new) \in Nat /\ End(new) + (End(x) - End(new)) = End(x) /\ x.addr <= End(new)
      /\ End(x) <= End(x)
  BY <1>1, <1>3, <1>4, SMT
<1>6. y \in BlockSet /\ End(y) = End(x)
  <2>1. y \in BlockSet
    BY <1>1, <1>3, <1>5 DEF BlockSet
  <2>2. y.addr + y.len = End(x)
    BY <1>3, <1>5
  <2> QED  BY <2>1, <2>2 DEF End
<1> QED
  BY <1>2, <1>3, <1>4, <1>5, <1>6 DEF PartOf

(* The parts that new leaves of x.                                         *)
Leaves(new, x, S) ==
  /\ IsFiniteSet(S) /\ \A y \in S : PartOf(y, x)
  /\ \A y, z \in S : y = z \/ Before(y, z) \/ Before(z, y)
  /\ \A p : (\E y \in S : p \in PagesOf(y)) <=> p \in PagesOf(x) /\ p \notin PagesOf(new)

LEMMA LeftIs ==
  ASSUME NEW x \in BlockSet, NEW new \in BlockSet
  PROVE  Leaves(new, x, Left(x, new))
<1>1. x.addr \in Nat /\ End(x) \in Nat /\ new.addr \in Nat /\ End(new) \in Nat
      /\ new.addr <= End(new) /\ x.addr <= End(x)
  BY BlockFacts
<1>2. \A p : /\ p \in PagesOf(new) <=> p \in Nat /\ new.addr <= p /\ p < End(new)
             /\ p \in PagesOf(x) <=> p \in Nat /\ x.addr <= p /\ p < End(x)
  BY PagesIs
<1>3. CASE Misses(x, new)
  <2>1. Left(x, new) = {x}
    BY <1>3 DEF Left
  <2>2. PartOf(x, x)
    BY <1>1, SMT DEF PartOf
  <2>3. ASSUME NEW p, p \in PagesOf(x), p \in PagesOf(new)  PROVE FALSE
    <3>1. p \in Nat /\ new.addr <= p /\ p < End(new) /\ x.addr <= p /\ p < End(x)
      BY <1>2, <2>3
    <3>2. End(x) <= new.addr \/ x.addr >= End(new)
      BY <1>3 DEF Misses
    <3> QED  BY <1>1, <3>1, <3>2, SMT
  <2>4. IsFiniteSet({x})
    BY FS_Singleton
  <2> QED  BY <2>1, <2>2, <2>3, <2>4 DEF Leaves
<1>4. CASE ~Misses(x, new)
  <2>1. PICK y, z, S : y = Front(x, new) /\ z = Behind(x, new) /\ S = Left(x, new)
    OBVIOUS
  <2>2. S = {w \in {y, z} : w.len > 0}
    BY <1>4, <2>1 DEF Left
  <2>3. y.len > 0 => PartOf(y, x) /\ y.addr = x.addr /\ End(y) = new.addr
    BY <1>4, <2>1, FrontIs
  <2>4. z.len > 0 => PartOf(z, x) /\ z.addr = End(new) /\ End(z) = End(x)
    BY <1>4, <2>1, BehindIs
  <2>5. End(x) > new.addr /\ x.addr < End(new)
    BY <1>1, <1>4, SMT DEF Misses
  <2>6. y.len = new.addr - x.addr /\ z.len = End(x) - End(new)
    BY <2>1 DEF Front, Behind, Block
  <2>7. IsFiniteSet(S)
    <3>1. IsFiniteSet({y} \cup {z})
      BY FS_Singleton, FS_AddElement
    <3>2. S \in SUBSET ({y} \cup {z})
      BY <2>2
    <3> QED  BY <3>1, <3>2, FS_Subset
  <2>8. \A w \in S : PartOf(w, x)
    BY <2>2, <2>3, <2>4
  <2>9. y.len > 0 /\ z.len > 0 => Before(y, z)
    BY <1>1, <2>3, <2>4, <2>5 DEF Before
  <2>10. \A w, v \in S : w = v \/ Before(w, v) \/ Before(v, w)
    BY <2>2, <2>9
  <2>11. ASSUME NEW p  PROVE (\E w \in S : p \in PagesOf(w)) <=> p \in PagesOf(x) /\ p \notin PagesOf(new)
    <3>1. y.len > 0 => (p \in PagesOf(y) <=> p \in Nat /\ x.addr <= p /\ p < new.addr)
      BY <2>3, PagesIs DEF PartOf
    <3>2. z.len > 0 => (p \in PagesOf(z) <=> p \in Nat /\ End(new) <= p /\ p < End(x))
      BY <2>4, PagesIs DEF PartOf
    <3>3. (\E w \in S : p \in PagesOf(w)) <=>
            (y.len > 0 /\ p \in PagesOf(y)) \/ (z.len > 0 /\ p \in PagesOf(z))
      BY <2>2
    <3>4. /\ p \in PagesOf(new) <=> p \in Nat /\ new.addr <= p /\ p < End(new)
          /\ p \in PagesOf(x) <=> p \in Nat /\ x.addr <= p /\ p < End(x)
      BY <1>2
    <3>5. p \in PagesOf(x) /\ p \notin PagesOf(new) <=>
            \/ y.len > 0 /\ p \in Nat /\ x.addr <= p /\ p < new.addr
            \/ z.len > 0 /\ p \in Nat /\ End(new) <= p /\ p < End(x)
      BY <1>1, <2>5, <2>6, <3>4, SMT
    <3> QED  BY <3>1, <3>2, <3>3, <3>5
  <2>12. Leaves(new, x, S)
    BY <2>7, <2>8, <2>10, <2>11 DEF Leaves
  <2> QED  BY <2>1, <2>12
<1> QED
  BY <1>3, <1>4

(* What the list has after a block is taken out.                           *)
Takes(new, list, after) ==
  /\ IsBlocks(after) /\ Covered(after) = Covered(list) \ PagesOf(new)
  /\ Full(list) => Full(after)

LEMMA RemoveTakes ==
  ASSUME NEW list, IsBlocks(list), NEW new \in BlockSet
  PROVE  Takes(new, list, remove_overlap_blocks(new, list))
<1>1. /\ Len(list) \in Nat /\ DOMAIN list = 1 .. Len(list)
      /\ \A i \in DOMAIN list : list[i] \in BlockSet
      /\ \A i, j \in DOMAIN list : i < j => Before(list[i], list[j])
  BY ListFacts
<1>2. PICK T : T = {Left(list[i], new) : i \in DOMAIN list}
  OBVIOUS
<1>3. PICK S : S = UNION T
  OBVIOUS
<1>4. \A i \in DOMAIN list : Leaves(new, list[i], Left(list[i], new))
  BY <1>1, LeftIs
<1>5. \A y : y \in S <=> \E i \in DOMAIN list : y \in Left(list[i], new)
  BY <1>2, <1>3
<1>6. IsFiniteSet(S)
  <2>1. IsFiniteSet(DOMAIN list)
    <3>1. 1 \in Int /\ Len(list) \in Int
      BY <1>1, SMT
    <3> QED  BY <1>1, <3>1, FS_Interval
  <2>2. PICK f : f = [i \in DOMAIN list |-> Left(list[i], new)]
    OBVIOUS
  <2>3. f \in Surjection(DOMAIN list, T)
    <3>1. f \in [DOMAIN list -> T]
      BY <1>2, <2>2
    <3>2. \A t \in T : \E i \in DOMAIN list : f[i] = t
      BY <1>2, <2>2
    <3> QED  BY <3>1, <3>2 DEF Surjection
  <2>4. IsFiniteSet(T)
    BY <2>1, <2>3, FS_Surjection
  <2>5. \A t \in T : IsFiniteSet(t)
    BY <1>2, <1>4 DEF Leaves
  <2> QED  BY <1>3, <2>4, <2>5, FS_UNION
<1>7. \A i, j \in 1 .. Len(list) : i < j \/ i = j \/ j < i
  BY <1>1, SMT
<1>8. ASSUME NEW i \in DOMAIN list, NEW j \in DOMAIN list, i < j,
             NEW y \in Left(list[i], new), NEW z \in Left(list[j], new)
      PROVE  Before(y, z)
  <2>1. PartOf(y, list[i]) /\ PartOf(z, list[j]) /\ Before(list[i], list[j])
    BY <1>1, <1>4, <1>8 DEF Leaves
  <2>2. PICK v, w : v = list[i] /\ w = list[j]
    OBVIOUS
  <2>3. /\ y \in BlockSet /\ z \in BlockSet /\ v \in BlockSet /\ w \in BlockSet
        /\ End(y) <= End(v) /\ End(v) <= w.addr /\ v.addr < w.addr /\ w.addr <= z.addr
        /\ y = v \/ y.len > 0
    BY <1>1, <2>1, <2>2 DEF PartOf, Before
  <2>4. /\ y.addr \in Nat /\ y.len \in Nat /\ z.addr \in Nat /\ v.addr \in Nat /\ End(v) \in Nat
        /\ w.addr \in Nat /\ End(y) \in Nat
    BY <2>3, BlockFacts
  <2>5. End(y) = y.addr + y.len
    BY DEF End
  <2>6. y.addr < z.addr
    <3>1. CASE y = v
      BY <2>3, <2>4, <3>1, SMT
    <3>2. CASE y.len > 0
      BY <2>3, <2>4, <2>5, <3>2, SMT
    <3> QED  BY <2>3, <3>1, <3>2
  <2>7. End(y) <= z.addr
    BY <2>3, <2>4, SMT
  <2> QED  BY <2>6, <2>7 DEF Before
<1>9. ASSUME NEW y \in S, NEW z \in S  PROVE y = z \/ Before(y, z) \/ Before(z, y)
  <2>1. PICK i \in DOMAIN list : y \in Left(list[i], new)
    BY <1>5
  <2>2. PICK j \in DOMAIN list : z \in Left(list[j], new)
    BY <1>5
  <2>3. CASE i = j
    BY <1>4, <2>1, <2>2, <2>3 DEF Leaves
  <2>4. CASE i < j
    BY <1>8, <2>1, <2>2, <2>4
  <2>5. CASE j < i
    BY <1>8, <2>1, <2>2, <2>5
  <2> QED  BY <1>1, <1>7, <2>3, <2>4, <2>5
<1>10. S \subseteq BlockSet
  BY <1>4, <1>5 DEF Leaves, PartOf
<1>11. Apart(S)
  BY <1>6, <1>9, <1>10 DEF Apart
<1>12. PICK res : res = remove_overlap_blocks(new, list)
  OBVIOUS
<1>13. IsListOf(res, S)
  BY <1>2, <1>3, <1>11, <1>12, SortedIs DEF remove_overlap_blocks
<1>14. Covered(res) = Covered(list) \ PagesOf(new)
  <2>1. \A p : p \in Covered(res) <=> \E y \in S : p \in PagesOf(y)
    BY <1>13, CoveredIs
  <2>2. \A p : p \in Covered(list) <=> \E i \in DOMAIN list : p \in PagesOf(list[i])
    BY DEF Covered
  <2>3. ASSUME NEW p, NEW i \in DOMAIN list
        PROVE  (\E y \in Left(list[i], new) : p \in PagesOf(y))
                 <=> p \in PagesOf(list[i]) /\ p \notin PagesOf(new)
    BY <1>4 DEF Leaves
  <2>4. \A p : p \in Covered(res) <=> p \in Covered(list) /\ p \notin PagesOf(new)
    BY <1>5, <2>1, <2>2, <2>3
  <2> QED  BY <2>4
<1>15. Full(list) => Full(res)
  <2> SUFFICES ASSUME Full(list)  PROVE Full(res)
    OBVIOUS
  <2>1. \A y \in S : y.len > 0
    BY <1>4, <1>5 DEF Full, Leaves, PartOf
  <2> QED  BY <1>13, <2>1 DEF Full, IsListOf
<1>16. IsBlocks(res)
  BY <1>13 DEF IsListOf
<1> QED
  BY <1>12, <1>14, <1>15, <1>16 DEF Takes

-----------------------------------------------------------------------------
(* Loops over a list: a step that stays in S has an outcome, and what each *)
(* step keeps the loop keeps.                                              *)

FoldOf(f, N, S, first, G) ==
  f \in [0 .. N -> S] /\ f[0] = first /\ \A i \in 1 .. N : f[i] = G[<<i, f[i - 1]>>]

LEMMA FoldExists ==
  ASSUME NEW N \in Nat, NEW S, NEW first \in S, NEW G \in [(1 .. N) \X S -> S]
  PROVE  \E f : FoldOf(f, N, S, first, G)
<1> DEFINE Is(f, n) == /\ f \in [0 .. n -> S] /\ f[0] = first
                       /\ \A i \in 1 .. n : f[i] = G[<<i, f[i - 1]>>]
           P == {n \in Nat : n <= N => \E f : Is(f, n)}
<1>1. 0 \in P
  <2>1. PICK f : f = [i \in 0 .. 0 |-> first]
    OBVIOUS
  <2>2. 0 \in 0 .. 0 /\ 1 .. 0 = {} /\ 0 \in Nat
    BY SMT
  <2>3. Is(f, 0)
    BY <2>1, <2>2
  <2> HIDE DEF Is
  <2> QED  BY <2>2, <2>3
<1>2. ASSUME NEW n \in Nat, n \in P  PROVE n + 1 \in P
  <2>1. n + 1 \in Nat /\ 0 \in 0 .. n + 1 /\ 0 # n + 1 /\ n \in 0 .. n
    BY SMT
  <2> SUFFICES ASSUME n + 1 <= N  PROVE \E f : Is(f, n + 1)
    BY <2>1
  <2>2. n <= N /\ n + 1 \in 1 .. N
    BY SMT
  <2>3. PICK f : Is(f, n)
    BY <1>2, <2>2
  <2>4. PICK g : g = [i \in 0 .. n + 1 |-> IF i = n + 1 THEN G[<<n + 1, f[n]>>] ELSE f[i]]
    OBVIOUS
  <2>5. \A i \in 0 .. n + 1 : i # n + 1 => i \in 0 .. n
    BY SMT
  <2>6. G[<<n + 1, f[n]>>] \in S
    <3>1. f[n] \in S
      BY <2>1, <2>3
    <3>2. <<n + 1, f[n]>> \in (1 .. N) \X S
      BY <2>2, <3>1, SMT
    <3> QED  BY <3>2
  <2>7. g \in [0 .. n + 1 -> S]
    BY <2>3, <2>4, <2>5, <2>6
  <2>8. g[0] = first
    BY <2>1, <2>3, <2>4
  <2>9. ASSUME NEW i \in 1 .. n + 1  PROVE g[i] = G[<<i, g[i - 1]>>]
    <3>1. i \in 0 .. n + 1 /\ i - 1 \in 0 .. n + 1 /\ i - 1 # n + 1 /\ (i # n + 1 => i \in 1 .. n)
          /\ (i = n + 1 => i - 1 = n)
      BY SMT
    <3>2. g[i - 1] = f[i - 1]
      BY <2>4, <3>1
    <3>3. CASE i = n + 1
      BY <2>4, <3>1, <3>2, <3>3
    <3>4. CASE i # n + 1
      BY <2>3, <2>4, <3>1, <3>2, <3>4
    <3> QED  BY <3>3, <3>4
  <2>10. Is(g, n + 1)
    BY <2>7, <2>8, <2>9
  <2> HIDE DEF Is
  <2> QED  BY <2>10
<1>3. N \in P
  <2> HIDE DEF P
  <2> QED  BY <1>1, <1>2, NatSetInduction
<1>4. N <= N
  BY SMT
<1>5. PICK f : Is(f, N)
  <2> HIDE DEF Is
  <2> QED  BY <1>3, <1>4
<1> QED
  BY <1>5 DEF FoldOf

LEMMA FoldIn ==
  ASSUME NEW N \in Nat, NEW f, NEW J, f[0] \in J[0],
         \A i \in 1 .. N : f[i - 1] \in J[i - 1] => f[i] \in J[i]
  PROVE  f[N] \in J[N]
<1> DEFINE P == {n \in Nat : n <= N => f[n] \in J[n]}
<1>1. 0 \in P
  BY SMT
<1>2. ASSUME NEW n \in Nat, n \in P  PROVE n + 1 \in P
  <2>1. n + 1 \in Nat /\ (n + 1) - 1 = n
    BY SMT
  <2> SUFFICES ASSUME n + 1 <= N  PROVE f[n + 1] \in J[n + 1]
    BY <2>1
  <2>2. n <= N /\ n + 1 \in 1 .. N
    BY SMT
  <2>3. f[n] \in J[n]
    BY <1>2, <2>2
  <2> QED  BY <2>1, <2>2, <2>3
<1>3. N \in P /\ N <= N
  <2>1. N <= N
    BY SMT
  <2> HIDE DEF P
  <2> QED  BY <1>1, <1>2, <2>1, NatSetInduction
<1> QED
  BY <1>3

-----------------------------------------------------------------------------
(* The areas of /proc/self/maps.                                           *)

(* The areas S show these pages.                                           *)
Shows(S, pages) ==
  /\ Apart(S) /\ \A x \in S : x.len > 0
  /\ \A p : (\E x \in S : p \in PagesOf(x)) <=> p \in pages

LEMMA RunAt ==
  ASSUME NEW pages, pages \subseteq Pages, NEW p \in pages
  PROVE  \E x \in Runs(pages) : p \in PagesOf(x)
<1>1. /\ LastPage \in Nat /\ p \in Nat /\ 1 <= p /\ p <= LastPage
      /\ \A q \in pages : q \in Nat /\ 1 <= q /\ q <= LastPage
  BY ArenaConstants, SMT DEF Pages
<1>2. PICK T : T = {q \in Nat : q <= p /\ q .. p \subseteq pages}
  OBVIOUS
<1>3. p \in T /\ T \subseteq Nat
  <2>1. p <= p /\ p .. p = {p}
    BY <1>1, SMT
  <2> QED  BY <1>1, <1>2, <2>1
<1>4. PICK lo \in T : \A q \in T : lo <= q
  BY <1>3, Least
<1>5. lo \in Nat /\ lo <= p /\ lo .. p \subseteq pages
  BY <1>2, <1>4
<1>6. lo \in pages /\ 1 <= lo
  <2>1. lo \in lo .. p
    BY <1>1, <1>5, SMT
  <2> QED  BY <1>1, <1>5, <2>1
<1>7. lo - 1 \notin pages
  <2> SUFFICES ASSUME lo - 1 \in pages  PROVE FALSE
    OBVIOUS
  <2>1. lo - 1 \in Nat /\ lo - 1 <= p /\ ~(lo <= lo - 1)
        /\ \A q : q \in (lo - 1) .. p <=> q = lo - 1 \/ q \in lo .. p
    BY <1>1, <1>5, <1>6, SMT
  <2>2. lo - 1 \in T
    BY <1>2, <1>5, <2>1
  <2> QED  BY <1>4, <2>1, <2>2
<1>8. PICK U : U = {q \in Nat : q <= LastPage /\ p <= q /\ p .. q \subseteq pages}
  OBVIOUS
<1>9. p \in U /\ U \subseteq Nat /\ \A q \in U : q <= LastPage
  <2>1. p <= p /\ p .. p = {p}
    BY <1>1, SMT
  <2> QED  BY <1>1, <1>8, <2>1
<1>10. PICK hi \in U : \A q \in U : q <= hi
  BY <1>1, <1>9, Greatest
<1>11. hi \in Nat /\ p <= hi /\ hi <= LastPage /\ p .. hi \subseteq pages
  BY <1>8, <1>10
<1>12. hi + 1 \notin pages
  <2> SUFFICES ASSUME hi + 1 \in pages  PROVE FALSE
    OBVIOUS
  <2>1. hi + 1 \in Nat /\ p <= hi + 1 /\ ~(hi + 1 <= hi) /\ hi + 1 <= LastPage
        /\ \A q : q \in p .. hi + 1 <=> q = hi + 1 \/ q \in p .. hi
    BY <1>1, <1>11, SMT
  <2>2. hi + 1 \in U
    BY <1>8, <1>11, <2>1
  <2> QED  BY <1>10, <2>1, <2>2
<1>13. PICK x : x = [addr |-> lo, len |-> hi + 1 - lo]
  OBVIOUS
<1>14. hi + 1 - lo \in 1 .. LastPage /\ lo + (hi + 1 - lo) = hi + 1 /\ hi + 1 - lo \in Nat
       /\ lo <= p /\ p < hi + 1
  BY <1>1, <1>5, <1>6, <1>11, SMT
<1>15. x \in BlockSet /\ x \in [addr : pages, len : 1 .. LastPage] /\ End(x) = hi + 1 /\ x.addr = lo
  BY <1>5, <1>6, <1>13, <1>14 DEF BlockSet, End
<1>16. p \in PagesOf(x)
  BY <1>1, <1>14, <1>15, PagesIs
<1>17. PagesOf(x) \subseteq pages
  <2> SUFFICES ASSUME NEW q \in PagesOf(x)  PROVE q \in pages
    OBVIOUS
  <2>1. q \in Nat /\ lo <= q /\ q < hi + 1
    BY <1>15, PagesIs
  <2>2. q \in lo .. p \/ q \in p .. hi
    BY <1>1, <1>5, <1>11, <2>1, SMT
  <2> QED  BY <1>5, <1>11, <2>2
<1>18. x \in Runs(pages)
  BY <1>7, <1>12, <1>15, <1>17 DEF Runs
<1> QED
  BY <1>16, <1>18

LEMMA RunsShow ==
  ASSUME NEW pages, pages \subseteq Pages
  PROVE  Shows(Runs(pages), pages)
<1>1. LastPage \in Nat /\ \A q \in pages : q \in Nat /\ 1 <= q /\ q <= LastPage
  BY ArenaConstants, SMT DEF Pages
<1>2. ASSUME NEW x \in Runs(pages)
      PROVE  /\ x \in BlockSet /\ x.len > 0 /\ PagesOf(x) \subseteq pages
             /\ x.addr - 1 \notin pages /\ End(x) \notin pages
             /\ x \in [addr : Pages, len : 1 .. LastPage]
  <2>1. /\ x \in [addr : pages, len : 1 .. LastPage] /\ PagesOf(x) \subseteq pages
        /\ x.addr - 1 \notin pages /\ End(x) \notin pages
    BY DEF Runs
  <2>2. x.addr \in Nat /\ x.len \in Nat /\ x.len > 0 /\ x = [addr |-> x.addr, len |-> x.len]
    BY <1>1, <2>1, SMT
  <2>3. x \in BlockSet
    BY <2>1, <2>2 DEF BlockSet
  <2>4. x \in [addr : Pages, len : 1 .. LastPage]
    BY <2>1, SMT
  <2> QED  BY <2>1, <2>2, <2>3, <2>4
<1>3. IsFiniteSet(Runs(pages))
  <2>1. PICK V, W : V = Pages /\ W = 1 .. LastPage
    OBVIOUS
  <2>2. IsFiniteSet(V) /\ IsFiniteSet(W)
    <3>1. 1 \in Int /\ LastPage \in Int
      BY <1>1, SMT
    <3> QED  BY <2>1, <3>1, FS_Interval DEF Pages
  <2>3. IsFiniteSet(V \X W)
    BY <2>2, FS_Product
  <2>4. PICK f : f = [t \in V \X W |-> [addr |-> t[1], len |-> t[2]]]
    OBVIOUS
  <2>5. PICK Z : Z = [addr : V, len : W]
    OBVIOUS
  <2>6. f \in Surjection(V \X W, Z)
    <3>1. f \in [V \X W -> Z]
      BY <2>4, <2>5, SMT
    <3>2. ASSUME NEW z \in Z  PROVE \E t \in V \X W : f[t] = z
      <4>1. z.addr \in V /\ z.len \in W /\ z = [addr |-> z.addr, len |-> z.len]
        BY <2>5, SMT
      <4>2. <<z.addr, z.len>> \in V \X W /\ f[<<z.addr, z.len>>] = z
        BY <2>4, <4>1, SMT
      <4> QED  BY <4>2
    <3> QED  BY <3>1, <3>2 DEF Surjection
  <2>7. IsFiniteSet(Z)
    BY <2>3, <2>6, FS_Surjection
  <2>8. Runs(pages) \in SUBSET Z
    BY <1>2, <2>1, <2>5
  <2> QED  BY <2>7, <2>8, FS_Subset
<1>4. ASSUME NEW x \in Runs(pages), NEW y \in Runs(pages), x.addr < y.addr
      PROVE  Before(x, y)
  <2>1. x.addr \in Nat /\ End(x) \in Nat /\ y.addr \in Nat
    BY <1>2, BlockFacts
  <2>2. y.addr - 1 \notin PagesOf(x)
    BY <1>2
  <2>3. ~(y.addr - 1 \in Nat /\ x.addr <= y.addr - 1 /\ y.addr - 1 < End(x))
    BY <1>2, <2>2, PagesIs
  <2>4. End(x) <= y.addr
    BY <1>4, <2>1, <2>3, SMT
  <2> QED  BY <1>4, <2>4 DEF Before
<1>5. ASSUME NEW x \in Runs(pages), NEW y \in Runs(pages), x.addr = y.addr
      PROVE  ~(End(x) < End(y))
  <2>1. x.addr \in Nat /\ End(x) \in Nat /\ y.addr \in Nat /\ End(y) \in Nat /\ x.addr <= End(x)
    BY <1>2, BlockFacts
  <2>2. End(x) \notin PagesOf(y)
    BY <1>2
  <2>3. ~(End(x) \in Nat /\ y.addr <= End(x) /\ End(x) < End(y))
    BY <1>2, <2>2, PagesIs
  <2> QED  BY <1>5, <2>1, <2>3
<1>6. ASSUME NEW x \in Runs(pages), NEW y \in Runs(pages)
      PROVE  x = y \/ Before(x, y) \/ Before(y, x)
  <2>1. x.addr \in Nat /\ y.addr \in Nat /\ x.len \in Nat /\ y.len \in Nat
    BY <1>2, BlockFacts
  <2>2. CASE x.addr < y.addr
    BY <1>4, <2>2
  <2>3. CASE y.addr < x.addr
    BY <1>4, <2>3
  <2>4. CASE x.addr = y.addr
    <3>1. ~(x.addr + x.len < y.addr + y.len) /\ ~(y.addr + y.len < x.addr + x.len)
      BY <1>5, <2>4 DEF End
    <3>2. x.len = y.len
      BY <2>1, <2>4, <3>1, SMT
    <3>3. x = [addr |-> x.addr, len |-> x.len] /\ y = [addr |-> y.addr, len |-> y.len]
      BY <1>2, SMT DEF BlockSet
    <3> QED  BY <2>4, <3>2, <3>3
  <2>5. x.addr < y.addr \/ y.addr < x.addr \/ x.addr = y.addr
    BY <2>1, SMT
  <2> QED  BY <2>2, <2>3, <2>4, <2>5
<1>7. Apart(Runs(pages))
  BY <1>2, <1>3, <1>6 DEF Apart
<1>8. \A p : (\E x \in Runs(pages) : p \in PagesOf(x)) <=> p \in pages
  BY <1>2, RunAt
<1> QED
  BY <1>2, <1>7, <1>8 DEF Shows

-----------------------------------------------------------------------------
(* arena_mmap.                                                             *)

(* A free list that collisions have made shorter: it lost mapped pages.    *)
Thins(free, after) ==
  /\ IsBlocks(after) /\ Covered(after) \subseteq Covered(free)
  /\ Covered(free) \ Mapped \subseteq Covered(after)

(* None of the areas that meet want is left in it.                         *)
Clears(want, after) ==
  \A area \in Runs(Mapped) :
    PagesOf(area) \cap PagesOf(want) # {} => PagesOf(area) \cap Covered(after) = {}

LEMMA CollidedThins ==
  ASSUME NEW free, IsBlocks(free), Mapped \subseteq Pages, NEW want
  PROVE  Thins(free, Collided(free, want)) /\ Clears(want, Collided(free, want))
<1>1. PICK A, list : /\ A = {area \in Runs(Mapped) : PagesOf(area) \cap PagesOf(want) # {}}
                     /\ list = InOrder(A)
  OBVIOUS
<1>2. Shows(Runs(Mapped), Mapped)
  BY RunsShow
<1>3. Apart(A)
  <2>1. A \in SUBSET Runs(Mapped) /\ IsFiniteSet(Runs(Mapped))
    BY <1>1, <1>2 DEF Shows, Apart
  <2>2. IsFiniteSet(A)
    BY <2>1, FS_Subset
  <2> QED  BY <1>2, <2>1, <2>2 DEF Shows, Apart
<1>4. IsListOf(list, A)
  BY <1>1, <1>3, SortedIs
<1>5. PICK n : n = Len(list)
  OBVIOUS
<1>6. n \in Nat /\ \A i \in 1 .. n : list[i] \in BlockSet /\ PagesOf(list[i]) \subseteq Mapped
  <2>1. n \in Nat /\ DOMAIN list = 1 .. n /\ \A i \in DOMAIN list : list[i] \in BlockSet
    BY <1>4, <1>5, ListFacts DEF IsListOf
  <2>2. \A i \in DOMAIN list : list[i] \in Runs(Mapped)
    BY <1>1, <1>4 DEF IsListOf
  <2>3. \A x \in Runs(Mapped) : PagesOf(x) \subseteq Mapped
    BY <1>2 DEF Shows
  <2> QED  BY <2>1, <2>2, <2>3
<1>7. PICK S : S = {s \in Seq(BlockSet) : Thins(free, s)}
  OBVIOUS
<1>8. free \in S
  BY <1>7 DEF Thins, IsBlocks, BlockSet
<1>9. ASSUME NEW i \in 1 .. n, NEW s \in S
      PROVE  /\ remove_overlap_blocks(list[i], s) \in S
             /\ Covered(remove_overlap_blocks(list[i], s)) = Covered(s) \ PagesOf(list[i])
  <2>1. PICK x, r : x = list[i] /\ r = remove_overlap_blocks(x, s)
    OBVIOUS
  <2>2. IsBlocks(s) /\ Covered(s) \subseteq Covered(free) /\ Covered(free) \ Mapped \subseteq Covered(s)
    BY <1>7 DEF Thins
  <2>3. x \in BlockSet /\ PagesOf(x) \subseteq Mapped
    BY <1>6, <2>1
  <2>4. Takes(x, s, r)
    BY <2>1, <2>2, <2>3, RemoveTakes
  <2>5. IsBlocks(r) /\ Covered(r) = Covered(s) \ PagesOf(x)
    BY <2>4 DEF Takes
  <2>6. Thins(free, r)
    BY <2>2, <2>3, <2>5 DEF Thins
  <2>7. r \in Seq(BlockSet)
    BY <2>5 DEF IsBlocks, BlockSet
  <2> QED  BY <1>7, <2>1, <2>5, <2>6, <2>7
<1>10. PICK G : G = [t \in (1 .. n) \X S |-> remove_overlap_blocks(list[t[1]], t[2])]
  OBVIOUS
<1>11. G \in [(1 .. n) \X S -> S] /\ \A i \in 1 .. n, s \in S : G[<<i, s>>] = remove_overlap_blocks(list[i], s)
  <2>1. \A t \in (1 .. n) \X S : t[1] \in 1 .. n /\ t[2] \in S
    BY SMT
  <2>2. \A i \in 1 .. n, s \in S : <<i, s>> \in (1 .. n) \X S /\ <<i, s>>[1] = i /\ <<i, s>>[2] = s
    BY SMT
  <2> QED  BY <1>9, <1>10, <2>1, <2>2
<1>12. PICK f : f \in [0 .. n -> S] /\ f[0] = free /\ \A i \in 1 .. n : f[i] = G[<<i, f[i - 1]>>]
  <2>1. n \in Nat /\ free \in S /\ G \in [(1 .. n) \X S -> S]
    BY <1>6, <1>8, <1>11
  <2>2. \E f : FoldOf(f, n, S, free, G)
    BY <2>1, FoldExists
  <2> QED  BY <2>2 DEF FoldOf
<1> DEFINE Is(h) == h = [i \in 0 .. n |-> IF i = 0 THEN free ELSE remove_overlap_blocks(list[i], h[i - 1])]
<1>13. \A i \in 0 .. n : i # 0 => i \in 1 .. n /\ i - 1 \in 0 .. n
  BY <1>6, SMT
<1>14. Is(f)
  <2>1. \A i \in 0 .. n : f[i] = IF i = 0 THEN free ELSE remove_overlap_blocks(list[i], f[i - 1])
    BY <1>11, <1>12, <1>13
  <2> QED  BY <1>12, <2>1
<1>15. PICK after : Is(after) /\ Collided(free, want) = after[n]
  <2> HIDE DEF Is
  <2>1. PICK h : h = CHOOSE g : Is(g)
    OBVIOUS
  <2>2. Is(h)
    BY <1>14, <2>1
  <2>3. Collided(free, want) = h[n]
    BY <1>1, <1>5, <2>1 DEF Collided, Is
  <2> QED  BY <2>2, <2>3
<1>16. /\ 0 \in 0 .. n /\ \A i \in 1 .. n : i \in 0 .. n /\ i # 0 /\ i - 1 \in 0 .. n
       /\ n \in 0 .. n
  BY <1>6, SMT
<1>17. PICK J : J = [i \in 0 .. n |-> {s \in S : \A j \in 1 .. i : PagesOf(list[j]) \cap Covered(s) = {}}]
  OBVIOUS
<1>18. after[0] \in J[0] /\ \A i \in 1 .. n : after[i - 1] \in J[i - 1] => after[i] \in J[i]
  <2>1. 1 .. 0 = {}
    BY SMT
  <2>2. after[0] = free
    BY <1>15, <1>16
  <2>3. after[0] \in J[0]
    BY <1>8, <1>16, <1>17, <2>1, <2>2
  <2>4. ASSUME NEW i \in 1 .. n, after[i - 1] \in J[i - 1]  PROVE after[i] \in J[i]
    <3>1. PICK s : s = after[i - 1]
      OBVIOUS
    <3>2. s \in S /\ \A j \in 1 .. (i - 1) : PagesOf(list[j]) \cap Covered(s) = {}
      BY <1>16, <1>17, <2>4, <3>1
    <3>3. after[i] = remove_overlap_blocks(list[i], s)
      BY <1>15, <1>16, <3>1
    <3>4. after[i] \in S /\ Covered(after[i]) = Covered(s) \ PagesOf(list[i])
      BY <1>9, <3>2, <3>3
    <3>5. \A j \in 1 .. i : j = i \/ j \in 1 .. (i - 1)
      BY <1>6, SMT
    <3>6. \A j \in 1 .. i : PagesOf(list[j]) \cap Covered(after[i]) = {}
      BY <3>2, <3>4, <3>5
    <3> QED  BY <1>16, <1>17, <3>4, <3>6
  <2> QED  BY <2>3, <2>4
<1>19. after[n] \in S /\ \A j \in 1 .. n : PagesOf(list[j]) \cap Covered(after[n]) = {}
  <2>1. after[n] \in J[n]
    BY <1>6, <1>18, FoldIn
  <2> QED  BY <1>16, <1>17, <2>1
<1>20. Clears(want, after[n])
  <2>1. \A x \in A : \E j \in 1 .. n : x = list[j]
    <3>1. DOMAIN list = 1 .. n
      BY <1>4, <1>5, ListFacts DEF IsListOf
    <3> QED  BY <1>4, <3>1 DEF IsListOf
  <2> QED  BY <1>1, <1>19, <2>1 DEF Clears
<1> QED
  BY <1>7, <1>15, <1>19, <1>20

LEMMA AlignmentIs ==
  ASSUME NEW hint \in Nat
  PROVE  Alignment(hint) \in {1, 2, 4, 8, 16, 32}
<1>1. PICK T : T = {align \in 1 .. LastPage : align \in {1, 2, 4, 8, 16, 32} /\ hint % align = 0}
  OBVIOUS
<1>2. 1 \in T /\ T \subseteq Nat /\ \A n \in T : n <= 32 /\ n \in {1, 2, 4, 8, 16, 32}
  BY <1>1, ArenaConstants, SMT
<1>3. 32 \in Nat
  BY SMT
<1>4. Max(T) \in T
  BY <1>2, <1>3, MaxIs
<1>5. Alignment(hint) = IF hint # 0 /\ Max(T) <= MaxAlign THEN Max(T) ELSE 1
  BY <1>1 DEF Alignment
<1> QED
  BY <1>2, <1>4, <1>5

LEMMA RoundUpIs ==
  ASSUME NEW n \in Nat, NEW align \in {1, 2, 4, 8, 16, 32}
  PROVE  RoundUp(n, align) \in Nat /\ n <= RoundUp(n, align)
<1>1. CASE align = 1
  BY <1>1, SMT DEF RoundUp
<1>2. CASE align = 2
  BY <1>2, SMT DEF RoundUp
<1>3. CASE align = 4
  BY <1>3, SMT DEF RoundUp
<1>4. CASE align = 8
  BY <1>4, SMT DEF RoundUp
<1>5. CASE align = 16
  BY <1>5, SMT DEF RoundUp
<1>6. CASE align = 32
  BY <1>6, SMT DEF RoundUp
<1> QED
  BY <1>1, <1>2, <1>3, <1>4, <1>5, <1>6

LEMMA BlockIs ==
  ASSUME NEW n \in Nat, NEW k \in Nat
  PROVE  /\ Block(n, k) \in BlockSet /\ Block(n, k).addr = n /\ Block(n, k).len = k
         /\ End(Block(n, k)) = n + k
BY DEF Block, BlockSet, End

LEMMA NextFits ==
  ASSUME NEW free, IsBlocks(free), NEW hint \in Nat, NEW length \in Nat, NEW at,
         at = next_free_addr(free, hint, length)
  PROVE  at \in Nat /\ (at # 0 => PagesOf(Block(at, length)) \subseteq Covered(free))
<1>1. /\ Len(free) \in Nat /\ DOMAIN free = 1 .. Len(free)
      /\ \A i \in DOMAIN free : free[i] \in BlockSet
  BY ListFacts
<1>2. PICK align : align = Alignment(hint)
  OBVIOUS
<1>3. PICK fits : fits = {i \in DOMAIN free : RoundUp(free[i].addr, align) - free[i].addr + length <= free[i].len}
  OBVIOUS
<1>4. at = IF fits = {} THEN 0 ELSE RoundUp(free[Min(fits)].addr, align)
  BY <1>2, <1>3 DEF next_free_addr
<1>5. CASE fits = {}
  BY <1>4, <1>5, SMT
<1>6. CASE fits # {}
  <2>1. fits \subseteq Nat
    <3>1. DOMAIN free \subseteq Nat
      BY <1>1, SMT
    <3> QED  BY <1>3, <3>1
  <2>2. PICK i \in fits : i = Min(fits)
    BY <1>6, <2>1, MinIs
  <2>3. PICK x : x = free[i]
    OBVIOUS
  <2>4. /\ i \in DOMAIN free /\ x \in BlockSet /\ at = RoundUp(x.addr, align)
        /\ at - x.addr + length <= x.len
    BY <1>1, <1>3, <1>4, <1>6, <2>2, <2>3
  <2>5. x.addr \in Nat /\ x.len \in Nat /\ End(x) = x.addr + x.len
    BY <2>4, BlockFacts DEF End
  <2>6. at \in Nat /\ x.addr <= at
    <3>1. align \in {1, 2, 4, 8, 16, 32}
      BY <1>2, AlignmentIs
    <3>2. RoundUp(x.addr, align) \in Nat /\ x.addr <= RoundUp(x.addr, align)
      BY <2>5, <3>1, RoundUpIs
    <3> QED  BY <2>4, <3>2
  <2>7. at + length <= End(x)
    BY <2>4, <2>5, <2>6, SMT
  <2>8. PICK w : w = Block(at, length)
    OBVIOUS
  <2>9. w \in BlockSet /\ w.addr = at /\ End(w) = at + length
    BY <2>6, <2>8, BlockIs
  <2>10. ASSUME NEW p \in PagesOf(w)  PROVE p \in PagesOf(x)
    <3>1. p \in Nat /\ at <= p /\ p < at + length
      BY <2>9, PagesIs
    <3>2. x.addr <= p /\ p < End(x)
      BY <2>5, <2>6, <2>7, <3>1, SMT
    <3> QED  BY <2>4, <3>1, <3>2, PagesIs
  <2>11. PagesOf(w) \subseteq Covered(free)
    BY <2>3, <2>4, <2>10 DEF Covered
  <2> QED  BY <2>6, <2>8, <2>11
<1> QED
  BY <1>5, <1>6

(* What arena_mmap has found so far.                                       *)
Finds(free, length, s) ==
  /\ s \in [addr : Nat, free : Seq(BlockSet)] /\ Thins(free, s.free)
  /\ s.addr # 0 => /\ PagesOf(Block(s.addr, length)) \subseteq Covered(s.free)
                   /\ PagesOf(Block(s.addr, length)) \cap Mapped = {}

LEMMA TriedFinds ==
  ASSUME NEW free, NEW hint \in Nat, NEW length \in Nat, Mapped \subseteq Pages,
         NEW s, Finds(free, length, s)
  PROVE  Finds(free, length, Tried(s, hint, length))
<1>1. PICK at, r : at = next_free_addr(s.free, hint, length) /\ r = Tried(s, hint, length)
  OBVIOUS
<1>2. /\ s \in [addr : Nat, free : Seq(BlockSet)] /\ IsBlocks(s.free)
      /\ Covered(s.free) \subseteq Covered(free) /\ Covered(free) \ Mapped \subseteq Covered(s.free)
  BY DEF Finds, Thins
<1>3. at \in Nat /\ (at # 0 => PagesOf(Block(at, length)) \subseteq Covered(s.free))
  BY <1>1, <1>2, NextFits
<1>4. s.free \in Seq(BlockSet)
  BY <1>2
<1>5. CASE s.addr # 0 \/ at = 0
  BY <1>1, <1>5 DEF Tried
<1>6. CASE ~(s.addr # 0 \/ at = 0) /\ ReplacesNone(Block(at, length))
  <2>1. r = [addr |-> at, free |-> s.free]
    BY <1>1, <1>6 DEF Tried
  <2>2. r \in [addr : Nat, free : Seq(BlockSet)] /\ r.addr = at /\ r.free = s.free
    BY <1>3, <1>4, <2>1
  <2>3. Finds(free, length, r)
    BY <1>2, <1>3, <1>6, <2>2 DEF Finds, Thins, ReplacesNone
  <2> QED  BY <1>1, <2>3
<1>7. CASE ~(s.addr # 0 \/ at = 0) /\ ~ReplacesNone(Block(at, length))
  <2>1. PICK c : c = Collided(s.free, Block(at, length))
    OBVIOUS
  <2>2. r = [addr |-> 0, free |-> c]
    BY <1>1, <1>7, <2>1 DEF Tried
  <2>3. Thins(s.free, c)
    BY <1>2, <2>1, CollidedThins
  <2>4. c \in Seq(BlockSet) /\ 0 \in Nat
    <3>1. c \in Seq(BlockSet)
      BY <2>3 DEF Thins, IsBlocks, BlockSet
    <3>2. 0 \in Nat
      BY SMT
    <3> QED  BY <3>1, <3>2
  <2>5. r \in [addr : Nat, free : Seq(BlockSet)] /\ r.addr = 0 /\ r.free = c
    BY <2>2, <2>4
  <2>6. Thins(free, c)
    BY <1>2, <2>3 DEF Thins
  <2>7. Finds(free, length, r)
    BY <2>5, <2>6 DEF Finds
  <2> QED  BY <1>1, <2>7
<1> QED
  BY <1>5, <1>6, <1>7

LEMMA ArenaFinds ==
  ASSUME NEW hint \in Nat, NEW length \in Nat, Mapped \subseteq Pages, IsBlocks(free_blocks)
  PROVE  Finds(free_blocks, length, arena_mmap(hint, length))
<1>1. PICK n, S, first : /\ n = MaxTries /\ first = [addr |-> 0, free |-> free_blocks]
                         /\ S = {s \in [addr : Nat, free : Seq(BlockSet)] : Finds(free_blocks, length, s)}
  OBVIOUS
<1>2. n \in Nat
  BY <1>1, ArenaConstants
<1>3. first \in S
  <2>1. free_blocks \in Seq(BlockSet) /\ 0 \in Nat
    BY SMT DEF IsBlocks, BlockSet
  <2>2. first \in [addr : Nat, free : Seq(BlockSet)] /\ first.addr = 0 /\ first.free = free_blocks
    BY <1>1, <2>1
  <2>3. Finds(free_blocks, length, first)
    BY <2>2 DEF Finds, Thins
  <2> QED  BY <1>1, <2>2, <2>3
<1>4. ASSUME NEW s \in S  PROVE Tried(s, hint, length) \in S
  <2>1. Finds(free_blocks, length, Tried(s, hint, length))
    BY <1>1, TriedFinds
  <2> QED  BY <1>1, <2>1 DEF Finds
<1>5. PICK G : G = [t \in (1 .. n) \X S |-> Tried(t[2], hint, length)]
  OBVIOUS
<1>6. G \in [(1 .. n) \X S -> S] /\ \A i \in 1 .. n, s \in S : G[<<i, s>>] = Tried(s, hint, length)
  <2>1. \A t \in (1 .. n) \X S : t[1] \in 1 .. n /\ t[2] \in S
    BY SMT
  <2>2. \A i \in 1 .. n, s \in S : <<i, s>> \in (1 .. n) \X S /\ <<i, s>>[2] = s
    BY SMT
  <2> QED  BY <1>4, <1>5, <2>1, <2>2
<1>7. PICK f : f \in [0 .. n -> S] /\ f[0] = first /\ \A i \in 1 .. n : f[i] = G[<<i, f[i - 1]>>]
  <2>1. \E f : FoldOf(f, n, S, first, G)
    BY <1>2, <1>3, <1>6, FoldExists
  <2> QED  BY <2>1 DEF FoldOf
<1> DEFINE Is(h) == h = [tries \in 0 .. n |-> IF tries = 0 THEN first ELSE Tried(h[tries - 1], hint, length)]
<1>8. /\ 0 \in 0 .. n /\ n \in 0 .. n /\ \A i \in 0 .. n : i # 0 => i \in 1 .. n /\ i - 1 \in 0 .. n
      /\ \A i \in 1 .. n : i \in 0 .. n /\ i # 0 /\ i - 1 \in 0 .. n
  BY <1>2, SMT
<1>9. Is(f)
  <2>1. \A i \in 0 .. n : f[i] = IF i = 0 THEN first ELSE Tried(f[i - 1], hint, length)
    BY <1>6, <1>7, <1>8
  <2> QED  BY <1>7, <2>1
<1>10. PICK after : Is(after) /\ arena_mmap(hint, length) = after[n]
  BY <1>1, <1>9 DEF arena_mmap
<1>11. PICK J : J = [i \in 0 .. n |-> S]
  OBVIOUS
<1>12. after[0] \in J[0] /\ \A i \in 1 .. n : after[i - 1] \in J[i - 1] => after[i] \in J[i]
  BY <1>3, <1>4, <1>8, <1>10, <1>11
<1>13. after[n] \in S
  <2>1. after[n] \in J[n]
    BY <1>2, <1>12, FoldIn
  <2> QED  BY <1>8, <1>11, <2>1
<1> QED
  BY <1>1, <1>10, <1>13

(* After n tries arena_mmap has an address, or no free block fits, or each *)
(* try has taken a mapping out of the free list's way.                     *)
Cleared(free, after) == InTheWay(free) \ InTheWay(after)
TriedTimes(free, length, n, s) ==
  \/ s.addr # 0
  \/ next_free_addr(s.free, 0, length) = 0
  \/ Cardinality(Cleared(free, s.free)) >= n

LEMMA ClearedFinite ==
  ASSUME Mapped \subseteq Pages, NEW free, NEW after
  PROVE  IsFiniteSet(Cleared(free, after)) /\ Cardinality(Cleared(free, after)) \in Nat
<1>1. IsFiniteSet(Runs(Mapped))
  BY RunsShow DEF Shows, Apart
<1>2. Cleared(free, after) \in SUBSET Runs(Mapped)
  BY DEF Cleared, InTheWay
<1>3. IsFiniteSet(Cleared(free, after))
  BY <1>1, <1>2, FS_Subset
<1> QED
  BY <1>3, FS_CardinalityType

LEMMA TriedOnce ==
  ASSUME NEW free, NEW length \in Nat, Mapped \subseteq Pages, NEW n \in Nat,
         NEW s, Finds(free, length, s), TriedTimes(free, length, n, s)
  PROVE  TriedTimes(free, length, n + 1, Tried(s, 0, length))
<1>1. PICK at, r : at = next_free_addr(s.free, 0, length) /\ r = Tried(s, 0, length)
  OBVIOUS
<1>2. 0 \in Nat
  BY SMT
<1>3. /\ IsBlocks(s.free) /\ Covered(s.free) \subseteq Covered(free)
      /\ at \in Nat /\ (at # 0 => PagesOf(Block(at, length)) \subseteq Covered(s.free))
  <2>1. IsBlocks(s.free) /\ Covered(s.free) \subseteq Covered(free)
    BY DEF Finds, Thins
  <2> QED  BY <1>1, <1>2, <2>1, NextFits
<1>4. CASE s.addr # 0 \/ at = 0
  BY <1>1, <1>4 DEF Tried, TriedTimes
<1>5. CASE ~(s.addr # 0 \/ at = 0) /\ ReplacesNone(Block(at, length))
  <2>1. r.addr = at
    BY <1>1, <1>5 DEF Tried
  <2> QED  BY <1>1, <1>5, <2>1 DEF TriedTimes
<1>6. CASE ~(s.addr # 0 \/ at = 0) /\ ~ReplacesNone(Block(at, length))
  <2>1. PICK want, c : want = Block(at, length) /\ c = Collided(s.free, want)
    OBVIOUS
  <2>2. r.free = c
    BY <1>1, <1>6, <2>1 DEF Tried
  <2>3. Thins(s.free, c) /\ Clears(want, c)
    BY <1>3, <2>1, CollidedThins
  <2>4. PICK p : p \in PagesOf(want) /\ p \in Mapped
    BY <1>6, <2>1 DEF ReplacesNone
  <2>5. PICK area \in Runs(Mapped) : p \in PagesOf(area)
    BY <2>4, RunAt
  <2>6. area \in InTheWay(s.free) /\ area \in InTheWay(free)
    BY <1>3, <1>6, <2>1, <2>4, <2>5 DEF InTheWay
  <2>7. area \notin InTheWay(c)
    BY <2>3, <2>4, <2>5 DEF Clears, InTheWay
  <2>8. InTheWay(c) \subseteq InTheWay(s.free)
    BY <2>3 DEF Thins, InTheWay
  <2>9. PICK old, new, more : /\ old = Cleared(free, s.free) /\ new = Cleared(free, c)
                              /\ more = old \cup {area}
    OBVIOUS
  <2>10. more \subseteq new /\ area \notin old
    BY <2>6, <2>7, <2>8, <2>9 DEF Cleared
  <2>11. /\ IsFiniteSet(old) /\ Cardinality(old) \in Nat
         /\ IsFiniteSet(new) /\ Cardinality(new) \in Nat
    BY <2>9, ClearedFinite
  <2>12. IsFiniteSet(more) /\ Cardinality(more) = Cardinality(old) + 1
    BY <2>9, <2>10, <2>11, FS_AddElement
  <2>13. Cardinality(more) <= Cardinality(new)
    <3>1. more \in SUBSET new
      BY <2>10
    <3> QED  BY <2>11, <3>1, FS_Subset
  <2>14. Cardinality(old) >= n
    BY <1>1, <1>6, <2>9 DEF TriedTimes
  <2>15. Cardinality(new) >= n + 1
    BY <2>11, <2>12, <2>13, <2>14, SMT
  <2> QED  BY <1>1, <2>2, <2>9, <2>15 DEF TriedTimes
<1> QED
  BY <1>4, <1>5, <1>6

LEMMA ArenaTries ==
  ASSUME NEW length \in Nat, Mapped \subseteq Pages, IsBlocks(free_blocks)
  PROVE  TriedTimes(free_blocks, length, MaxTries, arena_mmap(0, length))
<1>1. PICK n, S, first : /\ n = MaxTries /\ first = [addr |-> 0, free |-> free_blocks]
                         /\ S = {s \in [addr : Nat, free : Seq(BlockSet)] : Finds(free_blocks, length, s)}
  OBVIOUS
<1>2. n \in Nat /\ 0 \in Nat
  BY <1>1, ArenaConstants, SMT
<1>3. first \in S
  <2>1. free_blocks \in Seq(BlockSet)
    BY DEF IsBlocks, BlockSet
  <2>2. first \in [addr : Nat, free : Seq(BlockSet)] /\ first.addr = 0 /\ first.free = free_blocks
    BY <1>1, <1>2, <2>1
  <2>3. Finds(free_blocks, length, first)
    BY <2>2 DEF Finds, Thins
  <2> QED  BY <1>1, <2>2, <2>3
<1>4. ASSUME NEW s \in S  PROVE Tried(s, 0, length) \in S
  <2>1. Finds(free_blocks, length, Tried(s, 0, length))
    BY <1>1, <1>2, TriedFinds
  <2> QED  BY <1>1, <2>1 DEF Finds
<1>5. PICK G : G = [t \in (1 .. n) \X S |-> Tried(t[2], 0, length)]
  OBVIOUS
<1>6. G \in [(1 .. n) \X S -> S] /\ \A i \in 1 .. n, s \in S : G[<<i, s>>] = Tried(s, 0, length)
  <2>1. \A t \in (1 .. n) \X S : t[1] \in 1 .. n /\ t[2] \in S
    BY SMT
  <2>2. \A i \in 1 .. n, s \in S : <<i, s>> \in (1 .. n) \X S /\ <<i, s>>[2] = s
    BY SMT
  <2> QED  BY <1>4, <1>5, <2>1, <2>2
<1>7. PICK f : f \in [0 .. n -> S] /\ f[0] = first /\ \A i \in 1 .. n : f[i] = G[<<i, f[i - 1]>>]
  <2>1. \E f : FoldOf(f, n, S, first, G)
    BY <1>2, <1>3, <1>6, FoldExists
  <2> QED  BY <2>1 DEF FoldOf
<1> DEFINE Is(h) == h = [tries \in 0 .. n |-> IF tries = 0 THEN first ELSE Tried(h[tries - 1], 0, length)]
<1>8. /\ 0 \in 0 .. n /\ n \in 0 .. n /\ \A i \in 0 .. n : i # 0 => i \in 1 .. n /\ i - 1 \in 0 .. n
      /\ \A i \in 1 .. n : i \in 0 .. n /\ i # 0 /\ i - 1 \in 0 .. n /\ i - 1 \in Nat /\ (i - 1) + 1 = i
  BY <1>2, SMT
<1>9. Is(f)
  <2>1. \A i \in 0 .. n : f[i] = IF i = 0 THEN first ELSE Tried(f[i - 1], 0, length)
    BY <1>6, <1>7, <1>8
  <2> QED  BY <1>7, <2>1
<1>10. PICK after : Is(after) /\ arena_mmap(0, length) = after[n]
  BY <1>1, <1>9 DEF arena_mmap
<1>11. PICK J : J = [i \in 0 .. n |-> {s \in S : TriedTimes(free_blocks, length, i, s)}]
  OBVIOUS
<1>12. after[0] \in J[0] /\ \A i \in 1 .. n : after[i - 1] \in J[i - 1] => after[i] \in J[i]
  <2>1. after[0] = first
    BY <1>8, <1>10
  <2>2. TriedTimes(free_blocks, length, 0, first)
    <3>1. PICK c : c = Cardinality(Cleared(free_blocks, first.free))
      OBVIOUS
    <3>2. c \in Nat
      BY <3>1, ClearedFinite
    <3>3. c >= 0
      BY <3>2, SMT
    <3> QED  BY <3>1, <3>3 DEF TriedTimes
  <2>3. ASSUME NEW i \in 1 .. n, after[i - 1] \in J[i - 1]  PROVE after[i] \in J[i]
    <3>1. PICK s : s = after[i - 1]
      OBVIOUS
    <3>2. s \in S /\ TriedTimes(free_blocks, length, i - 1, s) /\ Finds(free_blocks, length, s)
      BY <1>1, <1>8, <1>11, <2>3, <3>1
    <3>3. after[i] = Tried(s, 0, length)
      BY <1>8, <1>10, <3>1
    <3>4. TriedTimes(free_blocks, length, (i - 1) + 1, Tried(s, 0, length))
      BY <1>8, <3>2, TriedOnce
    <3> QED  BY <1>4, <1>8, <1>11, <3>2, <3>3, <3>4
  <2> QED  BY <1>3, <1>8, <1>11, <2>1, <2>2, <2>3
<1>13. TriedTimes(free_blocks, length, n, after[n])
  <2>1. after[n] \in J[n]
    BY <1>2, <1>12, FoldIn
  <2> QED  BY <1>8, <1>11, <2>1
<1> QED
  BY <1>1, <1>10, <1>13

(* Where no free block fits there is no room.                              *)
LEMMA NoFitNoRoom ==
  ASSUME NEW free, IsBlocks(free), Covered(free) \subseteq Pages, NEW length \in Nat, length > 0,
         next_free_addr(free, 0, length) = 0,
         NEW i \in DOMAIN free, NEW a \in PagesOf(free[i])
  PROVE  ~(a + length <= End(free[i]))
<1> SUFFICES ASSUME a + length <= End(free[i])  PROVE FALSE
  OBVIOUS
<1>1. /\ Len(free) \in Nat /\ DOMAIN free = 1 .. Len(free)
      /\ \A k \in DOMAIN free : free[k] \in BlockSet
  BY ListFacts
<1>2. Alignment(0) = 1
  BY DEF Alignment
<1>3. \A m \in Nat : RoundUp(m, 1) = m
  BY SMT DEF RoundUp
<1>4. \A k \in DOMAIN free : free[k].addr \in Nat /\ free[k].len \in Nat
                             /\ End(free[k]) = free[k].addr + free[k].len
  BY <1>1, BlockFacts DEF End
<1>5. PICK fits : fits = {k \in DOMAIN free : RoundUp(free[k].addr, 1) - free[k].addr + length <= free[k].len}
  OBVIOUS
<1>6. (IF fits = {} THEN 0 ELSE RoundUp(free[Min(fits)].addr, 1)) = 0
  BY <1>2, <1>5 DEF next_free_addr
<1>7. PICK x : x = free[i]
  OBVIOUS
<1>8. i \in fits
  <2>1. a \in Nat /\ x.addr <= a
    BY <1>1, <1>7, PagesIs
  <2>2. x.addr \in Nat /\ x.len \in Nat /\ End(x) = x.addr + x.len /\ RoundUp(x.addr, 1) = x.addr
    BY <1>3, <1>4, <1>7
  <2>3. a + length <= End(x)
    BY <1>7
  <2>4. RoundUp(x.addr, 1) - x.addr + length <= x.len
    BY <2>1, <2>2, <2>3, SMT
  <2> QED  BY <1>5, <1>7, <2>4
<1>9. fits \subseteq Nat
  <2>1. DOMAIN free \subseteq Nat
    BY <1>1, SMT
  <2> QED  BY <1>5, <2>1
<1>10. PICK k \in fits : k = Min(fits)
  BY <1>8, <1>9, MinIs
<1>11. PICK y : y = free[k]
  OBVIOUS
<1>12. /\ k \in DOMAIN free /\ y \in BlockSet /\ y.addr = 0 /\ y.len \in Nat
       /\ RoundUp(y.addr, 1) - y.addr + length <= y.len /\ RoundUp(y.addr, 1) = y.addr
       /\ End(y) = y.addr + y.len
  BY <1>1, <1>3, <1>4, <1>5, <1>6, <1>8, <1>10, <1>11
<1>13. 0 \in Nat /\ y.addr <= 0 /\ 0 < End(y)
  BY <1>12, SMT
<1>14. 0 \in PagesOf(y)
  BY <1>12, <1>13, PagesIs
<1>15. 0 \in Pages
  BY <1>11, <1>12, <1>14 DEF Covered
<1> QED
  BY <1>15, SMT DEF Pages

-----------------------------------------------------------------------------
(* init_mem_arena and init_mem_arena_after_restore.                        *)

(* The free list of a new arena.                                           *)
Starts(base, free) ==
  /\ IsBlocks(free) /\ Covered(free) \subseteq Pages /\ (\A p \in Covered(free) : base <= p)
  /\ End(free[1]) \in Nat /\ base .. End(free[1]) - 1 \subseteq Covered(free)

LEMMA ArenaStarts ==
  ASSUME NEW mapped, mapped \subseteq Pages, NEW base \in Nat, 1 <= base, base <= LastPage + 1
  PROVE  Starts(base, init_mem_arena(base, mapped))
<1>1. LastPage \in Nat /\ \A q : q \in Pages <=> q \in Nat /\ 1 <= q /\ q <= LastPage
  BY ArenaConstants, SMT DEF Pages
<1>2. PICK above, top :
        /\ above = {p \in mapped : p >= base /\ p - 1 \notin mapped}
        /\ top = FirstMappingAbove(base, mapped)
  OBVIOUS
<1>3. top \in Nat /\ base <= top /\ top <= LastPage + 1
  <2>1. CASE above = {}
    <3>1. top = LastPage + 1
      BY <1>2, <2>1 DEF FirstMappingAbove
    <3> QED  BY <1>1, <3>1, SMT
  <2>2. CASE above # {}
    <3>1. above \subseteq Nat
      BY <1>1, <1>2
    <3>2. top = Min(above)
      BY <1>2, <2>2 DEF FirstMappingAbove
    <3>3. top \in above /\ \A p \in above : top <= p
      BY <2>2, <3>1, <3>2, MinIs
    <3>4. top \in Nat /\ top <= LastPage /\ top >= base
      BY <1>1, <1>2, <3>3
    <3> QED  BY <1>1, <3>4, SMT
  <2> QED  BY <2>1, <2>2
<1>4. PICK x, free : x = Block(base, top - base) /\ free = init_mem_arena(base, mapped)
  OBVIOUS
<1>5. top - base \in Nat /\ base + (top - base) = top
  BY <1>3, SMT
<1>6. x \in BlockSet /\ x.addr = base /\ End(x) = top
  BY <1>4, <1>5, BlockIs
<1>7. free = <<x>>
  BY <1>2, <1>4 DEF init_mem_arena
<1>8. free \in Seq(BlockSet) /\ DOMAIN free = {1} /\ free[1] = x
  BY <1>6, <1>7, SMT
<1>9. IsBlocks(free)
  <2>1. ~(1 < 1)
    BY SMT
  <2>2. \A i, j \in DOMAIN free : ~(i < j)
    BY <1>8, <2>1
  <2> QED  BY <1>8, <2>2 DEF IsBlocks, BlockSet
<1>10. Covered(free) = PagesOf(x)
  BY <1>8 DEF Covered
<1>11. \A p : p \in PagesOf(x) <=> p \in Nat /\ base <= p /\ p < top
  BY <1>6, PagesIs
<1>12. PagesOf(x) \subseteq Pages
  <2> SUFFICES ASSUME NEW p \in PagesOf(x)  PROVE p \in Pages
    OBVIOUS
  <2>1. p \in Nat /\ base <= p /\ p < top
    BY <1>11
  <2>2. 1 <= p /\ p <= LastPage
    BY <1>1, <1>3, <2>1, SMT
  <2> QED  BY <1>1, <2>1, <2>2
<1>13. \A p \in PagesOf(x) : base <= p
  BY <1>11
<1>14. base .. End(free[1]) - 1 = PagesOf(x)
  BY <1>6, <1>8 DEF PagesOf
<1>15. Starts(base, free)
  BY <1>3, <1>6, <1>8, <1>9, <1>10, <1>12, <1>13, <1>14 DEF Starts
<1> QED
  BY <1>4, <1>15

(* The list that init_mem_arena_after_restore makes of the image.          *)
Records(list, pages) == IsBlocks(list) /\ Full(list) /\ Covered(list) = pages

LEMMA RestoredIs ==
  ASSUME image \subseteq Pages
  PROVE  Records(Restored, image)
<1>1. PICK A, list : A = Runs(image) /\ list = InOrder(A)
  OBVIOUS
<1>2. Shows(A, image)
  BY <1>1, RunsShow
<1>3. IsListOf(list, A)
  BY <1>1, <1>2, SortedIs DEF Shows
<1>4. PICK n : n = Len(list)
  OBVIOUS
<1>5. n \in Nat /\ DOMAIN list = 1 .. n /\ \A i \in 1 .. n : list[i] \in BlockSet /\ list[i].len > 0
  <2>1. n \in Nat /\ DOMAIN list = 1 .. n /\ \A i \in DOMAIN list : list[i] \in BlockSet
    BY <1>3, <1>4, ListFacts DEF IsListOf
  <2>2. \A i \in DOMAIN list : list[i] \in A
    BY <1>3 DEF IsListOf
  <2> QED  BY <1>2, <2>1, <2>2 DEF Shows
<1>6. PICK S : S = {s \in Seq(BlockSet) : IsBlocks(s) /\ Full(s)}
  OBVIOUS
<1>7. ASSUME NEW i \in 1 .. n, NEW s \in S
      PROVE  /\ merge_overlap_blocks(list[i], s) \in S
             /\ Covered(merge_overlap_blocks(list[i], s)) = Covered(s) \cup PagesOf(list[i])
  <2>1. PICK x, r : x = list[i] /\ r = merge_overlap_blocks(x, s)
    OBVIOUS
  <2>2. x \in BlockSet /\ x.len > 0 /\ IsBlocks(s) /\ Full(s)
    BY <1>5, <1>6, <2>1
  <2>3. Adds(x, s, r)
    BY <2>1, <2>2, MergeAdds
  <2>4. IsBlocks(r) /\ Full(r) /\ Covered(r) = Covered(s) \cup PagesOf(x)
    BY <2>2, <2>3 DEF Adds
  <2>5. r \in Seq(BlockSet)
    BY <2>4 DEF IsBlocks, BlockSet
  <2> QED  BY <1>6, <2>1, <2>4, <2>5
<1>8. <<>> \in S /\ Covered(<<>>) = {}
  <2>1. IsBlocks(<<>>) /\ Covered(<<>>) = {} /\ DOMAIN <<>> = {}
    BY EmptyList
  <2>2. <<>> \in Seq(BlockSet)
    BY <2>1 DEF IsBlocks, BlockSet
  <2> QED  BY <1>6, <2>1, <2>2 DEF Full
<1>9. PICK G : G = [t \in (1 .. n) \X S |-> merge_overlap_blocks(list[t[1]], t[2])]
  OBVIOUS
<1>10. G \in [(1 .. n) \X S -> S] /\ \A i \in 1 .. n, s \in S : G[<<i, s>>] = merge_overlap_blocks(list[i], s)
  <2>1. \A t \in (1 .. n) \X S : t[1] \in 1 .. n /\ t[2] \in S
    BY SMT
  <2>2. \A i \in 1 .. n, s \in S : <<i, s>> \in (1 .. n) \X S /\ <<i, s>>[1] = i /\ <<i, s>>[2] = s
    BY SMT
  <2> QED  BY <1>7, <1>9, <2>1, <2>2
<1>11. PICK f : f \in [0 .. n -> S] /\ f[0] = <<>> /\ \A i \in 1 .. n : f[i] = G[<<i, f[i - 1]>>]
  <2>1. PICK first : first = <<>>
    OBVIOUS
  <2>2. \E f : FoldOf(f, n, S, first, G)
    BY <1>5, <1>8, <1>10, <2>1, FoldExists
  <2> QED  BY <2>1, <2>2 DEF FoldOf
<1> DEFINE Is(h) == h = [i \in 0 .. n |-> IF i = 0 THEN <<>> ELSE merge_overlap_blocks(list[i], h[i - 1])]
<1>12. /\ 0 \in 0 .. n /\ n \in 0 .. n /\ \A i \in 0 .. n : i # 0 => i \in 1 .. n /\ i - 1 \in 0 .. n
       /\ \A i \in 1 .. n : i \in 0 .. n /\ i # 0 /\ i - 1 \in 0 .. n
       /\ \A i \in 1 .. n : \A k : k \in 1 .. i <=> k \in 1 .. i - 1 \/ k = i
       /\ 1 .. 0 = {}
  BY <1>5, SMT
<1>13. Is(f)
  <2>1. \A i \in 0 .. n : f[i] = IF i = 0 THEN <<>> ELSE merge_overlap_blocks(list[i], f[i - 1])
    BY <1>10, <1>11, <1>12
  <2> QED  BY <1>11, <2>1
<1>14. PICK after : Is(after) /\ Restored = after[n]
  <2> HIDE DEF Is
  <2>1. PICK h : h = CHOOSE g : Is(g)
    OBVIOUS
  <2>2. Is(h)
    BY <1>13, <2>1
  <2>3. Restored = h[n]
    BY <1>1, <1>4, <2>1 DEF Restored, Is
  <2> QED  BY <2>2, <2>3
<1>15. PICK J : J = [i \in 0 .. n |-> {s \in S : Covered(s) = UNION {PagesOf(list[k]) : k \in 1 .. i}}]
  OBVIOUS
<1>16. after[0] \in J[0]
  <2>1. after[0] = <<>>
    BY <1>12, <1>14
  <2>2. UNION {PagesOf(list[k]) : k \in 1 .. 0} = {}
    <3>1. {PagesOf(list[k]) : k \in 1 .. 0} = {}
      BY <1>12, SMT
    <3> QED  BY <3>1
  <2>3. J[0] = {s \in S : Covered(s) = UNION {PagesOf(list[k]) : k \in 1 .. 0}}
    BY <1>12, <1>15
  <2> QED  BY <1>8, <2>1, <2>2, <2>3
<1>17. ASSUME NEW i \in 1 .. n, after[i - 1] \in J[i - 1]  PROVE after[i] \in J[i]
  <2>1. PICK s : s = after[i - 1]
    OBVIOUS
  <2>2. s \in S /\ Covered(s) = UNION {PagesOf(list[k]) : k \in 1 .. i - 1}
    BY <1>12, <1>15, <1>17, <2>1
  <2>3. after[i] = merge_overlap_blocks(list[i], s)
    BY <1>12, <1>14, <2>1
  <2>4. after[i] \in S /\ Covered(after[i]) = Covered(s) \cup PagesOf(list[i])
    BY <1>7, <2>2, <2>3
  <2>5. \A k : k \in 1 .. i <=> k \in 1 .. i - 1 \/ k = i
    BY <1>12
  <2>6. Covered(after[i]) = UNION {PagesOf(list[k]) : k \in 1 .. i}
    BY <2>2, <2>4, <2>5
  <2> QED  BY <1>12, <1>15, <2>4, <2>6
<1>18. after[n] \in J[n]
  <2> HIDE DEF Is
  <2> QED  BY <1>5, <1>16, <1>17, FoldIn
<1>19. after[n] \in S /\ Covered(after[n]) = UNION {PagesOf(list[k]) : k \in 1 .. n}
  BY <1>12, <1>15, <1>18
<1>20. UNION {PagesOf(list[k]) : k \in 1 .. n} = image
  <2>1. \A p : p \in Covered(list) <=> p \in image
    BY <1>2, <1>3, CoveredIs DEF Shows
  <2> QED  BY <1>5, <2>1 DEF Covered
<1> QED
  BY <1>6, <1>14, <1>19, <1>20 DEF Records

-----------------------------------------------------------------------------
(* What the image saves.                                                   *)

(* The next range of the upper half at or above n.                         *)
NextRange(n, range) ==
  /\ range \in BlockSet
  /\ range.len = 0 => \A p \in uh : ~(n <= p)
  /\ range.len > 0 => /\ n < End(range) /\ PagesOf(range) \subseteq uh
                      /\ \A p \in uh : ~(n <= p /\ p < range.addr)

LEMMA StackIs ==
  Stack \in BlockSet /\ Stack.len > 0 /\ PagesOf(Stack) \subseteq Pages /\ PagesOf(Stack) # {}
<1>1. /\ LastPage \in Nat /\ Stack.addr \in 2 .. LastPage /\ Stack.len \in 1 .. LastPage
      /\ Stack = [addr |-> Stack.addr, len |-> Stack.len] /\ Stack.addr + Stack.len <= LastPage
  BY ArenaConstants
<1>2. Stack.addr \in Nat /\ Stack.len \in Nat /\ Stack.len > 0
  BY <1>1, SMT
<1>3. Stack \in BlockSet
  BY <1>1, <1>2 DEF BlockSet
<1>4. Stack.addr .. (Stack.addr + Stack.len) - 1 \subseteq 1 .. LastPage
      /\ Stack.addr \in Stack.addr .. (Stack.addr + Stack.len) - 1
  BY <1>1, SMT
<1> QED
  BY <1>2, <1>3, <1>4 DEF PagesOf, End, Pages

LEMMA RangeIsNext ==
  ASSUME IsBlocks(allocated_blocks), Full(allocated_blocks),
         uh = Covered(allocated_blocks) \cup PagesOf(Stack), NEW n \in Nat
  PROVE  NextRange(n, nextUpperHalfRange(n))
<1>1. PICK list : list = allocated_blocks
  OBVIOUS
<1>2. /\ Len(list) \in Nat /\ DOMAIN list = 1 .. Len(list)
      /\ \A i \in DOMAIN list : list[i] \in BlockSet /\ list[i].len > 0
      /\ \A i, j \in DOMAIN list : i < j => Before(list[i], list[j])
  <2>1. IsBlocks(list) /\ Full(list)
    BY <1>1
  <2> QED  BY <2>1, ListFacts DEF Full
<1>3. PICK above : above = {i \in DOMAIN list : End(list[i]) > n}
  OBVIOUS
<1>4. PICK region : region = IF above = {} THEN Block(0, 0) ELSE list[Min(above)]
  OBVIOUS
<1>5. PICK range : range = nextUpperHalfRange(n)
  OBVIOUS
<1>6. range = IF End(Stack) > n /\ (above = {} \/ Stack.addr < region.addr) THEN Stack ELSE region
  BY <1>1, <1>3, <1>4, <1>5 DEF nextUpperHalfRange
<1>7. Stack \in BlockSet /\ Stack.len > 0
  BY StackIs
<1>8. Stack.addr \in Nat /\ End(Stack) \in Nat /\ Stack.len \in Nat
  BY <1>7, BlockFacts
<1>9. \A p \in uh : p \in PagesOf(Stack) \/ \E i \in DOMAIN list : p \in PagesOf(list[i])
  BY <1>1 DEF Covered
<1>10. \A p \in uh : p \in Nat
  BY <1>2, <1>7, <1>9, PagesIs
<1>11. \A p \in PagesOf(Stack) : p \in Nat /\ Stack.addr <= p /\ p < End(Stack)
  BY <1>7, PagesIs
<1>12. ASSUME NEW p \in Nat, n <= p, NEW i \in DOMAIN list, p \in PagesOf(list[i])
       PROVE  i \in above /\ list[i].addr <= p
  <2>1. list[i].addr <= p /\ p < End(list[i]) /\ End(list[i]) \in Nat
    BY <1>2, <1>12, PagesIs, BlockFacts
  <2>2. End(list[i]) > n
    BY <1>12, <2>1, SMT
  <2> QED  BY <1>3, <2>1, <2>2
<1>13. ASSUME above # {}
       PROVE  /\ region \in BlockSet /\ region.len > 0 /\ n < End(region) /\ PagesOf(region) \subseteq uh
              /\ \A i \in above : region.addr <= list[i].addr
  <2>1. above \subseteq Nat
    <3>1. DOMAIN list \subseteq Nat
      BY <1>2, SMT
    <3> QED  BY <1>3, <3>1
  <2>2. PICK k \in above : k = Min(above) /\ \A i \in above : k <= i
    BY <1>13, <2>1, MinIs
  <2>3. region = list[k] /\ k \in DOMAIN list /\ End(list[k]) > n
    BY <1>3, <1>4, <1>13, <2>2
  <2>4. region \in BlockSet /\ region.len > 0
    BY <1>2, <2>3
  <2>5. n < End(region) /\ region.addr <= region.addr
    <3>1. End(region) \in Nat /\ region.addr \in Nat
      BY <2>4, BlockFacts
    <3> QED  BY <2>3, <3>1, SMT
  <2>6. PagesOf(region) \subseteq uh
    BY <1>1, <2>3 DEF Covered
  <2>7. ASSUME NEW i \in above  PROVE region.addr <= list[i].addr
    <3>1. i \in DOMAIN list /\ k <= i /\ i \in Nat /\ k \in Nat
      BY <1>3, <2>1, <2>2
    <3>2. CASE k = i
      BY <2>3, <2>5, <3>2
    <3>3. CASE k # i
      <4>1. k < i
        BY <3>1, <3>3, SMT
      <4>2. Before(list[k], list[i])
        BY <1>2, <2>3, <3>1, <4>1
      <4>3. region.addr < list[i].addr /\ region.addr \in Nat /\ list[i].addr \in Nat
        BY <1>2, <2>3, <2>4, <3>1, <4>2, BlockFacts DEF Before
      <4> QED  BY <4>3, SMT
    <3> QED  BY <3>2, <3>3
  <2> QED  BY <2>4, <2>5, <2>6, <2>7
<1>14. ASSUME NEW p \in uh, n <= p, p \notin PagesOf(Stack)
       PROVE  above # {} /\ region.addr <= p
  <2>1. p \in Nat
    BY <1>10
  <2>2. PICK i \in DOMAIN list : p \in PagesOf(list[i])
    BY <1>9, <1>14
  <2>3. i \in above /\ list[i].addr <= p
    BY <1>12, <1>14, <2>1, <2>2
  <2>4. region.addr <= list[i].addr /\ region.addr \in Nat /\ list[i].addr \in Nat
    BY <1>2, <1>13, <2>3, BlockFacts
  <2> QED  BY <2>1, <2>3, <2>4, SMT
<1>15. CASE End(Stack) > n /\ (above = {} \/ Stack.addr < region.addr)
  <2>1. range = Stack
    BY <1>6, <1>15
  <2>2. n < End(Stack) /\ Stack.len # 0
    BY <1>7, <1>8, <1>15, SMT
  <2>3. ASSUME NEW p \in uh, n <= p, p < Stack.addr  PROVE FALSE
    <3>1. p \in Nat
      BY <1>10
    <3>2. p \notin PagesOf(Stack)
      <4>1. ~(Stack.addr <= p)
        BY <1>8, <2>3, <3>1, SMT
      <4> QED  BY <1>11, <4>1
    <3>3. above # {} /\ region.addr <= p /\ region.addr \in Nat
      BY <1>13, <1>14, <2>3, <3>2, BlockFacts
    <3>4. Stack.addr < region.addr
      BY <1>15, <3>3
    <3> QED  BY <1>8, <2>3, <3>1, <3>3, <3>4, SMT
  <2>4. NextRange(n, Stack)
    BY <1>7, <2>2, <2>3 DEF NextRange
  <2> QED  BY <1>5, <2>1, <2>4
<1>16. CASE ~(End(Stack) > n /\ (above = {} \/ Stack.addr < region.addr)) /\ above # {}
  <2>1. range = region
    BY <1>6, <1>16
  <2>2. region \in BlockSet /\ region.len > 0 /\ n < End(region) /\ PagesOf(region) \subseteq uh
    BY <1>13, <1>16
  <2>3. region.addr \in Nat /\ region.len \in Nat /\ region.len # 0
    <3>1. region.addr \in Nat /\ region.len \in Nat
      BY <2>2, BlockFacts
    <3> QED  BY <2>2, <3>1, SMT
  <2>4. ASSUME NEW p \in uh, n <= p, p < region.addr  PROVE FALSE
    <3>1. p \in Nat
      BY <1>10
    <3>2. CASE p \in PagesOf(Stack)
      <4>1. Stack.addr <= p /\ p < End(Stack)
        BY <1>11, <3>2
      <4>2. End(Stack) > n /\ Stack.addr < region.addr
        BY <1>8, <2>3, <2>4, <3>1, <4>1, SMT
      <4> QED  BY <1>16, <4>2
    <3>3. CASE p \notin PagesOf(Stack)
      <4>1. region.addr <= p
        BY <1>14, <2>4, <3>3
      <4> QED  BY <2>3, <2>4, <3>1, <4>1, SMT
    <3> QED  BY <3>2, <3>3
  <2>5. NextRange(n, region)
    BY <2>2, <2>3, <2>4 DEF NextRange
  <2> QED  BY <1>5, <2>1, <2>5
<1>17. CASE ~(End(Stack) > n /\ (above = {} \/ Stack.addr < region.addr)) /\ above = {}
  <2>1. range = region /\ region = Block(0, 0)
    BY <1>4, <1>6, <1>17
  <2>2. range \in BlockSet /\ range.len = 0 /\ ~(range.len > 0)
    <3>1. 0 \in Nat /\ ~(0 > 0)
      BY SMT
    <3> QED  BY <2>1, <3>1, BlockIs
  <2>3. ASSUME NEW p \in uh, n <= p  PROVE FALSE
    <3>1. p \in Nat
      BY <1>10
    <3>2. p \in PagesOf(Stack)
      BY <1>14, <1>17, <2>3
    <3>3. p < End(Stack)
      BY <1>11, <3>2
    <3>4. End(Stack) > n
      BY <1>8, <2>3, <3>1, <3>3, SMT
    <3> QED  BY <1>17, <3>4
  <2>4. NextRange(n, range)
    BY <2>2, <2>3 DEF NextRange
  <2> QED  BY <1>5, <2>4
<1> QED
  BY <1>15, <1>16, <1>17

(* The pages of an area that are saved are the upper half's.               *)
LEMMA SavedIs ==
  ASSUME IsBlocks(allocated_blocks), Full(allocated_blocks), uh \subseteq Nat,
         uh = Covered(allocated_blocks) \cup PagesOf(Stack), NEW area \in BlockSet
  PROVE  Saved(area) = {p \in uh : area.addr <= p /\ p < End(area)}
<1> DEFINE lo == area.addr
           hi == End(area)
<1>2. lo \in Nat /\ hi \in Nat /\ lo <= hi
  BY BlockFacts
<1> HIDE DEF lo, hi
<1> DEFINE W(n) == {p \in uh : n <= p /\ p < hi}
           Until(n) == Min({End(nextUpperHalfRange(n)), hi})
           Step(f, n) == IF n = hi \/ nextUpperHalfRange(n).len = 0 \/ nextUpperHalfRange(n).addr >= hi THEN {}
                         ELSE IF nextUpperHalfRange(n).addr > n THEN f[nextUpperHalfRange(n).addr]
                         ELSE (n .. Until(n) - 1) \cup f[Until(n)]
           Is(f) == f = [n \in lo .. hi |-> Step(f, n)]
<1>3. \A n \in lo .. hi : n \in Nat /\ lo <= n /\ n <= hi
  BY <1>2, SMT
<1>4. \A n \in lo .. hi : NextRange(n, nextUpperHalfRange(n))
  BY <1>3, RangeIsNext
<1>5. ASSUME NEW f, NEW n \in lo .. hi, \A m \in lo .. hi : n < m => f[m] = W(m)
      PROVE  Step(f, n) = W(n)
  <2>1. PICK range : range = nextUpperHalfRange(n)
    OBVIOUS
  <2>2. n \in Nat /\ lo <= n /\ n <= hi /\ NextRange(n, range)
    BY <1>3, <1>4, <2>1
  <2>3. range.addr \in Nat /\ range.len \in Nat /\ End(range) \in Nat /\ range \in BlockSet
    BY <2>2, BlockFacts DEF NextRange
  <2>4. CASE n = hi
    <3>1. Step(f, n) = {}
      BY <2>4
    <3>2. W(n) = {}
      BY <1>2, <2>4, SMT
    <3> QED  BY <3>1, <3>2
  <2>5. CASE range.len = 0
    <3>1. Step(f, n) = {}
      BY <2>1, <2>5
    <3>2. W(n) = {}
      BY <2>2, <2>5 DEF NextRange
    <3> QED  BY <3>1, <3>2
  <2>6. CASE n # hi /\ range.len # 0
    <3>1. range.len > 0 /\ n < hi
      BY <1>2, <2>2, <2>3, <2>6, SMT
    <3>2. n < End(range) /\ PagesOf(range) \subseteq uh /\ \A p \in uh : ~(n <= p /\ p < range.addr)
      BY <2>2, <3>1 DEF NextRange
    <3>3. CASE range.addr >= hi
      <4>1. Step(f, n) = {}
        BY <2>1, <3>3
      <4>2. W(n) = {}
        <5> SUFFICES ASSUME NEW p \in uh, n <= p, p < hi  PROVE FALSE
          OBVIOUS
        <5>1. p < range.addr
          BY <1>2, <2>3, <3>3, SMT
        <5> QED  BY <3>2, <5>1
      <4> QED  BY <4>1, <4>2
    <3>4. CASE ~(range.addr >= hi) /\ range.addr > n
      <4>1. Step(f, n) = f[range.addr]
        BY <2>1, <2>6, <3>4
      <4>2. range.addr \in lo .. hi /\ n < range.addr
        BY <1>2, <2>2, <2>3, <3>4, SMT
      <4>3. Step(f, n) = W(range.addr)
        BY <1>5, <4>1, <4>2
      <4>4. ASSUME NEW p \in uh  PROVE range.addr <= p <=> n <= p
        <5>1. ~(n <= p /\ p < range.addr) /\ p \in Nat
          BY <3>2
        <5> QED  BY <2>2, <2>3, <4>2, <5>1, SMT
      <4>5. W(range.addr) = W(n)
        BY <4>4
      <4> QED  BY <4>3, <4>5
    <3>5. CASE ~(range.addr >= hi) /\ ~(range.addr > n)
      <4>1. PICK until : until = Until(n)
        OBVIOUS
      <4>2. until \in {End(range), hi} /\ until <= End(range) /\ until <= hi
        <5>1. PICK T : T = {End(range), hi}
          OBVIOUS
        <5>2. T \subseteq Nat /\ T # {}
          BY <1>2, <2>3, <5>1
        <5>3. Min(T) \in T /\ \A k \in T : Min(T) <= k
          BY <5>2, MinIs
        <5> QED  BY <2>1, <4>1, <5>1, <5>3
      <4>3. until \in Nat /\ n < until /\ until \in lo .. hi
        BY <1>2, <2>2, <2>3, <3>1, <3>2, <4>2, SMT
      <4>4. Step(f, n) = (n .. until - 1) \cup f[until]
        BY <2>1, <2>6, <3>5, <4>1
      <4>5. f[until] = W(until)
        BY <1>5, <4>3
      <4>6. n .. until - 1 \subseteq uh
        <5> SUFFICES ASSUME NEW p \in n .. until - 1  PROVE p \in PagesOf(range)
          BY <3>2
        <5>1. p \in Nat /\ range.addr <= p /\ p < End(range)
          BY <2>2, <2>3, <3>5, <4>2, <4>3, SMT
        <5> QED  BY <2>3, <5>1, PagesIs
      <4>7. ASSUME NEW p \in uh  PROVE (p \in n .. until - 1 \/ (until <= p /\ p < hi)) <=> (n <= p /\ p < hi)
        <5>1. p \in Nat
          OBVIOUS
        <5> QED  BY <1>2, <2>2, <4>2, <4>3, <5>1, SMT
      <4>8. (n .. until - 1) \cup W(until) = W(n)
        BY <4>6, <4>7
      <4> QED  BY <4>4, <4>5, <4>8
    <3> QED  BY <3>3, <3>4, <3>5
  <2> QED  BY <2>4, <2>5, <2>6
<1>6. PICK w : w = [n \in lo .. hi |-> W(n)]
  OBVIOUS
<1>7. Is(w)
  <2>1. \A n \in lo .. hi : w[n] = W(n)
    BY <1>6
  <2>2. \A n \in lo .. hi : Step(w, n) = W(n)
    <3> HIDE DEF Step, W
    <3> QED  BY <1>5, <2>1
  <2> HIDE DEF Step, W
  <2> QED  BY <1>6, <2>2
<1>8. PICK f : Is(f) /\ Saved(area) = f[lo]
  BY <1>7 DEF Saved, lo, hi
<1>9. \A n \in lo .. hi : f[n] = Step(f, n)
  BY <1>8
<1> HIDE DEF Is, Step, W
<1> DEFINE T == {n \in lo .. hi : f[n] # W(n)}
<1>10. T = {}
  <2> SUFFICES ASSUME T # {}  PROVE FALSE
    OBVIOUS
  <2>1. T \subseteq Nat /\ \A n \in T : n <= hi
    BY <1>3
  <2>2. PICK n \in T : \A m \in T : m <= n
    <3> HIDE DEF T
    <3> QED  BY <1>2, <2>1, Greatest
  <2>3. ASSUME NEW m \in lo .. hi, n < m  PROVE f[m] = W(m)
    <3>1. ~(m <= n)
      <4>1. m \in Nat /\ n \in Nat
        BY <1>3
      <4> QED  BY <2>3, <4>1, SMT
    <3> QED  BY <2>2, <3>1
  <2>4. Step(f, n) = W(n)
    BY <1>5, <2>3
  <2> QED  BY <1>9, <2>4
<1>11. lo \in lo .. hi
  BY <1>2, SMT
<1>12. f[lo] = W(lo)
  BY <1>10, <1>11
<1> QED
  BY <1>8, <1>12 DEF W, lo, hi

LEMMA SavedPagesIs ==
  ASSUME ArenaInv, phase = "run"
  PROVE  SavedPages = uh
<1>1. /\ IsBlocks(allocated_blocks) /\ Full(allocated_blocks) /\ Mapped \subseteq Pages
      /\ uh = Covered(allocated_blocks) \cup PagesOf(Stack)
  BY DEF ArenaInv, Full, Mapped, ListsMatchMemory
<1>2. uh \subseteq Mapped /\ uh \subseteq Nat
  <2>1. Pages \subseteq Nat
    BY ArenaConstants, SMT DEF Pages
  <2>2. uh \subseteq Mapped
    BY DEF Mapped
  <2> QED  BY <1>1, <2>1, <2>2
<1>3. Shows(Runs(Mapped), Mapped)
  BY <1>1, RunsShow
<1>4. ASSUME NEW area \in Runs(Mapped)
      PROVE  area \in BlockSet /\ Saved(area) = {p \in uh : area.addr <= p /\ p < End(area)}
  <2>1. area \in BlockSet
    BY <1>3 DEF Shows, Apart
  <2> QED  BY <1>1, <1>2, <2>1, SavedIs
<1>5. ASSUME NEW p \in uh  PROVE \E area \in Runs(Mapped) : p \in Saved(area)
  <2>1. PICK area \in Runs(Mapped) : p \in PagesOf(area)
    BY <1>2, <1>3 DEF Shows
  <2>2. area.addr <= p /\ p < End(area)
    BY <1>4, <2>1, PagesIs
  <2> QED  BY <1>4, <2>2
<1> QED
  BY <1>4, <1>5 DEF SavedPages

-----------------------------------------------------------------------------
(* The wrappers' lists, while the process runs: what each call keeps.      *)
Right(alloc, free, u) ==
  /\ IsBlocks(alloc) /\ Full(alloc) /\ IsBlocks(free)
  /\ u \subseteq Pages /\ Covered(free) \subseteq Pages
  /\ Covered(alloc) \cup PagesOf(Stack) = u
  /\ u \cap lh = {} /\ u \cap Covered(free) = {}
  /\ \A p \in arena_base .. arena_end - 1 : p \in u \/ p \in Covered(free) \/ p \in everLh

LEMMA RunIsRight ==
  ASSUME ArenaInv, phase = "run"
  PROVE  /\ Right(allocated_blocks, free_blocks, uh)
         /\ Mapped \subseteq Pages /\ IsBlocks(free_blocks) /\ lh \subseteq everLh
BY DEF ArenaInv, Right, Full, ListsMatchMemory, Mapped

LEMMA RightIsInv ==
  ASSUME ArenaInv, phase = "run", Right(allocated_blocks', free_blocks', uh'),
         UNCHANGED <<lh, everLh, process>>
  PROVE  ArenaInv'
<1>1. /\ lh' = lh /\ everLh' = everLh /\ phase' = "run" /\ image' = image
      /\ arena_base' = arena_base /\ arena_end' = arena_end
  BY DEF process
<1>2. "run" # "reserved"
  OBVIOUS
<1>3. /\ phase' \in {"run", "reserved"} /\ arena_base' \in Nat /\ arena_end' \in Nat
      /\ lh' \subseteq everLh' /\ lh' \subseteq Pages /\ image' \subseteq Pages
  BY <1>1 DEF ArenaInv
<1>4. /\ IsBlocks(allocated_blocks') /\ IsBlocks(free_blocks')
      /\ \A i \in DOMAIN allocated_blocks' : allocated_blocks'[i].len > 0
      /\ uh' \subseteq Pages /\ Covered(free_blocks') \subseteq Pages
  BY DEF Right, Full
<1>5. ListsMatchMemory'
  BY <1>1 DEF Right, ListsMatchMemory
<1> QED
  BY <1>1, <1>2, <1>3, <1>4, <1>5 DEF ArenaInv

(* After collisions.                                                       *)
LEMMA ThinnedRight ==
  ASSUME ArenaInv, phase = "run", NEW free, Thins(free_blocks, free)
  PROVE  Right(allocated_blocks, free, uh)
<1>1. Right(allocated_blocks, free_blocks, uh) /\ lh \subseteq everLh
  BY RunIsRight
<1>2. /\ IsBlocks(free) /\ Covered(free) \subseteq Covered(free_blocks)
      /\ \A p \in Covered(free_blocks) : p \in Covered(free) \/ p \in uh \/ p \in lh
  BY DEF Thins, Mapped
<1>3. \A p \in arena_base .. arena_end - 1 : p \in uh \/ p \in Covered(free) \/ p \in everLh
  BY <1>1, <1>2 DEF Right
<1> QED
  BY <1>1, <1>2, <1>3 DEF Right

(* After the pages of x have been mapped, and after they have been         *)
(* unmapped.                                                               *)
LEMMA MappedRight ==
  ASSUME NEW alloc, NEW free, NEW u, Right(alloc, free, u), NEW x \in BlockSet, x.len > 0,
         PagesOf(x) \subseteq Pages \ lh
  PROVE  Right(merge_overlap_blocks(x, alloc), remove_overlap_blocks(x, free), u \cup PagesOf(x))
<1>1. PICK al, fr : al = merge_overlap_blocks(x, alloc) /\ fr = remove_overlap_blocks(x, free)
  OBVIOUS
<1>2. IsBlocks(alloc) /\ IsBlocks(free) /\ Full(alloc)
  BY DEF Right
<1>3. Adds(x, alloc, al) /\ Takes(x, free, fr)
  BY <1>1, <1>2, MergeAdds, RemoveTakes
<1>4. IsBlocks(al) /\ Covered(al) = Covered(alloc) \cup PagesOf(x) /\ Full(al)
  BY <1>2, <1>3 DEF Adds
<1>5. IsBlocks(fr) /\ Covered(fr) = Covered(free) \ PagesOf(x)
  BY <1>3 DEF Takes
<1>6. \A p \in arena_base .. arena_end - 1 : p \in u \cup PagesOf(x) \/ p \in Covered(fr) \/ p \in everLh
  BY <1>5 DEF Right
<1>7. Right(al, fr, u \cup PagesOf(x))
  BY <1>4, <1>5, <1>6 DEF Right
<1> QED
  BY <1>1, <1>7

LEMMA UnmappedRight ==
  ASSUME NEW alloc, NEW free, NEW u, Right(alloc, free, u), NEW x \in BlockSet,
         PagesOf(x) \subseteq u \ PagesOf(Stack)
  PROVE  Right(remove_overlap_blocks(x, alloc), merge_overlap_blocks(x, free), u \ PagesOf(x))
<1>1. PICK al, fr : al = remove_overlap_blocks(x, alloc) /\ fr = merge_overlap_blocks(x, free)
  OBVIOUS
<1>2. IsBlocks(alloc) /\ IsBlocks(free) /\ Full(alloc)
  BY DEF Right
<1>3. Takes(x, alloc, al) /\ Adds(x, free, fr)
  BY <1>1, <1>2, MergeAdds, RemoveTakes
<1>4. IsBlocks(al) /\ Covered(al) = Covered(alloc) \ PagesOf(x) /\ Full(al)
  BY <1>2, <1>3 DEF Takes
<1>5. IsBlocks(fr) /\ Covered(fr) = Covered(free) \cup PagesOf(x)
  BY <1>3 DEF Adds
<1>6. \A p \in arena_base .. arena_end - 1 : p \in u \ PagesOf(x) \/ p \in Covered(fr) \/ p \in everLh
  BY <1>5 DEF Right
<1>7. Right(al, fr, u \ PagesOf(x))
  BY <1>4, <1>5, <1>6 DEF Right
<1> QED
  BY <1>1, <1>7

(* After mremap() has moved old to new.                                    *)
LEMMA MovedRight ==
  ASSUME NEW free, Right(allocated_blocks, free, uh), NEW old \in BlockSet, NEW new \in BlockSet,
         PagesOf(old) \subseteq uh \ PagesOf(Stack), new.len > 0, PagesOf(new) \subseteq Pages \ lh,
         NEW dontunmap, Moved(old, new, dontunmap, free)
  PROVE  Right(allocated_blocks', free_blocks', uh')
<1>1. CASE dontunmap
  <2>1. /\ uh' = uh \cup PagesOf(new)
        /\ allocated_blocks' = merge_overlap_blocks(new, allocated_blocks)
        /\ free_blocks' = remove_overlap_blocks(new, free)
    BY <1>1 DEF Moved, MovedLists
  <2> QED  BY <2>1, MappedRight
<1>2. CASE ~dontunmap
  <2>1. PICK al, fr, u : /\ al = remove_overlap_blocks(old, allocated_blocks)
                         /\ fr = merge_overlap_blocks(old, free) /\ u = uh \ PagesOf(old)
    OBVIOUS
  <2>2. Right(al, fr, u)
    BY <2>1, UnmappedRight
  <2>3. /\ uh' = u \cup PagesOf(new)
        /\ allocated_blocks' = merge_overlap_blocks(new, al)
        /\ free_blocks' = remove_overlap_blocks(new, fr)
    BY <1>2, <2>1 DEF Moved, MovedLists
  <2> QED  BY <2>2, <2>3, MappedRight
<1> QED
  BY <1>1, <1>2

(* What arena_mmap gives can be mapped.                                    *)
LEMMA FoundFree ==
  ASSUME ArenaInv, phase = "run", NEW hint \in Nat, NEW length \in Nat,
         NEW found, found = arena_mmap(hint, length)
  PROVE  /\ Right(allocated_blocks, found.free, uh)
         /\ found.addr # 0 => /\ Block(found.addr, length) \in BlockSet
                              /\ Block(found.addr, length).len = length
                              /\ PagesOf(Block(found.addr, length)) \subseteq Pages \ lh
<1>1. Mapped \subseteq Pages /\ IsBlocks(free_blocks)
  BY RunIsRight
<1>2. Finds(free_blocks, length, found)
  BY <1>1, ArenaFinds
<1>3. Thins(free_blocks, found.free) /\ found.addr \in Nat
  BY <1>2 DEF Finds
<1>4. Right(allocated_blocks, found.free, uh)
  BY <1>3, ThinnedRight
<1>5. ASSUME found.addr # 0
      PROVE  PagesOf(Block(found.addr, length)) \subseteq Pages \ lh
  <2>1. PagesOf(Block(found.addr, length)) \subseteq Covered(found.free)
        /\ PagesOf(Block(found.addr, length)) \cap Mapped = {}
    BY <1>2, <1>5 DEF Finds
  <2> QED  BY <1>4, <2>1 DEF Right, Mapped
<1> QED
  BY <1>3, <1>4, <1>5, BlockIs

-----------------------------------------------------------------------------
(* The actions.                                                            *)
LEMMA LensAre ==
  ASSUME NEW n \in Lens
  PROVE  n \in Nat /\ n > 0
BY ArenaConstants, SMT DEF Lens

LEMMA BlocksAre ==
  ASSUME NEW x \in Blocks
  PROVE  x \in BlockSet /\ x.len > 0
<1>1. x \in [addr : Pages, len : Lens]
  BY DEF Blocks
<1>2. x.addr \in Nat /\ x.len \in Nat /\ x.len > 0 /\ x = [addr |-> x.addr, len |-> x.len]
  <2>1. x.addr \in Pages /\ x.len \in Lens /\ x = [addr |-> x.addr, len |-> x.len]
    BY <1>1, SMT
  <2>2. x.addr \in Nat
    BY <2>1, ArenaConstants, SMT DEF Pages
  <2> QED  BY <2>1, <2>2, LensAre
<1> QED
  BY <1>2 DEF BlockSet

LEMMA MmapInv ==
  ASSUME ArenaInv, NEW addr \in Nat, NEW length \in Lens, NEW fixed \in BOOLEAN,
         NEW fails \in BOOLEAN, mmap_wrapper(addr, length, fixed, fails)
  PROVE  ArenaInv'
<1>1. phase = "run" /\ length \in Nat /\ length > 0
  BY LensAre DEF mmap_wrapper
<1>2. CASE IsChosen(addr, fixed)
  <2>1. PICK found : found = arena_mmap(addr, length)
    OBVIOUS
  <2>2. MmapChosen(addr, length, fails)
    BY <1>2 DEF mmap_wrapper
  <2>3. UNCHANGED <<lh, everLh, process>>
    BY <2>2 DEF MmapChosen
  <2>4. /\ Right(allocated_blocks, found.free, uh)
        /\ found.addr # 0 => /\ Block(found.addr, length) \in BlockSet
                             /\ Block(found.addr, length).len = length
                             /\ PagesOf(Block(found.addr, length)) \subseteq Pages \ lh
    BY <1>1, <2>1, FoundFree
  <2>5. CASE found.addr = 0 \/ fails
    <3>1. free_blocks' = found.free /\ uh' = uh /\ allocated_blocks' = allocated_blocks
      BY <2>1, <2>2, <2>5 DEF MmapChosen
    <3> QED  BY <1>1, <2>3, <2>4, <3>1, RightIsInv
  <2>6. CASE ~(found.addr = 0 \/ fails)
    <3>1. PICK x : x = Block(found.addr, length)
      OBVIOUS
    <3>2. /\ uh' = uh \cup PagesOf(x) /\ allocated_blocks' = merge_overlap_blocks(x, allocated_blocks)
          /\ free_blocks' = remove_overlap_blocks(x, found.free)
      BY <2>1, <2>2, <2>6, <3>1 DEF MmapChosen, Recorded
    <3>3. x \in BlockSet /\ x.len > 0 /\ PagesOf(x) \subseteq Pages \ lh
      BY <1>1, <2>4, <2>6, <3>1
    <3>4. Right(allocated_blocks', free_blocks', uh')
      BY <2>4, <3>2, <3>3, MappedRight
    <3> QED  BY <1>1, <2>3, <3>4, RightIsInv
  <2> QED  BY <2>5, <2>6
<1>3. CASE ~IsChosen(addr, fixed)
  <2>1. PICK x : x = Block(addr, length)
    OBVIOUS
  <2>2. MmapFixed(addr, length, fails) /\ fixed
    BY <1>3 DEF mmap_wrapper, IsChosen
  <2>3. PagesOf(x) \subseteq Pages \ lh
    BY <2>1, <2>2 DEF mmap_wrapper
  <2>4. x \in BlockSet /\ x.len > 0
    BY <1>1, <2>1, BlockIs
  <2>5. /\ uh' = uh \cup PagesOf(x) /\ allocated_blocks' = merge_overlap_blocks(x, allocated_blocks)
        /\ free_blocks' = remove_overlap_blocks(x, free_blocks)
    BY <2>1, <2>2 DEF MmapFixed, Recorded
  <2>6. Right(allocated_blocks', free_blocks', uh')
    BY <1>1, <2>3, <2>4, <2>5, RunIsRight, MappedRight
  <2>7. UNCHANGED <<lh, everLh, process>>
    BY <2>2 DEF MmapFixed
  <2> QED  BY <1>1, <2>6, <2>7, RightIsInv
<1> QED
  BY <1>2, <1>3

LEMMA MunmapInv ==
  ASSUME ArenaInv, NEW x \in Blocks, munmap_wrapper(x)
  PROVE  ArenaInv'
<1>1. phase = "run" /\ PagesOf(x) \subseteq uh \ PagesOf(Stack) /\ x \in BlockSet
  BY BlocksAre DEF munmap_wrapper
<1>2. /\ uh' = uh \ PagesOf(x) /\ allocated_blocks' = remove_overlap_blocks(x, allocated_blocks)
      /\ free_blocks' = merge_overlap_blocks(x, free_blocks)
  BY DEF munmap_wrapper, Unmapped
<1>3. Right(allocated_blocks', free_blocks', uh')
  BY <1>1, <1>2, RunIsRight, UnmappedRight
<1>4. UNCHANGED <<lh, everLh, process>>
  BY DEF munmap_wrapper
<1> QED
  BY <1>1, <1>3, <1>4, RightIsInv

(* Between two bounds.                                                     *)
LEMMA NotOver ==
  ASSUME NEW low \in Nat, NEW first \in Nat, NEW p \in Nat, NEW end \in Nat, NEW high \in Nat,
         low <= first, first <= p, p < end, end <= high
  PROVE  low <= p /\ p < high
  BY SMT

(* A mapping that mremap() may resize where it is.                         *)
LEMMA InPlaceFree ==
  ASSUME ArenaInv, phase = "run", NEW old \in BlockSet, PagesOf(old) \subseteq uh,
         NEW size \in Nat, GrowsInPlace(old, size)
  PROVE  PagesOf(Block(old.addr, size)) \subseteq Pages \ lh
<1>1. Right(allocated_blocks, free_blocks, uh)
  BY RunIsRight
<1>2. old.addr \in Nat /\ old.len \in Nat /\ End(old) = old.addr + old.len
  BY BlockFacts DEF End
<1>3. PICK new : new = Block(old.addr, size)
  OBVIOUS
<1>4. new \in BlockSet /\ new.addr = old.addr /\ End(new) = old.addr + size
  BY <1>2, <1>3, BlockIs
<1>5. \A p : /\ p \in PagesOf(new) <=> p \in Nat /\ old.addr <= p /\ p < old.addr + size
             /\ p \in PagesOf(old) <=> p \in Nat /\ old.addr <= p /\ p < old.addr + old.len
  BY <1>2, <1>4, PagesIs
<1>6. PagesOf(old) \subseteq Pages \ lh
  BY <1>1 DEF Right
<1>7. CASE size <= old.len
  <2>1. ASSUME NEW p \in PagesOf(new)  PROVE p \in PagesOf(old)
    <3>1. p \in Nat /\ old.addr <= p /\ p < old.addr + size
      BY <1>5
    <3>2. p < old.addr + old.len
      BY <1>2, <1>7, <3>1, SMT
    <3> QED  BY <1>5, <3>1, <3>2
  <2> QED  BY <1>3, <1>6, <2>1
<1>8. CASE ~(size <= old.len)
  <2>1. PICK k, more : k = size - old.len /\ more = Block(End(old), k)
    OBVIOUS
  <2>2. k \in Nat /\ End(old) \in Nat /\ End(old) + k = old.addr + size
    BY <1>2, <1>8, <2>1, SMT
  <2>3. is_free_range(End(old), k) /\ PagesOf(more) \cap Mapped = {}
    BY <1>8, <2>1 DEF GrowsInPlace
  <2>4. more \in BlockSet /\ more.addr = End(old) /\ End(more) = old.addr + size
    BY <2>1, <2>2, BlockIs
  <2>5. PICK i \in DOMAIN free_blocks :
           free_blocks[i].addr <= End(old) /\ End(old) + k <= End(free_blocks[i])
    BY <2>3 DEF is_free_range
  <2>6. PICK x : x = free_blocks[i]
    OBVIOUS
  <2>7. x \in BlockSet
    BY <1>1, <2>5, <2>6, ListFacts DEF Right
  <2>8. x.addr \in Nat /\ End(x) \in Nat
    BY <2>7, BlockFacts
  <2>9. ASSUME NEW p \in PagesOf(more)  PROVE p \in Pages \ lh
    <3>1. p \in Nat /\ End(old) <= p /\ p < old.addr + size
      BY <2>4, PagesIs
    <3>2. x.addr <= p /\ p < End(x)
      <4>1. x.addr <= End(old) /\ old.addr + size <= End(x)
        BY <2>2, <2>5, <2>6
      <4>2. PICK a, b, c, e : a = x.addr /\ b = End(old) /\ c = old.addr + size /\ e = End(x)
        OBVIOUS
      <4>3. a \in Nat /\ b \in Nat /\ c \in Nat /\ e \in Nat
        <5>1. c \in Nat
          BY <1>2, <4>2, SMT
        <5> QED  BY <2>2, <2>8, <4>2, <5>1
      <4>4. a <= b /\ b <= p /\ p < c /\ c <= e
        BY <3>1, <4>1, <4>2
      <4>5. a <= p /\ p < e
        BY <3>1, <4>3, <4>4, NotOver
      <4> QED  BY <4>2, <4>5
    <3>3. p \in PagesOf(x)
      BY <2>7, <3>1, <3>2, PagesIs
    <3>4. p \in Covered(free_blocks)
      BY <2>5, <2>6, <3>3 DEF Covered
    <3> QED  BY <1>1, <2>3, <3>4 DEF Right, Mapped
  <2>10. ASSUME NEW p \in PagesOf(new)  PROVE p \in PagesOf(old) \/ p \in PagesOf(more)
    <3>1. p \in Nat /\ old.addr <= p /\ p < old.addr + size
      BY <1>5
    <3>2. p < old.addr + old.len \/ End(old) <= p
      BY <1>2, <3>1, SMT
    <3> QED  BY <1>5, <2>4, <3>1, <3>2, PagesIs
  <2> QED  BY <1>3, <1>6, <2>9, <2>10
<1> QED
  BY <1>7, <1>8

LEMMA MremapInv ==
  ASSUME ArenaInv, NEW old \in Blocks, NEW new_size \in Lens,
         NEW maymove \in BOOLEAN, NEW dontunmap \in BOOLEAN, NEW refuses \in Refusals,
         mremap_wrapper(old, new_size, maymove, dontunmap, refuses)
  PROVE  ArenaInv'
<1>1. /\ phase = "run" /\ PagesOf(old) \subseteq uh \ PagesOf(Stack) /\ old \in BlockSet
      /\ UNCHANGED <<lh, everLh, process>> /\ new_size \in Nat /\ new_size > 0
  BY BlocksAre, LensAre DEF mremap_wrapper
<1>2. Right(allocated_blocks, free_blocks, uh)
  BY <1>1, RunIsRight
<1>3. Right(allocated_blocks', free_blocks', uh')
  <2>1. CASE ~dontunmap /\ GrowsInPlace(old, new_size) /\ "in place" \notin refuses
    <3>1. PICK new : new = Block(old.addr, new_size)
      OBVIOUS
    <3>2. new \in BlockSet /\ new.len > 0
      BY <1>1, <3>1, BlockFacts, BlockIs
    <3>3. PagesOf(new) \subseteq Pages \ lh
      BY <1>1, <2>1, <3>1, InPlaceFree
    <3>4. Moved(old, new, dontunmap, free_blocks)
      BY <2>1, <3>1 DEF mremap_wrapper
    <3> QED  BY <1>1, <1>2, <3>2, <3>3, <3>4, MovedRight
  <2>2. CASE ~(~dontunmap /\ GrowsInPlace(old, new_size) /\ "in place" \notin refuses)
    <3>1. PICK found : found = arena_mmap(0, new_size)
      OBVIOUS
    <3>2. /\ Right(allocated_blocks, found.free, uh)
          /\ found.addr # 0 => /\ Block(found.addr, new_size) \in BlockSet
                               /\ Block(found.addr, new_size).len = new_size
                               /\ PagesOf(Block(found.addr, new_size)) \subseteq Pages \ lh
      <4>1. 0 \in Nat
        BY SMT
      <4> QED  BY <1>1, <3>1, <4>1, FoundFree
    <3>3. CASE ~maymove
      <4>1. allocated_blocks' = allocated_blocks /\ free_blocks' = free_blocks /\ uh' = uh
        BY <2>2, <3>3 DEF mremap_wrapper, lists
      <4> QED  BY <1>2, <4>1
    <3>4. CASE maymove /\ (found.addr = 0 \/ "range" \in refuses \/ "move" \in refuses)
      <4>1. allocated_blocks' = allocated_blocks /\ free_blocks' = found.free /\ uh' = uh
        BY <2>2, <3>1, <3>4 DEF mremap_wrapper
      <4> QED  BY <3>2, <4>1
    <3>5. CASE maymove /\ ~(found.addr = 0 \/ "range" \in refuses \/ "move" \in refuses)
      <4>1. PICK new : new = Block(found.addr, new_size)
        OBVIOUS
      <4>2. new \in BlockSet /\ new.len > 0 /\ PagesOf(new) \subseteq Pages \ lh
        BY <1>1, <3>2, <3>5, <4>1
      <4>3. Moved(old, new, dontunmap, found.free)
        BY <2>2, <3>1, <3>5, <4>1 DEF mremap_wrapper
      <4> QED  BY <1>1, <3>2, <4>2, <4>3, MovedRight
    <3> QED  BY <3>3, <3>4, <3>5
  <2> QED  BY <2>1, <2>2
<1> QED
  BY <1>1, <1>3, RightIsInv

LEMMA FixedInv ==
  ASSUME ArenaInv, NEW old \in Blocks, NEW new \in Blocks, NEW dontunmap \in BOOLEAN,
         mremap_fixed(old, new, dontunmap)
  PROVE  ArenaInv'
<1>1. /\ phase = "run" /\ PagesOf(old) \subseteq uh \ PagesOf(Stack)
      /\ PagesOf(new) \subseteq Pages \ lh /\ Moved(old, new, dontunmap, free_blocks)
      /\ UNCHANGED <<lh, everLh, process>>
  BY DEF mremap_fixed
<1>2. old \in BlockSet /\ new \in BlockSet /\ new.len > 0
  BY BlocksAre
<1>3. Right(allocated_blocks, free_blocks, uh)
  BY <1>1, RunIsRight
<1>4. Right(allocated_blocks', free_blocks', uh')
  BY <1>1, <1>2, <1>3, MovedRight
<1> QED
  BY <1>1, <1>4, RightIsInv

LEMMA DuplicateInv ==
  ASSUME ArenaInv, NEW addr \in Pages, NEW new \in Blocks, mremap_duplicate(addr, new)
  PROVE  ArenaInv'
<1>1. /\ phase = "run" /\ new \in BlockSet /\ new.len > 0 /\ PagesOf(new) \subseteq Pages \ lh
      /\ UNCHANGED <<lh, everLh, process>>
  BY BlocksAre DEF mremap_duplicate
<1>2. PICK old : old = Block(addr, 0)
  OBVIOUS
<1>3. addr \in Nat /\ 0 \in Nat /\ addr + 0 = addr
  BY ArenaConstants, SMT DEF Pages
<1>4. old \in BlockSet /\ old.addr = addr /\ End(old) = addr
  BY <1>2, <1>3, BlockIs
<1>5. PagesOf(old) = {}
  <2> SUFFICES ASSUME NEW p \in PagesOf(old)  PROVE FALSE
    OBVIOUS
  <2>1. p \in Nat /\ addr <= p /\ p < addr
    BY <1>4, PagesIs
  <2> QED  BY <1>3, <2>1, SMT
<1>6. PICK no : no = FALSE
  OBVIOUS
<1>7. Moved(old, new, no, free_blocks)
  BY <1>2, <1>6 DEF mremap_duplicate
<1>8. Right(allocated_blocks, free_blocks, uh) /\ PagesOf(old) \subseteq uh \ PagesOf(Stack)
  BY <1>1, <1>5, RunIsRight
<1>9. Right(allocated_blocks', free_blocks', uh')
  BY <1>1, <1>4, <1>7, <1>8, MovedRight
<1> QED
  BY <1>1, <1>9, RightIsInv

LEMMA LhMapInv ==
  ASSUME ArenaInv, NEW x \in Blocks, LhMap(x)
  PROVE  ArenaInv'
<1>1. /\ PagesOf(x) \subseteq Pages /\ PagesOf(x) \cap (uh \cup lh) = {}
      /\ phase = "reserved" => PagesOf(x) \cap image = {}
      /\ lh' = lh \cup PagesOf(x) /\ everLh' = everLh \cup PagesOf(x)
      /\ uh' = uh /\ allocated_blocks' = allocated_blocks /\ free_blocks' = free_blocks
      /\ phase' = phase /\ image' = image /\ arena_base' = arena_base /\ arena_end' = arena_end
  BY DEF LhMap, Mapped, lists, process
<1>2. ListsMatchMemory'
  BY <1>1 DEF ArenaInv, ListsMatchMemory
<1>3. phase' = "reserved" => PagesOf(Stack) \subseteq image' /\ image' \cap lh' = {}
  BY <1>1 DEF ArenaInv
<1> QED
  BY <1>1, <1>2, <1>3 DEF ArenaInv

LEMMA LhUnmapInv ==
  ASSUME ArenaInv, NEW page \in Pages, LhUnmap(page)
  PROVE  ArenaInv'
<1>1. /\ lh' = lh \ {page} /\ everLh' = everLh
      /\ uh' = uh /\ allocated_blocks' = allocated_blocks /\ free_blocks' = free_blocks
      /\ phase' = phase /\ image' = image /\ arena_base' = arena_base /\ arena_end' = arena_end
  BY DEF LhUnmap, lists, process
<1>2. ListsMatchMemory'
  BY <1>1 DEF ArenaInv, ListsMatchMemory
<1>3. phase' = "reserved" => PagesOf(Stack) \subseteq image' /\ image' \cap lh' = {}
  BY <1>1 DEF ArenaInv
<1> QED
  BY <1>1, <1>2, <1>3 DEF ArenaInv

LEMMA EndsArePages ==
  {1, LastPage} \subseteq Pages /\ 0 \in Nat
BY ArenaConstants, SMT DEF Pages

LEMMA NewLowerHalfInv ==
  ASSUME ArenaInv, NEW page \in Pages, NewLowerHalf({page})
  PROVE  ArenaInv'
<1>1. /\ phase = "run" /\ ({1, LastPage} \cup {page}) \cap SavedPages = {}
      /\ image' = SavedPages /\ phase' = "reserved" /\ uh' = {} /\ lh' = {1, LastPage} \cup {page}
      /\ allocated_blocks' = <<>> /\ free_blocks' = <<>> /\ arena_base' = 0 /\ arena_end' = 0
      /\ everLh' = lh'
  BY DEF NewLowerHalf
<1>2. SavedPages = uh
  BY <1>1, SavedPagesIs
<1>3. PagesOf(Stack) \subseteq uh /\ uh \subseteq Pages
  BY <1>1 DEF ArenaInv, ListsMatchMemory
<1>4. lh' \subseteq Pages /\ 0 \in Nat
  BY <1>1, EndsArePages
<1>5. IsBlocks(<<>>) /\ Covered(<<>>) = {} /\ DOMAIN <<>> = {}
  BY EmptyList
<1>6. ListsMatchMemory'
  BY <1>1 DEF ListsMatchMemory
<1>7. /\ IsBlocks(allocated_blocks') /\ IsBlocks(free_blocks') /\ Covered(free_blocks') = {}
      /\ \A i \in DOMAIN allocated_blocks' : allocated_blocks'[i].len > 0
  BY <1>1, <1>5
<1>8. PagesOf(Stack) \subseteq image' /\ image' \cap lh' = {} /\ image' \subseteq Pages
  BY <1>1, <1>2, <1>3
<1> QED
  BY <1>1, <1>4, <1>6, <1>7, <1>8 DEF ArenaInv

LEMMA RestoreInv ==
  ASSUME ArenaInv, RestoreMemory
  PROVE  ArenaInv'
<1>1. /\ phase = "reserved" /\ phase' = "run" /\ uh' = image /\ lh' = lh /\ everLh' = everLh
      /\ allocated_blocks' = Restored /\ arena_base' = Max({p + 1 : p \in image})
      /\ free_blocks' = init_mem_arena(arena_base', uh' \cup lh')
      /\ arena_end' = End(free_blocks'[1]) /\ image' = {}
  BY DEF RestoreMemory
<1>2. /\ PagesOf(Stack) \subseteq image /\ image \cap lh = {} /\ image \subseteq Pages /\ lh \subseteq Pages
      /\ lh \subseteq everLh
  BY <1>1 DEF ArenaInv
<1>3. PICK T, base : T = {p + 1 : p \in image} /\ base = Max(T)
  OBVIOUS
<1>4. LastPage \in Nat /\ LastPage + 1 \in Nat /\ \A p \in Pages : p + 1 \in Nat /\ 1 <= p + 1 /\ p + 1 <= LastPage + 1
  BY ArenaConstants, SMT DEF Pages
<1>5. T \subseteq Nat /\ \A n \in T : 1 <= n /\ n <= LastPage + 1
  BY <1>2, <1>3, <1>4
<1>6. T # {}
  <2>1. PICK p : p \in PagesOf(Stack)
    BY StackIs
  <2>2. p + 1 \in T
    BY <1>2, <1>3, <2>1
  <2> QED  BY <2>2
<1>7. base \in T /\ \A n \in T : n <= base
  BY <1>3, <1>4, <1>5, <1>6, MaxIs
<1>8. PICK mapped : mapped = image \cup lh
  OBVIOUS
<1>9. base \in Nat /\ 1 <= base /\ base <= LastPage + 1 /\ mapped \subseteq Pages
  BY <1>2, <1>5, <1>7, <1>8
<1>10. PICK free : free = init_mem_arena(base, mapped)
  OBVIOUS
<1>11. Starts(base, free)
  BY <1>9, <1>10, ArenaStarts
<1>12. /\ IsBlocks(free) /\ Covered(free) \subseteq Pages /\ (\A p \in Covered(free) : base <= p)
       /\ End(free[1]) \in Nat /\ base .. End(free[1]) - 1 \subseteq Covered(free)
  BY <1>11 DEF Starts
<1>13. PICK list : list = Restored
  OBVIOUS
<1>14. Records(list, image)
  BY <1>2, <1>13, RestoredIs
<1>15. IsBlocks(list) /\ Full(list) /\ Covered(list) = image
  BY <1>14 DEF Records
<1>16. arena_base' = base /\ free_blocks' = free /\ arena_end' = End(free[1]) /\ allocated_blocks' = list
  <2>1. arena_base' = base
    BY <1>1, <1>3
  <2>2. uh' \cup lh' = mapped
    BY <1>1, <1>8
  <2>3. free_blocks' = free
    BY <1>1, <1>10, <2>1, <2>2
  <2> QED  BY <1>1, <1>13, <2>1, <2>3
<1>17. ListsMatchMemory'
  <2>1. Covered(allocated_blocks') \cup PagesOf(Stack) = uh'
    BY <1>1, <1>2, <1>15, <1>16
  <2>2. uh' \cap (lh' \cup Covered(free_blocks')) = {}
    <3>1. ASSUME NEW p \in image, p \in Covered(free)  PROVE FALSE
      <4>1. p \in Pages /\ p + 1 <= base /\ base <= p
        BY <1>2, <1>3, <1>7, <1>12, <3>1
      <4> QED  BY <1>9, <4>1, SMT DEF Pages
    <3> QED  BY <1>1, <1>2, <1>16, <3>1
  <2>3. \A p \in arena_base' .. arena_end' - 1 : p \in uh' \cup Covered(free_blocks') \cup everLh'
    BY <1>12, <1>16
  <2> QED  BY <2>1, <2>2, <2>3 DEF ListsMatchMemory
<1>18. \A i \in DOMAIN allocated_blocks' : allocated_blocks'[i].len > 0
  BY <1>15, <1>16 DEF Full
<1>19. IsBlocks(allocated_blocks') /\ IsBlocks(free_blocks') /\ arena_base' \in Nat /\ arena_end' \in Nat
  BY <1>9, <1>12, <1>15, <1>16
<1>20. uh' \cup lh' \cup image' \cup Covered(free_blocks') \subseteq Pages /\ lh' \subseteq everLh'
  BY <1>1, <1>2, <1>12, <1>16
<1>21. phase' \in {"run", "reserved"} /\ phase' # "reserved"
  BY <1>1
<1> QED
  BY <1>17, <1>18, <1>19, <1>20, <1>21 DEF ArenaInv

LEMMA InitInv ==
  ASSUME ArenaInit
  PROVE  ArenaInv
<1>1. /\ uh = PagesOf(Stack) /\ lh = {1, LastPage} /\ allocated_blocks = <<>>
      /\ arena_base = End(Stack) + 1 /\ free_blocks = init_mem_arena(End(Stack) + 1, uh \cup lh)
      /\ arena_end = End(free_blocks[1]) /\ phase = "run" /\ image = {} /\ everLh = lh
  BY DEF ArenaInit
<1>2. PICK base, mapped : base = End(Stack) + 1 /\ mapped = uh \cup lh
  OBVIOUS
<1>3. Stack \in BlockSet /\ PagesOf(Stack) \subseteq Pages
  BY StackIs
<1>4. base \in Nat /\ 1 <= base /\ base <= LastPage + 1
  <2>1. End(Stack) \in Nat /\ End(Stack) <= LastPage /\ LastPage \in Nat
    BY <1>3, ArenaConstants, BlockFacts DEF End
  <2> QED  BY <1>2, <2>1, SMT
<1>5. mapped \subseteq Pages /\ lh \subseteq Pages
  BY <1>1, <1>2, <1>3, EndsArePages
<1>6. Starts(base, free_blocks)
  BY <1>1, <1>2, <1>4, <1>5, ArenaStarts
<1>7. /\ IsBlocks(free_blocks) /\ Covered(free_blocks) \subseteq Pages
      /\ (\A p \in Covered(free_blocks) : base <= p)
      /\ arena_end \in Nat /\ base .. arena_end - 1 \subseteq Covered(free_blocks)
  BY <1>1, <1>6 DEF Starts
<1>8. IsBlocks(<<>>) /\ Covered(<<>>) = {} /\ DOMAIN <<>> = {}
  BY EmptyList
<1>9. PagesOf(Stack) \cap {1, LastPage} = {}
  <2> SUFFICES ASSUME NEW p \in PagesOf(Stack), p \in {1, LastPage}  PROVE FALSE
    OBVIOUS
  <2>1. p \in Nat /\ Stack.addr <= p /\ p < Stack.addr + Stack.len
    BY <1>3, PagesIs DEF End
  <2>2. LastPage \in Nat /\ Stack.addr \in 2 .. LastPage /\ Stack.len \in Nat
        /\ Stack.addr + Stack.len <= LastPage
    BY <1>3, ArenaConstants, BlockFacts
  <2> QED  BY <2>1, <2>2, SMT
<1>10. ListsMatchMemory
  <2>1. Covered(allocated_blocks) \cup PagesOf(Stack) = uh
    BY <1>1, <1>8
  <2>2. uh \cap (lh \cup Covered(free_blocks)) = {}
    <3>1. ASSUME NEW p \in PagesOf(Stack), p \in Covered(free_blocks)  PROVE FALSE
      <4>1. p \in Nat /\ p < End(Stack) /\ base <= p
        BY <1>3, <1>7, <3>1, PagesIs
      <4>2. End(Stack) \in Nat
        BY <1>3, BlockFacts DEF End
      <4> QED  BY <1>2, <4>1, <4>2, SMT
    <3> QED  BY <1>1, <1>9, <3>1
  <2>3. \A p \in arena_base .. arena_end - 1 : p \in uh \cup Covered(free_blocks) \cup everLh
    BY <1>1, <1>2, <1>7
  <2> QED  BY <2>1, <2>2, <2>3 DEF ListsMatchMemory
<1>11. phase \in {"run", "reserved"} /\ phase # "reserved"
  BY <1>1
<1>12. IsBlocks(allocated_blocks) /\ \A i \in DOMAIN allocated_blocks : allocated_blocks[i].len > 0
  BY <1>1, <1>8
<1>13. uh \cup lh \cup image \cup Covered(free_blocks) \subseteq Pages /\ lh \subseteq everLh
  BY <1>1, <1>3, <1>5, <1>7
<1>14. arena_base \in Nat
  BY <1>1, <1>2, <1>4
<1> QED
  BY <1>7, <1>10, <1>11, <1>12, <1>13, <1>14 DEF ArenaInv

LEMMA NextInv ==
  ASSUME ArenaInv, [ArenaNext]_arenaVars
  PROVE  ArenaInv'
<1>1. Pages \subseteq Nat /\ Hints \subseteq Nat
  BY ArenaConstants, SMT DEF Pages, Hints
<1>2. ASSUME NEW hint \in Hints, NEW n \in Lens, NEW fails \in BOOLEAN,
             mmap_wrapper(hint, n, FALSE, fails)
      PROVE  ArenaInv'
  <2>1. hint \in Nat /\ FALSE \in BOOLEAN
    BY <1>1
  <2> QED  BY <1>2, <2>1, MmapInv
<1>3. ASSUME NEW at \in Pages, NEW n \in Lens, NEW fails \in BOOLEAN,
             mmap_wrapper(at, n, TRUE, fails)
      PROVE  ArenaInv'
  <2>1. at \in Nat /\ TRUE \in BOOLEAN
    BY <1>1
  <2> QED  BY <1>3, <2>1, MmapInv
<1>4. ASSUME NEW x \in Blocks, munmap_wrapper(x)  PROVE ArenaInv'
  BY <1>4, MunmapInv
<1>5. ASSUME NEW x \in Blocks, NEW n \in Lens,
             NEW maymove \in BOOLEAN, NEW dontunmap \in BOOLEAN, NEW refuses \in Refusals,
             mremap_wrapper(x, n, maymove, dontunmap, refuses)
      PROVE  ArenaInv'
  BY <1>5, MremapInv
<1>12. ASSUME NEW x \in Blocks, NEW new \in Blocks, NEW dontunmap \in BOOLEAN,
              mremap_fixed(x, new, dontunmap)
       PROVE  ArenaInv'
  BY <1>12, FixedInv
<1>6. ASSUME NEW at \in Pages, NEW x \in Blocks, mremap_duplicate(at, x)  PROVE ArenaInv'
  BY <1>6, DuplicateInv
<1>7. ASSUME NEW x \in Blocks, LhMap(x)  PROVE ArenaInv'
  BY <1>7, LhMapInv
<1>8. ASSUME NEW p \in Pages, LhUnmap(p)  PROVE ArenaInv'
  BY <1>8, LhUnmapInv
<1>9. ASSUME NEW p \in Pages, NewLowerHalf({p})  PROVE ArenaInv'
  BY <1>9, NewLowerHalfInv
<1>10. CASE RestoreMemory
  BY <1>10, RestoreInv
<1>11. CASE UNCHANGED arenaVars
  <2>1. /\ uh' = uh /\ lh' = lh /\ allocated_blocks' = allocated_blocks /\ free_blocks' = free_blocks
        /\ arena_base' = arena_base /\ arena_end' = arena_end /\ phase' = phase /\ image' = image
        /\ everLh' = everLh
    BY <1>11 DEF arenaVars
  <2>2. ListsMatchMemory'
    BY <2>1 DEF ArenaInv, ListsMatchMemory
  <2> QED  BY <2>1, <2>2 DEF ArenaInv
<1> QED
  BY <1>2, <1>3, <1>4, <1>5, <1>6, <1>7, <1>8, <1>9, <1>10, <1>11, <1>12 DEF ArenaNext

(* Whatever a program maps, unmaps and moves, whatever the lower half maps *)
(* between its calls and however often it is restarted, what mem-wrapper   *)
(* has recorded is what the upper half has mapped (allocated_blocks), none *)
(* of which is the lower half's or free, and the arena loses no page that  *)
(* the lower half has not had.                                             *)
THEOREM ListsAreRight == ArenaSpec => []ListsMatchMemory
<1>1. ArenaInit => ArenaInv
  BY InitInv
<1>2. ArenaInv /\ [ArenaNext]_arenaVars => ArenaInv'
  BY NextInv
<1>3. ArenaInv => ListsMatchMemory
  BY DEF ArenaInv
<1> QED
  BY <1>1, <1>2, <1>3, PTL DEF ArenaSpec

(* The image that dmtcp_skip_memory_region_ckpting makes DMTCP write has   *)
(* the upper half's memory, all of it, and no page of the lower half.      *)
THEOREM ImagesAreRight == ArenaSpec => []ImageIsUpperHalf
<1>1. ArenaInit => ArenaInv
  BY InitInv
<1>2. ArenaInv /\ [ArenaNext]_arenaVars => ArenaInv'
  BY NextInv
<1>3. ArenaInv => ImageIsUpperHalf
  BY SavedPagesIs DEF ImageIsUpperHalf
<1> QED
  BY <1>1, <1>2, <1>3, PTL DEF ArenaSpec

LEMMA RefusedFor ==
  ASSUME ArenaInv, NEW addr \in Nat, NEW length \in Lens, NEW fixed \in BOOLEAN,
         NEW fails \in BOOLEAN, mmap_wrapper(addr, length, fixed, fails), refused' # 0
  PROVE  \/ ~HasRoom(refused)'
         \/ Cardinality(InTheWay(free_blocks) \ InTheWay(free_blocks')) >= MaxTries
<1>1. phase = "run" /\ length \in Nat /\ length > 0
  BY LensAre DEF mmap_wrapper
<1>2. MmapChosen(addr, length, fails)
  BY DEF mmap_wrapper, MmapFixed
<1>3. PICK found : found = arena_mmap(0, length)
  OBVIOUS
<1>4. addr = 0 /\ found.addr = 0 /\ refused' = length /\ free_blocks' = found.free
  BY <1>2, <1>3 DEF MmapChosen
<1>5. TriedTimes(free_blocks, length, MaxTries, found)
  BY <1>1, <1>3, RunIsRight, ArenaTries
<1>6. CASE Cardinality(Cleared(free_blocks, found.free)) >= MaxTries
  BY <1>4, <1>6 DEF Cleared
<1>7. CASE next_free_addr(found.free, 0, length) = 0
  <2>1. IsBlocks(found.free) /\ Covered(found.free) \subseteq Pages
    <3>1. Right(allocated_blocks, found.free, uh)
      BY <1>1, <1>3, <1>4, FoundFree
    <3> QED  BY <3>1 DEF Right
  <2>2. \A i \in DOMAIN found.free : \A a \in PagesOf(found.free[i]) :
          ~(a + length <= End(found.free[i]))
    BY <1>1, <1>7, <2>1, NoFitNoRoom
  <2>3. \A i \in DOMAIN free_blocks' : \A a \in PagesOf(free_blocks'[i]) :
          ~(a + length <= End(free_blocks'[i]))
    BY <1>4, <2>2
  <2> QED  BY <1>4, <2>3 DEF HasRoom
<1> QED
  BY <1>4, <1>5, <1>6, <1>7 DEF TriedTimes

(* However many tries arena_mmap makes, a request for memory anywhere that *)
(* it refuses had no room in a free block, or each of the tries took one   *)
(* more mapping of the lower half out of the free list.                    *)
THEOREM RefusalsHaveCause == ArenaSpec => RefusedForCause
<1> DEFINE Cause == refused' # 0 =>
                      \/ ~HasRoom(refused)'
                      \/ Cardinality(InTheWay(free_blocks) \ InTheWay(free_blocks')) >= MaxTries
<1>1. ArenaInit => ArenaInv
  BY InitInv
<1>2. ArenaInv /\ [ArenaNext]_arenaVars => ArenaInv'
  BY NextInv
<1>3. ArenaInv /\ [ArenaNext]_arenaVars => [Cause]_arenaVars
  <2> SUFFICES ASSUME ArenaInv, ArenaNext, refused' # 0
               PROVE  \/ ~HasRoom(refused)'
                      \/ Cardinality(InTheWay(free_blocks) \ InTheWay(free_blocks')) >= MaxTries
    OBVIOUS
  <2>1. \E a \in Hints \cup Pages, n \in Lens, fixed, fails \in BOOLEAN : mmap_wrapper(a, n, fixed, fails)
    <3>1. FALSE \in BOOLEAN /\ TRUE \in BOOLEAN
      OBVIOUS
    <3>2. ~(\E x \in Blocks : munmap_wrapper(x))
      BY DEF munmap_wrapper
    <3>3. ASSUME NEW x, NEW n, NEW m, NEW d, NEW r, mremap_wrapper(x, n, m, d, r)  PROVE FALSE
      <4>1. refused' = 0
        BY <3>3 DEF mremap_wrapper
      <4> QED  BY <4>1
    <3>4. \A x, n, d : ~mremap_fixed(x, n, d)
      BY DEF mremap_fixed
    <3>5. \A a, x : ~mremap_duplicate(a, x)
      BY DEF mremap_duplicate
    <3>6. \A x : ~LhMap(x) /\ ~LhUnmap(x) /\ ~NewLowerHalf({x})
      BY DEF LhMap, LhUnmap, NewLowerHalf
    <3>7. ~RestoreMemory
      BY DEF RestoreMemory
    <3> QED  BY <3>1, <3>2, <3>3, <3>4, <3>5, <3>6, <3>7 DEF ArenaNext
  <2>2. Hints \cup Pages \subseteq Nat
    BY SMT DEF Hints, Pages
  <2> QED  BY <2>1, <2>2, RefusedFor
<1> QED
  BY <1>1, <1>2, <1>3, PTL DEF ArenaSpec, RefusedForCause
=============================================================================
