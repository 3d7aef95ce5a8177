----------------------------- MODULE RestartFds -----------------------------
(***************************************************************************)
(* The file descriptors of one rank across checkpoints and restarts.  A    *)
(* checkpoint saves the numbers of the open descriptors in header.mana.    *)
(* A restart begins with a new lower half, which opens descriptors of its  *)
(* own before DMTCP puts the program's back at their old numbers with      *)
(* dup2(); so the lower half first puts placeholders at those numbers      *)
(* (reserve_restart_fds), which the plugin removes at the end              *)
(* (closeReservedFds).  Numbers begin at 3: 0 to 2 are never touched.      *)
(*                                                                         *)
(* header.mana and the image are two files, written one after the other    *)
(* over those of the last checkpoint (manpages/mana.1.md line 74), and the *)
(* job may be killed between any two steps.                                *)
(***************************************************************************)
EXTENDS Integers, FiniteSets, FiniteSetsExt

CONSTANTS
  FirstNumber, \* 3: the first number after stdin, stdout and stderr
  LastNumber,  \* bound: the highest number
  Protected,   \* DMTCP's own numbers, PROTECTED_FD_START .. PROTECTED_FD_END
  Room,        \* 64: 'room' in reserve_restart_fds
  SoftLimits,  \* the values RLIMIT_NOFILE may have in a new process
  HardLimit,   \* its hard limit
  Inherited,   \* the sets of numbers that the launcher may leave open
  OtherFds,    \* the sets of numbers that the other ranks' headers may have
  MaxLower,    \* bound: descriptors the lower half opens
  MaxFdCkpts   \* bound: checkpoints

Numbers == FirstNumber .. LastNumber

VARIABLES
  fdPhase,    \* "run", "presuspend", "open", "header", "image"; at a
              \* restart "start", "init", "restored"
  fd,         \* the open descriptors: number -> owner
  limit,      \* the soft RLIMIT_NOFILE
  header,     \* the list 'fds' of header.mana
  fdImage,    \* what the image has: number -> owner
  files,      \* "none": no image yet; "torn": the header was opened after
              \* the image was written; "whole": they are of one checkpoint
  reserving,  \* lh_info->reserved_fd_ino is set
  warned,     \* reserve_restart_fds gave up with its warning
  closed,     \* the lower half's descriptors that the restore has closed
  fdCkpts     \* checkpoints so far

fdVars ==
  <<fdPhase, fd, limit, header, fdImage, files, reserving, warned, closed, fdCkpts>>
disk == <<header, fdImage, files>>

IsOpen(n) == n \in DOMAIN fd
Of(f, kind) == {n \in DOMAIN f : f[n] = kind}
With(f, numbers, kind) ==
  [n \in DOMAIN f \cup numbers |-> IF n \in numbers THEN kind ELSE f[n]]
Without(f, numbers) == [n \in DOMAIN f \ numbers |-> f[n]]

(* The kernel gives out the lowest number that is free.                    *)
Lowest(f, max) ==
  {n \in Numbers \ DOMAIN f : n < max /\ \A m \in FirstNumber .. n - 1 : m \in DOMAIN f}

(* The first process: the lower half and DMTCP have opened theirs.         *)
FdInit ==
  /\ fdPhase = "run"
  /\ limit \in SoftLimits
  /\ fd = With([n \in {FirstNumber} |-> "lower"], {Max(Protected)}, "dmtcp")
  /\ header = {} /\ fdImage = [n \in {} |-> ""] /\ files = "none"
  /\ reserving = FALSE /\ warned = FALSE /\ closed = {} /\ fdCkpts = 0

-----------------------------------------------------------------------------
ProgramRuns == fdPhase \in {"run", "presuspend"}
ProgramOpens ==
  /\ ProgramRuns
  /\ \E n \in Lowest(fd, limit) \ Protected : fd' = With(fd, {n}, "program")
  /\ UNCHANGED <<fdPhase, limit, disk, reserving, warned, closed, fdCkpts>>
ProgramDups(n) ==
  /\ ProgramRuns
  /\ n \notin Protected /\ n < limit
  /\ ~IsOpen(n) /\ Of(fd, "program") # {}
  /\ fd' = With(fd, {n}, "program")
  /\ UNCHANGED <<fdPhase, limit, disk, reserving, warned, closed, fdCkpts>>
ProgramCloses(n) ==
  /\ ProgramRuns
  /\ n \in Of(fd, "program")
  /\ fd' = Without(fd, {n})
  /\ UNCHANGED <<fdPhase, limit, disk, reserving, warned, closed, fdCkpts>>

(* The MPI library opens descriptors in MPI_Init and later.                *)
LowerOpens ==
  /\ fdPhase \in {"run", "init", "restored"}
  /\ Cardinality(Of(fd, "lower")) < MaxLower
  /\ \E n \in Lowest(fd, limit) : fd' = With(fd, {n}, "lower")
  /\ UNCHANGED <<fdPhase, limit, disk, reserving, warned, closed, fdCkpts>>

-----------------------------------------------------------------------------
(* openCkptFileFds, in DMTCP_EVENT_PRESUSPEND: one descriptor for a file   *)
(* that the program has open for writing and that still exists.            *)
openCkptFileFds ==
  /\ fdPhase = "run" /\ fdCkpts < MaxFdCkpts
  /\ \E opened \in SUBSET (Lowest(fd, limit) \ Protected) :
       /\ opened # {} => Of(fd, "program") # {}
       /\ fd' = With(fd, opened, "ckptfile")
  /\ fdPhase' = "presuspend" /\ fdCkpts' = fdCkpts + 1
  /\ UNCHANGED <<limit, disk, reserving, warned, closed>>

(* save_mana_header, in DMTCP_EVENT_PRECHECKPOINT: the open() empties the  *)
(* file, the write() lists all open numbers but DMTCP's, the lower half's  *)
(* included.                                                               *)
OpenHeader ==
  /\ fdPhase = "presuspend" /\ fdPhase' = "open"
  /\ header' = {}
  /\ files' = IF files = "none" THEN "none" ELSE "torn"
  /\ UNCHANGED <<fd, limit, fdImage, reserving, warned, closed, fdCkpts>>

Listed == DOMAIN fd \ Protected
save_mana_header ==
  /\ fdPhase = "open" /\ fdPhase' = "header"
  /\ header' = Listed
  /\ UNCHANGED <<fd, limit, fdImage, files, reserving, warned, closed, fdCkpts>>

(* DMTCP saves what the upper half has open.  It writes a .temp file and   *)
(* renames it; while there is one mana_restart refuses to restart, so the  *)
(* two are one step.                                                       *)
WriteImage ==
  /\ fdPhase = "header" /\ fdPhase' = "image"
  /\ fdImage' = Without(fd, DOMAIN fd \ (Of(fd, "program") \cup Of(fd, "ckptfile")))
  /\ files' = "whole"
  /\ UNCHANGED <<fd, limit, header, reserving, warned, closed, fdCkpts>>

(* closeReservedFds: every copy of the placeholder, wherever it is.        *)
Placeholders == Of(fd, "placeholder")
ByNumber == IF reserving THEN header ELSE {}
closeReservedFds == IF reserving THEN Placeholders ELSE {}

(* DMTCP_EVENT_RUNNING, after DMTCP_EVENT_RESUME or DMTCP_EVENT_RESTART:   *)
(* closeCkptFileFds and closeReservedFds.  The program's threads follow.   *)
Running ==
  /\ fdPhase \in {"image", "restored"}
  /\ fd' = Without(fd, Of(fd, "ckptfile") \cup closeReservedFds)
  /\ reserving' = FALSE
  /\ fdPhase' = "run"
  /\ UNCHANGED <<limit, disk, warned, closed, fdCkpts>>

-----------------------------------------------------------------------------
(* The job is gone, at any moment, and is started again from the images: a *)
(* new process, with what the launcher left open and a limit of its own.   *)
NewProcess ==
  /\ files # "none"
  /\ \E numbers \in Inherited, soft \in SoftLimits :
       fd' = With([n \in {} |-> ""], numbers, "launcher") /\ limit' = soft
  /\ reserving' = FALSE /\ warned' = FALSE /\ closed' = {}
  /\ fdPhase' = "start"
  /\ UNCHANGED <<disk, fdCkpts>>

(* MANA_RESERVED_FDS, from mana_restart: the numbers in the rank's header, *)
(* or in all ranks' headers if the launcher does not tell the rank.        *)
Reserved == {header} \cup {header \cup others : others \in OtherFds}

(* reserve_restart_fds, before MPI_Init_thread.                            *)
Wanted(list) == {n \in list : n \notin Protected /\ ~IsOpen(n)}
FreeBelow(f, wanted) ==
  {n \in FirstNumber .. Min(Protected) - 1 : n \notin wanted \cup DOMAIN f}
RaisedLimit(highest) ==
  IF limit > highest THEN limit
  ELSE IF HardLimit >= highest + 1 + Room THEN highest + 1 + Room ELSE HardLimit
reserve_restart_fds(fds) ==
  LET enough == Cardinality(FreeBelow(fd, fds)) >= Room
      newLimit == IF fds = {} \/ ~enough THEN limit ELSE RaisedLimit(Max(fds))
      memfd == IF fds = {} \/ ~enough THEN {} ELSE Lowest(fd, newLimit)
      copies == IF memfd = {} THEN {} ELSE {n \in fds : n < newLimit}
  IN /\ limit' = newLimit
     /\ warned' = (fds # {} /\ ~enough)
     /\ reserving' = (memfd # {})
     /\ fd' = With(fd, memfd \cup copies, "placeholder")
Start ==
  /\ fdPhase = "start"
  /\ \E list \in Reserved : reserve_restart_fds(Wanted(list))
  /\ fdPhase' = "init"
  /\ UNCHANGED <<disk, closed, fdCkpts>>

(* DMTCP's restore: its own descriptors, then dup2() onto each saved       *)
(* number; at last the checkpointed soft limit, which may be any.          *)
RestoreFds ==
  /\ fdPhase = "init"
  /\ fd' = [n \in DOMAIN fd \cup DOMAIN fdImage \cup {Max(Protected)} |->
              IF n \in DOMAIN fdImage THEN fdImage[n]
              ELSE IF n = Max(Protected) THEN "dmtcp" ELSE fd[n]]
  /\ closed' = Of(fd, "lower") \cap DOMAIN fdImage
  /\ limit' \in SoftLimits
  /\ fdPhase' = "restored"
  /\ UNCHANGED <<disk, reserving, warned, fdCkpts>>

FdNext ==
  \/ ProgramOpens \/ LowerOpens
  \/ \E n \in Numbers : ProgramDups(n) \/ ProgramCloses(n)
  \/ openCkptFileFds \/ OpenHeader \/ save_mana_header \/ WriteImage \/ Running
  \/ NewProcess \/ Start \/ RestoreFds

FdSpec == FdInit /\ [][FdNext]_fdVars

-----------------------------------------------------------------------------
(* After a restart, also from an image with a header of a later checkpoint *)
(* that was never finished, the program runs on with exactly the           *)
(* descriptors of the image, although closeReservedFds closes some that    *)
(* the restore has put at numbers in the header; no placeholder and no     *)
(* descriptor of openCkptFileFds is left to fill the table, restart by     *)
(* restart; and unless reserve_restart_fds has warned, the restore has     *)
(* closed none of the new lower half's descriptors (what the placeholders  *)
(* are for) at a number in the header, so none at all if the header is of  *)
(* the image's checkpoint.                                                 *)
FdsRestored ==
  [][fdPhase = "restored" /\ fdPhase' = "run" =>
       /\ Of(fd', "program") = Of(fdImage, "program")
       /\ Of(fd', "placeholder") \cup Of(fd', "ckptfile") = {}
       /\ ~warned => closed \cap header = {} /\ (files = "whole" => closed = {})]_fdVars

(* "A placeholder keeps each of those numbers ... free of this lower       *)
(* half's fds" (lower-half.cpp line 353): the restore closes none of the   *)
(* lower half's descriptors, unless reserve_restart_fds has warned.  The   *)
(* header of a checkpoint that was never finished names other numbers.     *)
LowerHalfKept == fdPhase = "restored" /\ ~warned => closed = {}

(* "keep at least `room` numbers below them free" (lower-half.cpp line     *)
(* 363): when the placeholders are in place, that many numbers are left.   *)
RoomIsKept ==
  fdPhase = "init" /\ reserving /\ Of(fd, "lower") = {} =>
    Cardinality(FreeBelow(fd, {})) >= Room
-----------------------------------------------------------------------------
(* Why FdsRestored holds: an inductive invariant.  No lower half is given  *)
(* a number n of the header, as n is taken, or is past the limit, or as    *)
(* there is nothing left to give; and the header has the image's numbers   *)
(* if both are of one checkpoint.                                          *)
Safe(n) ==
  \/ IsOpen(n) /\ fd[n] # "lower"
  \/ ~IsOpen(n) /\ ~(n < limit)
  \/ Lowest(fd, limit) = {} /\ Of(fd, "lower") = {}

FdInv ==
  /\ \A n \in DOMAIN fd : fd[n] \in {"program", "ckptfile"} => n \notin Protected
  /\ \A n \in DOMAIN fdImage :
       fdImage[n] \in {"program", "ckptfile"} /\ n \notin Protected
  /\ files = "whole" => DOMAIN fdImage \subseteq header
  /\ fdPhase = "open" => files # "whole"
  /\ fdPhase = "header" => header = Listed
  /\ fdPhase \in {"run", "presuspend", "open", "header", "image"} \/ ~reserving =>
       Placeholders = {}
  /\ fdPhase = "start" => \A n \in DOMAIN fd : fd[n] = "launcher"
  /\ fdPhase = "init" =>
       /\ Of(fd, "program") = {} /\ Of(fd, "ckptfile") = {}
       /\ ~warned => \A n \in header \ Protected : Safe(n)
  /\ fdPhase = "restored" =>
       /\ Of(fd, "program") = Of(fdImage, "program")
       /\ closed \subseteq DOMAIN fdImage
       /\ ~warned => closed \cap header = {}
=============================================================================
