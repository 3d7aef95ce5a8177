----------------------- MODULE CollectiveClockProofs -----------------------
(* For every number of ranks and communicators and every set of programs:  *)
(* the types and the inductive invariant CutInv of CollectiveClock, and    *)
(* what CutInv shows: the drain ends only at a consistent cut, and it      *)
(* implements CollectiveCut.  And what RoundInv shows: the ranks come to   *)
(* the same decision in each round.                                        *)
EXTENDS CollectiveClock, TLAPS, FiniteSetTheorems

(* Zenon proves the leaves that name no prover; SMT those with arithmetic. *)
USE Zenon

(* A rank that is in a call, or at one, has that call in its program.      *)
LEMMA CurrentCallType ==
  ASSUME TypeOK, NEW r \in Ranks, ip[r] <= Len(prog[r])
  PROVE  CurrentCall(r) \in Calls
<1>1. prog[r] \in Seq(Calls)
  BY ConstantsAssumption, SMT DEF TypeOK
<1>2. ip[r] \in 1..Len(prog[r])
  BY <1>1, SMT DEF TypeOK
<1> QED
  BY <1>1, <1>2, SMT DEF CurrentCall

(* The types of one clock, before and after a step.                        *)
LEMMA ClockTypes ==
  ASSUME TypeOK, NEW p \in Ranks, NEW c \in Comms
  PROVE  /\ seq[p][c] \in Nat /\ target[p][c] \in Nat
         /\ seqMax[c] \in Int /\ shareMax[c] \in Int
         /\ seqMax[c] # NoKey => seqMax[c] \in Nat
         /\ clocks[p] \subseteq Comms
  BY SMT DEF TypeOK, NoKey

LEMMA ClockTypesNext ==
  ASSUME TypeOK', NEW p \in Ranks, NEW c \in Comms
  PROVE  /\ seq'[p][c] \in Nat /\ target'[p][c] \in Nat
         /\ seqMax'[c] \in Int /\ shareMax'[c] \in Int
         /\ clocks'[p] \subseteq Comms
  BY SMT DEF TypeOK, NoKey

(* The communicator that a call creates.                                   *)
LEMMA NewCommType ==
  ASSUME TypeOK, NEW r \in Ranks, AddCommClock(r)
  PROVE  CurrentCall(r).new \in Comms
<1>1. ip[r] <= Len(prog[r])
  BY DEF AddCommClock, TypeOK
<1> QED
  BY <1>1, CurrentCallType DEF AddCommClock, Calls

(* What a step that updates one rank's entry relies on.                    *)
LEMMA Domains ==
  ASSUME TypeOK
  PROVE  /\ DOMAIN apc = Ranks /\ DOMAIN current_phase = Ranks
         /\ DOMAIN cpc = Ranks /\ DOMAIN todo = Ranks
         /\ DOMAIN ckpt_pending = Ranks
         /\ DOMAIN clocks = Ranks
         /\ DOMAIN raised_clocks = Ranks /\ DOMAIN added_clock = Ranks
  BY DEF TypeOK

LEMMA ClocksAreComms ==
  ASSUME TypeOK, NEW p \in Ranks, NEW c \in clocks[p]
  PROVE  c \in Comms
  BY DEF TypeOK

LEMMA AppType ==
  ASSUME TypeOK, NEW r \in Ranks, App(r)
  PROVE  TypeOK'
<1> USE DEF appVars, clockVars, drainVars, kvdbVars, mpiVars
<1>1. CASE BeginWait(r)
  BY <1>1 DEF TypeOK, BeginWait, AtCall
<1>2. CASE SpinBegin(r)
  BY <1>2 DEF TypeOK, SpinBegin
<1>3. CASE Begin(r)
  <2>1. CurrentCall(r).comm \in Comms
    BY <1>3, CurrentCallType DEF Begin, AtCall, Calls
  <2>2. /\ seq' \in [Ranks -> [Comms -> Nat]]
        /\ target' \in [Ranks -> [Comms -> Nat]]
        /\ raised_clocks' \in [Ranks -> SUBSET Comms]
    <3>1. CASE Counted(CurrentCall(r))
      <4> DEFINE c == CurrentCall(r).comm
      <4>1. CountCall(r, c)
        BY <1>3, <3>1 DEF Begin
      <4> HIDE DEF c
      <4> QED
        BY <2>1, <4>1, SMT DEF TypeOK, CountCall, c
    <3>2. CASE ~Counted(CurrentCall(r))
      BY <1>3, <3>2 DEF TypeOK, Begin
    <3> QED
      BY <3>1, <3>2
  <2> QED
    BY <1>3, <2>2 DEF TypeOK, Begin, AtCall
<1>4. CASE StartCall(r)
  <2>1. CurrentCall(r) \in Calls
    BY <1>4, CurrentCallType DEF StartCall, TypeOK
  <2>2. started' \in [Ranks -> [Comms -> Nat]]
    BY <1>4, <2>1, SMT DEF TypeOK, StartCall, Calls
  <2>3. creating' \subseteq Ranks \X Comms /\ freeing' \subseteq Ranks \X Comms
    BY <1>4, <2>1, SMT DEF TypeOK, StartCall, Calls
  <2>4. pending_frees' \in [Ranks -> SUBSET Comms]
    BY <1>4, <2>1 DEF TypeOK, StartCall, Calls
  <2> QED
    BY <1>4, <2>2, <2>3, <2>4 DEF TypeOK, StartCall
<1>5. CASE ReturnCall(r)
  BY <1>5 DEF TypeOK, ReturnCall
<1>6. CASE AddCommClock(r)
  <2>1. CurrentCall(r).new \in Comms
    BY <1>6, NewCommType
  <2> QED
    BY <1>6, <2>1 DEF TypeOK, AddCommClock
<1>7. CASE FinishReady(r)
  BY <1>7 DEF TypeOK, FinishReady
<1>8. CASE FinishWait(r)
  BY <1>8 DEF TypeOK, FinishWait
<1>9. CASE SpinFinish(r)
  BY <1>9 DEF TypeOK, SpinFinish
<1>10. CASE FinishPass(r)
  <2>1. ip' \in [Ranks -> Nat \ {0}]
    BY <1>10, SMT DEF TypeOK, FinishPass
  <2>2. \A q \in Ranks : apc'[q] # "idle" => ip'[q] <= Len(prog'[q])
    <3> SUFFICES ASSUME NEW q \in Ranks, apc'[q] # "idle" PROVE ip'[q] <= Len(prog'[q])
      OBVIOUS
    <3>1. prog' = prog /\ DOMAIN apc = Ranks /\ DOMAIN ip = Ranks
      BY <1>10 DEF TypeOK, FinishPass
    <3>2. apc[q] # "idle" /\ ip'[q] = ip[q]
      BY <1>10, <3>1 DEF FinishPass
    <3> QED
      BY <3>1, <3>2 DEF TypeOK
  <2> QED
    BY <1>10, <2>1, <2>2 DEF TypeOK, FinishPass
<1>11. CASE EnterTest(r)
  BY <1>11 DEF TypeOK, EnterTest
<1>12. CASE LeaveTest(r)
  <2>1. ip' \in [Ranks -> Nat \ {0}]
    BY <1>12, SMT DEF TypeOK, LeaveTest
  <2>2. \A q \in Ranks : apc'[q] # "idle" => ip'[q] <= Len(prog'[q])
    BY <1>12 DEF TypeOK, LeaveTest
  <2> QED
    BY <1>12, <2>1, <2>2 DEF TypeOK, LeaveTest
<1>13. CASE WaitDone(r)
  <2>1. ip' \in [Ranks -> Nat \ {0}]
    BY <1>13, SMT DEF TypeOK, WaitDone
  <2>2. \A q \in Ranks : apc'[q] # "idle" => ip'[q] <= Len(prog'[q])
    BY <1>13 DEF TypeOK, WaitDone, AtCall
  <2> QED
    BY <1>13, <2>1, <2>2 DEF TypeOK, WaitDone
<1>14. ASSUME NEW c \in Comms, TestFree(r, c) PROVE TypeOK'
  BY <1>14 DEF TypeOK, TestFree, FinishFree
<1> QED
  BY <1>1, <1>2, <1>3, <1>4, <1>5, <1>6, <1>7, <1>8, <1>9, <1>10, <1>11, <1>12,
     <1>13, <1>14 DEF App

LEMMA DrainType ==
  ASSUME TypeOK, NEW r \in Ranks, Drain(r)
  PROVE  TypeOK'
<1> USE DEF appVars, clockVars, drainVars, kvdbVars, mpiVars
<1>1. CASE ShareUpload(r)
  <2>1. shareMax' \in [Comms -> Nat \cup {NoKey}]
    BY <1>1, SMT DEF TypeOK, ShareUpload, KvdbMax
  <2> QED
    BY <1>1, <2>1 DEF TypeOK, ShareUpload
<1>2. CASE DownloadDone(r)
  BY <1>2 DEF TypeOK, DownloadDone
<1>3. CASE RoundAdded(r)
  BY <1>3 DEF TypeOK, RoundAdded
<1>4. CASE Report(r)
  <2>1. seqMax' \in [Comms -> Nat \cup {NoKey}]
    BY <1>4, SMT DEF TypeOK, Report, RaisedGids, KvdbMax
  <2>2. tally' \in [converged : SUBSET Ranks, in_cs : SUBSET Ranks,
                    raised : SUBSET (Ranks \X Comms)]
    BY <1>4, SMT DEF TypeOK, Report, RaisedGids
  <2> QED
    BY <1>4, <2>1, <2>2 DEF TypeOK, Report, RaisedGids
<1>5. CASE DecideDrained(r)
  BY <1>5 DEF TypeOK, DecideDrained
<1>6. CASE DecideRaised(r)
  <2>1. todo' \in [Ranks -> SUBSET Comms]
    BY <1>6 DEF TypeOK, DecideRaised, RaisedTodo
  <2> QED
    BY <1>6, <2>1 DEF TypeOK, DecideRaised, RaisedTodo
<1>7. CASE DecideAgain(r)
  <2>1. rounds_without_raise' \in [Ranks -> Nat]
    BY <1>7, SMT DEF TypeOK, DecideAgain
  <2> QED
    BY <1>7, <2>1 DEF TypeOK, DecideAgain
<1>8. CASE GiveUp(r)
  BY <1>8 DEF TypeOK, GiveUp
<1>9. CASE CloseLowerHalf(r)
  BY <1>9 DEF TypeOK, CloseLowerHalf
<1>10. CASE Quiesce(r)
  BY <1>10 DEF TypeOK, Quiesce
<1>11. CASE Resume(r)
  BY <1>11 DEF TypeOK, Resume
<1>12. ASSUME NEW c \in Comms, DownloadTarget(r, c) PROVE TypeOK'
  <2>1. target' \in [Ranks -> [Comms -> Nat]]
    BY <1>12 DEF TypeOK, DownloadTarget
  <2> QED
    BY <1>12, <2>1 DEF TypeOK, DownloadTarget
<1>13. ASSUME NEW c \in Comms, CompleteFree(r, c) PROVE TypeOK'
  BY <1>13 DEF TypeOK, CompleteFree, FinishFree
<1> QED
  BY <1>1, <1>2, <1>3, <1>4, <1>5, <1>6, <1>7, <1>8, <1>9, <1>10, <1>11, <1>12,
     <1>13 DEF Drain

LEMMA GlobalType ==
  ASSUME TypeOK, Barrier \/ RequestCkpt \/ Restart \/ JobDone
  PROVE  TypeOK'
<1> USE DEF appVars, clockVars, drainVars, kvdbVars, mpiVars
<1>1. CASE ShareBarrier
  BY <1>1 DEF TypeOK, ShareBarrier, NoReports
<1>2. CASE RoundBarrier
  BY <1>2 DEF TypeOK, RoundBarrier, NoReports
<1>3. CASE Suspend
  BY <1>3 DEF TypeOK, Suspend
<1>4. CASE RequestCkpt
  <2>1. ckpts' \in Nat
    BY <1>4, SMT DEF TypeOK, RequestCkpt
  <2> QED
    BY <1>4, <2>1 DEF TypeOK, RequestCkpt
<1>5. CASE Restart
  BY <1>5 DEF TypeOK, Restart
<1>6. CASE JobDone
  BY <1>6 DEF TypeOK, JobDone, vars
<1> QED
  BY <1>1, <1>2, <1>3, <1>4, <1>5, <1>6 DEF Barrier

(* Every variable keeps its type, and a thread inside a call has that call *)
(* in its program, in every execution.                                     *)
THEOREM TypeCorrect == Spec => []TypeOK
<1>1. Init => TypeOK
  BY ConstantsAssumption, SMT DEF Init, TypeOK, NoReports
<1>2. TypeOK /\ [Next]_vars => TypeOK'
  <2> SUFFICES ASSUME TypeOK, [Next]_vars PROVE TypeOK'
    OBVIOUS
  <2>1. CASE UNCHANGED vars
    BY <2>1 DEF vars, appVars, clockVars, drainVars, kvdbVars, mpiVars, TypeOK
  <2>2. ASSUME NEW r \in Ranks, App(r) \/ Drain(r) PROVE TypeOK'
    BY <2>2, AppType, DrainType
  <2> QED
    BY <2>1, <2>2, GlobalType DEF Next
<1> QED
  BY <1>1, <1>2, PTL DEF Spec

-----------------------------------------------------------------------------
(* The steps of the application threads preserve CutInv.                   *)

cutVars == <<clockVars, ckpt_pending, current_phase, cpc, todo, kvdbVars>>

(* A step that moves an application thread without entering or leaving a   *)
(* critical section does not disturb the invariant.                        *)
LEMMA CutUnchanged ==
  ASSUME CutInv, PhaseInv', UNCHANGED cutVars
  PROVE  CutInv'
<1> USE DEF cutVars, clockVars, kvdbVars, CutInv
<1>1. PendingInv' /\ MemberInv' /\ UploadInv' /\ TargetInv' /\ StaleInv'
  BY DEF PendingInv, MemberInv, UploadInv, TargetInv, StaleInv
<1>2. ReportInv' /\ DrainedInv'
  BY DEF ReportInv, DrainedInv, Quiet, check_seq_nums, DrainEnds
<1> QED
  BY <1>1, <1>2

LEMMA AppMoveCut ==
  ASSUME TypeOK, CutInv, NEW r \in Ranks,
         \/ BeginWait(r) \/ SpinBegin(r) \/ StartCall(r) \/ ReturnCall(r)
         \/ FinishWait(r) \/ SpinFinish(r) \/ FinishPass(r) \/ EnterTest(r)
         \/ LeaveTest(r) \/ WaitDone(r)
  PROVE  CutInv'
<1>1. PhaseInv'
  <2>1. CASE BeginWait(r)
    BY <2>1, Domains DEF BeginWait, AtCall, CutInv, PhaseInv
  <2>2. CASE SpinBegin(r)
    BY <2>2, Domains DEF SpinBegin, CutInv, PhaseInv
  <2>3. CASE StartCall(r)
    BY <2>3, Domains DEF StartCall, CutInv, PhaseInv
  <2>4. CASE ReturnCall(r)
    BY <2>4, Domains DEF ReturnCall, CutInv, PhaseInv
  <2>5. CASE FinishWait(r)
    BY <2>5, Domains DEF FinishWait, CutInv, PhaseInv
  <2>6. CASE SpinFinish(r)
    BY <2>6, Domains DEF SpinFinish, CutInv, PhaseInv
  <2>7. CASE FinishPass(r)
    BY <2>7, Domains DEF FinishPass, CutInv, PhaseInv
  <2>8. CASE EnterTest(r)
    BY <2>8, Domains DEF EnterTest, CutInv, PhaseInv
  <2>9. CASE LeaveTest(r)
    BY <2>9, Domains DEF LeaveTest, CutInv, PhaseInv
  <2>10. CASE WaitDone(r)
    BY <2>10, Domains DEF WaitDone, CutInv, PhaseInv
  <2> QED
    BY <2>1, <2>2, <2>3, <2>4, <2>5, <2>6, <2>7, <2>8, <2>9, <2>10
<1>2. UNCHANGED cutVars
  BY DEF cutVars, BeginWait, SpinBegin, StartCall, ReturnCall, FinishWait, SpinFinish,
         FinishPass, EnterTest, LeaveTest, WaitDone, clockVars, drainVars, kvdbVars
<1> QED
  BY <1>1, <1>2, CutUnchanged

(* What counting a call changes, clock by clock.                           *)
LEMMA CountCallEffect ==
  ASSUME TypeOK, NEW r \in Ranks, NEW c0 \in Comms, CountCall(r, c0)
  PROVE  /\ \A q \in Ranks : q # r => /\ seq'[q] = seq[q] /\ target'[q] = target[q]
                                      /\ raised_clocks'[q] = raised_clocks[q]
         /\ \A c \in Comms : c # c0 =>
              /\ seq'[r][c] = seq[r][c] /\ target'[r][c] = target[r][c]
              /\ c \in raised_clocks[r] => c \in raised_clocks'[r]
         /\ seq'[r][c0] = seq[r][c0] + 1
         /\ RaisesTarget(r, c0) =>
              /\ target'[r][c0] = seq[r][c0] + 1
              /\ Cardinality(Members[c0]) > 1 => c0 \in raised_clocks'[r]
         /\ ~RaisesTarget(r, c0) =>
              /\ target'[r][c0] = target[r][c0]
              /\ c0 \in raised_clocks[r] => c0 \in raised_clocks'[r]
<1>1. seq \in [Ranks -> [Comms -> Nat]] /\ target \in [Ranks -> [Comms -> Nat]]
  BY DEF TypeOK
<1>2. raised_clocks \in [Ranks -> SUBSET Comms]
  BY DEF TypeOK
<1>3. /\ \A q \in Ranks : q # r => seq'[q] = seq[q]
      /\ \A c \in Comms : c # c0 => seq'[r][c] = seq[r][c]
      /\ seq'[r][c0] = seq[r][c0] + 1
  BY <1>1 DEF CountCall
<1>4. /\ \A q \in Ranks : q # r => target'[q] = target[q]
      /\ \A c \in Comms : c # c0 => target'[r][c] = target[r][c]
      /\ RaisesTarget(r, c0) => target'[r][c0] = seq[r][c0] + 1
      /\ ~RaisesTarget(r, c0) => target'[r][c0] = target[r][c0]
  BY <1>1 DEF CountCall
<1>5. /\ \A q \in Ranks : q # r => raised_clocks'[q] = raised_clocks[q]
      /\ \A c \in Comms : c \in raised_clocks[r] => c \in raised_clocks'[r]
      /\ RaisesTarget(r, c0) /\ Cardinality(Members[c0]) > 1 => c0 \in raised_clocks'[r]
  BY <1>2 DEF CountCall
<1> QED
  BY <1>3, <1>4, <1>5

(* A thread that may enter its critical section is not quiet, and a call   *)
(* that does not raise its target counts up to a number that is uploaded.  *)
LEMMA BeginCut ==
  ASSUME TypeOK, TypeOK', CutInv, NEW r \in Ranks, Begin(r)
  PROVE  CutInv'
<1> USE DEF CutInv
<1>1. /\ UNCHANGED <<clocks, added_clock, ckpt_pending, cpc, todo, kvdbVars>>
      /\ current_phase' = [current_phase EXCEPT ![r] = "IN_CS"]
      /\ apc' = [apc EXCEPT ![r] = "entering"]
      /\ cpc[r] \notin HoldsLock
  BY DEF Begin, drainVars, LockFree
<1>2. ~(ckpt_pending[r] /\ Quiet(r))
  BY DEF Begin, MustWait, Quiet
<1>3. cpc[r] \in Attempt \cup {"suspended"} => ckpt_pending[r] /\ ~Quiet(r)
  BY <1>2 DEF PendingInv
<1>4. PendingInv' /\ MemberInv'
  BY <1>1 DEF PendingInv, MemberInv
<1>5. PhaseInv'
  BY <1>1, Domains DEF PhaseInv
<1>6. CASE UNCHANGED <<seq, target, raised_clocks>>
  <2>1. UploadInv' /\ TargetInv' /\ StaleInv'
    BY <1>1, <1>6 DEF UploadInv, TargetInv, StaleInv, kvdbVars
  <2>2. \A q \in Ranks : q # r => (Quiet(q) <=> Quiet(q)')
    BY <1>1, <1>6, Domains DEF Quiet, check_seq_nums
  <2>3. ReportInv' /\ DrainedInv'
    BY <1>1, <1>3, <2>2 DEF ReportInv, DrainedInv, Attempt, Drained, kvdbVars, DrainEnds
  <2> QED
    BY <1>4, <1>5, <2>1, <2>3
<1>7. ASSUME NEW c0 \in Comms, CountCall(r, c0) PROVE CutInv'
  <2>1. UploadInv'
    <3> SUFFICES ASSUME NEW p \in Ranks, NEW c \in clocks[p],
                        cpc[p] \in {"shareWait", "shareGet"} \cup Attempt
                 PROVE  /\ cpc[p] = "shareWait" => seq'[p][c] <= shareMax[c]
                        /\ cpc[p] = "shareGet" => seq'[p][c] <= seqMax[c]
                        /\ cpc[p] \in Attempt /\ Cardinality(Members[c]) > 1 =>
                             \/ seq'[p][c] = 0 \/ seq'[p][c] <= seqMax[c]
                             \/ c \in raised_clocks'[p]
      BY <1>1 DEF UploadInv, kvdbVars
    <3>1. c \in Comms
      BY ClocksAreComms
    <3>2. CASE p # r \/ c # c0
      BY <1>7, <3>1, <3>2, CountCallEffect, SMT DEF UploadInv
    <3>3. CASE p = r /\ c = c0
      <4>1. cpc[r] \in Attempt /\ cpc[r] \notin {"shareWait", "shareGet"}
        BY <1>1, <3>3 DEF HoldsLock, Attempt, Drained
      <4>2. CASE RaisesTarget(r, c0)
        BY <1>7, <3>3, <4>1, <4>2, CountCallEffect
      <4>3. CASE ~RaisesTarget(r, c0)
        <5>1. seq[r][c0] + 1 <= target[r][c0]
          BY <1>3, <4>1, <4>3, ClockTypes, SMT DEF RaisesTarget
        <5>2. target[r][c0] <= seqMax[c0]
          BY <3>3, <4>1, <5>1, ClockTypes, SMT DEF TargetInv
        <5>3. seq'[r][c0] = seq[r][c0] + 1
          BY <1>7, CountCallEffect
        <5> QED
          BY <3>3, <4>1, <5>1, <5>2, <5>3, ClockTypes, SMT
      <4> QED
        BY <4>2, <4>3
    <3> QED
      BY <3>2, <3>3
  <2>2. TargetInv'
    <3> SUFFICES ASSUME NEW p \in Ranks, NEW c \in clocks[p], cpc[p] \in Attempt,
                        ~(cpc[p] = "shareGet" /\ c \in todo[p])
                 PROVE  target'[p][c] <= seqMax[c] \/ target'[p][c] <= seq'[p][c]
      BY <1>1 DEF TargetInv, kvdbVars
    <3>1. c \in Comms /\ seq[p][c] \in Nat /\ target[p][c] \in Nat
      BY ClocksAreComms, ClockTypes
    <3>2. target[p][c] <= seqMax[c] \/ target[p][c] <= seq[p][c]
      BY DEF TargetInv
    <3>3. CASE p # r \/ c # c0
      BY <1>7, <3>1, <3>2, <3>3, CountCallEffect, SMT
    <3>4. CASE p = r /\ c = c0
      <4>1. CASE RaisesTarget(r, c0)
        BY <1>7, <3>1, <3>4, <4>1, CountCallEffect, SMT
      <4>2. CASE ~RaisesTarget(r, c0)
        BY <1>7, <3>1, <3>2, <3>4, <4>2, CountCallEffect, SMT
      <4> QED
        BY <4>1, <4>2
    <3> QED
      BY <3>3, <3>4
  <2>3. StaleInv'
    <3> SUFFICES ASSUME NEW p \in Ranks, NEW c \in clocks[p],
                        target'[p][c] < seqMax[c]
                 PROVE  target[p][c] < seqMax[c]
      BY <1>1 DEF StaleInv, kvdbVars
    <3>1. c \in Comms
      BY ClocksAreComms
    <3>2. seqMax[c] \in Int /\ target[p][c] \in Int /\ seq[p][c] \in Int
      BY <3>1, ClockTypes, SMT
    <3>3. target'[p][c] = target[p][c] \/ target'[p][c] > target[p][c]
      BY <1>7, <3>1, <3>2, CountCallEffect DEF RaisesTarget
    <3>4. target'[p][c] \in Int
      BY <3>1, ClockTypesNext, SMT
    <3> QED
      BY <3>2, <3>3, <3>4, SMT
  <2>4. \A q \in Ranks : q # r => (Quiet(q) <=> Quiet(q)')
    <3> SUFFICES ASSUME NEW q \in Ranks, q # r PROVE Quiet(q) <=> Quiet(q)'
      OBVIOUS
    <3>1. /\ seq'[q] = seq[q] /\ target'[q] = target[q]
          /\ raised_clocks'[q] = raised_clocks[q]
      BY <1>7, CountCallEffect
    <3>2. current_phase'[q] = current_phase[q]
      BY <1>1, Domains
    <3> QED
      BY <1>1, <3>1, <3>2 DEF Quiet, check_seq_nums
  <2>5. ReportInv' /\ DrainedInv'
    BY <1>1, <1>3, <2>4 DEF ReportInv, DrainedInv, Attempt, Drained, kvdbVars, DrainEnds
  <2> QED
    BY <1>4, <1>5, <2>1, <2>2, <2>3, <2>5
<1>8. CurrentCall(r).comm \in Comms
  BY CurrentCallType DEF Begin, AtCall, Calls
<1> QED
  BY <1>6, <1>7, <1>8 DEF Begin

(* The new clock starts at zero, and added_clock tells the next round.     *)
LEMMA AddCommClockCut ==
  ASSUME TypeOK, TypeOK', CutInv, NEW r \in Ranks, AddCommClock(r)
  PROVE  CutInv'
<1> USE DEF CutInv
<1> DEFINE d == CurrentCall(r).new
<1>1. d \in Comms
  BY NewCommType
<1>2. /\ UNCHANGED <<raised_clocks, ckpt_pending, cpc, todo, kvdbVars, current_phase>>
      /\ apc[r] = "inCall"
      /\ apc' = [apc EXCEPT ![r] = "leaving"]
      /\ r \in Members[d]
      /\ cpc[r] \notin HoldsLock
      /\ clocks' = [clocks EXCEPT ![r] = @ \cup {d}]
      /\ seq' = [seq EXCEPT ![r][d] = 0]
      /\ target' = [target EXCEPT ![r][d] = 0]
      /\ added_clock' = [added_clock EXCEPT ![r] = @ \/ ckpt_pending[r]]
  BY DEF AddCommClock, drainVars, LockFree
<1> HIDE DEF d
<1>3. ~Quiet(r)
  BY <1>2 DEF PhaseInv, Quiet
<1>4. PendingInv' /\ MemberInv' /\ PhaseInv'
  BY <1>1, <1>2, Domains DEF PendingInv, MemberInv, PhaseInv
<1>5. \A p \in Ranks : \A c \in clocks'[p] :
        \/ /\ c \in clocks[p] /\ seq'[p][c] = seq[p][c] /\ target'[p][c] = target[p][c]
           /\ added_clock[p] => added_clock'[p]
        \/ /\ p = r /\ c = d /\ seq'[p][c] = 0 /\ target'[p][c] = 0
           /\ ckpt_pending[r] => added_clock'[r]
  <2> SUFFICES ASSUME NEW p \in Ranks, NEW c \in clocks'[p]
               PROVE <1>5!(p)!(c)
    OBVIOUS
  <2>1. clocks'[p] = IF p = r THEN clocks[p] \cup {d} ELSE clocks[p]
    <3>1. clocks \in [Ranks -> SUBSET Comms]
      BY DEF TypeOK
    <3> QED
      BY <1>2, <3>1
  <2>2. c \in Comms
    BY <1>1, <2>1, ClocksAreComms
  <2>3. seq \in [Ranks -> [Comms -> Nat]] /\ target \in [Ranks -> [Comms -> Nat]]
    BY DEF TypeOK
  <2>4. /\ seq'[p][c] = IF p = r /\ c = d THEN 0 ELSE seq[p][c]
        /\ target'[p][c] = IF p = r /\ c = d THEN 0 ELSE target[p][c]
    BY <1>1, <1>2, <2>2, <2>3
  <2>5. /\ added_clock[p] => added_clock'[p]
        /\ ckpt_pending[r] => added_clock'[r]
    BY <1>2, Domains
  <2>6. CASE p = r /\ c = d
    BY <2>4, <2>5, <2>6
  <2>7. CASE ~(p = r /\ c = d)
    BY <2>1, <2>4, <2>5, <2>7
  <2> QED
    BY <2>6, <2>7
<1>6. UploadInv'
  BY <1>2, <1>5, SMT DEF UploadInv, HoldsLock, kvdbVars
<1>7. TargetInv'
  BY <1>2, <1>5, SMT DEF TargetInv, kvdbVars
<1>8. StaleInv'
  <2> SUFFICES ASSUME NEW p \in Ranks, NEW c \in clocks'[p], cpc[p] \in Attempt,
                      target'[p][c] < seqMax[c]
               PROVE  \/ added_clock'[p] /\ cpc[p] # "addGet"
                      \/ cpc[p] \in {"shareGet", "addGet", "raiseGet"} /\ c \in todo[p]
                      \/ cpc[p] = "decide" /\ \E q \in Ranks : <<q, c>> \in published.raised
                      \/ \E q \in Ranks : <<q, c>> \in tally.raised
    BY <1>2 DEF StaleInv, kvdbVars
  <2>1. CASE c \in clocks[p] /\ target'[p][c] = target[p][c]
             /\ (added_clock[p] => added_clock'[p])
    BY <2>1 DEF StaleInv
  <2>2. CASE p = r /\ (ckpt_pending[r] => added_clock'[r])
    BY <1>2, <2>2 DEF PendingInv, HoldsLock
  <2> QED
    BY <1>5, <2>1, <2>2
<1>9. \A q \in Ranks : q # r => (Quiet(q) <=> Quiet(q)')
  BY <1>2, Domains, SMT DEF Quiet, check_seq_nums
<1>10. ReportInv' /\ DrainedInv'
  BY <1>2, <1>3, <1>9 DEF ReportInv, DrainedInv, kvdbVars, DrainEnds
<1> QED
  BY <1>4, <1>6, <1>7, <1>8, <1>10

LEMMA FinishReadyCut ==
  ASSUME TypeOK, CutInv, NEW r \in Ranks, FinishReady(r)
  PROVE  CutInv'
<1> USE DEF CutInv
<1>1. /\ UNCHANGED <<clockVars, ckpt_pending, cpc, todo, kvdbVars>>
      /\ apc' = [apc EXCEPT ![r] = "finish"]
      /\ current_phase' = [current_phase EXCEPT ![r] = "IS_READY"]
  BY DEF FinishReady, drainVars
<1>2. PendingInv' /\ MemberInv' /\ UploadInv' /\ TargetInv' /\ StaleInv'
  BY <1>1 DEF PendingInv, MemberInv, UploadInv, TargetInv, StaleInv, clockVars, kvdbVars
<1>3. PhaseInv'
  BY <1>1, Domains DEF PhaseInv
<1>4. \A q \in Ranks : Quiet(q) => Quiet(q)'
  BY <1>1, Domains DEF Quiet, check_seq_nums, clockVars
<1>5. ReportInv' /\ DrainedInv'
  BY <1>1, <1>4 DEF ReportInv, DrainedInv, kvdbVars, DrainEnds
<1> QED
  BY <1>2, <1>3, <1>5

(* Erasing a clock only removes obligations.                               *)
LEMMA FinishFreeCut ==
  ASSUME TypeOK, CutInv, NEW r \in Ranks, NEW c0 \in Comms, FinishFree(r, c0)
  PROVE  CutInv'
<1> USE DEF CutInv
<1>1. /\ UNCHANGED <<seq, target, raised_clocks, added_clock, ckpt_pending, cpc, todo,
                     kvdbVars, current_phase, apc>>
      /\ \A p \in Ranks : clocks'[p] \subseteq clocks[p]
  BY Domains DEF FinishFree, drainVars, appVars
<1>2. PendingInv' /\ MemberInv' /\ PhaseInv'
  BY <1>1 DEF PendingInv, MemberInv, PhaseInv
<1>3. UploadInv' /\ TargetInv' /\ StaleInv'
  BY <1>1 DEF UploadInv, TargetInv, StaleInv, kvdbVars
<1>4. \A q \in Ranks : Quiet(q) => Quiet(q)'
  BY <1>1 DEF Quiet, check_seq_nums
<1>5. ReportInv' /\ DrainedInv'
  BY <1>1, <1>4 DEF ReportInv, DrainedInv, kvdbVars, DrainEnds
<1> QED
  BY <1>2, <1>3, <1>5

-----------------------------------------------------------------------------
(* The steps of the checkpoint threads preserve CutInv.                    *)

(* ShareUpload starts an attempt on one rank.                              *)
LEMMA ShareUploadCut ==
  ASSUME TypeOK, TypeOK', CutInv, NEW r \in Ranks, ShareUpload(r)
  PROVE  CutInv'
<1> USE DEF CutInv
<1>1. /\ UNCHANGED <<clocks, seq, target, todo, current_phase, apc, seqMax, tally,
                     published>>
      /\ cpc[r] \in {"presuspend", "pause"}
      /\ cpc' = [cpc EXCEPT ![r] = "shareWait"]
      /\ ckpt_pending' = [ckpt_pending EXCEPT ![r] = TRUE]
      /\ \A q \in Ranks : q # r => /\ raised_clocks'[q] = raised_clocks[q]
                                   /\ added_clock'[q] = added_clock[q]
      /\ raised_clocks'[r] = {} /\ ~added_clock'[r]
  BY Domains DEF ShareUpload, appVars
<1>2. /\ cpc'[r] = "shareWait"
      /\ \A q \in Ranks : q # r => cpc'[q] = cpc[q]
  BY <1>1, Domains
<1>3. PendingInv' /\ MemberInv' /\ PhaseInv'
  BY <1>1, <1>2, Domains DEF PendingInv, MemberInv, PhaseInv
<1>4. UploadInv'
  <2>1. \A c \in Comms : shareMax'[c] >= shareMax[c]
    BY ClockTypes, SMT DEF ShareUpload, KvdbMax
  <2>2. \A c \in clocks[r] : shareMax'[c] >= seq[r][c]
    <3> SUFFICES ASSUME NEW c \in clocks[r] PROVE shareMax'[c] >= seq[r][c]
      OBVIOUS
    <3>1. c \in Comms
      BY ClocksAreComms
    <3> QED
      BY <3>1, ClockTypes, SMT DEF ShareUpload, KvdbMax
  <2> SUFFICES ASSUME NEW p \in Ranks, NEW c \in clocks[p]
               PROVE  /\ cpc'[p] = "shareWait" => seq[p][c] <= shareMax'[c]
                      /\ cpc'[p] = "shareGet" => seq[p][c] <= seqMax[c]
                      /\ cpc'[p] \in Attempt /\ Cardinality(Members[c]) > 1 =>
                           \/ seq[p][c] = 0 \/ seq[p][c] <= seqMax[c]
                           \/ c \in raised_clocks'[p]
    BY <1>1 DEF UploadInv
  <2>3. c \in Comms
    BY ClocksAreComms
  <2>4. seq[p][c] \in Int /\ shareMax[c] \in Int /\ shareMax'[c] \in Int
    BY <2>3, ClockTypes, ClockTypesNext, SMT
  <2>5. CASE p = r
    BY <1>1, <1>2, <2>2, <2>4, <2>5 DEF Attempt, Drained
  <2>6. CASE p # r
    BY <1>1, <1>2, <2>1, <2>3, <2>4, <2>6, SMT DEF UploadInv
  <2> QED
    BY <2>5, <2>6
<1>5. TargetInv' /\ StaleInv'
  BY <1>1, <1>2 DEF TargetInv, StaleInv, Attempt, Drained
<1>6. \A q \in Ranks : q # r => (Quiet(q) <=> Quiet(q)')
  BY <1>1 DEF Quiet, check_seq_nums
<1>7. ReportInv' /\ DrainedInv'
  BY <1>1, <1>2, <1>6 DEF ReportInv, DrainedInv, Drained, DrainEnds
<1> QED
  BY <1>3, <1>4, <1>5, <1>7

(* The database now has every number, and every target is to be read.      *)
LEMMA ShareBarrierCut ==
  ASSUME TypeOK, TypeOK', CutInv, ShareBarrier
  PROVE  CutInv'
<1> USE DEF CutInv
<1>1. /\ UNCHANGED <<clocks, seq, target, raised_clocks, added_clock, ckpt_pending,
                     current_phase, apc>>
      /\ \A r \in Ranks : cpc[r] = "shareWait" /\ cpc'[r] = "shareGet"
      /\ todo' = clocks /\ seqMax' = shareMax
      /\ tally' = NoReports /\ published' = NoReports
  BY DEF ShareBarrier, appVars, clockVars
<1>2. PendingInv' /\ MemberInv' /\ PhaseInv'
  BY <1>1 DEF PendingInv, MemberInv, PhaseInv
<1>3. UploadInv' /\ TargetInv' /\ StaleInv'
  BY <1>1 DEF UploadInv, TargetInv, StaleInv
<1>4. ReportInv' /\ DrainedInv'
  BY <1>1 DEF ReportInv, DrainedInv, NoReports, Drained
<1> QED
  BY <1>2, <1>3, <1>4

(* A downloaded target is the number in the database.                      *)
LEMMA DownloadTargetCut ==
  ASSUME TypeOK, TypeOK', CutInv, NEW r \in Ranks, NEW c0 \in Comms, DownloadTarget(r, c0)
  PROVE  CutInv'
<1> USE DEF CutInv
<1>1. /\ UNCHANGED <<clocks, seq, raised_clocks, added_clock, ckpt_pending, cpc,
                     current_phase, apc, kvdbVars>>
      /\ cpc[r] \in {"shareGet", "addGet", "raiseGet"}
      /\ c0 \in todo[r]
  BY DEF DownloadTarget, appVars
<1>2. /\ todo'[r] = todo[r] \ {c0}
      /\ \A q \in Ranks : q # r => todo'[q] = todo[q] /\ target'[q] = target[q]
      /\ \A c \in Comms : c # c0 => target'[r][c] = target[r][c]
      /\ IF seqMax[c0] # NoKey THEN target'[r][c0] = seqMax[c0]
                               ELSE target'[r][c0] = target[r][c0]
  <2>1. todo \in [Ranks -> SUBSET Comms] /\ target \in [Ranks -> [Comms -> Nat]]
    BY DEF TypeOK
  <2> QED
    BY <2>1 DEF DownloadTarget
<1>3. PendingInv' /\ MemberInv' /\ PhaseInv' /\ UploadInv'
  BY <1>1 DEF PendingInv, MemberInv, PhaseInv, UploadInv, kvdbVars
<1>4. TargetInv'
  <2> SUFFICES ASSUME NEW p \in Ranks, NEW c \in clocks[p], cpc[p] \in Attempt,
                      ~(cpc[p] = "shareGet" /\ c \in todo'[p])
               PROVE  target'[p][c] <= seqMax[c] \/ target'[p][c] <= seq[p][c]
    BY <1>1 DEF TargetInv, kvdbVars
  <2>1. c \in Comms
    BY ClocksAreComms
  <2>2. /\ seq[p][c] \in Nat /\ target[p][c] \in Nat /\ seqMax[c] \in Int
        /\ target'[p][c] \in Nat
    BY <2>1, ClockTypes, ClockTypesNext
  <2>3. CASE p # r \/ c # c0
    BY <1>1, <1>2, <2>1, <2>3 DEF TargetInv
  <2>4. CASE p = r /\ c = c0
    <3>1. CASE seqMax[c0] # NoKey
      BY <1>2, <2>2, <2>4, <3>1, SMT
    <3>2. CASE seqMax[c0] = NoKey
      <4>1. cpc[r] # "shareGet"
        BY <2>2, <2>4, <3>2, SMT DEF UploadInv, NoKey
      <4> QED
        BY <1>2, <2>4, <3>2, <4>1 DEF TargetInv
    <3> QED
      BY <3>1, <3>2
  <2> QED
    BY <2>3, <2>4
<1>5. StaleInv'
  <2> SUFFICES ASSUME NEW p \in Ranks, NEW c \in clocks[p], cpc[p] \in Attempt,
                      target'[p][c] < seqMax[c]
               PROVE  \/ added_clock[p] /\ cpc[p] # "addGet"
                      \/ cpc[p] \in {"shareGet", "addGet", "raiseGet"} /\ c \in todo'[p]
                      \/ cpc[p] = "decide" /\ \E q \in Ranks : <<q, c>> \in published.raised
                      \/ \E q \in Ranks : <<q, c>> \in tally.raised
    BY <1>1 DEF StaleInv, kvdbVars
  <2>1. c \in Comms
    BY ClocksAreComms
  <2>2. target[p][c] \in Nat /\ seqMax[c] \in Int
    BY <2>1, ClockTypes
  <2>3. CASE p # r \/ c # c0
    BY <1>1, <1>2, <2>1, <2>3 DEF StaleInv
  <2>4. CASE p = r /\ c = c0
    BY <1>2, <2>2, <2>4, SMT DEF NoKey
  <2> QED
    BY <2>3, <2>4
<1>6. \A q \in Ranks : q # r => (Quiet(q) <=> Quiet(q)')
  BY <1>1, <1>2 DEF Quiet, check_seq_nums
<1>7. ReportInv' /\ DrainedInv'
  BY <1>1, <1>6 DEF ReportInv, DrainedInv, Drained, kvdbVars, DrainEnds
<1> QED
  BY <1>3, <1>4, <1>5, <1>7

(* A step of the checkpoint thread that touches neither a clock nor the    *)
(* database: it stays in the attempt or leaves it, reports nothing, forgets*)
(* no target it has to read, and goes on with the drain exactly when the   *)
(* round did not end it.                                                   *)
CpcStep(r) ==
  /\ UNCHANGED <<clockVars, current_phase, apc, kvdbVars>>
  /\ \A q \in Ranks : q # r => /\ cpc'[q] = cpc[q] /\ todo'[q] = todo[q]
                               /\ ckpt_pending'[q] = ckpt_pending[q]
  /\ cpc[r] # "roundWait" /\ cpc'[r] \notin {"shareWait", "shareGet", "decide", "suspended"}
  /\ cpc'[r] \in Attempt \cup {"failed"} =>
       cpc[r] \in Attempt /\ ckpt_pending'[r] = ckpt_pending[r]
  /\ cpc[r] \in {"shareGet", "addGet", "raiseGet"} => todo[r] = {}
  /\ cpc'[r] = "addGet" => todo'[r] = clocks[r]
  /\ \A c \in clocks[r] : cpc[r] = "decide" /\ (\E q \in Ranks : <<q, c>> \in published.raised) =>
       cpc'[r] = "raiseGet" /\ c \in todo'[r]
  /\ cpc'[r] \in Drained => cpc[r] \in Drained \cup {"decide"} /\ DrainEnds(published)
  /\ cpc[r] \in Drained \cup {"decide"} /\ DrainEnds(published) => cpc'[r] \in Drained

LEMMA CpcStepCut ==
  ASSUME TypeOK, CutInv, NEW r \in Ranks, CpcStep(r)
  PROVE  CutInv'
<1> USE DEF CutInv
<1>1. UNCHANGED <<clocks, seq, target, raised_clocks, added_clock, current_phase, apc,
                  shareMax, seqMax, tally, published>>
  BY DEF CpcStep, clockVars, kvdbVars
<1>2. MemberInv' /\ PhaseInv'
  BY <1>1 DEF MemberInv, PhaseInv
<1>3. PendingInv'
  BY DEF CpcStep, PendingInv
<1>4. UploadInv'
  <2> SUFFICES ASSUME NEW q \in Ranks, NEW c \in clocks[q]
               PROVE  /\ cpc'[q] = "shareWait" => seq[q][c] <= shareMax[c]
                      /\ cpc'[q] = "shareGet" => seq[q][c] <= seqMax[c]
                      /\ cpc'[q] \in Attempt /\ Cardinality(Members[c]) > 1 =>
                           seq[q][c] = 0 \/ seq[q][c] <= seqMax[c] \/ c \in raised_clocks[q]
    BY <1>1 DEF UploadInv
  <2>1. CASE q = r
    <3>1. cpc'[r] \notin {"shareWait", "shareGet"} /\ (cpc'[r] \in Attempt => cpc[r] \in Attempt)
      BY DEF CpcStep
    <3> QED
      BY <2>1, <3>1 DEF UploadInv
  <2>2. CASE q # r
    <3>1. cpc'[q] = cpc[q]
      BY <2>2 DEF CpcStep
    <3> QED
      BY <3>1 DEF UploadInv
  <2> QED
    BY <2>1, <2>2
<1>5. TargetInv'
  <2>1. cpc[r] = "shareGet" => todo[r] = {}
    BY DEF CpcStep
  <2> QED
    BY <1>1, <2>1 DEF CpcStep, TargetInv
<1>6. StaleInv'
  <2> SUFFICES ASSUME NEW p \in Ranks, NEW c \in clocks[p], cpc'[p] \in Attempt,
                      target[p][c] < seqMax[c]
               PROVE  \/ added_clock[p] /\ cpc'[p] # "addGet"
                      \/ cpc'[p] \in {"shareGet", "addGet", "raiseGet"} /\ c \in todo'[p]
                      \/ cpc'[p] = "decide" /\ \E q \in Ranks : <<q, c>> \in published.raised
                      \/ \E q \in Ranks : <<q, c>> \in tally.raised
    BY <1>1 DEF StaleInv
  <2>1. CASE p = r
    <3>1. cpc[r] \in Attempt
      BY <2>1 DEF CpcStep
    <3>2. CASE cpc'[r] = "addGet"
      BY <2>1, <3>2 DEF CpcStep
    <3>3. CASE cpc'[r] # "addGet"
      BY <2>1, <3>1, <3>3 DEF CpcStep, StaleInv
    <3> QED
      BY <3>2, <3>3
  <2>2. CASE p # r
    BY <2>2 DEF CpcStep, StaleInv
  <2> QED
    BY <2>1, <2>2
<1>7. \A q \in Ranks : Quiet(q) <=> Quiet(q)'
  BY <1>1 DEF Quiet, check_seq_nums
<1>8. ReportInv'
  BY <1>1, <1>7 DEF CpcStep, ReportInv
<1>9. DrainedInv'
  <2>1. DrainEnds(published) <=> DrainEnds(published)'
    BY <1>1 DEF DrainEnds
  <2> QED
    BY <1>7, <2>1 DEF CpcStep, DrainedInv
<1> QED
  BY <1>2, <1>3, <1>4, <1>5, <1>6, <1>8, <1>9

LEMMA CpcMoveCut ==
  ASSUME TypeOK, CutInv, NEW r \in Ranks,
         \/ DownloadDone(r) \/ RoundAdded(r) \/ DecideDrained(r) \/ DecideRaised(r)
         \/ DecideAgain(r) \/ GiveUp(r) \/ CloseLowerHalf(r) \/ Quiesce(r) \/ Resume(r)
  PROVE  CutInv'
<1>1. UNCHANGED <<clockVars, current_phase, apc, kvdbVars>>
  BY DEF DownloadDone, RoundAdded, DecideDrained, DecideRaised, DecideAgain, GiveUp,
               CloseLowerHalf, Quiesce, Resume, appVars
<1>2. \A q \in Ranks : q # r => /\ cpc'[q] = cpc[q] /\ todo'[q] = todo[q]
                                /\ ckpt_pending'[q] = ckpt_pending[q]
  BY Domains
     DEF DownloadDone, RoundAdded, DecideDrained, DecideRaised, DecideAgain, GiveUp,
         CloseLowerHalf, Quiesce, Resume
<1>3. CASE DownloadDone(r)
  <2>1. cpc[r] \in {"shareGet", "raiseGet"} /\ cpc'[r] = "round" /\ todo[r] = {}
        /\ ckpt_pending' = ckpt_pending
    BY <1>3, Domains DEF DownloadDone
  <2> QED
    BY <1>1, <1>2, <2>1, CpcStepCut DEF CpcStep, Attempt, Drained
<1>4. CASE RoundAdded(r)
  <2>1. cpc[r] = "round" /\ cpc'[r] = "addGet" /\ todo'[r] = clocks[r]
        /\ ckpt_pending' = ckpt_pending
    BY <1>4, Domains DEF RoundAdded
  <2> QED
    BY <1>1, <1>2, <2>1, CpcStepCut DEF CpcStep, Attempt, Drained
<1>5. CASE DecideDrained(r)
  <2>1. cpc[r] = "decide" /\ cpc'[r] = "drained" /\ ckpt_pending' = ckpt_pending
        /\ DrainEnds(published)
    BY <1>5, Domains DEF DecideDrained
  <2>2. published.raised = {}
    BY <2>1 DEF DrainEnds
  <2> QED
    BY <1>1, <1>2, <2>1, <2>2, CpcStepCut DEF CpcStep, Attempt, Drained
<1>6. CASE DecideRaised(r)
  <2>1. cpc[r] = "decide" /\ cpc'[r] = "raiseGet" /\ ckpt_pending' = ckpt_pending
        /\ todo'[r] = RaisedTodo(r) /\ published.raised # {}
    BY <1>6, Domains DEF DecideRaised
  <2>2. \A c \in clocks[r] : (\E q \in Ranks : <<q, c>> \in published.raised) =>
          c \in RaisedTodo(r)
    BY DEF RaisedTodo
  <2>3. ~DrainEnds(published)
    BY <2>1 DEF DrainEnds
  <2> QED
    BY <1>1, <1>2, <2>1, <2>2, <2>3, CpcStepCut DEF CpcStep, Attempt, Drained
<1>7. CASE DecideAgain(r)
  <2>1. cpc[r] = "decide" /\ cpc'[r] \in {"round", "failed"} /\ ckpt_pending' = ckpt_pending
        /\ ~DrainEnds(published) /\ published.raised = {}
    BY <1>7, Domains DEF DecideAgain
  <2> QED
    BY <1>1, <1>2, <2>1, CpcStepCut DEF CpcStep, Attempt, Drained
<1>8. CASE GiveUp(r) \/ Resume(r)
  <2>1. cpc[r] \in {"failed", "suspended"} /\ cpc'[r] \in {"pause", "run"}
    BY <1>8, Domains DEF GiveUp, Resume
  <2> QED
    BY <1>1, <1>2, <2>1, CpcStepCut DEF CpcStep, Attempt, Drained
<1>9. CASE CloseLowerHalf(r) \/ Quiesce(r)
  <2>1. cpc[r] \in Drained /\ cpc'[r] \in Drained /\ ckpt_pending' = ckpt_pending
    BY <1>9, Domains DEF CloseLowerHalf, Quiesce, Drained
  <2>2. DrainEnds(published)
    BY <2>1 DEF CutInv, DrainedInv
  <2> QED
    BY <1>1, <1>2, <2>1, <2>2, CpcStepCut DEF CpcStep, Attempt, Drained
<1> QED
  BY <1>3, <1>4, <1>5, <1>6, <1>7, <1>8, <1>9

(* A round uploads what the rank raised, and names it in the round's list; *)
(* a rank that reports its targets reached and no critical section is      *)
(* quiet at that moment.                                                   *)
LEMMA ReportCut ==
  ASSUME TypeOK, TypeOK', CutInv, NEW r \in Ranks, Report(r)
  PROVE  CutInv'
<1> USE DEF CutInv
<1> DEFINE gids == raised_clocks[r] \cap clocks[r]
<1>1. /\ UNCHANGED <<clocks, seq, target, ckpt_pending, current_phase, apc, todo,
                     shareMax, published>>
      /\ cpc[r] \in {"round", "addGet"}
      /\ cpc[r] = "round" => ~added_clock[r]
      /\ cpc[r] = "addGet" => todo[r] = {}
      /\ cpc'[r] = "roundWait"
      /\ \A q \in Ranks : q # r => cpc'[q] = cpc[q]
  BY Domains DEF Report, RaisedGids
<1>2. /\ raised_clocks'[r] = {} /\ ~added_clock'[r]
      /\ \A q \in Ranks : q # r => /\ raised_clocks'[q] = raised_clocks[q]
                                   /\ added_clock'[q] = added_clock[q]
  BY Domains DEF Report, RaisedGids
<1>3. \A c \in Comms :
        /\ seqMax'[c] >= seqMax[c]
        /\ c \in gids => seqMax'[c] >= seq[r][c]
        /\ c \notin gids => seqMax'[c] = seqMax[c]
  BY ClockTypes, SMT DEF Report, RaisedGids, KvdbMax
<1>4. /\ tally'.converged = tally.converged \cup (IF check_seq_nums(r) THEN {r} ELSE {})
      /\ tally'.in_cs = tally.in_cs \cup (IF current_phase[r] = "IN_CS" THEN {r} ELSE {})
      /\ tally'.raised = tally.raised \cup ({r} \X gids)
  BY DEF Report, RaisedGids
<1>5. PendingInv' /\ MemberInv' /\ PhaseInv'
  BY <1>1 DEF PendingInv, MemberInv, PhaseInv, Attempt
<1>6. UploadInv'
  <2> SUFFICES ASSUME NEW p \in Ranks, NEW c \in clocks[p]
               PROVE  /\ cpc'[p] = "shareWait" => seq[p][c] <= shareMax[c]
                      /\ cpc'[p] = "shareGet" => seq[p][c] <= seqMax'[c]
                      /\ cpc'[p] \in Attempt /\ Cardinality(Members[c]) > 1 =>
                           \/ seq[p][c] = 0 \/ seq[p][c] <= seqMax'[c]
                           \/ c \in raised_clocks'[p]
    BY <1>1 DEF UploadInv
  <2>1. c \in Comms
    BY ClocksAreComms
  <2>2. seq[p][c] \in Int /\ seqMax[c] \in Int /\ seqMax'[c] \in Int
    BY <2>1, ClockTypes, ClockTypesNext, SMT
  <2>3. CASE p = r
    BY <1>1, <1>3, <2>1, <2>2, <2>3 DEF UploadInv, Attempt
  <2>4. CASE p # r
    BY <1>1, <1>2, <1>3, <2>1, <2>2, <2>4, SMT DEF UploadInv
  <2> QED
    BY <2>3, <2>4
<1>7. TargetInv'
  <2> SUFFICES ASSUME NEW p \in Ranks, NEW c \in clocks[p], cpc'[p] \in Attempt,
                      ~(cpc'[p] = "shareGet" /\ c \in todo[p])
               PROVE  target[p][c] <= seqMax'[c] \/ target[p][c] <= seq[p][c]
    BY <1>1 DEF TargetInv
  <2>1. c \in Comms
    BY ClocksAreComms
  <2>2. target[p][c] \in Int /\ seqMax[c] \in Int /\ seqMax'[c] \in Int
    BY <2>1, ClockTypes, ClockTypesNext, SMT
  <2>3. target[p][c] <= seqMax[c] \/ target[p][c] <= seq[p][c]
    BY <1>1 DEF TargetInv, Attempt
  <2> QED
    BY <1>3, <2>1, <2>2, <2>3, SMT
<1>8. StaleInv'
  <2> SUFFICES ASSUME NEW p \in Ranks, NEW c \in clocks[p], cpc'[p] \in Attempt,
                      target[p][c] < seqMax'[c]
               PROVE  \/ added_clock'[p] /\ cpc'[p] # "addGet"
                      \/ cpc'[p] \in {"shareGet", "addGet", "raiseGet"} /\ c \in todo[p]
                      \/ cpc'[p] = "decide" /\ \E q \in Ranks : <<q, c>> \in published.raised
                      \/ \E q \in Ranks : <<q, c>> \in tally'.raised
    BY <1>1 DEF StaleInv
  <2>1. c \in Comms
    BY ClocksAreComms
  <2>2. CASE c \in gids
    <3>1. <<r, c>> \in tally'.raised
      BY <1>4, <2>2
    <3> QED
      BY <3>1
  <2>3. CASE c \notin gids
    <3>1. target[p][c] < seqMax[c]
      BY <1>3, <2>1, <2>3
    <3>2. cpc[p] \in Attempt
      BY <1>1 DEF Attempt
    <3>3. tally.raised \subseteq tally'.raised
      BY <1>4
    <3>4. CASE p = r
      BY <1>1, <3>1, <3>2, <3>3, <3>4 DEF StaleInv
    <3>5. CASE p # r
      BY <1>1, <1>2, <3>1, <3>2, <3>3, <3>5 DEF StaleInv
    <3> QED
      BY <3>4, <3>5
  <2> QED
    BY <2>2, <2>3
<1>9. \A q \in Ranks : q # r => (Quiet(q) <=> Quiet(q)')
  BY <1>1, <1>2 DEF Quiet, check_seq_nums
<1>10. ReportInv'
  <2>1. r \notin tally.converged
    BY <1>1 DEF ReportInv
  <2>2. ASSUME NEW q \in Ranks,
               q \in tally'.converged \/ \E c \in Comms : <<q, c>> \in tally'.raised
        PROVE  cpc'[q] = "roundWait"
    BY <1>1, <1>4, <2>2 DEF ReportInv
  <2>3. ASSUME NEW q \in Ranks, q \in tally'.converged \ tally'.in_cs PROVE Quiet(q)'
    <3>1. CASE q = r
      <4>1. check_seq_nums(r) /\ current_phase[r] # "IN_CS"
        BY <1>4, <2>1, <2>3, <3>1
      <4>2. check_seq_nums(r)'
        BY <1>1, <4>1 DEF check_seq_nums
      <4> QED
        BY <1>1, <1>2, <3>1, <4>1, <4>2 DEF Quiet
    <3>2. CASE q # r
      BY <1>4, <1>9, <2>3, <3>2 DEF ReportInv
    <3> QED
      BY <3>1, <3>2
  <2> QED
    BY <2>2, <2>3 DEF ReportInv
<1>11. DrainedInv'
  BY <1>1, <1>9 DEF DrainedInv, Drained, DrainEnds
<1> QED
  BY <1>5, <1>6, <1>7, <1>8, <1>10, <1>11

(* All ranks have reported.  If the reports end the drain, all are quiet.  *)
LEMMA RoundBarrierCut ==
  ASSUME TypeOK, CutInv, RoundBarrier
  PROVE  CutInv'
<1> USE DEF CutInv
<1>1. /\ UNCHANGED <<clockVars, ckpt_pending, current_phase, apc, todo, shareMax, seqMax>>
      /\ \A r \in Ranks : cpc[r] = "roundWait" /\ cpc'[r] = "decide"
      /\ published' = tally /\ tally' = NoReports
  BY DEF RoundBarrier, appVars
<1>2. PendingInv' /\ MemberInv' /\ PhaseInv'
  BY <1>1 DEF PendingInv, MemberInv, PhaseInv, clockVars, Attempt
<1>3. UploadInv' /\ TargetInv' /\ StaleInv'
  BY <1>1 DEF UploadInv, TargetInv, StaleInv, clockVars, Attempt, NoReports
<1>4. \A q \in Ranks : Quiet(q) <=> Quiet(q)'
  BY <1>1 DEF Quiet, check_seq_nums, clockVars
<1>5. ReportInv'
  BY <1>1 DEF ReportInv, NoReports
<1>6. DrainedInv'
  <2>1. DrainEnds(tally) => \A r \in Ranks : Quiet(r)
    BY DEF DrainEnds, ReportInv
  <2> QED
    BY <1>1, <1>4, <2>1 DEF DrainedInv, Drained, DrainEnds
<1> QED
  BY <1>2, <1>3, <1>5, <1>6

LEMMA GlobalMoveCut ==
  ASSUME TypeOK, CutInv, Suspend \/ RequestCkpt \/ Restart \/ JobDone
  PROVE  CutInv'
<1> USE DEF CutInv
<1>1. CASE Suspend \/ RequestCkpt
  <2>1. /\ UNCHANGED <<clockVars, ckpt_pending, current_phase, apc, todo, kvdbVars>>
        /\ \/ \A r \in Ranks : cpc[r] = "quiet" /\ cpc'[r] = "suspended"
           \/ \A r \in Ranks : cpc[r] = "run" /\ cpc'[r] = "presuspend"
    BY <1>1 DEF Suspend, RequestCkpt, appVars
  <2>2. PendingInv' /\ MemberInv' /\ PhaseInv'
    BY <2>1 DEF PendingInv, MemberInv, PhaseInv, clockVars, Attempt, Drained
  <2>3. UploadInv' /\ TargetInv' /\ StaleInv'
    <3>1. UNCHANGED <<clocks, seq, target, raised_clocks, added_clock, shareMax, seqMax,
                      tally, published>>
      BY <2>1 DEF clockVars, kvdbVars
    <3>2. \A q \in Ranks : /\ cpc'[q] \notin {"shareWait", "shareGet"}
                           /\ cpc'[q] \notin Attempt
      BY <2>1 DEF Attempt, Drained
    <3>3. UploadInv'
      BY <3>1, <3>2 DEF UploadInv
    <3>4. TargetInv'
      BY <3>1, <3>2 DEF TargetInv
    <3>5. StaleInv'
      BY <3>1, <3>2 DEF StaleInv
    <3> QED
      BY <3>3, <3>4, <3>5
  <2>4. \A q \in Ranks : Quiet(q) <=> Quiet(q)'
    BY <2>1 DEF Quiet, check_seq_nums, clockVars
  <2>5. ReportInv' /\ DrainedInv'
    BY <2>1, <2>4 DEF ReportInv, DrainedInv, Drained, kvdbVars, DrainEnds
  <2> QED
    BY <2>2, <2>3, <2>5
<1>2. CASE Restart \/ JobDone
  <2>1. PhaseInv' /\ UNCHANGED cutVars
    BY <1>2 DEF Restart, JobDone, vars, appVars, drainVars, PhaseInv, cutVars
  <2> QED
    BY <2>1, CutUnchanged
<1> QED
  BY <1>1, <1>2

(* The invariant holds in every execution, whatever the ranks, the         *)
(* communicators and the programs.                                         *)
THEOREM CutInvariant == Spec => []CutInv
<1>1. Init => CutInv
  <2> SUFFICES ASSUME Init PROVE CutInv
    OBVIOUS
  <2>1. \A r \in Ranks : cpc[r] = "run" /\ apc[r] = "idle" /\ current_phase[r] = "IS_READY"
    BY DEF Init
  <2>2. \A r \in Ranks : cpc[r] \notin {"shareWait", "failed", "suspended"} \cup Attempt
    BY <2>1 DEF Attempt, Drained
  <2>3. PendingInv /\ PhaseInv /\ DrainedInv
    BY <2>1, <2>2 DEF PendingInv, PhaseInv, DrainedInv, Attempt
  <2>4. MemberInv
    BY DEF Init, MemberInv
  <2>5. UploadInv /\ TargetInv /\ StaleInv
    BY <2>1, <2>2 DEF UploadInv, TargetInv, StaleInv
  <2>6. ReportInv
    BY DEF Init, ReportInv, NoReports
  <2> QED
    BY <2>3, <2>4, <2>5, <2>6 DEF CutInv
<1>2. TypeOK /\ TypeOK' /\ CutInv /\ [Next]_vars => CutInv'
  <2> SUFFICES ASSUME TypeOK, TypeOK', CutInv, [Next]_vars PROVE CutInv'
    OBVIOUS
  <2>1. CASE UNCHANGED vars
    <3>1. PhaseInv' /\ UNCHANGED cutVars
      BY <2>1 DEF vars, appVars, drainVars, PhaseInv, cutVars, CutInv
    <3> QED
      BY <3>1, CutUnchanged
  <2>2. ASSUME NEW r \in Ranks, App(r) PROVE CutInv'
    BY <2>2, AppMoveCut, BeginCut, AddCommClockCut, FinishReadyCut, FinishFreeCut
       DEF App, TestFree
  <2>3. ASSUME NEW r \in Ranks, Drain(r) PROVE CutInv'
    BY <2>3, ShareUploadCut, DownloadTargetCut, CpcMoveCut, ReportCut, FinishFreeCut
       DEF Drain, CompleteFree
  <2>4. CASE Barrier \/ RequestCkpt \/ Restart \/ JobDone
    BY <2>4, ShareBarrierCut, RoundBarrierCut, GlobalMoveCut DEF Barrier
  <2> QED
    BY <2>1, <2>2, <2>3, <2>4 DEF Next
<1> QED
  BY <1>1, <1>2, TypeCorrect, PTL DEF Spec

-----------------------------------------------------------------------------
(* Two ranks that both have a clock for a communicator share it.           *)
LEMMA SharedComm ==
  ASSUME MemberInv, NEW p \in Ranks, NEW q \in Ranks, p # q,
         NEW c \in Comms, c \in clocks[p], c \in clocks[q]
  PROVE  Cardinality(Members[c]) > 1
<1>1. IsFiniteSet(Members[c])
  BY ConstantsAssumption, FS_Subset
<1>2. {p, q} \subseteq Members[c]
  BY DEF MemberInv
<1>3. Cardinality(Members[c]) # 0 /\ Cardinality(Members[c]) # 1
  BY <1>1, <1>2, FS_EmptySet, FS_Singleton, SMT
<1>4. Cardinality(Members[c]) \in Nat
  BY <1>1, FS_CardinalityType
<1> QED
  BY <1>3, <1>4, SMT

(* When all ranks are quiet and no target is stale, the clocks agree: each *)
(* number is at most the database's, and each target is at least that.     *)
LEMMA QuietIsBalanced ==
  ASSUME TypeOK, CutInv,
         \A p \in Ranks : cpc[p] \in {"roundWait", "decide"} \cup Drained /\ Quiet(p),
         \A p \in Ranks : \A c \in Comms : <<p, c>> \notin tally.raised,
         \A p \in Ranks : cpc[p] = "decide" => published.raised = {}
  PROVE  \A p, q \in Ranks : \A c \in clocks[p] \cap clocks[q] : seq[p][c] = seq[q][c]
<1> USE DEF CutInv
<1>1. ASSUME NEW p \in Ranks, NEW q \in Ranks, p # q,
             NEW c \in Comms, c \in clocks[p], c \in clocks[q]
      PROVE  seq[p][c] <= seq[q][c]
  <2>1. seq[p][c] = 0 \/ seq[p][c] <= seqMax[c]
    BY <1>1, SharedComm DEF UploadInv, Quiet, Attempt
  <2>2. ~(target[q][c] < seqMax[c])
    BY <1>1 DEF StaleInv, Quiet, Attempt, Drained
  <2>3. target[q][c] <= seq[q][c]
    BY <1>1 DEF Quiet, check_seq_nums
  <2> QED
    BY <2>1, <2>2, <2>3, ClockTypes, SMT
<1>2. ASSUME NEW p \in Ranks, NEW q \in Ranks, NEW c \in clocks[p] \cap clocks[q]
      PROVE  seq[p][c] = seq[q][c]
  <2>1. c \in Comms
    BY ClocksAreComms
  <2> QED
    BY <1>1, <2>1, ClockTypes, SMT
<1> QED
  BY <1>2

LEMMA CutInvImpliesCut ==
  ASSUME TypeOK, CutInv
  PROVE  ConsistentCut
<1> USE DEF CutInv
<1> SUFFICES ASSUME NEW r \in Ranks, cpc[r] \in Drained
             PROVE  /\ \A p, q \in Ranks : \A c \in clocks[p] \cap clocks[q] :
                         seq[p][c] = seq[q][c]
                    /\ \A p \in Ranks : current_phase[p] # "IN_CS"
  BY DEF ConsistentCut
<1>1. DrainEnds(published) /\ \A p \in Ranks : cpc[p] \in Drained \cup {"decide"} /\ Quiet(p)
  BY DEF DrainedInv
<1>2. \A p \in Ranks : \A c \in Comms : <<p, c>> \notin tally.raised
  BY <1>1 DEF ReportInv, Drained
<1>3. published.raised = {}
  BY <1>1 DEF DrainEnds
<1> QED
  BY <1>1, <1>2, <1>3, QuietIsBalanced DEF Quiet

(* The drain ends only at a consistent cut, for any number of ranks: when  *)
(* drain_mpi_collective() has returned on some rank, the members of each   *)
(* communicator made the same number of collective calls on it and none is *)
(* in a collective call.                                                   *)
THEOREM DrainIsConsistent == Spec => []ConsistentCut
  BY TypeCorrect, CutInvariant, CutInvImpliesCut, PTL

-----------------------------------------------------------------------------
(* The drain implements CollectiveCut.                                     *)

LEMMA StoppedIsQuiet ==
  ASSUME CutInv, NEW r \in StoppedRanks
  PROVE  Quiet(r) /\ ckpt_pending[r]
  BY DEF StoppedRanks, CutInv, DrainedInv, PendingInv, Attempt

LEMMA AppRefines ==
  ASSUME TypeOK, CutInv, NEW r \in Ranks, App(r)
  PROVE  [Cut!Next]_Cut!vars
<1> DEFINE inside == {q \in Ranks : current_phase[q] = "IN_CS"}
<1>1. StoppedRanks' = StoppedRanks
  <2>1. UNCHANGED <<cpc, published>>
    BY DEF App, BeginWait, SpinBegin, Begin, StartCall, ReturnCall, AddCommClock,
           FinishReady, FinishWait, SpinFinish, FinishPass, EnterTest, TestFree, FinishFree,
           LeaveTest, WaitDone, drainVars, kvdbVars
  <2> QED
    BY <2>1 DEF StoppedRanks, DrainEnds
<1>2. CASE Begin(r)
  <2>1. r \notin inside
    BY <1>2 DEF Begin, AtCall, CutInv, PhaseInv
  <2>2. r \notin StoppedRanks
    BY <1>2, StoppedIsQuiet DEF Begin, MustWait, Quiet
  <2>3. inside' = inside \cup {r} /\ clocks' = clocks
    BY <1>2, Domains DEF Begin
  <2>4. CurrentCall(r).comm \in Comms
    BY <1>2, CurrentCallType DEF Begin, AtCall, Calls
  <2>5. seq' = seq \/ \E c \in Comms : seq' = [seq EXCEPT ![r][c] = @ + 1]
    BY <1>2, <2>4 DEF Begin, CountCall
  <2>6. Cut!Enter(r)
    BY <1>1, <2>1, <2>2, <2>3, <2>5 DEF Cut!Enter
  <2> QED
    BY <2>6 DEF Cut!Next
<1>3. CASE AddCommClock(r)
  <2>1. r \in inside /\ inside' = inside
    BY <1>3 DEF AddCommClock, CutInv, PhaseInv
  <2>2. CurrentCall(r).new \in Comms
    BY <1>3, NewCommType
  <2>3. Cut!Gain(r)
    BY <1>1, <1>3, <2>1, <2>2 DEF AddCommClock, Cut!Gain
  <2> QED
    BY <2>3 DEF Cut!Next
<1>4. CASE FinishReady(r)
  <2>1. inside' = inside \ {r}
    BY <1>4, Domains DEF FinishReady
  <2>2. Cut!Leave(r)
    BY <1>1, <1>4, <2>1 DEF FinishReady, clockVars, Cut!Leave
  <2> QED
    BY <2>2 DEF Cut!Next
<1>5. ASSUME NEW c \in Comms, TestFree(r, c) PROVE Cut!Next
  <2>1. Cut!Drop(r)
    BY <1>1, <1>5 DEF TestFree, FinishFree, appVars, Cut!Drop
  <2> QED
    BY <2>1 DEF Cut!Next
<1>6. CASE \/ BeginWait(r) \/ SpinBegin(r) \/ StartCall(r) \/ ReturnCall(r)
           \/ FinishWait(r) \/ SpinFinish(r) \/ FinishPass(r) \/ EnterTest(r)
           \/ LeaveTest(r) \/ WaitDone(r)
  BY <1>1, <1>6 DEF BeginWait, SpinBegin, StartCall, ReturnCall, FinishWait, SpinFinish,
     FinishPass, EnterTest, LeaveTest, WaitDone, clockVars, Cut!vars
<1> QED
  BY <1>2, <1>3, <1>4, <1>5, <1>6 DEF App

LEMMA DrainRefines ==
  ASSUME TypeOK, CutInv, NEW r \in Ranks, Drain(r)
  PROVE  [Cut!Next]_Cut!vars
<1> DEFINE inside == {q \in Ranks : current_phase[q] = "IN_CS"}
<1>1. current_phase' = current_phase /\ seq' = seq
  BY DEF Drain, ShareUpload, DownloadTarget, DownloadDone, RoundAdded, Report, RaisedGids,
         DecideDrained, DecideRaised, RaisedTodo, DecideAgain, GiveUp, CloseLowerHalf, CompleteFree,
         FinishFree, Quiesce, Resume, appVars, clockVars
<1>2. ASSUME NEW c \in Comms, CompleteFree(r, c) PROVE Cut!Next
  <2>1. StoppedRanks' = StoppedRanks
    <3>1. UNCHANGED <<cpc, published>>
      BY <1>2 DEF CompleteFree, FinishFree, drainVars, kvdbVars
    <3> QED
      BY <3>1 DEF StoppedRanks, DrainEnds
  <2>2. Cut!Drop(r)
    BY <1>1, <1>2, <2>1 DEF CompleteFree, FinishFree, Cut!Drop
  <2> QED
    BY <2>2 DEF Cut!Next
<1>3. CASE Resume(r)
  <2>1. /\ UNCHANGED <<clocks, published>>
        /\ cpc[r] = "suspended" /\ cpc'[r] = "run"
        /\ \A q \in Ranks : q # r => cpc'[q] = cpc[q]
    BY <1>3, Domains DEF Resume, clockVars, kvdbVars
  <2>2. StoppedRanks' = StoppedRanks \ {r}
    BY <2>1 DEF StoppedRanks, Drained
  <2>3. Cut!Go(r)
    BY <1>1, <2>1, <2>2 DEF Cut!Go
  <2> QED
    BY <2>3 DEF Cut!Next
<1>4. CASE DecideDrained(r) \/ CloseLowerHalf(r) \/ Quiesce(r)
  <2>1. /\ UNCHANGED <<clocks, published>>
        /\ cpc[r] \in Drained \cup {"decide"} /\ cpc'[r] \in Drained \cup {"decide"}
        /\ \A q \in Ranks : q # r => cpc'[q] = cpc[q]
    BY <1>4, Domains DEF DecideDrained, CloseLowerHalf, Quiesce, clockVars, kvdbVars, Drained
  <2>2. StoppedRanks' = StoppedRanks
    BY <2>1 DEF StoppedRanks, Drained, DrainEnds
  <2> QED
    BY <1>1, <2>1, <2>2 DEF Cut!vars
<1>5. CASE DecideRaised(r) \/ DecideAgain(r)
  <2>1. /\ UNCHANGED <<clocks, published>>
        /\ ~DrainEnds(published)
        /\ cpc[r] = "decide" /\ cpc'[r] \in {"raiseGet", "round", "failed"}
        /\ \A q \in Ranks : q # r => cpc'[q] = cpc[q]
    BY <1>5, Domains DEF DecideRaised, RaisedTodo, DecideAgain, clockVars, kvdbVars, DrainEnds
  <2>2. StoppedRanks' = StoppedRanks
    BY <2>1 DEF StoppedRanks, DrainEnds
  <2> QED
    BY <1>1, <2>1, <2>2 DEF Cut!vars
<1>6. CASE \/ ShareUpload(r) \/ DownloadDone(r) \/ RoundAdded(r) \/ Report(r) \/ GiveUp(r)
           \/ \E c \in Comms : DownloadTarget(r, c)
  <2>1. /\ UNCHANGED <<clocks, published>>
        /\ cpc[r] \notin Drained \cup {"decide", "suspended"}
        /\ cpc'[r] \notin Drained \cup {"decide", "suspended"}
        /\ \A q \in Ranks : q # r => cpc'[q] = cpc[q]
    BY <1>6, Domains DEF ShareUpload, DownloadDone, RoundAdded, Report, RaisedGids, GiveUp,
                         DownloadTarget, clockVars, kvdbVars, Drained
  <2>2. StoppedRanks' = StoppedRanks
    BY <2>1 DEF StoppedRanks
  <2> QED
    BY <1>1, <2>1, <2>2 DEF Cut!vars
<1> QED
  BY <1>2, <1>3, <1>4, <1>5, <1>6 DEF Drain

LEMMA GlobalRefines ==
  ASSUME TypeOK, CutInv, Barrier \/ RequestCkpt \/ Restart \/ JobDone
  PROVE  [Cut!Next]_Cut!vars
<1> DEFINE inside == {q \in Ranks : current_phase[q] = "IN_CS"}
<1>1. UNCHANGED <<seq, clocks, current_phase>>
  BY DEF Barrier, ShareBarrier, RoundBarrier, Suspend, RequestCkpt, Restart, JobDone, vars,
         appVars, clockVars
<1>2. CASE ShareBarrier \/ RequestCkpt
  <2>1. \A q \in Ranks : /\ cpc[q] \in {"run", "shareWait"}
                         /\ cpc'[q] \in {"presuspend", "shareGet"}
    BY <1>2 DEF ShareBarrier, RequestCkpt
  <2>2. StoppedRanks = {} /\ StoppedRanks' = {}
    BY <2>1 DEF StoppedRanks, Drained
  <2> QED
    BY <1>1, <2>2 DEF Cut!vars
<1>3. CASE Suspend
  <2>1. \A q \in Ranks : cpc[q] = "quiet" /\ cpc'[q] = "suspended"
    BY <1>3 DEF Suspend
  <2>2. StoppedRanks = Ranks /\ StoppedRanks' = Ranks
    BY <2>1 DEF StoppedRanks, Drained, CutInv, DrainedInv
  <2> QED
    BY <1>1, <2>2 DEF Cut!vars
<1>4. CASE Restart \/ JobDone
  <2>1. StoppedRanks' = StoppedRanks
    BY <1>4 DEF Restart, JobDone, vars, drainVars, kvdbVars, StoppedRanks, DrainEnds
  <2> QED
    BY <1>1, <2>1 DEF Cut!vars
<1>5. CASE RoundBarrier
  <2>1. /\ \A q \in Ranks : cpc[q] = "roundWait" /\ cpc'[q] = "decide"
        /\ published' = tally
    BY <1>5 DEF RoundBarrier
  <2>2. StoppedRanks = {}
    BY <2>1 DEF StoppedRanks, Drained
  <2>3. CASE ~DrainEnds(tally)
    <3>1. StoppedRanks' = {}
      BY <2>1, <2>3 DEF StoppedRanks, Drained, DrainEnds
    <3> QED
      BY <1>1, <2>2, <3>1 DEF Cut!vars
  <2>4. CASE DrainEnds(tally)
    <3>1. \A q \in Ranks : Quiet(q)
      BY <2>4 DEF DrainEnds, CutInv, ReportInv
    <3>2. \A p \in Ranks : \A c \in Comms : <<p, c>> \notin tally.raised
      BY <2>4 DEF DrainEnds
    <3>3. Cut!Balanced
      BY <2>1, <3>1, <3>2, QuietIsBalanced DEF Cut!Balanced
    <3>4. inside = {}
      BY <3>1 DEF Quiet
    <3>5. StoppedRanks' = Ranks
      BY <2>1, <2>4 DEF StoppedRanks, DrainEnds
    <3>6. Cut!Stop
      BY <1>1, <2>2, <3>3, <3>4, <3>5 DEF Cut!Stop
    <3> QED
      BY <3>6 DEF Cut!Next
  <2> QED
    BY <2>3, <2>4
<1> QED
  BY <1>2, <1>3, <1>4, <1>5 DEF Barrier

(* The barrier of the round that ends the drain stops every rank at one    *)
(* consistent cut, and no rank enters a collective call before it resumes, *)
(* for any number of ranks: the drain implements CollectiveCut.            *)
THEOREM DrainImplementsCut == Spec => ImplementsCut
<1>1. Init => Cut!Init
  BY ConstantsAssumption, SMT DEF Init, Cut!Init, StoppedRanks, Drained
<1>2. TypeOK /\ CutInv /\ [Next]_vars => [Cut!Next]_Cut!vars
  <2> SUFFICES ASSUME TypeOK, CutInv, [Next]_vars PROVE [Cut!Next]_Cut!vars
    OBVIOUS
  <2>1. CASE UNCHANGED vars
    BY <2>1 DEF vars, appVars, clockVars, drainVars, kvdbVars, Cut!vars, StoppedRanks,
                DrainEnds
  <2> QED
    BY <2>1, AppRefines, DrainRefines, GlobalRefines DEF Next
<1> QED
  BY <1>1, <1>2, TypeCorrect, CutInvariant, PTL DEF Spec, ImplementsCut, Cut!Spec

-----------------------------------------------------------------------------
(* All ranks come to the same decision in each round.                      *)

(* The variables of RoundInv.                                              *)
roundVars == <<cpc, rounds_without_raise, published>>

LEMMA RoundTypes ==
  ASSUME TypeOK, NEW p \in Ranks
  PROVE  /\ rounds_without_raise[p] \in Nat
         /\ \/ cpc[p] \in {"run", "suspended", "presuspend", "shareWait", "failed",
                           "pause", "decide"}
            \/ cpc[p] \in InRound \/ cpc[p] \in Drained
  BY DEF TypeOK, InRound, Drained

LEMMA RoundUnchanged ==
  ASSUME RoundInv, UNCHANGED roundVars
  PROVE  RoundInv'
<1>1. cpc' = cpc /\ rounds_without_raise' = rounds_without_raise /\ published' = published
  BY DEF roundVars
<1>2. DrainEnds(published)' <=> DrainEnds(published)
  BY <1>1 DEF DrainEnds
<1>3. TogetherInv'
  BY <1>1, SMT DEF RoundInv, TogetherInv
<1>4. CountInv'
  BY <1>1, <1>2, SMT DEF RoundInv, CountInv
<1> QED
  BY <1>3, <1>4 DEF RoundInv

(* A step of one checkpoint thread that stays at its point of the round.   *)
LEMMA MoveWithin ==
  ASSUME TypeOK, RoundInv, NEW r \in Ranks,
         UNCHANGED <<rounds_without_raise, published>>,
         \A q \in Ranks : q # r => cpc'[q] = cpc[q],
         \/ cpc[r] \in {"presuspend", "pause"} /\ cpc'[r] = "shareWait"
         \/ cpc[r] \in InRound /\ cpc'[r] \in InRound
         \/ cpc[r] = "failed" /\ cpc'[r] = "pause"
         \/ cpc[r] \in Drained /\ cpc'[r] \in Drained
         \/ cpc[r] = "suspended" /\ cpc'[r] = "run"
         \/ cpc[r] = "decide" /\ DrainEnds(published) /\ cpc'[r] = "drained"
  PROVE  RoundInv'
<1>1. DrainEnds(published)' <=> DrainEnds(published)
  BY DEF DrainEnds
<1>2. TogetherInv'
  BY RoundTypes, SMT DEF RoundInv, TogetherInv, CountInv, InRound, Drained
<1>3. CountInv'
  BY <1>1, SMT DEF RoundInv, TogetherInv, CountInv, InRound, Drained
<1> QED
  BY <1>2, <1>3 DEF RoundInv

(* A rank finds that the drain goes on: it counts the round, or not.       *)
LEMMA DecideKeepsRound ==
  ASSUME TypeOK, RoundInv, NEW r \in Ranks, DecideRaised(r) \/ DecideAgain(r)
  PROVE  RoundInv'
<1>1. /\ published' = published /\ ~DrainEnds(published)
      /\ cpc[r] = "decide"
      /\ \A q \in Ranks : q # r => /\ cpc'[q] = cpc[q]
                                   /\ rounds_without_raise'[q] = rounds_without_raise[q]
  <2>0. DOMAIN rounds_without_raise = Ranks /\ DOMAIN cpc = Ranks
    BY DEF TypeOK
  <2>1. CASE DecideRaised(r)
    <3>1. published' = published /\ ~DrainEnds(published) /\ cpc[r] = "decide"
      BY <2>1 DEF DecideRaised, kvdbVars, DrainEnds
    <3>2. \A q \in Ranks : q # r => /\ cpc'[q] = cpc[q]
                                    /\ rounds_without_raise'[q] = rounds_without_raise[q]
      BY <2>0, <2>1 DEF DecideRaised
    <3> QED  BY <3>1, <3>2
  <2>2. CASE DecideAgain(r)
    <3>1. published' = published /\ ~DrainEnds(published) /\ cpc[r] = "decide"
      BY <2>2 DEF DecideAgain, kvdbVars
    <3>2. \A q \in Ranks : q # r => /\ cpc'[q] = cpc[q]
                                    /\ rounds_without_raise'[q] = rounds_without_raise[q]
      BY <2>0, <2>2 DEF DecideAgain
    <3> QED  BY <3>1, <3>2
  <2> QED  BY <2>1, <2>2
<1>2. \/ /\ published.raised # {} /\ cpc'[r] \in InRound /\ rounds_without_raise'[r] = 0
      \/ /\ published.raised = {}
         /\ rounds_without_raise'[r] = rounds_without_raise[r] + 1
         /\ \/ cpc'[r] \in InRound /\ rounds_without_raise[r] + 1 < MAX_DRAIN_ROUNDS
            \/ cpc'[r] = "failed" /\ ~(rounds_without_raise[r] + 1 < MAX_DRAIN_ROUNDS)
  <2>0. DOMAIN rounds_without_raise = Ranks /\ DOMAIN cpc = Ranks
    BY DEF TypeOK
  <2>1. ASSUME DecideRaised(r)
        PROVE  published.raised # {} /\ cpc'[r] \in InRound /\ rounds_without_raise'[r] = 0
    <3>1. cpc'[r] = "raiseGet" /\ rounds_without_raise'[r] = 0
      BY <2>0, <2>1 DEF DecideRaised
    <3> QED  BY <2>1, <3>1 DEF DecideRaised, InRound
  <2>2. ASSUME DecideAgain(r)
        PROVE  /\ published.raised = {}
               /\ rounds_without_raise'[r] = rounds_without_raise[r] + 1
               /\ \/ cpc'[r] \in InRound /\ rounds_without_raise[r] + 1 < MAX_DRAIN_ROUNDS
                  \/ cpc'[r] = "failed" /\ ~(rounds_without_raise[r] + 1 < MAX_DRAIN_ROUNDS)
    <3>1. /\ rounds_without_raise'[r] = rounds_without_raise[r] + 1
          /\ cpc'[r] = IF rounds_without_raise[r] + 1 < MAX_DRAIN_ROUNDS THEN "round" ELSE "failed"
      BY <2>0, <2>2 DEF DecideAgain
    <3>2. "round" \in InRound /\ published.raised = {}
      BY <2>2 DEF DecideAgain, InRound
    <3> QED  BY <3>1, <3>2
  <2> QED  BY <2>1, <2>2
<1>3. DrainEnds(published)' <=> DrainEnds(published)
  BY <1>1 DEF DrainEnds
<1>4. ASSUME NEW q \in Ranks, q # r
      PROVE  /\ cpc[q] \in InRound \cup {"decide", "failed", "pause", "shareWait"}
             /\ cpc[q] = "decide" => rounds_without_raise[q] = rounds_without_raise[r]
             /\ cpc[q] \in InRound =>
                  /\ published.raised # {} => rounds_without_raise[q] = 0
                  /\ published.raised = {} =>
                       /\ rounds_without_raise[q] = rounds_without_raise[r] + 1
                       /\ rounds_without_raise[q] < MAX_DRAIN_ROUNDS
             /\ cpc[q] \in {"failed", "pause", "shareWait"} =>
                  published.raised = {} /\ rounds_without_raise[r] + 1 >= MAX_DRAIN_ROUNDS
  <2>1. /\ cpc[q] \notin {"run", "suspended", "presuspend"} /\ cpc[q] \notin Drained
    BY <1>1, SMT DEF RoundInv, TogetherInv, CountInv, InRound, Drained
  <2>2. cpc[q] \in InRound \cup {"decide", "failed", "pause", "shareWait"}
    BY <2>1, RoundTypes
  <2> QED
    BY <1>1, <2>2 DEF RoundInv, CountInv
<1>5. rounds_without_raise[r] \in Nat /\ MAX_DRAIN_ROUNDS \in Nat
  BY RoundTypes, ConstantsAssumption
<1>6. TogetherInv'
  <2> SUFFICES ASSUME NEW p \in Ranks, NEW q \in Ranks, p # q
               PROVE  /\ cpc'[p] \in {"run", "suspended"} => cpc'[q] \in {"run", "suspended"}
                      /\ cpc'[p] = "presuspend" => cpc'[q] \in {"presuspend", "shareWait"}
                      /\ cpc'[p] = "shareWait" =>
                           cpc'[q] \in {"presuspend", "shareWait", "failed", "pause", "decide"}
                      /\ cpc'[p] \in {"failed", "pause"} =>
                           cpc'[q] \in {"shareWait", "failed", "pause", "decide"}
                      /\ cpc'[p] \in InRound => cpc'[q] \in InRound \cup {"decide"}
                      /\ cpc'[p] \in Drained => cpc'[q] \in Drained \cup {"decide"}
    BY SMT DEF TogetherInv, InRound, Drained
  <2>1. CASE p # r /\ q # r
    BY <1>1, <2>1 DEF RoundInv, TogetherInv
  <2>2. CASE p = r
    BY <1>1, <1>2, <1>4, <1>5, <2>2, SMT DEF InRound, Drained
  <2>3. CASE q = r
    BY <1>1, <1>2, <1>4, <1>5, <2>3, SMT DEF InRound, Drained
  <2> QED
    BY <2>1, <2>2, <2>3
<1>7. CountInv'
  <2> SUFFICES ASSUME NEW p \in Ranks, NEW q \in Ranks
               PROVE  /\ cpc'[p] = "decide" /\ cpc'[q] = "decide" =>
                           rounds_without_raise'[p] = rounds_without_raise'[q]
                      /\ cpc'[p] \in InRound /\ cpc'[q] \in InRound =>
                           rounds_without_raise'[p] = rounds_without_raise'[q]
                      /\ cpc'[p] \in InRound /\ cpc'[q] = "decide" =>
                           /\ ~DrainEnds(published)
                           /\ published.raised # {} => rounds_without_raise'[p] = 0
                           /\ published.raised = {} =>
                                /\ rounds_without_raise'[p] = rounds_without_raise'[q] + 1
                                /\ rounds_without_raise'[p] < MAX_DRAIN_ROUNDS
                      /\ cpc'[p] \in {"failed", "pause", "shareWait"} /\ cpc'[q] = "decide" =>
                           /\ ~DrainEnds(published) /\ published.raised = {}
                           /\ rounds_without_raise'[q] + 1 >= MAX_DRAIN_ROUNDS
                      /\ cpc'[p] \in Drained /\ cpc'[q] = "decide" => DrainEnds(published)
    BY <1>1, <1>3, SMT DEF CountInv
  <2>1. CASE p # r /\ q # r
    BY <1>1, <2>1, SMT DEF RoundInv, CountInv
  <2>2. CASE p = r
    BY <1>1, <1>2, <1>4, <1>5, <2>2, SMT DEF InRound, Drained
  <2>3. CASE q = r
    BY <1>1, <1>2, <1>4, <1>5, <2>3, SMT DEF InRound, Drained
  <2> QED
    BY <2>1, <2>2, <2>3
<1> QED
  BY <1>6, <1>7 DEF RoundInv

LEMMA DrainKeepsRound ==
  ASSUME TypeOK, RoundInv, NEW r \in Ranks, Drain(r)
  PROVE  RoundInv'
<1>1. CASE DecideRaised(r) \/ DecideAgain(r)
  BY <1>1, DecideKeepsRound
<1>2. CASE \/ ShareUpload(r) \/ DownloadDone(r) \/ RoundAdded(r) \/ Report(r) \/ GiveUp(r)
           \/ CloseLowerHalf(r) \/ Quiesce(r) \/ Resume(r) \/ DecideDrained(r)
  <2>1. UNCHANGED <<rounds_without_raise, published>>
    BY <1>2 DEF ShareUpload, DownloadDone, RoundAdded, Report, RaisedGids, GiveUp,
                CloseLowerHalf, Quiesce, Resume, DecideDrained, kvdbVars
  <2>2. \A q \in Ranks : q # r => cpc'[q] = cpc[q]
    BY <1>2, Domains DEF ShareUpload, DownloadDone, RoundAdded, Report, RaisedGids, GiveUp,
                CloseLowerHalf, Quiesce, Resume, DecideDrained
  <2>3. \/ cpc[r] \in {"presuspend", "pause"} /\ cpc'[r] = "shareWait"
        \/ cpc[r] \in InRound /\ cpc'[r] \in InRound
        \/ cpc[r] = "failed" /\ cpc'[r] = "pause"
        \/ cpc[r] \in Drained /\ cpc'[r] \in Drained
        \/ cpc[r] = "suspended" /\ cpc'[r] = "run"
        \/ cpc[r] = "decide" /\ DrainEnds(published) /\ cpc'[r] = "drained"
    BY <1>2, Domains DEF ShareUpload, DownloadDone, RoundAdded, Report, RaisedGids, GiveUp,
                CloseLowerHalf, Quiesce, Resume, DecideDrained, InRound, Drained
  <2> QED
    BY <2>1, <2>2, <2>3, MoveWithin
<1>3. ASSUME NEW c \in Comms, DownloadTarget(r, c) \/ CompleteFree(r, c)
      PROVE  RoundInv'
  BY <1>3, RoundUnchanged
     DEF DownloadTarget, CompleteFree, FinishFree, roundVars, drainVars, kvdbVars
<1> QED
  BY <1>1, <1>2, <1>3 DEF Drain

(* A step that brings all ranks to one point, at which their counts agree. *)
LEMMA EqualKeepsRound ==
  ASSUME NEW s \in {"shareGet", "decide", "suspended", "presuspend"},
         \A r \in Ranks : cpc'[r] = s,
         s \in InRound \cup {"decide"} =>
           \A p, q \in Ranks : rounds_without_raise'[p] = rounds_without_raise'[q]
  PROVE  RoundInv'
<1>1. TogetherInv'
  BY SMT DEF TogetherInv, InRound, Drained
<1>2. CountInv'
  BY SMT DEF CountInv, InRound, Drained
<1> QED
  BY <1>1, <1>2 DEF RoundInv

LEMMA GlobalKeepsRound ==
  ASSUME TypeOK, RoundInv, Barrier \/ RequestCkpt \/ Restart \/ JobDone
  PROVE  RoundInv'
<1>1. CASE ShareBarrier
  <2>1. \A r \in Ranks : cpc'[r] = "shareGet" /\ rounds_without_raise'[r] = 0
    BY <1>1 DEF ShareBarrier
  <2> QED
    BY <2>1, EqualKeepsRound, SMT DEF InRound
<1>2. CASE RoundBarrier
  <2>1. \A r \in Ranks : /\ cpc[r] = "roundWait" /\ cpc'[r] = "decide"
                         /\ rounds_without_raise'[r] = rounds_without_raise[r]
    BY <1>2 DEF RoundBarrier
  <2>2. \A p, q \in Ranks : rounds_without_raise[p] = rounds_without_raise[q]
    BY <2>1, SMT DEF RoundInv, CountInv, InRound
  <2> QED
    BY <2>1, <2>2, EqualKeepsRound, SMT DEF InRound
<1>3. CASE Suspend \/ RequestCkpt
  <2>1. \/ \A r \in Ranks : cpc'[r] = "suspended"
        \/ \A r \in Ranks : cpc'[r] = "presuspend"
    BY <1>3 DEF Suspend, RequestCkpt
  <2> QED
    BY <2>1, EqualKeepsRound, SMT DEF InRound
<1>4. CASE Restart \/ JobDone
  BY <1>4, RoundUnchanged DEF Restart, JobDone, vars, roundVars, drainVars, kvdbVars
<1> QED
  BY <1>1, <1>2, <1>3, <1>4 DEF Barrier

LEMMA AppKeepsRound ==
  ASSUME TypeOK, RoundInv, NEW r \in Ranks, App(r)
  PROVE  RoundInv'
<1>1. UNCHANGED roundVars
  BY DEF App, BeginWait, SpinBegin, Begin, StartCall, ReturnCall, AddCommClock,
         FinishReady, FinishWait, SpinFinish, FinishPass, EnterTest, TestFree, FinishFree,
         LeaveTest, WaitDone, drainVars, kvdbVars, roundVars
<1> QED
  BY <1>1, RoundUnchanged

(* At each point of an attempt the ranks are together, have counted the    *)
(* same rounds, and will decide alike: dmtcp_global_barrier() separates    *)
(* the rounds, and all read the same published reports.                    *)
THEOREM RoundInvariant == Spec => []RoundInv
<1>1. Init => RoundInv
  <2> SUFFICES ASSUME Init PROVE RoundInv
    OBVIOUS
  <2>1. \A r \in Ranks : cpc[r] = "run"
    BY DEF Init
  <2> QED
    BY <2>1, SMT DEF RoundInv, TogetherInv, CountInv, InRound, Drained
<1>2. TypeOK /\ RoundInv /\ [Next]_vars => RoundInv'
  <2> SUFFICES ASSUME TypeOK, RoundInv, [Next]_vars PROVE RoundInv'
    OBVIOUS
  <2>1. CASE UNCHANGED vars
    BY <2>1, RoundUnchanged DEF vars, drainVars, kvdbVars, roundVars
  <2> QED
    BY <2>1, AppKeepsRound, DrainKeepsRound, GlobalKeepsRound DEF Next
<1> QED
  BY <1>1, <1>2, TypeCorrect, PTL DEF Spec

(* All ranks come to the same decision in each round, for any number of    *)
(* ranks and any programs: no rank retries drain_mpi_collective(), or      *)
(* returns from it, while another goes on with the old attempt.            *)
THEOREM DecisionsAgree == Spec => []SameDecision
<1>1. RoundInv => SameDecision
  BY SMT DEF RoundInv, TogetherInv, SameDecision, InRound, Drained
<1> QED
  BY <1>1, RoundInvariant, PTL

====
