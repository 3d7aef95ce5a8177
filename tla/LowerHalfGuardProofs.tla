------------------------- MODULE LowerHalfGuardProofs -------------------------
(***************************************************************************)
(* The lower half is empty of application threads when it is closed, for   *)
(* any number of threads, any nesting and store buffers of any length.     *)
(***************************************************************************)
EXTENDS LowerHalfGuard, SequenceTheorems, TLAPS

LEMMA InitGuard == Init => TypeOK /\ GuardInv
<1> SUFFICES ASSUME Init PROVE TypeOK /\ GuardInv
  OBVIOUS
<1> USE GuardAssumption
<1>1. TypeOK
  <2>1. [depth |-> 0, in_blocking_call |-> FALSE] \in Fields /\ << >> \in Seq(Fields)
    BY DEF Fields
  <2> QED
    BY <2>1 DEF Init, TypeOK
<1>2. DepthInv /\ BufferInv
  BY DEF Init, DepthInv, BufferInv
<1>3. ClosedInv
  BY DEF Init, ClosedInv
<1>4. VisibleInv /\ ScanInv
  BY DEF Init, VisibleInv, ScanInv, Fenced, Closed
<1> QED
  BY <1>1, <1>2, <1>3, <1>4 DEF GuardInv

-----------------------------------------------------------------------------
(* A thread's step.                                                        *)

LEMMA StoreEffect ==
  ASSUME TypeOK, NEW t \in Threads, NEW f \in Fields, Store(t, f)
  PROVE  /\ own' \in [Threads -> Fields] /\ buffer' \in [Threads -> Seq(Fields)]
         /\ own'[t] = f /\ buffer'[t] = Append(buffer[t], f)
         /\ \A u \in Threads : u # t => own'[u] = own[u] /\ buffer'[u] = buffer[u]
<1>1. buffer[t] \in Seq(Fields)
  BY DEF TypeOK
<1>2. Append(buffer[t], f) \in Seq(Fields)
  BY <1>1
<1> QED
  BY <1>2 DEF TypeOK, Store

LEMMA TailLast ==
  ASSUME NEW s \in Seq(Fields), s # << >>
  PROVE  s[Len(s)] = IF Tail(s) = << >> THEN s[1] ELSE Tail(s)[Len(Tail(s))]
<1>1. /\ Tail(s) \in Seq(Fields)
      /\ Len(Tail(s)) = Len(s) - 1
      /\ \A i \in 1..Len(Tail(s)) : Tail(s)[i] = s[i + 1]
  BY HeadTailProperties
<1>2. Len(s) \in Nat /\ Len(Tail(s)) \in Nat /\ (Tail(s) = << >> <=> Len(Tail(s)) = 0)
  BY <1>1, EmptySeq, LenProperties
<1>3. CASE Tail(s) = << >>
  BY <1>1, <1>2, <1>3
<1>4. CASE Tail(s) # << >>
  <2>1. Len(Tail(s)) \in 1..Len(Tail(s)) /\ Len(Tail(s)) + 1 = Len(s)
    BY <1>1, <1>2, <1>4
  <2> QED
    BY <1>1, <1>4, <2>1
<1> QED
  BY <1>3, <1>4

LEMMA SetDepth ==
  ASSUME NEW r \in Fields, NEW d \in Nat
  PROVE  /\ [r EXCEPT !.depth = d] \in Fields
         /\ [r EXCEPT !.depth = d].depth = d
         /\ [r EXCEPT !.depth = d].in_blocking_call = r.in_blocking_call
  BY DEF Fields

LEMMA SetBlocked ==
  ASSUME NEW r \in Fields, NEW b \in BOOLEAN
  PROVE  /\ [r EXCEPT !.in_blocking_call = b] \in Fields
         /\ [r EXCEPT !.in_blocking_call = b].depth = r.depth
         /\ [r EXCEPT !.in_blocking_call = b].in_blocking_call = b
  BY DEF Fields

(* What a thread's step leaves true, if it stores at most once and does    *)
(* not enter the lower half after membarrier() has passed the thread.      *)
LEMMA ThreadMove ==
  ASSUME TypeOK, GuardInv, TypeOK', NEW t \in Threads,
         UNCHANGED <<memory, ckptVars>>,
         \A u \in Threads : u # t =>
           tpc'[u] = tpc[u] /\ own'[u] = own[u] /\ buffer'[u] = buffer[u],
         \/ own'[t] = own[t] /\ buffer'[t] = buffer[t]
         \/ buffer'[t] = Append(buffer[t], own'[t]),
         t \in AppThreads /\ Fenced(t) /\ Inside(t)' => Inside(t)
  PROVE  BufferInv' /\ ClosedInv' /\ VisibleInv' /\ ScanInv'
<1> USE DEF GuardInv
<1>1. ClosedInv'
  BY DEF ClosedInv, ckptVars
<1>2. \A u \in Threads : buffer[u] \in Seq(Fields) /\ own'[u] \in Fields
  BY DEF TypeOK
<1>3. \A u \in Threads : Inside(u)' => own'[u].depth > 0
  BY <1>2 DEF Inside, Fields
<1>4. \A u \in AppThreads : Fenced(u)' = Fenced(u) /\ u \in Threads
  BY DEF Fenced, ckptVars, Threads
<1>5. \A u \in AppThreads : Fenced(u) /\ Inside(u)' => Inside(u)
  BY <1>4 DEF Inside
<1>6. BufferInv'
  <2> SUFFICES ASSUME NEW u \in Threads
               PROVE  own'[u] = IF buffer'[u] = << >> THEN memory'[u]
                                ELSE buffer'[u][Len(buffer'[u])]
    BY DEF BufferInv
  <2>1. CASE own'[u] = own[u] /\ buffer'[u] = buffer[u]
    BY <2>1 DEF BufferInv
  <2>2. CASE buffer'[u] = Append(buffer[u], own'[u])
    BY <2>2, <1>2
  <2> QED
    BY <2>1, <2>2
<1>7. VisibleInv'
  <2> SUFFICES ASSUME NEW u \in AppThreads, Fenced(u), Inside(u)'
               PROVE  memory'[u].depth > 0 /\
                      \A i \in 1..Len(buffer'[u]) : buffer'[u][i].depth > 0
    BY <1>4 DEF VisibleInv
  <2>1. memory[u].depth > 0 /\ \A i \in 1..Len(buffer[u]) : buffer[u][i].depth > 0
    BY <1>5 DEF VisibleInv
  <2>2. CASE buffer'[u] = buffer[u]
    BY <2>1, <2>2
  <2>3. CASE buffer'[u] = Append(buffer[u], own'[u])
    BY <2>1, <2>3, <1>2, <1>3, <1>4
  <2> QED
    BY <2>2, <2>3, <1>4
<1>8. ScanInv'
  BY <1>5 DEF ScanInv, Closed, Fenced, ckptVars
<1> QED
  BY <1>1, <1>6, <1>7, <1>8

(* Before membarrier() has passed a thread the guard does not hold it; and *)
(* after that the thread sees lower_half_closed.                           *)
LEMMA ThreadStep ==
  ASSUME TypeOK, GuardInv, NEW t \in Threads, Thread(t)
  PROVE  TypeOK' /\ GuardInv' /\ (Fenced(t) /\ t \in AppThreads /\ Inside(t)' => Inside(t))
<1> USE DEF GuardInv
<1>0. t # Ckpt <=> t \in AppThreads
  BY GuardAssumption DEF Threads
<1>1. own[t].depth \in Nat /\ own[t].in_blocking_call \in BOOLEAN
  BY DEF TypeOK, Fields
<1>2. Fenced(t) => lower_half_closed
  BY DEF Fenced, ClosedInv
<1>3. closing_thread # t \/ t = Ckpt
  BY GuardAssumption DEF TypeOK
<1>4. CASE Flush(t)
  <2>1. /\ buffer[t] \in Seq(Fields) /\ buffer[t] # << >>
        /\ Head(buffer[t]) \in Fields /\ Tail(buffer[t]) \in Seq(Fields)
    BY <1>4 DEF Flush, TypeOK
  <2>2. /\ memory' = [memory EXCEPT ![t] = Head(buffer[t])]
        /\ buffer' = [buffer EXCEPT ![t] = Tail(@)]
        /\ UNCHANGED <<tpc, own, threads, ckptVars>>
    BY <1>4 DEF Flush
  <2>3. TypeOK'
    BY <2>1, <2>2 DEF TypeOK, ckptVars
  <2>4. DepthInv' /\ ClosedInv' /\ ScanInv'
    BY <2>2 DEF DepthInv, ClosedInv, ScanInv, Closed, Inside, ckptVars
  <2>5. BufferInv'
    <3> SUFFICES ASSUME NEW u \in Threads
                 PROVE  own'[u] = IF buffer'[u] = << >> THEN memory'[u]
                                  ELSE buffer'[u][Len(buffer'[u])]
      BY DEF BufferInv
    <3>1. CASE u # t
      BY <2>2, <3>1 DEF BufferInv, TypeOK
    <3>2. CASE u = t
      <4>1. own[t] = buffer[t][Len(buffer[t])]
        BY <2>1 DEF BufferInv
      <4>2. memory'[t] = buffer[t][1] /\ buffer'[t] = Tail(buffer[t]) /\ own'[t] = own[t]
        BY <2>1, <2>2 DEF TypeOK
      <4> QED
        BY <2>1, <3>2, <4>1, <4>2, TailLast
    <3> QED
      BY <3>1, <3>2
  <2>6. VisibleInv'
    <3> SUFFICES ASSUME NEW u \in AppThreads, Fenced(u), Inside(u)
                 PROVE  memory'[u].depth > 0 /\
                        \A i \in 1..Len(buffer'[u]) : buffer'[u][i].depth > 0
      BY <2>2 DEF VisibleInv, Fenced, Inside, ckptVars
    <3>1. memory[u].depth > 0 /\ \A i \in 1..Len(buffer[u]) : buffer[u][i].depth > 0
      BY DEF VisibleInv
    <3>2. CASE u # t
      BY <2>2, <3>1, <3>2 DEF TypeOK, Threads
    <3>3. CASE u = t
      <4>1. memory'[t] = buffer[t][1] /\ buffer'[t] = Tail(buffer[t])
        BY <2>1, <2>2 DEF TypeOK
      <4> QED
        BY <2>1, <3>1, <3>3, <4>1
    <3> QED
      BY <3>2, <3>3
  <2>7. Inside(t)' = Inside(t)
    BY <2>2 DEF Inside
  <2> QED
    BY <2>3, <2>4, <2>5, <2>6, <2>7
<1>5. CASE register_lower_half_thread(t) \/ unregister_lower_half_thread(t)
  <2>1. /\ UNCHANGED <<tpc, own, buffer, memory, ckptVars>>
        /\ tpc[t] = "out"
        /\ threads' \subseteq Threads /\ threads \subseteq threads' \cup {t}
    BY <1>5 DEF register_lower_half_thread, unregister_lower_half_thread, TypeOK
  <2>2. TypeOK'
    BY <2>1 DEF TypeOK, ckptVars
  <2>3. DepthInv'
    BY <2>1 DEF DepthInv
  <2>4. Inside(t)' = Inside(t)
    BY <2>1 DEF Inside
  <2>5. BufferInv' /\ ClosedInv' /\ VisibleInv' /\ ScanInv'
    BY <2>1, <2>2, <2>4, ThreadMove
  <2> QED
    BY <2>2, <2>3, <2>4, <2>5
<1>6. ASSUME UNCHANGED <<memory, threads, ckptVars>>,
             NEW f \in Fields, Store(t, f) \/ (UNCHANGED <<own, buffer>> /\ f = own[t]),
             NEW pc \in {"out", "check", "slow", "spin", "reenter", "in"},
             tpc' = [tpc EXCEPT ![t] = pc],
             /\ pc \in {"out", "spin", "reenter"} => f.depth = 0
             /\ pc = "slow" => f.depth = 1
             /\ pc \in {"check", "in"} => f.depth > 0
             /\ f.in_blocking_call => pc = "in"
             /\ pc # "out" => t \in threads,
             f.depth > 1 \/ (f.depth = 1 /\ pc = "in") =>
               Inside(t) \/ ~lower_half_closed \/ t = Ckpt
      PROVE  TypeOK' /\ GuardInv' /\ (Fenced(t) /\ t \in AppThreads /\ Inside(t)' => Inside(t))
  <2>1. /\ own' \in [Threads -> Fields] /\ buffer' \in [Threads -> Seq(Fields)]
        /\ own'[t] = f
        /\ buffer'[t] = Append(buffer[t], f) \/ (own'[t] = own[t] /\ buffer'[t] = buffer[t])
        /\ \A u \in Threads : u # t => own'[u] = own[u] /\ buffer'[u] = buffer[u]
    BY <1>6, StoreEffect DEF TypeOK
  <2>2. /\ tpc' \in [Threads -> {"out", "check", "slow", "spin", "reenter", "in"}]
        /\ tpc'[t] = pc
        /\ \A u \in Threads : u # t => tpc'[u] = tpc[u]
    BY <1>6 DEF TypeOK
  <2>3. TypeOK'
    BY <1>6, <2>1, <2>2 DEF TypeOK, ckptVars
  <2>4. DepthInv'
    BY <1>6, <2>1, <2>2 DEF DepthInv
  <2>5. Inside(t)' <=> f.depth > 1 \/ (f.depth = 1 /\ pc = "in")
    BY <2>1, <2>2 DEF Inside
  <2>6. Fenced(t) /\ t \in AppThreads /\ Inside(t)' => Inside(t)
    BY <1>0, <1>2, <1>6, <2>5
  <2>7. BufferInv' /\ ClosedInv' /\ VisibleInv' /\ ScanInv'
    BY <1>6, <2>1, <2>2, <2>3, <2>6, ThreadMove
  <2> QED
    BY <2>3, <2>4, <2>6, <2>7
<1>7. CASE lower_half_disable_ckpt(t)
  <2> DEFINE f == [own[t] EXCEPT !.depth = @ + 1]
  <2>0. own[t] \in Fields /\ own[t].depth + 1 \in Nat
    BY <1>1 DEF TypeOK
  <2>1. f \in Fields /\ f.depth = own[t].depth + 1 /\ f.in_blocking_call = own[t].in_blocking_call
    BY <2>0, SetDepth
  <2>2. /\ tpc[t] \in {"out", "in"} /\ t \in threads /\ ~own[t].in_blocking_call
        /\ Store(t, f) /\ tpc' = [tpc EXCEPT ![t] = "check"]
        /\ UNCHANGED <<memory, threads, ckptVars>>
    BY <1>7 DEF lower_half_disable_ckpt
  <2>3. tpc[t] = "in" => Inside(t)
    BY <1>1 DEF DepthInv, Inside
  <2>4. tpc[t] = "out" => f.depth = 1
    BY <2>1 DEF DepthInv
  <2> HIDE DEF f
  <2> QED
    BY <1>1, <1>6, <2>1, <2>2, <2>3, <2>4
<1>8. CASE LoadClosed(t)
  <2>1. /\ own[t] \in Fields /\ own[t].depth > 0 /\ t \in threads
        /\ ~own[t].in_blocking_call
    BY <1>8 DEF LoadClosed, TypeOK, DepthInv
  <2>2. UNCHANGED <<memory, threads, ckptVars, own, buffer>>
    BY <1>8 DEF LoadClosed
  <2>3. CASE lower_half_closed /\ ~PassesClosed(t)
    <3>1. tpc' = [tpc EXCEPT ![t] = "slow"] /\ own[t].depth = 1
      BY <1>1, <1>8, <2>1, <2>3 DEF LoadClosed, PassesClosed
    <3> QED
      BY <1>6, <2>1, <2>2, <3>1
  <2>4. CASE ~(lower_half_closed /\ ~PassesClosed(t))
    <3>1. tpc' = [tpc EXCEPT ![t] = "in"]
      BY <1>8, <2>4 DEF LoadClosed
    <3>2. Inside(t) \/ ~lower_half_closed \/ t = Ckpt
      BY <1>3, <2>4 DEF PassesClosed, Inside
    <3> QED
      BY <1>6, <2>1, <2>2, <3>1, <3>2
  <2> QED
    BY <2>3, <2>4
<1>9. CASE StepBack(t)
  <2> DEFINE f == [own[t] EXCEPT !.depth = 0]
  <2>1. f \in Fields /\ f.depth = 0 /\ f.in_blocking_call = own[t].in_blocking_call
    BY SetDepth DEF TypeOK
  <2>2. /\ t \in threads /\ ~own[t].in_blocking_call
        /\ Store(t, f) /\ tpc' = [tpc EXCEPT ![t] = "spin"]
        /\ UNCHANGED <<memory, threads, ckptVars>>
    BY <1>9 DEF StepBack, DepthInv
  <2> HIDE DEF f
  <2> QED
    BY <1>6, <2>1, <2>2
<1>10. CASE SeeOpen(t)
  <2>1. /\ own[t] \in Fields /\ own[t].depth = 0 /\ t \in threads
        /\ ~own[t].in_blocking_call
    BY <1>10 DEF SeeOpen, TypeOK, DepthInv
  <2>2. /\ UNCHANGED <<memory, threads, ckptVars, own, buffer>>
        /\ tpc' = [tpc EXCEPT ![t] = "reenter"]
    BY <1>10 DEF SeeOpen
  <2> QED
    BY <1>6, <2>1, <2>2
<1>11. CASE Reenter(t)
  <2> DEFINE f == [own[t] EXCEPT !.depth = 1]
  <2>1. f \in Fields /\ f.depth = 1 /\ f.in_blocking_call = own[t].in_blocking_call
    BY SetDepth DEF TypeOK
  <2>2. /\ t \in threads /\ ~own[t].in_blocking_call
        /\ Store(t, f) /\ tpc' = [tpc EXCEPT ![t] = "slow"]
        /\ UNCHANGED <<memory, threads, ckptVars>>
    BY <1>11 DEF Reenter, DepthInv
  <2> HIDE DEF f
  <2> QED
    BY <1>6, <2>1, <2>2
<1>12. CASE LeaveSlowPath(t)
  <2>1. /\ own[t] \in Fields /\ own[t].depth = 1 /\ t \in threads
        /\ ~own[t].in_blocking_call /\ ~lower_half_closed
    BY <1>12 DEF LeaveSlowPath, TypeOK, DepthInv
  <2>2. /\ UNCHANGED <<memory, threads, ckptVars, own, buffer>>
        /\ tpc' = [tpc EXCEPT ![t] = "in"]
    BY <1>12 DEF LeaveSlowPath
  <2> QED
    BY <1>6, <2>1, <2>2
<1>13. ASSUME NEW b \in BOOLEAN,
              Store(t, [own[t] EXCEPT !.in_blocking_call = b]),
              UNCHANGED <<tpc, memory, threads, ckptVars>>, tpc[t] = "in"
       PROVE  TypeOK' /\ GuardInv' /\ (Fenced(t) /\ t \in AppThreads /\ Inside(t)' => Inside(t))
  <2> DEFINE f == [own[t] EXCEPT !.in_blocking_call = b]
  <2>1. f \in Fields /\ f.depth = own[t].depth /\ f.in_blocking_call = b
    BY SetBlocked DEF TypeOK
  <2>2. Inside(t) /\ t \in threads /\ f.depth > 0
    BY <1>1, <1>13, <2>1 DEF Inside, DepthInv
  <2>3. tpc' = [tpc EXCEPT ![t] = "in"] /\ Store(t, f)
    BY <1>13 DEF TypeOK
  <2> HIDE DEF f
  <2> QED
    BY <1>6, <1>13, <2>1, <2>2, <2>3
<1>14. CASE lower_half_blocking_call_begin(t)
  BY <1>13, <1>14 DEF lower_half_blocking_call_begin
<1>15. CASE lower_half_blocking_call_end(t)
  BY <1>13, <1>15 DEF lower_half_blocking_call_end, DepthInv
<1>16. CASE lower_half_enable_ckpt(t)
  <2> DEFINE f == [own[t] EXCEPT !.depth = @ - 1]
  <2>1. /\ tpc[t] = "in" /\ ~own[t].in_blocking_call
        /\ own[t].depth > 0 /\ t \in threads
    BY <1>16 DEF lower_half_enable_ckpt, DepthInv
  <2>0. own[t] \in Fields /\ own[t].depth - 1 \in Nat
    BY <1>1, <2>1 DEF TypeOK
  <2>2. f \in Fields /\ f.depth = own[t].depth - 1 /\ f.in_blocking_call = own[t].in_blocking_call
    BY <2>0, SetDepth
  <2>3. Store(t, f) /\ UNCHANGED <<memory, threads, ckptVars>>
    BY <1>16 DEF lower_half_enable_ckpt
  <2>4. Inside(t)
    BY <1>1, <2>1 DEF Inside
  <2> HIDE DEF f
  <2>5. CASE own[t].depth = 1
    <3>1. tpc' = [tpc EXCEPT ![t] = "out"]
      BY <1>16, <2>5 DEF lower_half_enable_ckpt
    <3> QED
      BY <1>6, <2>1, <2>2, <2>3, <2>4, <2>5, <3>1
  <2>6. CASE own[t].depth # 1
    <3>1. tpc' = [tpc EXCEPT ![t] = "in"] /\ f.depth > 0
      BY <1>1, <1>16, <2>1, <2>2, <2>6 DEF lower_half_enable_ckpt
    <3> QED
      BY <1>6, <2>1, <2>2, <2>3, <2>4, <3>1
  <2> QED
    BY <2>5, <2>6
<1> QED
  BY <1>4, <1>5, <1>7, <1>8, <1>9, <1>10, <1>11, <1>12, <1>14, <1>15, <1>16 DEF Thread, Enter

-----------------------------------------------------------------------------
(* The checkpoint thread's steps.                                          *)

LEMMA CkptStep ==
  ASSUME TypeOK, GuardInv,
         \/ CloseFirst \/ Close \/ CloseAgain \/ Suspend
         \/ allow_threads_to_enter_lower_half \/ Resume
  PROVE  TypeOK' /\ GuardInv' /\ UNCHANGED threadVars
<1> USE DEF GuardInv
<1>1. UNCHANGED threadVars
  BY DEF CloseFirst, StartClose, Close, ClosedVisible, FencePass, StartScan, PassOutside,
         PassBlocked, EndScan, CloseAgain, Suspend, allow_threads_to_enter_lower_half, Resume
<1>2. \A t \in Threads : UNCHANGED <<tpc[t], own[t], buffer[t], memory[t], Inside(t)>>
  BY <1>1 DEF threadVars, Inside
<1>3. AppThreads \subseteq Threads
  BY DEF Threads
<1>4. DepthInv' /\ BufferInv'
  BY <1>1 DEF threadVars, DepthInv, BufferInv
<1>5. TypeOK'
  BY <1>1, GuardAssumption
     DEF TypeOK, threadVars, Threads, CloseFirst, StartClose, Close, ClosedVisible, FencePass,
         StartScan, PassOutside, PassBlocked, EndScan, CloseAgain, Suspend,
         allow_threads_to_enter_lower_half, Resume
<1>6. ClosedInv'
  <2>1. CASE CloseFirst \/ CloseAgain
    BY <2>1 DEF ClosedInv, CloseFirst, StartClose, CloseAgain
  <2>2. CASE Close
    <3>1. CASE ClosedVisible \/ StartScan
      BY <2>2, <3>1 DEF ClosedInv, Close, ClosedVisible, StartScan
    <3> QED
      BY <2>2, <3>1 DEF ClosedInv, Close, FencePass, PassOutside, PassBlocked, EndScan
  <2>3. CASE Suspend \/ allow_threads_to_enter_lower_half \/ Resume
    BY <2>3 DEF ClosedInv, Suspend, allow_threads_to_enter_lower_half, Resume
  <2> QED
    BY <2>1, <2>2, <2>3
<1>7. ASSUME NEW t \in AppThreads PROVE Fenced(t)' /\ Inside(t) =>
        memory'[t].depth > 0 /\ \A i \in 1..Len(buffer'[t]) : buffer'[t][i].depth > 0
  <2>1. CASE Fenced(t)
    BY <1>1, <2>1 DEF VisibleInv, threadVars
  <2>2. CASE ~Fenced(t) /\ Fenced(t)'
    <3>1. FencePass(t)
      BY <2>2 DEF Fenced, CloseFirst, StartClose, Close, ClosedVisible, FencePass, StartScan,
                  PassOutside, PassBlocked, EndScan, CloseAgain, Suspend,
                  allow_threads_to_enter_lower_half, Resume
    <3>2. buffer[t] = << >> /\ memory[t] = own[t]
      BY <1>3, <3>1 DEF FencePass, BufferInv
    <3>3. Inside(t) => own[t].depth > 0
      BY <1>3 DEF Inside, TypeOK, Fields
    <3> QED
      BY <1>1, <3>2, <3>3 DEF threadVars
  <2> QED
    BY <2>1, <2>2
<1>8. VisibleInv'
  BY <1>2, <1>3, <1>7 DEF VisibleInv
<1>9. ScanInv'
  <2>1. ~skip_blocked' => skipped' = {}
    BY DEF ScanInv, CloseFirst, StartClose, Close, ClosedVisible, FencePass, StartScan,
           PassOutside, PassBlocked, EndScan, CloseAgain, Suspend,
           allow_threads_to_enter_lower_half, Resume
  <2>2. ASSUME NEW t \in AppThreads, (Closed \/ (cpc = "scan" /\ t \notin left))', Inside(t)
        PROVE  t \in skipped'
    <3>1. CASE Closed \/ (cpc = "scan" /\ t \notin left)
      BY <2>2, <3>1 DEF ScanInv, Closed, CloseFirst, StartClose, Close, ClosedVisible, FencePass,
           StartScan, PassOutside, PassBlocked, EndScan, CloseAgain, Suspend,
           allow_threads_to_enter_lower_half, Resume
    <3>2. CASE StartScan
      <4>1. t \notin threads
        BY <2>2, <3>2, GuardAssumption DEF StartScan, Closed
      <4> QED
        BY <1>3, <2>2, <4>1 DEF DepthInv, Inside
    <3>3. CASE PassOutside(t)
      BY <2>2, <3>3 DEF PassOutside, VisibleInv, Fenced
    <3>4. CASE PassBlocked(t)
      BY <3>4 DEF PassBlocked
    <3> QED
      BY <2>2, <3>1, <3>2, <3>3, <3>4
         DEF Closed, CloseFirst, StartClose, Close, ClosedVisible, FencePass, StartScan,
             PassOutside, PassBlocked, EndScan, CloseAgain, Suspend,
             allow_threads_to_enter_lower_half, Resume
  <2> QED
    BY <1>2, <1>3, <2>1, <2>2 DEF ScanInv
<1> QED
  BY <1>1, <1>4, <1>5, <1>6, <1>8, <1>9

-----------------------------------------------------------------------------
LEMMA GuardStep == TypeOK /\ GuardInv /\ [Next]_vars => TypeOK' /\ GuardInv'
<1> SUFFICES ASSUME TypeOK, GuardInv, [Next]_vars PROVE TypeOK' /\ GuardInv'
  OBVIOUS
<1>1. CASE UNCHANGED vars
  BY <1>1 DEF vars, threadVars, ckptVars, TypeOK, GuardInv, DepthInv, BufferInv, ClosedInv,
              VisibleInv, ScanInv, Fenced, Closed, Inside
<1> QED
  BY <1>1, ThreadStep, CkptStep DEF Next

(* The inductive invariant of the guard: depths are as the guard's code    *)
(* left them, memory lags behind by the buffered stores, and an entry that *)
(* membarrier() has passed shows in memory for as long as it lasts.        *)
THEOREM GuardInvariant == Spec => []GuardInv
<1>1. GuardInv => TypeOK
  BY DEF GuardInv
<1> QED
  BY <1>1, InitGuard, GuardStep, PTL DEF Spec

(* When the lower half is closed and waited for, no thread of the          *)
(* application is in it.                                                   *)
THEOREM LowerHalfEmpty == Spec => []Exclusion
<1>1. GuardInv => Exclusion
  BY DEF GuardInv, ScanInv, Exclusion
<1> QED
  BY <1>1, GuardInvariant, PTL

(* During the P2P drain in blocking mode, only threads that were seen in a *)
(* blocking call are in the lower half.                                    *)
THEOREM OnlyBlockedThreads == Spec => []OnlyBlockedInside
<1>1. GuardInv => OnlyBlockedInside
  BY DEF GuardInv, ScanInv, OnlyBlockedInside
<1> QED
  BY <1>1, GuardInvariant, PTL

(* After membarrier() has returned no thread of the application enters,    *)
(* although LOWER_HALF_DISABLE_CKPT() has no memory barrier.               *)
THEOREM NoEntryAfterClose == Spec => NoLateEntry
<1> DEFINE Step == \A t \in AppThreads :
                     (cpc \in {"scan", "drain", "suspended"} /\ Inside(t)' => Inside(t))
<1>1. GuardInv /\ [Next]_vars => [Step]_vars
  <2> SUFFICES ASSUME GuardInv, Next, NEW t \in AppThreads,
                      cpc \in {"scan", "drain", "suspended"}, Inside(t)'
               PROVE  Inside(t)
    BY DEF Step
  <2> USE DEF GuardInv
  <2>1. ASSUME NEW u \in Threads, Thread(u), u # t PROVE Inside(t)
    <3>1. tpc'[t] = tpc[t] /\ own'[t] = own[t]
      BY <2>1 DEF Threads, TypeOK, Thread, Enter, Flush, register_lower_half_thread,
         unregister_lower_half_thread, lower_half_disable_ckpt, LoadClosed, StepBack, SeeOpen,
         Reenter, LeaveSlowPath, lower_half_blocking_call_begin, lower_half_blocking_call_end,
         lower_half_enable_ckpt, Store
    <3> QED
      BY <3>1 DEF Inside
  <2>2. CASE Thread(t)
    BY <2>2, ThreadStep DEF Fenced, Threads
  <2>3. CASE UNCHANGED threadVars
    BY <2>3 DEF threadVars, Inside
  <2> QED
    BY <2>1, <2>2, <2>3, CkptStep DEF Next
<1>2. NoLateEntry <=> [][Step]_vars
  BY DEF NoLateEntry
<1> QED
  BY <1>1, <1>2, GuardInvariant, PTL DEF Spec
=============================================================================
