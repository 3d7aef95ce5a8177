------------------------------ MODULE P2pDrain ------------------------------
(***************************************************************************)
(* Point-to-point messages across a checkpoint: the wrappers of            *)
(* mpi_p2p_wrappers.cpp and mpi_request_wrappers.cpp, and the drain of     *)
(* p2p_drain.cpp, in its three forms: MANA_P2P_WAIT=polling, blocking with *)
(* a lower-half TLS for the checkpoint thread (both without barriers) and  *)
(* blocking without one (with barriers).                                   *)
(*                                                                         *)
(* Each rank has an application thread, which runs a program, and a        *)
(* checkpoint thread.  A wrapper that holds the lower-half guard and does  *)
(* not block is one step: LowerHalfGuard shows that no step of the drain   *)
(* can fall into it.  A blocking MPI_Recv or MPI_Send stays in the lower   *)
(* half while the drain runs, so it is several.                            *)
(***************************************************************************)
EXTENDS Naturals, Sequences, FiniteSets, SequencesExt

CONSTANTS
  Ranks,
  RankOrder,     \* the ranks by number, for postDummy()'s search
  Comms,         \* the application's communicators and AckComm, as probed
  AckComm,       \* g_ssend_ack_comm
  Members,       \* Members[c]: the ranks of communicator c
  AnyOne,        \* MPI_ANY_SOURCE and MPI_ANY_TAG
  ProcNull,      \* MPI_PROC_NULL
  Nothing,       \* no message
  Programs,      \* Programs[mode]: each gives every rank its calls
  AckTags,       \* the number of tags for acks, 32768 in the code
  MaxCkpts       \* bound: checkpoints taken, by mode

(* A call: its peer, tag and communicator; whether the message is large    *)
(* (sent by rendezvous); whether the guard stays closed to the checkpoint  *)
(* until the next call (MPI_Sendrecv); the calls a wait is for.            *)
Ops == {"send", "isend", "ssend", "issend", "recv", "irecv", "wait",
        "waitany", "probe", "free"}

(* MPI_Sendrecv and MPI_Sendrecv_replace as calls i .. i + 2: both         *)
(* requests under one guard, then MPI_Waitall.                             *)
MPI_Sendrecv(i, send, recv) ==
  <<[send EXCEPT !.op = "isend", !.fused = TRUE], [recv EXCEPT !.op = "irecv"],
    [recv EXCEPT !.op = "wait", !.of = {i, i + 1}]>>
MPI_Sendrecv_replace(i, send, recv) ==
  <<[recv EXCEPT !.op = "irecv", !.fused = TRUE], [send EXCEPT !.op = "isend"],
    [recv EXCEPT !.op = "wait", !.of = {i, i + 1}]>>

ASSUME P2pAssumption ==
  /\ IsFiniteSet(Ranks)
  /\ Range(RankOrder) = Ranks
  /\ AckComm \in Range(Comms)
  /\ \A c \in Range(Comms) : Members[c] \subseteq Ranks
  /\ DOMAIN Programs \subseteq {"polling", "blocking", "barriers"}
  /\ \A m \in DOMAIN Programs : \A p \in Programs[m], r \in Ranks :
       \A i \in DOMAIN p[r] : p[r][i].op \in Ops
  /\ AckTags \in Nat \ {0}
  /\ MaxCkpts \in [DOMAIN Programs -> Nat]

VARIABLES
  mode,     \* "polling" and "blocking" are MANA_P2P_WAIT; "barriers" is
            \* blocking with lh_info->ckpt_fsaddr = NULL
  program,
  app,      \* app[r]: the application thread: its call ip, where in it (pc),
            \* the local variable dummy of MPI_Recv, what MPI_Probe reported
  mana,     \* mana[r]: the upper half's state, saved in the image
  drain,    \* drain[r]: the checkpoint thread
  kvdb,     \* the coordinator's database of this checkpoint
  lib,      \* lib[r]: the MPI library: receives posted, messages unexpected
  net,      \* net[p][q]: messages from p that have not reached q
  got,      \* <<receive, message>>: what the receives returned with
  ckpts     \* checkpoints begun

vars == <<mode, program, app, mana, drain, kvdb, lib, net, got, ckpts>>

Polling == mode = "polling"
drainHasNoBarrier == mode # "barriers"

NoCounts == [sent |-> 0, recv |-> 0, isends |-> 0, in_recv |-> 0, dummies |-> 0,
             notices |-> 0]

Init ==
  /\ mode \in DOMAIN Programs
  /\ program \in Programs[mode]
  /\ app = [r \in Ranks |-> [ip |-> 1, pc |-> "idle", dummy |-> FALSE, probed |-> Nothing]]
  /\ mana = [r \in Ranks |->
       [sent |-> 0, recv |-> 0, slot |-> "IDLE", p2p_dummy_phase |-> FALSE, log |-> << >>,
        reqs |-> {}, nulled |-> {}, queue |-> << >>, notices |-> {}, owed |-> << >>,
        next_ack_tag |-> 0, live |-> {c \in Range(Comms) : r \in Members[c]}]]
  /\ drain = [r \in Ranks |->
       [pc |-> "run", dummy_pass |-> 0, blocked |-> FALSE, at |-> 1, seen |-> Nothing,
        count |-> 0, mine |-> NoCounts, sums |-> NoCounts, dummy_sends |-> {}]]
  /\ kvdb = [blocked |-> {}, dummies |-> {}, notices |-> {}, done |-> {}]
  /\ lib = [r \in Ranks |-> [posted |-> << >>, unexpected |-> << >>]]
  /\ net = [p \in Ranks |-> [q \in Ranks |-> << >>]]
  /\ got = {}
  /\ ckpts = 0

-----------------------------------------------------------------------------
(* The MPI library.  A message reaches its receiver in the order sent; it  *)
(* completes the first posted receive that accepts it, or waits as         *)
(* unexpected.  A large one is then moved in a step of its own, and only   *)
(* then are its receive and its send complete.                             *)
Accepts(p, m) ==
  /\ p.comm = m.comm
  /\ p.src \in {m.src, AnyOne}
  /\ p.tag \in {m.tag, AnyOne}

Post(l, p) ==
  LET k == SelectInSeq(l.unexpected, LAMBDA m : Accepts(p, m)) IN
  IF k = 0
  THEN [l EXCEPT !.posted = Append(@, [p EXCEPT !.msg = Nothing])]
  ELSE [posted |-> Append(l.posted, [p EXCEPT !.msg = l.unexpected[k],
                                              !.moved = ~l.unexpected[k].big]),
        unexpected |-> RemoveAt(l.unexpected, k)]

Receive(id, env) == [id |-> id, src |-> env.peer, tag |-> env.tag,
                     comm |-> env.comm, msg |-> Nothing, moved |-> FALSE]

PostedAt(r, id) == SelectInSeq(lib[r].posted, LAMBDA p : p.id = id)
(* A receive of MPI_PROC_NULL is not posted: it is complete at once.       *)
ReceiveDone(r, id) == PostedAt(r, id) # 0 => lib[r].posted[PostedAt(r, id)].moved
ReceivedMsg(r, id) == lib[r].posted[PostedAt(r, id)].msg
Unpost(l, ids) == [l EXCEPT !.posted = SelectSeq(@, LAMBDA p : p.id \notin ids)]

InLibrary(id) ==
  \E q \in Ranks :
    \/ \E p \in Ranks : \E k \in DOMAIN net[p][q] : net[p][q][k].id = id
    \/ \E k \in DOMAIN lib[q].unexpected : lib[q].unexpected[k].id = id
    \/ \E k \in DOMAIN lib[q].posted :
         /\ lib[q].posted[k].msg # Nothing
         /\ lib[q].posted[k].msg.id = id
         /\ ~lib[q].posted[k].moved
SendDone(m) == m.big => ~InLibrary(m.id)

Arrive(p, q) ==
  /\ net[p][q] # << >>
  /\ net' = [net EXCEPT ![p][q] = Tail(@)]
  /\ LET m == Head(net[p][q])
         k == SelectInSeq(lib[q].posted, LAMBDA x : x.msg = Nothing /\ Accepts(x, m))
     IN lib' = IF k = 0
               THEN [lib EXCEPT ![q].unexpected = Append(@, m)]
               ELSE [lib EXCEPT ![q].posted[k] =
                                  [@ EXCEPT !.msg = m, !.moved = ~m.big]]
  /\ UNCHANGED <<mode, program, app, mana, drain, kvdb, got, ckpts>>

Move(q) ==
  /\ \E k \in DOMAIN lib[q].posted :
       /\ lib[q].posted[k].msg # Nothing
       /\ ~lib[q].posted[k].moved
       /\ lib' = [lib EXCEPT ![q].posted[k].moved = TRUE]
  /\ UNCHANGED <<mode, program, app, mana, drain, kvdb, net, got, ckpts>>

-----------------------------------------------------------------------------
(* The upper half's state and the calls on it.                             *)
CallAt(r, i) == program[r][i]
Current(r) == CallAt(r, app[r].ip)
Message(r, i) == [id |-> <<r, "call", i>>, src |-> r, tag |-> CallAt(r, i).tag,
                  comm |-> CallAt(r, i).comm, dummy |-> FALSE,
                  big |-> CallAt(r, i).big \/ CallAt(r, i).op \in {"ssend", "issend"}]
Ack(r, tag) == [id |-> <<r, "ack", tag>>, src |-> r, tag |-> tag,
                comm |-> AckComm, dummy |-> FALSE, big |-> FALSE]

Send(n, q, m) == [n EXCEPT ![m.src][q] = Append(@, m)]
Filled(r, i, m) == IF m = Nothing \/ m.dummy THEN {}
                   ELSE {<<<<r, i>>, <<m.src, m.id[3]>>>>}

(* The pending calls, in posting order.                                    *)
addPendingRequestToLog(s, type, i, c) ==
  [s EXCEPT !.reqs = @ \cup {i},
            !.log = Append(@, [req |-> i, type |-> type, peer |-> c.peer, tag |-> c.tag,
                               comm |-> c.comm, later_sends |-> 0])]
(* A mutant leaves the request of a finished call in the list.             *)
clearPendingRequestFromLog(s, i) == [s EXCEPT !.log = SelectSeq(@, LAMBDA c : c.req # i)]
getPendingCall(s, i) == s.log[SelectInSeq(s.log, LAMBDA c : c.req = i)]
IsPending(s, i) == \E k \in DOMAIN s.log : s.log[k].req = i

(* A mutant does not count the sends behind a pending MPI_Issend.          *)
NoLaterSends(s, c) == s
countSendAfterIssends(s, c) ==
  [s EXCEPT !.log = [k \in DOMAIN @ |->
     IF /\ @[k].type = "ISSEND"
        /\ <<@[k].comm, @[k].peer, @[k].tag>> = <<c.comm, c.peer, c.tag>>
     THEN [@[k] EXCEPT !.later_sends = @ + 1] ELSE @[k]]]

(* A receive from MPI_PROC_NULL gets no message: it is not counted.        *)
is_counted_irecv(s, i) ==
  /\ IsPending(s, i)
  /\ getPendingCall(s, i).type = "IRECV"
  /\ getPendingCall(s, i).peer # ProcNull

(* A mutant counts a send to MPI_PROC_NULL.                                *)
CountNullSend(s, c) == countSendAfterIssends([s EXCEPT !.sent = @ + 1], c)
CountSend(s, c) ==
  IF c.peer = ProcNull THEN s
  ELSE countSendAfterIssends([s EXCEPT !.sent = @ + 1], c)

(* MANA's buffer of drained messages: the oldest that fits.                *)
(* A mutant takes the newest.                                              *)
Buffered(r, c) == SelectInSeq(mana[r].queue, LAMBDA b : Accepts(Receive(0, c), b.msg))
existsMatchingMsgBuffer(r, c) == Buffered(r, c) # 0

(* sendSsendAck(): an MPI_Isend on g_ssend_ack_comm that completes at once.*)
sendSsendAck(s) == [s EXCEPT !.sent = @ + 1]
consumeMatchingMsgBuffer(r, c) ==
  LET b == mana[r].queue[Buffered(r, c)]
      s == [mana[r] EXCEPT !.queue = RemoveAt(@, Buffered(r, c))]
  IN [msg |-> b.msg,
      state |-> IF b.ack_to = Nothing THEN s ELSE sendSsendAck(s),
      net |-> IF b.ack_to = Nothing THEN net
              ELSE Send(net, b.ack_to, Ack(r, b.ack_tag))]

-----------------------------------------------------------------------------
(* The application thread of rank r.                                       *)

(* The lower half is open to it, and mana_state is not CKPT_P2P.           *)
Open(r) == drain[r].pc \in {"run", "presuspend"}
AtCall(r, ops) ==
  /\ app[r].pc = "idle"
  /\ app[r].ip <= Len(program[r])
  /\ Current(r).op \in ops
Return(r) == [app EXCEPT ![r].pc = "idle", ![r].ip = @ + 1]
Continue(r, pc) == [app EXCEPT ![r].pc = pc]

(* In the lower half; blocked there, as in_blocking_call tells; or between *)
(* the two halves of MPI_Sendrecv.                                         *)
InLowerHalf(r) ==
  \/ app[r].pc \in {"inSend", "published", "inRecv", "returned", "classified", "stored"}
  \/ app[r].pc = "idle" /\ app[r].ip > 1 /\ CallAt(r, app[r].ip - 1).fused
Blocked(r) == app[r].pc \in {"inSend", "published", "inRecv"}

(* MPI_Isend_internal(): the send is counted before it is made.            *)
MPI_Isend_internal(r, type) ==
  LET i == app[r].ip
      c == Current(r)
  IN /\ mana' = [mana EXCEPT ![r] = addPendingRequestToLog(CountSend(@, c),
                                      IF c.peer = ProcNull THEN "ISEND" ELSE type, i, c)]
     /\ net' = IF c.peer = ProcNull THEN net ELSE Send(net, c.peer, Message(r, i))

(* MPI_Isend, MPI_Issend and MPI_Ssend; MPI_Send and MPI_Rsend when they   *)
(* poll.                                                                   *)
MPI_Isend(r) ==
  /\ AtCall(r, {"isend", "issend", "ssend"} \cup IF Polling THEN {"send"} ELSE {})
  /\ Open(r)
  /\ MPI_Isend_internal(r, IF Current(r).op \in {"issend", "ssend"}
                           THEN "ISSEND" ELSE "ISEND")
  /\ app' = IF Current(r).op \in {"isend", "issend"} THEN Return(r) ELSE Continue(r, "wait")
  /\ UNCHANGED <<mode, program, drain, kvdb, lib, got, ckpts>>

(* MPI_Send and MPI_Rsend when they block in the lower half.               *)
MPI_Send(r) ==
  /\ AtCall(r, {"send"})
  /\ ~Polling
  /\ Open(r)
  /\ mana' = [mana EXCEPT ![r] = CountSend(@, Current(r))]
  /\ net' = IF Current(r).peer = ProcNull THEN net
            ELSE Send(net, Current(r).peer, Message(r, app[r].ip))
  /\ app' = Continue(r, "inSend")
  /\ UNCHANGED <<mode, program, drain, kvdb, lib, got, ckpts>>

SendReturn(r) ==
  /\ app[r].pc = "inSend"
  /\ SendDone(Message(r, app[r].ip))
  /\ app' = Return(r)
  /\ UNCHANGED <<mode, program, mana, drain, kvdb, lib, net, got, ckpts>>

(* A receive that MANA's buffer serves; req is {i} if it makes a request.  *)
ServeFromBuffer(r, req) ==
  LET taken == consumeMatchingMsgBuffer(r, Current(r)) IN
  /\ mana' = [mana EXCEPT ![r] = [taken.state EXCEPT !.reqs = @ \cup req,
                                                     !.nulled = @ \cup req]]
  /\ net' = taken.net
  /\ got' = got \cup Filled(r, app[r].ip, taken.msg)
  /\ UNCHANGED lib

(* MPI_Irecv_internal().                                                   *)
MPI_Irecv_internal(r) ==
  LET c == Current(r) IN
  IF existsMatchingMsgBuffer(r, c)
  THEN ServeFromBuffer(r, {app[r].ip})
  ELSE /\ mana' = [mana EXCEPT ![r] = addPendingRequestToLog(@, "IRECV", app[r].ip, c)]
       /\ lib' = IF c.peer = ProcNull THEN lib
                 ELSE [lib EXCEPT ![r] = Post(@, Receive(app[r].ip, c))]
       /\ UNCHANGED <<net, got>>

(* MPI_Irecv, and MPI_Recv when it polls.                                  *)
MPI_Irecv(r) ==
  /\ AtCall(r, {"irecv"} \cup IF Polling THEN {"recv"} ELSE {})
  /\ Open(r)
  /\ MPI_Irecv_internal(r)
  /\ app' = IF Current(r).op = "irecv" THEN Return(r) ELSE Continue(r, "wait")
  /\ UNCHANGED <<mode, program, drain, kvdb, ckpts>>

(* MPI_Recv when it blocks: from the buffer, or published in               *)
(* g_pending_recv; it parks until the checkpoint is over if the slot is    *)
(* closed.  A parked call starts again here.                               *)
MPI_Recv(r) ==
  /\ \/ AtCall(r, {"recv"})
     \/ app[r].pc = "parked" /\ drain[r].pc = "run"
  /\ ~Polling
  /\ Open(r)
  /\ \/ /\ Current(r).peer = ProcNull
        /\ app' = Return(r)
        /\ UNCHANGED <<mana, lib, net, got>>
     \/ /\ existsMatchingMsgBuffer(r, Current(r))
        /\ ServeFromBuffer(r, {})
        /\ app' = Return(r)
     \/ /\ Current(r).peer # ProcNull
        /\ ~existsMatchingMsgBuffer(r, Current(r))
        /\ IF mana[r].slot = "IDLE"
           THEN /\ mana' = [mana EXCEPT ![r].slot = "ACTIVE"]
                /\ app' = Continue(r, "published")
           ELSE /\ app' = Continue(r, "parked")
                /\ UNCHANGED mana
        /\ UNCHANGED <<lib, net, got>>
  /\ UNCHANGED <<mode, program, drain, kvdb, ckpts>>

(* The call into the library, after lower_half_blocking_call_begin().      *)
RecvPost(r) ==
  /\ app[r].pc = "published"
  /\ lib' = [lib EXCEPT ![r] = Post(@, Receive(app[r].ip, Current(r)))]
  /\ app' = Continue(r, "inRecv")
  /\ UNCHANGED <<mode, program, mana, drain, kvdb, net, got, ckpts>>

RecvReturn(r) ==
  /\ app[r].pc = "inRecv"
  /\ ReceiveDone(r, app[r].ip)
  /\ got' = got \cup Filled(r, app[r].ip, ReceivedMsg(r, app[r].ip))
  /\ lib' = [lib EXCEPT ![r] = Unpost(@, {app[r].ip})]
  /\ app' = Continue(r, "returned")
  /\ UNCHANGED <<mode, program, mana, drain, kvdb, net, ckpts>>

(* The one read of p2p_dummy_phase.                                        *)
RecvClassify(r) ==
  /\ app[r].pc = "returned"
  /\ app' = [app EXCEPT ![r].pc = "classified", ![r].dummy = mana[r].p2p_dummy_phase]
  /\ UNCHANGED <<mode, program, mana, drain, kvdb, lib, net, got, ckpts>>

(* The slot is stored before the message is counted.                       *)
RecvStore(r) ==
  /\ app[r].pc = "classified"
  /\ mana' = [mana EXCEPT ![r].slot = IF app[r].dummy THEN "CLOSED" ELSE "IDLE"]
  /\ app' = Continue(r, "stored")
  /\ UNCHANGED <<mode, program, drain, kvdb, lib, net, got, ckpts>>

RecvLeave(r) ==
  /\ app[r].pc = "stored"
  /\ IF app[r].dummy THEN mana' = mana /\ app' = Continue(r, "parked")
     ELSE mana' = [mana EXCEPT ![r].recv = @ + 1] /\ app' = Return(r)
  /\ UNCHANGED <<mode, program, drain, kvdb, lib, net, got, ckpts>>

(* MPI_Test_internal(): a request MANA completed, or the library's answer. *)
MPI_Test_internal(r, i) ==
  \/ i \in mana[r].nulled
  \/ /\ IsPending(mana[r], i)
     /\ IF getPendingCall(mana[r], i).type = "IRECV" THEN ReceiveDone(r, i)
        ELSE SendDone(Message(r, i))

(* What the receive of request i holds, for the application.               *)
Delivered(r, i) ==
  IF PostedAt(r, i) = 0 \/ CallAt(r, i).op \notin {"recv", "irecv"} THEN {}
  ELSE Filled(r, i, ReceivedMsg(r, i))

(* One pass of MPI_Test, MPI_Wait or MPI_Waitany that finds request i      *)
(* complete: counted, no longer pending, freed.                            *)
FinishRequest(r, i) ==
  /\ mana' = [mana EXCEPT ![r] =
       [clearPendingRequestFromLog(@, i) EXCEPT
          !.recv = @ + IF is_counted_irecv(mana[r], i) THEN 1 ELSE 0,
          !.reqs = @ \ {i}, !.nulled = @ \ {i}]]
  /\ got' = got \cup Delivered(r, i)
  /\ lib' = [lib EXCEPT ![r] = Unpost(@, {i})]

Wanted(r) == (IF app[r].pc = "wait" THEN {app[r].ip} ELSE Current(r).of) \cap mana[r].reqs

(* MPI_Wait, MPI_Waitall, MPI_Test and MPI_Testall until all are complete. *)
MPI_Wait(r) ==
  /\ app[r].pc = "wait" \/ AtCall(r, {"wait"})
  /\ Open(r)
  /\ \E i \in Wanted(r) :
       /\ MPI_Test_internal(r, i)
       /\ FinishRequest(r, i)
       /\ app' = IF Wanted(r) = {i} THEN Return(r) ELSE app
  /\ UNCHANGED <<mode, program, drain, kvdb, net, ckpts>>

(* MPI_Waitany and MPI_Testany test one request after the other, each      *)
(* under its own guard: an earlier one may be complete by the time that a  *)
(* later one is found to be.                                               *)
MPI_Waitany(r) ==
  /\ AtCall(r, {"waitany"})
  /\ Open(r)
  /\ \E i \in Wanted(r) : MPI_Test_internal(r, i) /\ FinishRequest(r, i)
  /\ app' = Return(r)
  /\ UNCHANGED <<mode, program, drain, kvdb, net, ckpts>>

(* Every request waited for is MPI_REQUEST_NULL.                           *)
WaitForNull(r) ==
  /\ AtCall(r, {"wait", "waitany"})
  /\ Wanted(r) = {}
  /\ app' = Return(r)
  /\ UNCHANGED <<mode, program, mana, drain, kvdb, lib, net, got, ckpts>>

(* MPI_Probe and MPI_Iprobe: MANA's buffer is searched before the library. *)
(* A mutant searches the library first.                                    *)
ProbeLibraryFirst(r) ==
  LET env == Receive(0, Current(r))
      k == SelectInSeq(lib[r].unexpected, LAMBDA m : Accepts(env, m))
  IN /\ AtCall(r, {"probe"})
     /\ Open(r)
     /\ existsMatchingMsgBuffer(r, Current(r)) \/ k # 0
     /\ app' = [Return(r) EXCEPT ![r].probed =
                  IF k # 0 THEN lib[r].unexpected[k]
                  ELSE mana[r].queue[Buffered(r, Current(r))].msg]
     /\ UNCHANGED <<mode, program, mana, drain, kvdb, lib, net, got, ckpts>>
MPI_Probe(r) ==
  LET env == Receive(0, Current(r))
      k == SelectInSeq(lib[r].unexpected, LAMBDA m : Accepts(env, m))
  IN /\ AtCall(r, {"probe"})
     /\ Open(r)
     /\ existsMatchingMsgBuffer(r, Current(r)) \/ k # 0
     /\ app' = [Return(r) EXCEPT ![r].probed =
                  IF existsMatchingMsgBuffer(r, Current(r))
                  THEN mana[r].queue[Buffered(r, Current(r))].msg
                  ELSE lib[r].unexpected[k]]
     /\ UNCHANGED <<mode, program, mana, drain, kvdb, lib, net, got, ckpts>>

(* MPI_Comm_free: the Collective Clock lets no checkpoint fall between its *)
(* members (CollectiveClock), so it is one step of all of them.            *)
MPI_Comm_free(c) ==
  /\ \A r \in Members[c] : AtCall(r, {"free"}) /\ Current(r).comm = c /\ Open(r)
  /\ mana' = [r \in Ranks |-> IF r \in Members[c]
                              THEN [mana[r] EXCEPT !.live = @ \ {c}] ELSE mana[r]]
  /\ app' = [r \in Ranks |-> IF r \in Members[c]
                             THEN [app[r] EXCEPT !.ip = @ + 1] ELSE app[r]]
  /\ UNCHANGED <<mode, program, drain, kvdb, lib, net, got, ckpts>>

-----------------------------------------------------------------------------
(* The checkpoint thread of rank r.                                        *)
GoTo(r, pc) == [drain EXCEPT ![r].pc = pc]

RequestCkpt ==
  /\ \A r \in Ranks : drain[r].pc = "run"
  /\ ckpts < MaxCkpts[mode]
  /\ ckpts' = ckpts + 1
  /\ drain' = [r \in Ranks |-> [drain[r] EXCEPT !.pc = "presuspend"]]
  /\ kvdb' = [blocked |-> {}, dummies |-> {}, notices |-> {}, done |-> {}]
  /\ UNCHANGED <<mode, program, app, mana, lib, net, got>>

(* close_lower_half(), or close_lower_half_except_blocked(): every other   *)
(* thread has left the lower half.                                         *)
CloseLowerHalf(r) ==
  /\ drain[r].pc = "presuspend"
  /\ InLowerHalf(r) => ~Polling /\ Blocked(r)
  /\ drain' = GoTo(r, "closed")
  /\ UNCHANGED <<mode, program, app, mana, kvdb, lib, net, got, ckpts>>

(* dmtcp_global_barrier("MPI:Drain-Send-Recv") and mana_state = CKPT_P2P.  *)
DrainBarrier ==
  /\ \A r \in Ranks : drain[r].pc = "closed"
  /\ drain' = [r \in Ranks |-> [drain[r] EXCEPT !.pc = "begin", !.dummy_pass = 0]]
  /\ UNCHANGED <<mode, program, app, mana, kvdb, lib, net, got, ckpts>>

(* publishSsendNotices(): a notice to the receiver of each pending         *)
(* MPI_Issend, with a tag for its ack; one whose communicator was freed    *)
(* is from now on an MPI_Isend.                                            *)
(* A mutant does not advance g_next_ack_tag.                               *)
SameAckTag(s, k) == s.next_ack_tag
AckTag(s, k) == (s.next_ack_tag + k - 1) % AckTags
Issends(s) == SelectSeq(s.log, LAMBDA c : c.type = "ISSEND")
publishSsendNotices(r, s) ==
  LET noticed == SelectSeq(Issends(s), LAMBDA c : c.comm \in s.live) IN
  [s EXCEPT
        !.notices = {[sender |-> r, req |-> noticed[k].req, receiver |-> noticed[k].peer,
                      tag |-> noticed[k].tag, comm |-> noticed[k].comm,
                      later_sends |-> noticed[k].later_sends, ack_tag |-> AckTag(s, k)]
                     : k \in DOMAIN noticed},
        !.next_ack_tag = AckTag(s, Len(noticed) + 1),
        !.log = [k \in DOMAIN @ |-> IF @[k].type = "ISSEND" /\ @[k].comm \notin s.live
                                    THEN [@[k] EXCEPT !.type = "ISEND"] ELSE @[k]]]

(* The beginning of drainP2p().                                            *)
CloseSlot(s) == IF s.slot = "IDLE" THEN [s EXCEPT !.slot = "CLOSED"] ELSE s
DrainBegin(r) ==
  LET s == publishSsendNotices(r, CloseSlot(mana[r])) IN
  /\ drain[r].pc = "begin"
  /\ mana' = [mana EXCEPT ![r] = s]
  /\ kvdb' = [kvdb EXCEPT !.notices = @ \cup s.notices]
  /\ drain' = GoTo(r, IF drainHasNoBarrier THEN "complete" ELSE "read")
  /\ UNCHANGED <<mode, program, app, lib, net, got, ckpts>>

(* awaitSsendAck(): the request becomes the receive of its ack.            *)
AckReceive(s, i) ==
  LET n == CHOOSE n \in s.notices : n.req = i
  IN [peer |-> n.receiver, tag |-> n.ack_tag, comm |-> AckComm]
AwaitAck(s, c) == [type |-> "IRECV", req |-> c.req, later_sends |-> 0] @@ AckReceive(s, c.req)

(* The requests in ids, found complete by the drain: receives are counted  *)
(* and keep their status, sends become MPI_REQUEST_NULL, and an MPI_Issend *)
(* waits for its ack.                                                      *)
Complete(r, ids) ==
  LET s == mana[r]
      type(i) == getPendingCall(s, i).type
      issends == {i \in ids : type(i) = "ISSEND"}
      awaiting == [k \in DOMAIN s.log |-> IF s.log[k].req \in issends
                                         THEN AwaitAck(s, s.log[k]) ELSE s.log[k]]
      acks == SelectSeq(awaiting, LAMBDA c : c.req \in issends)
  IN /\ mana' = [mana EXCEPT ![r] =
          [s EXCEPT !.recv = @ + Cardinality({i \in ids : is_counted_irecv(s, i)}),
                    !.nulled = @ \cup (ids \ issends),
                    !.log = SelectSeq(awaiting, LAMBDA c : c.req \notin ids \ issends)]]
     /\ got' = got \cup UNION {Delivered(r, i) : i \in ids}
     /\ lib' = [lib EXCEPT ![r] =
          FoldLeft(LAMBDA l, c : Post(l, Receive(c.req, c)), Unpost(@, ids), acks)]

PendingRequests(r) == {mana[r].log[k].req : k \in DOMAIN mana[r].log}
CompleteRequests(r) == {i \in PendingRequests(r) : MPI_Test_internal(r, i)}
testDummySends(r) == {m \in drain[r].dummy_sends : ~SendDone(m)}

completePendingP2pRequests(r) ==
  /\ drain[r].pc = "complete"
  /\ Complete(r, CompleteRequests(r))
  /\ drain' = [drain EXCEPT ![r].pc = "probe", ![r].at = 1,
                            ![r].dummy_sends = testDummySends(r)]
  /\ UNCHANGED <<mode, program, app, kvdb, net, ckpts>>

(* drainRemainingP2pMsgs(): MPI_Iprobe on each live communicator.          *)
ProbedComms(r) ==
  {k \in drain[r].at .. Len(Comms) :
     /\ Comms[k] \in mana[r].live
     /\ \E j \in DOMAIN lib[r].unexpected : lib[r].unexpected[j].comm = Comms[k]}

DrainProbe(r) ==
  /\ drain[r].pc = "probe"
  /\ IF ProbedComms(r) = {} THEN drain' = GoTo(r, "read")
     ELSE LET k == CHOOSE k \in ProbedComms(r) : \A j \in ProbedComms(r) : k <= j
              m == SelectInSeq(lib[r].unexpected, LAMBDA x : x.comm = Comms[k])
          IN drain' = [drain EXCEPT ![r].pc = "probed", ![r].at = k,
                                    ![r].seen = lib[r].unexpected[m]]
  /\ UNCHANGED <<mode, program, app, mana, kvdb, lib, net, got, ckpts>>

(* The earliest pending MPI_Irecv with the probed envelope.                *)
PendingIrecv(r) ==
  SelectInSeq(mana[r].log,
              LAMBDA c : c.type = "IRECV" /\ Accepts(Receive(0, c), drain[r].seen))
pendingRecvMatches(r) ==
  mana[r].slot = "ACTIVE" /\ Accepts(Receive(0, Current(r)), drain[r].seen)

DrainWaitIrecv(r) ==
  /\ drain[r].pc = "probed"
  /\ PendingIrecv(r) # 0
  /\ LET i == mana[r].log[PendingIrecv(r)].req IN
     MPI_Test_internal(r, i) /\ Complete(r, {i})
  /\ drain' = [drain EXCEPT ![r].pc = "probe", ![r].seen = Nothing]
  /\ UNCHANGED <<mode, program, app, kvdb, net, ckpts>>

DrainLeaveToRecv(r) ==
  /\ drain[r].pc = "probed"
  /\ PendingIrecv(r) = 0
  /\ pendingRecvMatches(r)
  /\ drain' = [drain EXCEPT ![r].pc = "probe", ![r].at = @ + 1, ![r].seen = Nothing]
  /\ UNCHANGED <<mode, program, app, mana, kvdb, lib, net, got, ckpts>>

(* recvMsgIntoInternalBuffer(): MPI_Recv with the probed envelope.  A      *)
(* mutant receives on the first communicator.                              *)
ProbedEnvelope(m) == [peer |-> m.src, tag |-> m.tag, comm |-> m.comm]
DrainRecv(r) ==
  /\ drain[r].pc = "probed"
  /\ PendingIrecv(r) = 0
  /\ ~pendingRecvMatches(r)
  /\ lib' = [lib EXCEPT ![r] = Post(@, Receive(0, ProbedEnvelope(drain[r].seen)))]
  /\ drain' = [drain EXCEPT ![r].pc = "receiving", ![r].seen = Nothing]
  /\ UNCHANGED <<mode, program, app, mana, kvdb, net, got, ckpts>>

DrainRecvReturn(r) ==
  /\ drain[r].pc = "receiving"
  /\ ReceiveDone(r, 0)
  /\ mana' = [mana EXCEPT ![r].recv = @ + 1,
                          ![r].queue = Append(@, [msg |-> ReceivedMsg(r, 0),
                                                  ack_to |-> Nothing, ack_tag |-> 0])]
  /\ lib' = [lib EXCEPT ![r] = Unpost(@, {0})]
  /\ drain' = GoTo(r, "probe")
  /\ UNCHANGED <<mode, program, app, kvdb, net, got, ckpts>>

(* The received count is read before the slot.                             *)
DrainReadCount(r) ==
  /\ drain[r].pc = "read"
  /\ drain' = [drain EXCEPT ![r].pc = "contribute", ![r].count = mana[r].recv]
  /\ UNCHANGED <<mode, program, app, mana, kvdb, lib, net, got, ckpts>>

(* countPendingIsends().                                                   *)
PendingIsends(r) == SelectSeq(mana[r].log, LAMBDA c : c.type \in {"ISEND", "ISSEND"})

(* reduceDrainCounters() begins, or registerLocalSendsAndRecvs() adds to   *)
(* the round's keys.                                                       *)
DrainContribute(r) ==
  /\ drain[r].pc = "contribute"
  /\ drain' = [drain EXCEPT ![r].pc = "reducing",
       ![r].mine = [sent |-> mana[r].sent, recv |-> drain[r].count,
                    isends |-> Len(PendingIsends(r)),
                    in_recv |-> IF mana[r].slot = "ACTIVE" THEN 1 ELSE 0,
                    dummies |-> Cardinality(drain[r].dummy_sends),
                    notices |-> Cardinality(mana[r].notices)]]
  /\ UNCHANGED <<mode, program, app, mana, kvdb, lib, net, got, ckpts>>

(* While it waits for the reduction, the thread tests its requests.        *)
DrainTest(r) ==
  /\ drainHasNoBarrier
  /\ drain[r].pc \in {"reducing", "decide"}
  /\ CompleteRequests(r) # {} \/ testDummySends(r) # drain[r].dummy_sends
  /\ Complete(r, CompleteRequests(r))
  /\ drain' = [drain EXCEPT ![r].dummy_sends = testDummySends(r)]
  /\ UNCHANGED <<mode, program, app, kvdb, net, ckpts>>

DrainReduce ==
  /\ \A r \in Ranks : drain[r].pc = "reducing"
  /\ LET sum(f) == MapThenSumSet(LAMBDA r : drain[r].mine[f], Ranks)
     IN drain' = [r \in Ranks |->
          [drain[r] EXCEPT !.pc = "decide",
                           !.sums = [f \in DOMAIN drain[r].mine |-> sum(f)]]]
  /\ UNCHANGED <<mode, program, app, mana, kvdb, lib, net, got, ckpts>>

(* markSsendAck(): buffered messages with one envelope are the last ones   *)
(* sent, so the MPI_Issend's is the one with later_sends behind it.  If it *)
(* is not buffered, its receive has started and the ack is owed.           *)
Found(s, n) ==
  LET same == {k \in DOMAIN s.queue :
                 /\ s.queue[k].msg.comm = n.comm
                 /\ s.queue[k].msg.src = n.sender
                 /\ s.queue[k].msg.tag = n.tag}
  IN {k \in same : Cardinality({j \in same : j > k}) = n.later_sends}
markSsendAck(s, n) ==
  IF Found(s, n) = {}
  THEN [s EXCEPT !.owed = Append(@, [rank |-> n.sender, tag |-> n.ack_tag])]
  ELSE [s EXCEPT !.queue = [k \in DOMAIN @ |->
          IF k \in Found(s, n) THEN [@[k] EXCEPT !.ack_to = n.sender, !.ack_tag = n.ack_tag]
          ELSE @[k]]]
Notices(r) == {n \in kvdb.notices : n.receiver = r}
markSsendAcks(r) == FoldSet(LAMBDA n, s : markSsendAck(s, n), mana[r], Notices(r))

(* The assertion that a message is marked once fails.                      *)
MarksTwice(r) ==
  \E n \in Notices(r) : \E k \in Found(mana[r], n) :
    \/ mana[r].queue[k].ack_to # Nothing
    \/ \E m \in Notices(r) \ {n} : k \in Found(mana[r], m)

(* The end of an iteration of drainWithoutBarriers().  It counts pending   *)
(* non-blocking collectives as well; a rank has none here.                 *)
(* A mutant does not wait for the pending MPI_Isends.                      *)
MessagesReceived(sums) == sums.recv >= sums.sent
AllReceived(sums) == sums.recv >= sums.sent /\ sums.isends = 0
DrainEnds(sums) == AllReceived(sums) /\ sums.in_recv = 0 /\ sums.dummies = 0

DrainDecide(r) ==
  LET sums == drain[r].sums
      pass == IF AllReceived(sums) /\ sums.in_recv > 0 /\ drain[r].dummy_pass = 0
              THEN 1 ELSE drain[r].dummy_pass
  IN /\ drainHasNoBarrier
     /\ drain[r].pc = "decide"
     /\ \/ /\ DrainEnds(sums)
           /\ IF sums.notices > 0 /\ MarksTwice(r)
              THEN drain' = GoTo(r, "aborted") /\ UNCHANGED <<mana, kvdb>>
              ELSE /\ mana' = IF sums.notices > 0 THEN [mana EXCEPT ![r] = markSsendAcks(r)]
                              ELSE mana
                   /\ kvdb' = [kvdb EXCEPT !.done = @ \cup {r}]
                   /\ drain' = GoTo(r, "done")
        \/ /\ ~DrainEnds(sums)
           /\ drain' = [drain EXCEPT ![r].pc = IF pass \in 1 .. 3 THEN "pass" ELSE "complete",
                                     ![r].dummy_pass = pass]
           /\ UNCHANGED <<mana, kvdb>>
     /\ UNCHANGED <<mode, program, app, lib, net, got, ckpts>>

(* waitForAllRanksDone() returns.                                          *)
DrainAllDone(r) ==
  /\ drain[r].pc = "done"
  /\ kvdb.done = Ranks
  /\ drain' = GoTo(r, "drained")
  /\ UNCHANGED <<mode, program, app, mana, kvdb, lib, net, got, ckpts>>

(* drainInFlightP2p(), after registerLocalSendsAndRecvs().                 *)
InFlightDecide(r) ==
  /\ ~drainHasNoBarrier
  /\ drain[r].pc = "decide"
  /\ drain' = GoTo(r, IF drain[r].sums.sent > drain[r].sums.recv THEN "complete"
                      ELSE "isends")
  /\ UNCHANGED <<mode, program, app, mana, kvdb, lib, net, got, ckpts>>

(* completePendingIsends() tests each until it is complete.                *)
(* A mutant does not.                                                      *)
completePendingIsends(r) ==
  LET sends == {PendingIsends(r)[k].req : k \in DOMAIN PendingIsends(r)} IN
  /\ drain[r].pc = "isends"
  /\ sends \subseteq CompleteRequests(r)
  /\ Complete(r, sends)
  /\ drain' = GoTo(r, "mark")
  /\ UNCHANGED <<mode, program, app, kvdb, net, ckpts>>

InFlightMark(r) ==
  /\ drain[r].pc = "mark"
  /\ IF MarksTwice(r) THEN drain' = GoTo(r, "aborted") /\ UNCHANGED mana
     ELSE /\ mana' = [mana EXCEPT ![r] = markSsendAcks(r)]
          /\ drain' = [drain EXCEPT ![r].pc = "pass", ![r].dummy_pass = 1]
  /\ UNCHANGED <<mode, program, app, kvdb, lib, net, got, ckpts>>

-----------------------------------------------------------------------------
(* The dummies for the MPI_Recvs that wait in the lower half: the passes   *)
(* of drainWithoutBarriers() and the phases of unblockPendingRecvs().      *)
AfterPass(r) ==
  IF drainHasNoBarrier
  THEN [pc |-> "complete", dummy_pass |-> drain[r].dummy_pass + 1]
  ELSE [pc |-> "passWait", dummy_pass |-> drain[r].dummy_pass]

(* A mutant does not set p2p_dummy_phase.                                  *)
OnlyCloseSlot(s) == CloseSlot(s)
EnterDummyPhase(s) == [CloseSlot(s) EXCEPT !.p2p_dummy_phase = TRUE]

(* Pass 1: the slot is closed, or its rank publishes that it is blocked.   *)
DummyPublish(r) ==
  LET blocked == mana[r].slot = "ACTIVE" IN
  /\ drain[r].pc = "pass" /\ drain[r].dummy_pass = 1
  /\ mana' = [mana EXCEPT ![r] = EnterDummyPhase(@)]
  /\ kvdb' = [kvdb EXCEPT !.blocked = @ \cup IF blocked THEN {r} ELSE {}]
  /\ drain' = [drain EXCEPT ![r] = AfterPass(r) @@ [@ EXCEPT !.blocked = blocked]]
  /\ UNCHANGED <<mode, program, app, lib, net, got, ckpts>>

(* Pass 2, postDummy(): the sender is the source of the MPI_Recv, or the   *)
(* first member that is not blocked; the assertion fails if there is none. *)
(* Mutants look at the first rank only, or not at the source.              *)
DummySenders(r) ==
  LET c == Current(r) IN
  IF c.peer # AnyOne THEN <<c.peer>>
  ELSE SelectSeq(RankOrder, LAMBDA q : q \in Members[c.comm] \ kvdb.blocked)

DummyPost(r) ==
  /\ drain[r].pc = "pass" /\ drain[r].dummy_pass = 2
  /\ IF drain[r].blocked /\ DummySenders(r) = << >>
     THEN drain' = GoTo(r, "aborted") /\ UNCHANGED kvdb
     ELSE /\ drain' = [drain EXCEPT ![r] = AfterPass(r) @@ @]
          /\ kvdb' = IF ~drain[r].blocked THEN kvdb ELSE
               [kvdb EXCEPT !.dummies = @ \cup
                  {[sender |-> DummySenders(r)[1], dest |-> r, comm |-> Current(r).comm,
                    tag |-> IF Current(r).tag = AnyOne THEN 0 ELSE Current(r).tag,
                    big |-> Current(r).big]}]
  /\ UNCHANGED <<mode, program, app, mana, lib, net, got, ckpts>>

(* Pass 3, sendPostedDummies(): not counted as sent.                       *)
Dummy(d) == [id |-> <<d.sender, "dummy", d.dest>>, src |-> d.sender, tag |-> d.tag,
             comm |-> d.comm, dummy |-> TRUE, big |-> d.big]
DummySend(r) ==
  LET posted == {d \in kvdb.dummies : d.sender = r} IN
  /\ drain[r].pc = "pass" /\ drain[r].dummy_pass = 3
  /\ net' = FoldSet(LAMBDA d, n : Send(n, d.dest, Dummy(d)), net, posted)
  /\ drain' = [drain EXCEPT ![r] =
                 AfterPass(r) @@ [@ EXCEPT !.dummy_sends = {Dummy(d) : d \in posted}]]
  /\ UNCHANGED <<mode, program, app, mana, kvdb, lib, got, ckpts>>

(* The three barriers of unblockPendingRecvs(); before the last one, the   *)
(* MPI_Sends of the dummies have returned.                                 *)
PassBarrier ==
  /\ \A r \in Ranks : drain[r].pc = "passWait" /\ testDummySends(r) = {}
  /\ drain' = [r \in Ranks |->
       IF drain[r].dummy_pass = 3
       THEN [drain[r] EXCEPT !.pc = "drained", !.dummy_sends = {}]
       ELSE [drain[r] EXCEPT !.pc = "pass", !.dummy_pass = @ + 1]]
  /\ UNCHANGED <<mode, program, app, mana, kvdb, lib, net, got, ckpts>>

-----------------------------------------------------------------------------
(* The end of pre-suspend, the checkpoint, and how the job goes on.        *)

(* close_lower_half(): every thread has left, a blocked one included.      *)
CloseForAll(r) ==
  /\ drain[r].pc = "drained"
  /\ ~InLowerHalf(r)
  /\ drain' = GoTo(r, "quiet")
  /\ UNCHANGED <<mode, program, app, mana, kvdb, lib, net, got, ckpts>>

(* The image is written and the processes go on (DMTCP_EVENT_RESUME) ...   *)
Resume ==
  /\ \A r \in Ranks : drain[r].pc = "quiet"
  /\ drain' = [r \in Ranks |-> [drain[r] EXCEPT !.pc = "acks"]]
  /\ UNCHANGED <<mode, program, app, mana, kvdb, lib, net, got, ckpts>>

(* ... or they are killed, and restart with a new MPI library.             *)
Restart ==
  /\ \A r \in Ranks : drain[r].pc = "quiet"
  /\ drain' = [r \in Ranks |-> [drain[r] EXCEPT !.pc = "replay", !.at = 1]]
  /\ lib' = [r \in Ranks |-> [posted |-> << >>, unexpected |-> << >>]]
  /\ net' = [p \in Ranks |-> [q \in Ranks |-> << >>]]
  /\ UNCHANGED <<mode, program, app, mana, kvdb, got, ckpts>>

(* replayMpiP2pOnRestart(): the receives are posted again in their order;  *)
(* a pending send fails the assertion.                                     *)
replayMpiP2pOnRestart(r) ==
  LET k == drain[r].at
      c == mana[r].log[k]
  IN /\ drain[r].pc = "replay"
     /\ k <= Len(mana[r].log)
     /\ IF c.type = "IRECV"
        THEN /\ lib' = IF c.peer = ProcNull THEN lib
                       ELSE [lib EXCEPT ![r] = Post(@, Receive(c.req, c))]
             /\ drain' = [drain EXCEPT ![r].at = @ + 1]
        ELSE drain' = GoTo(r, "aborted") /\ UNCHANGED lib
     /\ UNCHANGED <<mode, program, app, mana, kvdb, net, got, ckpts>>

(* resetDrainCounters(), sendOwedSsendAcks() and mana_state = RUNNING.     *)
SendOwedAcks(r) ==
  FoldLeft(LAMBDA n, a : Send(n, a.rank, Ack(r, a.tag)), net, mana[r].owed)
(* A mutant leaves g_pending_recv closed.                                  *)
PhaseOnly(s) == [s EXCEPT !.p2p_dummy_phase = FALSE]
resetDrainCounters(s) == [s EXCEPT !.p2p_dummy_phase = FALSE, !.slot = "IDLE"]
Running(r) ==
  /\ \/ drain[r].pc = "acks"
     \/ drain[r].pc = "replay" /\ drain[r].at > Len(mana[r].log)
  /\ mana' = [mana EXCEPT ![r] = [resetDrainCounters(@) EXCEPT
                                    !.sent = @ + Len(mana[r].owed), !.owed = << >>]]
  /\ net' = SendOwedAcks(r)
  /\ drain' = [drain EXCEPT ![r].pc = "run", ![r].dummy_pass = 0, ![r].blocked = FALSE,
                            ![r].mine = NoCounts, ![r].sums = NoCounts, ![r].count = 0]
  /\ UNCHANGED <<mode, program, app, kvdb, lib, got, ckpts>>

-----------------------------------------------------------------------------
AppStep(r) ==
  \/ MPI_Isend(r) \/ MPI_Send(r) \/ SendReturn(r)
  \/ MPI_Irecv(r) \/ MPI_Recv(r)
  \/ RecvPost(r) \/ RecvReturn(r) \/ RecvClassify(r) \/ RecvStore(r) \/ RecvLeave(r)
  \/ MPI_Wait(r) \/ MPI_Waitany(r) \/ WaitForNull(r) \/ MPI_Probe(r)

DrainStep(r) ==
  \/ CloseLowerHalf(r) \/ DrainBegin(r) \/ completePendingP2pRequests(r)
  \/ DrainProbe(r) \/ DrainWaitIrecv(r) \/ DrainLeaveToRecv(r) \/ DrainRecv(r)
  \/ DrainRecvReturn(r) \/ DrainReadCount(r) \/ DrainContribute(r) \/ DrainTest(r)
  \/ DrainDecide(r) \/ DrainAllDone(r)
  \/ InFlightDecide(r) \/ completePendingIsends(r) \/ InFlightMark(r)
  \/ DummyPublish(r) \/ DummyPost(r) \/ DummySend(r)
  \/ CloseForAll(r) \/ replayMpiP2pOnRestart(r) \/ Running(r)

JobStep == DrainBarrier \/ DrainReduce \/ PassBarrier

(* Every program has ended and no checkpoint is left to take.              *)
Ended == \A r \in Ranks : app[r].ip > Len(program[r]) /\ drain[r].pc = "run"
Finished == Ended /\ ckpts = MaxCkpts[mode] /\ UNCHANGED vars

(* The MPI_Recv that the drain makes for a probed message, when the        *)
(* application's own MPI_Recv has taken the message in between, waits for  *)
(* ever (see DrainRecvHasMessage).                                         *)
DrainHangs(r) ==
  /\ drain[r].pc = "receiving"
  /\ ReceivedMsg(r, 0) = Nothing
AnyHangs == \E r \in Ranks : DrainHangs(r)
Hung == AnyHangs /\ UNCHANGED vars

Next ==
  \/ \E r \in Ranks : AppStep(r) \/ DrainStep(r) \/ Move(r)
  \/ \E p, q \in Ranks : Arrive(p, q)
  \/ \E c \in Range(Comms) \ {AckComm} : MPI_Comm_free(c)
  \/ JobStep \/ RequestCkpt \/ Resume \/ Restart \/ Finished \/ Hung

Spec == Init /\ [][Next]_vars

(* Fairness.  Threads keep running and the library returns.  A message     *)
(* leaves its sender, and a large one is moved, only while the sender's    *)
(* rank calls MPI (drainWithoutBarriers()): its application thread with    *)
(* the lower half open or blocked in a call, or its checkpoint thread in   *)
(* the drain, where the drain with barriers also waits outside MPI.        *)
InMpi(r) ==
  \/ Open(r)
  \/ app[r].pc \in {"inSend", "inRecv"}
  \/ testDummySends(r) # {}
  \/ drain[r].pc \notin {"closed", "passWait", "drained", "quiet"}
                      \cup IF drainHasNoBarrier THEN {} ELSE {"reducing"}
SenderInMpi(q) == \A k \in DOMAIN lib[q].posted :
  lib[q].posted[k].msg # Nothing => InMpi(lib[q].posted[k].msg.src)

Fairness ==
  /\ \A r \in Ranks : WF_vars(AppStep(r)) /\ WF_vars(DrainStep(r))
  /\ SF_vars(\E r \in Ranks : SenderInMpi(r) /\ Move(r))
  /\ SF_vars(\E p, q \in Ranks : InMpi(p) /\ Arrive(p, q))
  /\ \A c \in Range(Comms) \ {AckComm} : WF_vars(MPI_Comm_free(c))
  /\ WF_vars(JobStep)
  /\ WF_vars(Resume \/ Restart)
  (* The drain with barriers needs a provider that delivers a small        *)
  (* message without further calls of its sender: after the last barrier   *)
  (* nobody calls MPI for the dummies.                                     *)
  /\ WF_vars(\E p, q \in Ranks : ~drainHasNoBarrier /\ Arrive(p, q))

FairSpec == Spec /\ Fairness

-----------------------------------------------------------------------------
(* Properties.                                                             *)

(* What the receives hold or have returned with, for the application.      *)
Matched ==
  got \cup UNION {LET p == lib[r].posted[k] IN
                  IF p.id # 0 /\ CallAt(r, p.id).op \in {"recv", "irecv"}
                  THEN Filled(r, p.id, p.msg) ELSE {}
                  : <<r, k>> \in UNION {{r} \X DOMAIN lib[r].posted : r \in Ranks}}

Delivery == INSTANCE P2pDelivery WITH
  issued <- [r \in Ranks |-> IF app[r].pc = "idle" THEN app[r].ip - 1 ELSE app[r].ip],
  match <- Matched,
  done <- {c \in UNION {{r} \X (1 .. app[r].ip - 1) : r \in Ranks} :
             c[2] \notin mana[c[1]].reqs}

(* Across checkpoints, resumes and restarts the program sees what MPI      *)
(* promises: each receive gets one message, none overtakes another, no     *)
(* dummy is delivered, and an MPI_Issend completes only after its receive  *)
(* has matched (the wrappers, the drain's buffer and its acks together).   *)
ImplementsDelivery == Delivery!DeliverySpec

(* When every rank has drained, the MPI library holds nothing that a       *)
(* restart would lose: no message, no dummy, no matched receive, and no    *)
(* pending send; every message sent is received or in MANA's buffer.       *)
NothingLeftInLibrary ==
  (\A r \in Ranks : drain[r].pc = "quiet") =>
    \A r \in Ranks :
      /\ \A q \in Ranks : net[r][q] = << >>
      /\ lib[r].unexpected = << >>
      /\ \A k \in DOMAIN lib[r].posted :
           lib[r].posted[k].msg = Nothing /\ lib[r].posted[k].id \in PendingRequests(r)
      /\ PendingIsends(r) = << >>
      /\ \A q \in Ranks : \A i \in 1 .. app[r].ip - 1 :
           CallAt(r, i).op \in {"send", "isend", "ssend", "issend"} /\ CallAt(r, i).peer = q =>
             \/ <<r, i>> \in {m[2] : m \in got}
             \/ \E k \in DOMAIN mana[q].queue : mana[q].queue[k].msg.id = <<r, "call", i>>

(* MPI_Recv's one read of p2p_dummy_phase tells a dummy from a message: it *)
(* reads true exactly when the call returned with a dummy.                 *)
DummyReadIsRight ==
  \A r \in Ranks : app[r].pc \in {"classified", "stored"} =>
    (app[r].dummy <=> <<r, app[r].ip>> \notin {m[1] : m \in got})

(* The ack that the Issend of request i waits for.                          *)
AwaitedAck(s, i) ==
  LET c == getPendingCall(s, i) IN
  IF c.type = "ISSEND" THEN AckReceive(s, i)
  ELSE [peer |-> c.peer, tag |-> c.tag, comm |-> c.comm]

(* A buffered message that is marked for an ack is the message of the      *)
(* MPI_Issend that waits for this ack, or will when the drain completes    *)
(* it, whatever else was sent with its envelope and however many           *)
(* checkpoints it has been buffered for (markSsendAck, awaitSsendAck).     *)
AckMarksItsIssend ==
  \A r \in Ranks : \A k \in DOMAIN mana[r].queue :
    LET b == mana[r].queue[k]
        i == b.msg.id[3]
    IN b.ack_to # Nothing =>
         /\ b.msg.id = <<b.ack_to, "call", i>> /\ IsPending(mana[b.ack_to], i)
         /\ AwaitedAck(mana[b.ack_to], i) = [peer |-> r, tag |-> b.ack_tag, comm |-> AckComm]

(* A dummy reaches the blocked MPI_Recv it was sent for, and no other      *)
(* receive of the application: "a blocked MPI_Recv can receive only its    *)
(* dummy" (p2p_drain.cpp), which an MPI_Irecv posted earlier makes false.  *)
OnlyRecvTakesDummy ==
  \A r \in Ranks : \A k \in DOMAIN lib[r].posted :
    LET p == lib[r].posted[k] IN
    p.msg # Nothing /\ p.msg.dummy => app[r].pc = "inRecv" /\ p.id = app[r].ip

(* The message that MPI_Probe reported is the one the next receive with    *)
(* its envelope gets, also if a checkpoint drained it in between.          *)
ProbeFindsNext ==
  \A r \in Ranks : \A m \in Matched :
    LET i == m[1][2] IN
    /\ m[1][1] = r
    /\ i > 1
    /\ CallAt(r, i - 1).op = "probe"
    /\ app[r].ip \in {i, i + 1}
    => app[r].probed.id = <<m[2][1], "call", m[2][2]>>

(* No assertion of the drain or of the restart fails: a dummy has a        *)
(* sender, a message is marked for one ack, and no MPI_Isend is pending    *)
(* after a restart.                                                        *)
NoAssertionFails == \A r \in Ranks : drain[r].pc # "aborted"

(* The MPI_Recv by which the drain buffers a message finds the message it  *)
(* probed: the checkpoint thread does not wait for one that never comes.   *)
DrainRecvHasMessage ==
  \A r \in Ranks : ~DrainHangs(r)

(* Every checkpoint the coordinator asks for ends, on every rank: its      *)
(* rounds, passes, dummies and acks do not wait for each other.  The one   *)
(* exception is the hang that DrainRecvHasMessage is about.                *)
CheckpointEnds ==
  (\E r \in Ranks : drain[r].pc # "run")
    ~> (AnyHangs \/ \A r \in Ranks : drain[r].pc = "run")

(* Every program ends: no receive is left waiting for a message that a     *)
(* checkpoint has taken, and no MPI_Issend for an ack.                     *)
ProgramsEnd == <>(AnyHangs \/ \A r \in Ranks : app[r].ip > Len(program[r]))
=============================================================================
