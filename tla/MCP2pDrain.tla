------------------------------ MODULE MCP2pDrain ------------------------------
(* Instances of P2pDrain for TLC: the programs, by the case they make      *)
(* happen.                                                                 *)
EXTENDS P2pDrain

CONSTANTS r1, r2, r3, World, Sub, Acks

C(op, peer, tag) == [op |-> op, peer |-> peer, tag |-> tag, comm |-> World, big |-> FALSE,
                     fused |-> FALSE, of |-> {}]
Large(c) == [c EXCEPT !.big = TRUE]
On(comm, c) == [c EXCEPT !.comm = comm]
W(op, of) == [C(op, ProcNull, 0) EXCEPT !.of = of]
Wait(of) == W("wait", of)
Free(c) == On(c, C("free", ProcNull, 0))
TwoRanks == {r1, r2}
TwoOrder == <<r1, r2>>
OneComm == <<World, Acks>>
TwoComms == <<World, Sub, Acks>>
TwoMembers == [c \in {World, Sub, Acks} |-> TwoRanks]
P2(a, b) == r1 :> a @@ r2 :> b

(* Two messages with one envelope; the receiver has one MPI_Irecv posted   *)
(* and receives the other later.                                           *)
Overtake == P2(<<C("isend", r2, 0), Large(C("isend", r2, 0)), Wait({1, 2})>>,
               <<C("irecv", r1, 0), C("recv", r1, 0), Wait({1})>>)
(* A probe, a receive of what it found, and receives of what is left.      *)
ProbeFirst == P2(<<C("send", r2, 1), C("send", r2, 0), C("send", r2, 0)>>,
                 <<C("probe", r1, 0), C("recv", r1, 0), C("recv", r1, AnyOne),
                   C("recv", r1, 0)>>)
Exchange == P2(MPI_Sendrecv(1, C("", r2, 0), C("", r2, 1)),
               MPI_Sendrecv_replace(1, C("", r1, 1), C("", r1, 0)))

(* An MPI_Issend before a plain send of the same envelope, which is        *)
(* received only after the MPI_Issend has completed.                       *)
Synchronous == P2(<<C("issend", r2, 0), C("isend", r2, 0), Wait({1}), C("ssend", r2, 1),
                    Wait({2})>>,
                  <<C("recv", r1, AnyOne), C("recv", r1, 1), C("irecv", r1, 0), Wait({3})>>)
(* Two pending MPI_Issends.                                                *)
TwoIssends == P2(<<C("issend", r2, 0), C("issend", r2, 1), Wait({1, 2})>>,
                 <<C("recv", r1, 1), C("recv", r1, 0)>>)
(* The communicator of a pending MPI_Issend is freed.                      *)
FreedComm == P2(<<On(Sub, C("issend", r2, 0)), Free(Sub), Wait({1})>>,
                <<On(Sub, C("irecv", r1, 0)), Free(Sub), Wait({1})>>)
(* MPI_PROC_NULL, and completion in any order.                             *)
NullPeers == P2(<<C("send", ProcNull, 0), C("recv", ProcNull, 0), C("irecv", ProcNull, 0),
                  On(Sub, C("irecv", r2, 0)), W("waitany", {3, 4}), W("waitany", {3, 4}), Wait({3, 4})>>,
                <<C("isend", ProcNull, 0), On(Sub, C("isend", r1, 0)), Wait({1, 2})>>)

(* Blocking: a receive whose message comes only after the checkpoint.      *)
LateSend == P2(<<C("recv", AnyOne, 0), C("recv", r2, AnyOne)>>,
               <<Large(C("send", r1, 0)), C("recv", ProcNull, 0), C("send", r1, 1)>>)
BothWays == P2(<<Large(C("send", r2, 0)), Large(C("recv", r2, 1)), C("send", ProcNull, 0)>>,
               <<C("recv", r1, 0), C("send", r1, 1)>>)

Polled == {Overtake, ProbeFirst, Exchange, Synchronous, TwoIssends, FreedComm, NullPeers}
Blocked2 == {LateSend, BothWays, Synchronous, ProbeFirst}
AllPrograms == [polling |-> Polled, blocking |-> Blocked2, barriers |-> Blocked2]
AllCkpts == [polling |-> 2, blocking |-> 1, barriers |-> 1]
LivePrograms == [polling |-> {Synchronous},
                 blocking |-> {LateSend, BothWays}, barriers |-> {LateSend}]
LiveCkpts == [m \in DOMAIN LivePrograms |-> 1]
BlockPrograms == [blocking |-> Blocked2]
BlockCkpts == [blocking |-> 1]

(* Three ranks: the receive from any source of r1 is blocked, and so is r2.*)
ThreeRanks == {r1, r2, r3}
ThreeOrder == <<r1, r2, r3>>
ThreeMembers == [c \in {World, Acks} |-> ThreeRanks] @@ (Sub :> {r1, r2})
AnySource == r1 :> <<C("recv", AnyOne, 0), C("recv", AnyOne, 0)>> @@
             r2 :> <<C("recv", r3, 0), C("send", r1, 0)>> @@
             r3 :> <<C("send", r2, 0), C("send", r1, 0)>>
AnyPrograms == [blocking |-> {AnySource}]
(* The same on a communicator whose other member is itself blocked.        *)
AnySourceOfSub == r1 :> <<On(Sub, C("recv", AnyOne, 0))>> @@
                  r2 :> <<C("recv", r3, 0), On(Sub, C("send", r1, 0))>> @@
                  r3 :> <<C("send", r2, 0)>>
SubPrograms == [blocking |-> {AnySourceOfSub}]

(* An MPI_Irecv with the envelope of the MPI_Recv is pending.              *)
IrecvThenRecv == P2(<<C("irecv", r2, 0), C("recv", r2, 0), Wait({1})>>,
                    <<C("send", r1, 0), C("send", r1, 0)>>)
IrecvPrograms == [blocking |-> {IrecvThenRecv}]
=============================================================================
