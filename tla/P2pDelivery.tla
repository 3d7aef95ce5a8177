----------------------------- MODULE P2pDelivery -----------------------------
(***************************************************************************)
(* What MPI promises a program's point-to-point calls, with no checkpoint  *)
(* in sight: each receive gets one message and each message is received    *)
(* once, messages do not overtake each other, receives are served in the   *)
(* order they were posted, and a synchronous send completes only after its *)
(* receive has matched.  P2pDrain implements it across checkpoints.        *)
(***************************************************************************)
EXTENDS Naturals, Sequences

CONSTANTS Ranks, AnyOne, ProcNull

VARIABLES
  program,  \* program[r]: the calls of rank r, fixed at the start
  issued,   \* issued[r]: how many of them it has made
  match,    \* <<receive, message>> pairs; both are <<rank, call>>
  done      \* <<rank, call>>: the calls that completed

deliveryVars == <<program, issued, match, done>>

Sends == {"send", "isend", "ssend", "issend"}
Receives == {"recv", "irecv"}
Call(c) == program[c[1]][c[2]]
Made(ops) == {c \in UNION {{r} \X (1 .. issued[r]) : r \in Ranks} :
                Call(c).op \in ops /\ Call(c).peer # ProcNull}

(* Receive c accepts message m: communicator, receiver, source and tag.    *)
Fits(c, m) ==
  /\ Call(c).comm = Call(m).comm
  /\ Call(m).peer = c[1]
  /\ Call(c).peer \in {m[1], AnyOne}
  /\ Call(c).tag \in {Call(m).tag, AnyOne}

Received(pairs) == {p[2] : p \in pairs}
Served(pairs) == {p[1] : p \in pairs}

(* MPI's matching rule: no older message of that sender, and no receive    *)
(* posted earlier, is passed over.                                         *)
MayMatch(c, m) ==
  /\ Fits(c, m)
  /\ c \notin Served(match) /\ m \notin Received(match)
  /\ \A n \in Made(Sends) \ Received(match) :
       n[1] = m[1] /\ n[2] < m[2] => ~Fits(c, n)
  /\ \A d \in Made(Receives) \ Served(match) :
       d[1] = c[1] /\ d[2] < c[2] => ~Fits(d, m)

(* What completing call c takes.                                           *)
MayComplete(c) ==
  /\ Call(c).op \in Receives /\ Call(c).peer # ProcNull => c \in Served(match')
  /\ Call(c).op \in {"ssend", "issend"} /\ Call(c).peer # ProcNull
       => c \in Received(match')

DeliveryInit ==
  /\ issued = [r \in Ranks |-> 0]
  /\ match = {}
  /\ done = {}

(* Ranks make their next call; at most one message is matched; calls       *)
(* complete.  No match and no completion is ever undone.                   *)
DeliveryNext ==
  /\ UNCHANGED program
  /\ \A r \in Ranks : issued'[r] \in {issued[r], issued[r] + 1}
  /\ \/ match' = match
     \/ \E c \in Made(Receives)', m \in Made(Sends) :
          MayMatch(c, m) /\ match' = match \cup {<<c, m>>}
  /\ done \subseteq done'
  /\ \A c \in done' \ done : c[2] \in 1 .. issued'[c[1]] /\ MayComplete(c)

DeliverySpec == DeliveryInit /\ [][DeliveryNext]_deliveryVars
=============================================================================
