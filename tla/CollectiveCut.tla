----------------------------- MODULE CollectiveCut -----------------------------
(***************************************************************************)
(* What the Collective Clock promises: the ranks of a job make collective  *)
(* calls on their own, and a checkpoint stops all of them at one moment at *)
(* which nobody is in a call and the members of each communicator made     *)
(* the same number of calls on it.  A stopped rank makes no call until it  *)
(* resumes.                                                                *)
(***************************************************************************)
EXTENDS Naturals

CONSTANTS Ranks, Comms

VARIABLES
  calls,     \* calls[r][c]: collective calls rank r made on c
  comms,     \* comms[r]: the communicators rank r has
  inside,    \* the ranks that are in a collective call
  stopped    \* the ranks that are stopped for a checkpoint

vars == <<calls, comms, inside, stopped>>

Init ==
  /\ calls = [r \in Ranks |-> [c \in Comms |-> 0]]
  /\ comms \in [Ranks -> SUBSET Comms]
  /\ inside = {}
  /\ stopped = {}

(* A call enters; MPI_Comm_create_group is counted on no communicator.     *)
Enter(r) ==
  /\ r \notin inside \cup stopped
  /\ inside' = inside \cup {r}
  /\ \/ calls' = calls
     \/ \E c \in Comms : calls' = [calls EXCEPT ![r][c] = @ + 1]
  /\ UNCHANGED <<comms, stopped>>

(* A call makes a communicator, on which no call was made yet.             *)
Gain(r) ==
  /\ r \in inside
  /\ \E d \in Comms :
       /\ comms' = [comms EXCEPT ![r] = @ \cup {d}]
       /\ calls' = [calls EXCEPT ![r][d] = 0]
  /\ UNCHANGED <<inside, stopped>>

Leave(r) ==
  /\ inside' = inside \ {r}
  /\ UNCHANGED <<calls, comms, stopped>>

(* A freed communicator goes when every member has freed it.               *)
Drop(r) ==
  /\ \E c \in Comms : comms' = [comms EXCEPT ![r] = @ \ {c}]
  /\ UNCHANGED <<calls, inside, stopped>>

Balanced ==
  \A p, q \in Ranks : \A c \in comms[p] \cap comms[q] : calls[p][c] = calls[q][c]

(* All ranks stop, at a consistent cut.                                    *)
Stop ==
  /\ stopped = {}
  /\ inside = {}
  /\ Balanced
  /\ stopped' = Ranks
  /\ UNCHANGED <<calls, comms, inside>>

Go(r) ==
  /\ stopped' = stopped \ {r}
  /\ UNCHANGED <<calls, comms, inside>>

Next ==
  \/ \E r \in Ranks : Enter(r) \/ Gain(r) \/ Leave(r) \/ Drop(r) \/ Go(r)
  \/ Stop

Spec == Init /\ [][Next]_vars
=============================================================================
