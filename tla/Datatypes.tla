------------------------------ MODULE Datatypes ------------------------------
(***************************************************************************)
(* The derived datatypes of one rank (virtual_id.cpp): the references that *)
(* keep a datatype the program has freed for as long as a restart needs    *)
(* it, to remake another datatype or to post a pending call again.         *)
(*                                                                         *)
(* A datatype is its creation number, 0 is any predefined one.  A wrapper  *)
(* runs with the checkpoint held off, so each is one step.                 *)
(***************************************************************************)
EXTENDS Integers, Sequences, FiniteSets

CONSTANTS
  MaxTypes,    \* bound: datatypes made
  MaxCalls,    \* bound: requests in use at a time
  MaxStruct,   \* bound: members of a struct type
  MaxRestarts  \* bound: restarts

ASSUME TypeConstants ==
  MaxTypes \in Nat /\ MaxCalls \in Nat /\ MaxStruct \in Nat /\ MaxRestarts \in Nat

Types == 1 .. MaxTypes
Predefined == 0
Requests == 1 .. MaxCalls

VARIABLES
  typesMade,  \* datatypes made so far
  olds,       \* olds[t]: the datatypes t was made from
  refs,       \* refs[t]: mana_datatype_desc.refs
  typeTable,  \* the datatypes in the virtual-ID table
  held,       \* the datatypes that the program has not freed
  committed,  \* the datatypes with desc->committed
  freed,      \* datatypes_freed_while_pending, in which each is once
  request,    \* request[q]: the request's state and datatype
  real,       \* real[t]: what the lower half has for t
  typePhase,  \* "run", or "restart"
  restarts    \* restarts so far

typeVars ==
  <<typesMade, olds, refs, typeTable, held, committed, freed, request, real, typePhase, restarts>>

NoRequest == [state |-> "none", type |-> Predefined]

DatatypesInit ==
  /\ typesMade = 0 /\ restarts = 0 /\ typePhase = "run"
  /\ olds = [t \in Types |-> <<>>] /\ refs = [t \in Types |-> 0]
  /\ typeTable = {} /\ held = {} /\ committed = {} /\ freed = {}
  /\ request = [q \in Requests |-> NoRequest]
  /\ real = [t \in Types |-> "none"]

Count(x, seq) == Cardinality({i \in DOMAIN seq : seq[i] = x})

-----------------------------------------------------------------------------
(* The constructors of mpi_type_wrappers.cpp and new_virt_datatype: one    *)
(* reference for each use of an old type.  Only a struct has other than    *)
(* one old type; it may have none.                                         *)
OnceEach(t, new) == IF \E i \in DOMAIN new : new[i] = t THEN 1 ELSE 0
EachUse(t, new) == Count(t, new)
NewVirtDatatype(new) ==
  /\ typePhase = "run" /\ typesMade < MaxTypes
  /\ typesMade' = typesMade + 1
  /\ olds' = [olds EXCEPT ![typesMade + 1] = new]
  /\ refs' = [t \in Types |->
                IF t = typesMade + 1 THEN 1
                ELSE IF t \in typeTable THEN refs[t] + EachUse(t, new) ELSE refs[t]]
  /\ typeTable' = typeTable \cup {typesMade + 1}
  /\ held' = held \cup {typesMade + 1}
  /\ real' = [real EXCEPT ![typesMade + 1] = "made"]
  /\ UNCHANGED <<committed, freed, request, typePhase, restarts>>

MPI_Type_commit(t) ==
  /\ typePhase = "run" /\ t \in held
  /\ committed' = committed \cup {t}
  /\ real' = [real EXCEPT ![t] = "committed"]
  /\ UNCHANGED <<typesMade, olds, refs, typeTable, held, freed, request, typePhase, restarts>>

(* release_datatype, of the set 'types': drops a reference; a datatype     *)
(* without any leaves the table and drops its own.  An old type has a      *)
(* smaller number, so one pass downwards does it; 'drops' are the          *)
(* references still to be dropped.                                         *)
FreeDatatype(s, t) ==
  [refs |-> [s.refs EXCEPT ![t] = 0],
   table |-> s.table \ {t},
   drops |-> [u \in Types |-> s.drops[u] + Count(u, olds[t])]]
ReleaseStep(s, t) ==
  IF s.drops[t] = 0 \/ t \notin s.table THEN s
  ELSE IF s.refs[t] > s.drops[t]
       THEN [refs |-> [s.refs EXCEPT ![t] = @ - s.drops[t]], table |-> s.table, drops |-> s.drops]
       ELSE FreeDatatype(s, t)
ReleaseTypes(types) ==
  LET after[n \in 0 .. MaxTypes] ==
        IF n = 0
        THEN [refs |-> refs, table |-> typeTable,
              drops |-> [u \in Types |-> IF u \in types THEN 1 ELSE 0]]
        ELSE ReleaseStep(after[n - 1], MaxTypes + 1 - n)
  IN after[MaxTypes]

(* pendingCallUsesDatatype, given the requests.                            *)
Uses(t, reqs) == \E q \in Requests : reqs[q].state = "pending" /\ reqs[q].type = t

(* release_freed_datatypes: 'list' is what the program has freed.          *)
ReleaseFreed(list, reqs) ==
  LET done == ReleaseTypes({t \in list : ~Uses(t, reqs)})
  IN /\ freed' = {t \in list : Uses(t, reqs)}
     /\ refs' = done.refs /\ typeTable' = done.table
     /\ committed' = committed \cap done.table
     /\ olds' = [t \in Types |-> IF t \in done.table THEN olds[t] ELSE <<>>]
     /\ real' = [t \in Types |-> IF t \in done.table THEN real[t] ELSE "none"]

(* MPI_Type_free, free_virt_datatype.  Of the library's datatype, 'real'   *)
(* keeps only that it was made: no call names it after the library's       *)
(* Type_free, and a restart makes it again for the types made from it.     *)
MPI_Type_free(t) ==
  /\ typePhase = "run" /\ t \in held
  /\ held' = held \ {t}
  /\ ReleaseFreed(freed \cup {t}, request)
  /\ UNCHANGED <<typesMade, request, typePhase, restarts>>

(* MPI_Isend, MPI_Irecv of a derived datatype: addPendingRequestToLog.     *)
(* Which of the free requests it takes does not matter.                    *)
StartCall(q, t) ==
  /\ typePhase = "run" /\ request[q] = NoRequest
  /\ \A p \in 1 .. q - 1 : request[p] # NoRequest
  /\ t \in held \cap committed
  /\ request' = [request EXCEPT ![q] = [state |-> "pending", type |-> t]]
  /\ UNCHANGED <<typesMade, olds, refs, typeTable, held, committed, freed, real, typePhase, restarts>>

(* MPI_Wait, MPI_Test, MPI_Waitany of a call that is complete:             *)
(* clearPendingRequestFromLog, release_freed_datatypes, free_virt_id.      *)
Cleared(q) == [request EXCEPT ![q] = NoRequest]
LinkedAtRelease(q) == Cleared(q)
MPI_Wait(q) ==
  /\ typePhase = "run" /\ request[q] # NoRequest
  /\ request' = Cleared(q)
  /\ ReleaseFreed(freed, LinkedAtRelease(q))
  /\ UNCHANGED <<typesMade, held, typePhase, restarts>>

(* The checkpoint thread completes a pending call                          *)
(* (completePendingP2pRequests) and releases nothing.  An MPI_Issend's     *)
(* entry becomes a receive of MPI_BYTE (awaitSsendAck): it uses the        *)
(* datatype no more, which is all that "completed" says here.              *)
DrainCompletes(q) ==
  /\ typePhase = "run" /\ request[q].state = "pending"
  /\ request' = [request EXCEPT ![q] = [state |-> "completed", type |-> @.type]]
  /\ UNCHANGED <<typesMade, olds, refs, typeTable, held, committed, freed, real, typePhase, restarts>>

-----------------------------------------------------------------------------
(* A restart: a new lower half without datatypes.                          *)
RestartTypes ==
  /\ typePhase = "run" /\ restarts < MaxRestarts
  /\ typePhase' = "restart" /\ restarts' = restarts + 1
  /\ real' = [t \in Types |-> "none"]
  /\ UNCHANGED <<typesMade, olds, refs, typeTable, held, committed, freed, request>>

(* reconstruct_descriptors takes the datatypes in creation order.          *)
ToRemake == {t \in typeTable : real[t] = "none"}
NewestFirst(t) == \A u \in ToRemake : t >= u
IsNext(t) == \A u \in ToRemake : t <= u

(* reconstruct_datatype_desc, when the old types have real handles.        *)
OldsRemade(t) == \A i \in DOMAIN olds[t] : olds[t][i] # Predefined => real[olds[t][i]] # "none"
ReconstructDatatype(t) ==
  /\ typePhase = "restart" /\ t \in ToRemake /\ IsNext(t) /\ OldsRemade(t)
  /\ real' = [real EXCEPT ![t] = IF t \in committed THEN "committed" ELSE "made"]
  /\ UNCHANGED <<typesMade, olds, refs, typeTable, held, committed, freed, request,
                 typePhase, restarts>>

(* replayMpiP2pOnRestart posts the pending receives again.                 *)
ReplayP2p ==
  /\ typePhase = "restart" /\ ToRemake = {}
  /\ \A q \in Requests : request[q].state = "pending"
                           => real[request[q].type] # "none"
  /\ typePhase' = "run"
  /\ UNCHANGED <<typesMade, olds, refs, typeTable, held, committed, freed, request, real, restarts>>

(* The program has made and freed all its datatypes.                       *)
Finished ==
  /\ typePhase = "run" /\ typesMade = MaxTypes /\ held = {}
  /\ \A q \in Requests : request[q] = NoRequest
  /\ UNCHANGED typeVars

(* The order of a struct's members does not matter.                        *)
NewTypes ==
  {new \in UNION {[1 .. n -> held \cup {Predefined}] : n \in 0 .. MaxStruct} :
     \A i \in 1 .. Len(new) - 1 : new[i] <= new[i + 1]}
DatatypesNext ==
  \/ \E new \in NewTypes : NewVirtDatatype(new)
  \/ \E t \in Types : MPI_Type_commit(t) \/ MPI_Type_free(t) \/ ReconstructDatatype(t)
  \/ \E q \in Requests, t \in Types : StartCall(q, t)
  \/ \E q \in Requests : MPI_Wait(q) \/ DrainCompletes(q)
  \/ RestartTypes \/ ReplayP2p \/ Finished

DatatypesSpec == DatatypesInit /\ [][DatatypesNext]_typeVars

-----------------------------------------------------------------------------
(* A datatype's references are the program's, until it has freed the       *)
(* datatype and no pending call needs it, and one for each use by a        *)
(* datatype in the table (virtual_id.h lines 111-113).  So a datatype      *)
(* stays exactly as long as one of those lasts; and none waits in          *)
(* datatypes_freed_while_pending for nothing: the program still has a      *)
(* request that used it, whose MPI_Wait releases it.                       *)
UsesIn(from, t, users) ==
  Cardinality({p \in users \X (1 .. MaxStruct) : p[2] \in DOMAIN from[p[1]] /\ from[p[1]][p[2]] = t})
RefsRight ==
  /\ \A t \in typeTable :
       refs[t] = UsesIn(olds, t, typeTable) + IF t \in held \cup freed THEN 1 ELSE 0
  /\ \A t \in freed : \E q \in Requests : request[q].state # "none" /\ request[q].type = t

(* A restart at any moment finds what it needs in the table: the old types *)
(* of each datatype, and the datatype of each pending call.  It meets an   *)
(* old type only after it has been remade ("The datatypes it was made from *)
(* are older, so they have been remade already", virtual_id.cpp line 497), *)
(* and a datatype that the program committed is committed again before a   *)
(* pending receive uses it.                                                *)
RestartInOrder ==
  /\ \A t \in typeTable : \A i \in DOMAIN olds[t] : olds[t][i] \in typeTable \cup {Predefined}
  /\ \A q \in Requests : request[q].state = "pending" => request[q].type \in typeTable
  /\ typePhase = "restart" => \A t \in ToRemake : IsNext(t) => OldsRemade(t)
  /\ typePhase = "run" => \A q \in Requests :
       request[q].state = "pending" => real[request[q].type] = "committed"

-----------------------------------------------------------------------------
(* Why they hold: an inductive invariant.                                  *)

RequestRecords == [state : {"none", "pending", "completed"}, type : 0 .. MaxTypes]
DatatypeTypes ==
  /\ typesMade \in 0 .. MaxTypes /\ typePhase \in {"run", "restart"}
  /\ olds \in [Types -> Seq(0 .. MaxTypes)] /\ refs \in [Types -> Nat]
  /\ typeTable \subseteq 1 .. typesMade
  /\ held \cap freed = {}
  /\ request \in [Requests -> RequestRecords]
  /\ real \in [Types -> {"none", "made", "committed"}]

(* A datatype is made from older ones, which are in the table as long as   *)
(* it is.                                                                  *)
OldsInv ==
  \A t \in typeTable :
    /\ Len(olds[t]) <= MaxStruct
    /\ \A i \in DOMAIN olds[t] : olds[t][i] < t /\ olds[t][i] \in typeTable \cup {Predefined}

(* The program's datatypes, and those that it has freed and a pending call *)
(* needs, are in the table.                                                *)
HeldInv == held \cup freed \cup committed \subseteq typeTable

(* The datatype of a pending call is one of those, and is committed.       *)
PendingInv ==
  \A q \in Requests : request[q].state = "pending" =>
    request[q].type \in (held \cup freed) \cap committed

(* What the lower half has.                                                *)
RemadeInv ==
  \A t \in typeTable :
    /\ typePhase = "run" => real[t] # "none"
    /\ t \in committed /\ real[t] # "none" => real[t] = "committed"

DatatypeInv ==
  DatatypeTypes /\ OldsInv /\ HeldInv /\ PendingInv /\ RemadeInv /\ RefsRight
=============================================================================
