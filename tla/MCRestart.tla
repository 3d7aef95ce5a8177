------------------------------ MODULE MCRestart ------------------------------
(***************************************************************************)
(* What a restart makes again, for TLC: the communicators of several ranks *)
(* (CommRestart) and the datatypes of one (Datatypes).  They share no      *)
(* variable, so 'part' picks one at the start and the other stands still.  *)
(***************************************************************************)
EXTENDS CommRestart, Datatypes

VARIABLE part

-----------------------------------------------------------------------------
(* The instance: MPI_Comm_dup of MPI_COMM_WORLD or of its duplicate, a     *)
(* split into two that reorders, and MPI_Comm_create_group of two ranks.   *)
SomeSplits == {<< <<0, 1, 2>> >>, << <<1, 0>>, <<2>> >>}
SomeGroups == {<<2, 0>>}

RestartInit == part \in {"communicators", "datatypes"} /\ Init /\ DatatypesInit
CommStep == part = "communicators" /\ Next /\ UNCHANGED <<part, typeVars>>
TypeStep == part = "datatypes" /\ DatatypesNext /\ UNCHANGED <<part, vars>>
RestartNext == CommStep \/ TypeStep
RestartSpec == RestartInit /\ [][RestartNext]_<<part, vars, typeVars>>
=============================================================================
