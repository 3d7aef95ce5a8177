------------------------------ MODULE MCObjects ------------------------------
(***************************************************************************)
(* The upper half's MPI objects in one rank, for TLC: the virtual-ID table *)
(* (VirtualIds), the wrappers that use it (Wrappers) and the attributes of *)
(* communicators (Keyvals).  The three share no variable: a wrapper's      *)
(* table is what VirtualIds promises.  So 'part' picks one at the start    *)
(* and the others stand still.                                             *)
(***************************************************************************)
EXTENDS VirtualIds, Wrappers, Keyvals, TLC

CONSTANTS a, b

VARIABLE part

-----------------------------------------------------------------------------
(* The instance.  Slot 1 has a handle that equals a predefined constant;   *)
(* the number 1 is a predefined keyval, as in Open MPI.                    *)
TwoKinds == {"comm", "request"}
OneConstant == {<<"comm", 1, 1>>}
AllComms == {a, b, Self}
OnePredefined == {1}
Interchangeable == Permutations({a, b})

ObjectsInit == part \in {"table", "wrappers", "attributes"} /\ Init /\ WrappersInit /\ KeyvalsInit
TableStep == part = "table" /\ Next /\ UNCHANGED <<part, wrapperVars, keyvalVars>>
WrapperStep == part = "wrappers" /\ WrappersNext /\ UNCHANGED <<part, vars, keyvalVars>>
AttributeStep == part = "attributes" /\ KeyvalsNext /\ UNCHANGED <<part, vars, wrapperVars>>
ObjectsNext == TableStep \/ WrapperStep \/ AttributeStep
ObjectsSpec == ObjectsInit /\ [][ObjectsNext]_<<part, vars, wrapperVars, keyvalVars>>
=============================================================================
