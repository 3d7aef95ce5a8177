------------------------------ MODULE Wrappers ------------------------------
(***************************************************************************)
(* The wrappers of the MPI functions: what each one does around its call   *)
(* of the MPI library in the lower half, and a checkpoint that may fall    *)
(* between any two of its steps.  A wrapper is the sequence of its steps;  *)
(* the actions run the steps.  The point-to-point wrappers are in P2pDrain *)
(* and the attribute calls, which stay in the upper half, in Keyvals.      *)
(*                                                                         *)
(* The guard of the lower half (LowerHalfGuard) and the collective clock   *)
(* (CollectiveClock) appear as what they promise: a depth that the close   *)
(* waits for, and a critical section that the drain waits for.             *)
(***************************************************************************)
EXTENDS Integers, Sequences, FiniteSets, Functions

CONSTANTS
  Workload,    \* which wrappers the application calls: "all", "files" ...
  MaxObjects,  \* bound: lower-half objects made, with their handles
  MaxCkpts     \* bound: checkpoints

Do(op) == [op |-> op, kind |-> "none"]
Of(op, kind) == [op |-> op, kind |-> kind]
Look(kinds) == [i \in DOMAIN kinds |-> Of("get_real_id", kinds[i])]

(* LOWER_HALF_DISABLE_CKPT ... LOWER_HALF_ENABLE_CKPT                      *)
Guarded(steps) ==
  <<Do("LOWER_HALF_DISABLE_CKPT")>> \o steps \o <<Do("LOWER_HALF_ENABLE_CKPT")>>

(* commit_begin ... commit_finish, around a collective call                *)
Committed(steps) == <<Do("commit_begin")>> \o steps \o <<Do("commit_finish")>>

(* A call on objects of these kinds; one that makes an object of 'kind';   *)
(* one that frees one, in the lower half and then in the table.            *)
LookedUpFirst(kinds) == Look(kinds) \o Guarded(<<Do("call")>>)
OnObjects(kinds) == Guarded(Look(kinds) \o <<Do("call")>>)
NamedLate(kinds, kind) ==
  Guarded(Look(kinds) \o <<Of("make", kind)>>) \o <<Of("new_virt_id", kind)>>
Making(kinds, kind) ==
  Guarded(Look(kinds) \o <<Of("make", kind), Of("new_virt_id", kind)>>)
Freeing(kind) ==
  Guarded(Look(<<kind>>) \o <<Of("unmake", kind), Of("free_virt_id", kind)>>)

-----------------------------------------------------------------------------
(* mpi_collective_wrappers.cpp                                             *)
MPI_Bcast == Committed(OnObjects(<<"comm", "datatype">>))
MPI_Barrier == Committed(OnObjects(<<"comm">>))
MPI_Allreduce == Committed(OnObjects(<<"comm", "datatype", "op">>))
MPI_Reduce == Committed(OnObjects(<<"comm", "datatype", "op">>))
MPI_Reduce_scatter == Committed(OnObjects(<<"comm", "datatype", "op">>))
MPI_Alltoall_internal == OnObjects(<<"comm", "datatype", "datatype">>)
MPI_Alltoall == Committed(MPI_Alltoall_internal)
MPI_Alltoallv == Committed(OnObjects(<<"comm", "datatype", "datatype">>))
MPI_Gather == Committed(OnObjects(<<"comm", "datatype", "datatype">>))
MPI_Gatherv == Committed(OnObjects(<<"comm", "datatype", "datatype">>))
MPI_Scatter == Committed(OnObjects(<<"comm", "datatype", "datatype">>))
MPI_Scatterv == Committed(OnObjects(<<"comm", "datatype", "datatype">>))
MPI_Allgather == Committed(OnObjects(<<"comm", "datatype", "datatype">>))
MPI_Allgatherv == Committed(OnObjects(<<"comm", "datatype", "datatype">>))
MPI_Scan == Committed(OnObjects(<<"comm", "datatype", "op">>))
MPI_Ibcast == Committed(Making(<<"comm", "datatype">>, "request"))
MPI_Ibarrier == Committed(Making(<<"comm">>, "request"))
MPI_Ireduce == Committed(Making(<<"comm", "datatype", "op">>, "request"))
MPI_Iallreduce == Committed(Making(<<"comm", "datatype", "op">>, "request"))
MPI_Ireduce_scatter == Committed(Making(<<"comm", "datatype", "op">>, "request"))
MPI_Iscan == Committed(Making(<<"comm", "datatype", "op">>, "request"))
MPI_Ialltoall == Committed(Making(<<"comm", "datatype", "datatype">>, "request"))
MPI_Ialltoallv == Committed(Making(<<"comm", "datatype", "datatype">>, "request"))
MPI_Iallgather == Committed(Making(<<"comm", "datatype", "datatype">>, "request"))
MPI_Iallgatherv == Committed(Making(<<"comm", "datatype", "datatype">>, "request"))
MPI_Igather == Committed(Making(<<"comm", "datatype", "datatype">>, "request"))
MPI_Igatherv == Committed(Making(<<"comm", "datatype", "datatype">>, "request"))
MPI_Iscatter == Committed(Making(<<"comm", "datatype", "datatype">>, "request"))
MPI_Iscatterv == Committed(Making(<<"comm", "datatype", "datatype">>, "request"))

-----------------------------------------------------------------------------
(* Communicators: mpi_comm_wrappers.cpp, mpi_cart_wrappers.cpp, and        *)
(* MPI_Comm_split and MPI_Comm_dup.  MPI_Comm_free runs the program's      *)
(* delete callbacks first; the real communicator goes later (CommRestart). *)
(* "which" is the argument: a handle of the program, or the newest one.    *)
FreeOf(which) ==
  <<Do("delete_callbacks")>>
    \o Committed(Guarded(<<Of(which, "comm"), Do("call"), Of("free_virt_id", "comm")>>))
MPI_Comm_free == FreeOf("get_real_id")
MPI_Comm_free_internal == Look(<<"comm">>) \o <<Do("call")>>
MPI_Comm_split == Committed(Making(<<"comm">>, "comm"))
MPI_Comm_dup ==
  Committed(Making(<<"comm">>, "comm")) \o <<Do("copy_comm_attributes")>>
MPI_Comm_create == Committed(Making(<<"comm", "group">>, "comm"))
MPI_Comm_split_type == Committed(Making(<<"comm">>, "comm"))
MPI_Comm_create_group_internal == Guarded(Look(<<"comm", "group">>) \o <<Of("make", "comm")>>)
CommittedInside ==
  Guarded(Committed(MPI_Comm_create_group_internal \o <<Of("new_virt_id", "comm")>>))
MPI_Comm_create_group ==
  Committed(Guarded(MPI_Comm_create_group_internal \o <<Of("new_virt_id", "comm")>>))
MPI_Comm_size == OnObjects(<<"comm">>)
MPI_Comm_rank == OnObjects(<<"comm">>)
MPI_Abort == OnObjects(<<"comm">>)
MPI_Comm_compare == OnObjects(<<"comm", "comm">>)
MPI_Comm_set_errhandler == OnObjects(<<"comm">>)
MPI_Topo_test == OnObjects(<<"comm">>)
MPI_Cart_create == Committed(Making(<<"comm">>, "comm"))
MPI_Cart_sub == Committed(Making(<<"comm">>, "comm"))
MPI_Cart_coords == OnObjects(<<"comm">>)
MPI_Cart_get == OnObjects(<<"comm">>)
MPI_Cart_map == OnObjects(<<"comm">>)
MPI_Cart_rank == OnObjects(<<"comm">>)
MPI_Cart_shift == OnObjects(<<"comm">>)
MPI_Cartdim_get == OnObjects(<<"comm">>)
MPI_Dims_create == OnObjects(<<>>)

(* Groups.  MPI_Group_free frees the virtual id only.  MPI_Comm_group      *)
(* makes a virtual id even when the library reports an error.              *)
MPI_Comm_group == Guarded(Look(<<"comm">>) \o <<Of("make", "group"), Of("new_virt_id_always", "group")>>)
MPI_Group_incl == Making(<<"group">>, "group")
MPI_Group_free == Guarded(<<Of("free_virt_id", "group")>>)
MPI_Group_size == OnObjects(<<"group">>)
MPI_Group_rank == OnObjects(<<"group">>)
MPI_Group_compare == OnObjects(<<"group", "group">>)
MPI_Group_translate_ranks == OnObjects(<<"group", "group">>)

(* Operations and datatypes.                                               *)
MPI_Op_create == Making(<<>>, "op")
MPI_Op_free == Freeing("op")
MPI_Reduce_local == OnObjects(<<"datatype", "op">>)
MPI_Type_contiguous == Making(<<"datatype">>, "datatype")
MPI_Type_hvector == Making(<<"datatype">>, "datatype")
MPI_Type_vector == Making(<<"datatype">>, "datatype")
MPI_Type_create_struct == Making(<<"datatype", "datatype">>, "datatype")
MPI_Type_struct == MPI_Type_create_struct
MPI_Type_create_hindexed == Making(<<"datatype">>, "datatype")
MPI_Type_create_hindexed_block == MPI_Type_create_hindexed
MPI_Type_hindexed_block == MPI_Type_create_hindexed_block
MPI_Type_indexed == Making(<<"datatype">>, "datatype")
MPI_Type_dup == Making(<<"datatype">>, "datatype")
MPI_Type_create_resized == Making(<<"datatype">>, "datatype")
MPI_Type_free == Freeing("datatype")
MPI_Type_commit == OnObjects(<<"datatype">>)
MPI_Type_size == OnObjects(<<"datatype">>)
MPI_Type_get_extent == OnObjects(<<"datatype">>)
MPI_Type_get_name == OnObjects(<<"datatype">>)
MPI_Type_size_x == OnObjects(<<"datatype">>)
MPI_Pack_size == OnObjects(<<"datatype", "comm">>)
MPI_Pack == OnObjects(<<"datatype", "comm">>)
MPI_Get_count == OnObjects(<<"datatype">>)
(* These two hand the program's own handle to the library.                 *)
MPI_Get_elements == Guarded(<<Of("untranslated", "datatype"), Do("call")>>)
MPI_Get_elements_x == Guarded(<<Of("untranslated", "datatype"), Do("call")>>)

(* Start, end and enquiries.  MPI_Finalize never lets a checkpoint in      *)
(* again.  g_libmpi_is_initialized is what a checkpoint waits for.         *)
MPI_Init ==
  Guarded(<<Of("make", "comm"), Of("new_virt_id", "comm")>>) \o <<Do("initialized")>>
MPI_Init_thread == MPI_Init
MPI_Finalize ==
  <<Do("delete_callbacks"), Do("LOWER_HALF_DISABLE_CKPT"), Do("call"), Do("end")>>
MPI_Initialized == OnObjects(<<>>)
MPI_Finalized == OnObjects(<<>>)
MPI_Get_processor_name == OnObjects(<<>>)
MPI_Get_library_version == OnObjects(<<>>)
MPI_Get_address == OnObjects(<<>>)
MPI_MANA_Internal == OnObjects(<<>>)
MPI_Error_class == OnObjects(<<>>)
MPI_Error_string == OnObjects(<<>>)
MPI_Request_get_status == OnObjects(<<"request">>)

(* Files.  None of the collective ones has a commit_begin.  MPI_File_open  *)
(* makes two handles: g_params_map has the first one, the program the      *)
(* second.  MPI_File_close frees no virtual id.                            *)
MPI_File_open ==
  Guarded(Look(<<"comm">>)
          \o <<Of("make", "file"), Of("new_key", "file"), Of("new_virt_id", "file")>>)
MPI_File_close ==
  Guarded(Look(<<"file">>) \o <<Of("unmake", "file"), Of("erase_key", "file")>>)
MPI_File_set_view ==
  Guarded(Look(<<"file", "datatype", "datatype">>) \o <<Do("call"), Of("set_key", "file")>>)
MPI_File_get_view == <<>>
MPI_File_delete == OnObjects(<<>>)
MPI_File_get_atomicity == OnObjects(<<"file">>)
MPI_File_set_atomicity == OnObjects(<<"file">>)
MPI_File_set_size == OnObjects(<<"file">>)
MPI_File_get_size == OnObjects(<<"file">>)
MPI_File_read == OnObjects(<<"file", "datatype">>)
MPI_File_read_at == OnObjects(<<"file", "datatype">>)
MPI_File_read_at_all == OnObjects(<<"file", "datatype">>)
MPI_File_read_all == OnObjects(<<"file", "datatype">>)
MPI_File_write == OnObjects(<<"file", "datatype">>)
MPI_File_write_at == OnObjects(<<"file", "datatype">>)
MPI_File_write_at_all == OnObjects(<<"file", "datatype">>)
MPI_File_write_all == OnObjects(<<"file", "datatype">>)
MPI_File_sync == OnObjects(<<"file">>)
MPI_File_get_position == OnObjects(<<"file">>)
MPI_File_seek == OnObjects(<<"file">>)
MPI_File_set_errhandler == OnObjects(<<"file">>)
MPI_File_get_errhandler == OnObjects(<<"file">>)

-----------------------------------------------------------------------------
(* What the application may call.  The two calls that hand over the        *)
(* program's own handle are not in "all".                                  *)
CollectiveCalls ==
  {MPI_Bcast, MPI_Barrier, MPI_Allreduce, MPI_Reduce, MPI_Reduce_scatter, MPI_Alltoall,
   MPI_Alltoallv, MPI_Gather, MPI_Gatherv, MPI_Scatter, MPI_Scatterv, MPI_Allgather,
   MPI_Allgatherv, MPI_Scan, MPI_Ibcast, MPI_Ibarrier, MPI_Ireduce, MPI_Iallreduce,
   MPI_Ireduce_scatter, MPI_Iscan, MPI_Ialltoall, MPI_Ialltoallv, MPI_Iallgather,
   MPI_Iallgatherv, MPI_Igather, MPI_Igatherv, MPI_Iscatter, MPI_Iscatterv,
   MPI_Request_get_status}

CommCalls ==
  {MPI_Comm_free, MPI_Comm_split, MPI_Comm_dup, MPI_Comm_create, MPI_Comm_split_type,
   MPI_Comm_create_group, MPI_Comm_size, MPI_Comm_rank, MPI_Abort, MPI_Comm_compare,
   MPI_Comm_set_errhandler, MPI_Topo_test, MPI_Cart_create, MPI_Cart_sub,
   MPI_Cart_coords, MPI_Cart_get, MPI_Cart_map, MPI_Cart_rank, MPI_Cart_shift,
   MPI_Cartdim_get, MPI_Dims_create, MPI_Comm_group, MPI_Group_incl, MPI_Group_free,
   MPI_Group_size, MPI_Group_rank, MPI_Group_compare, MPI_Group_translate_ranks}

TypeCalls ==
  {MPI_Op_create, MPI_Op_free, MPI_Reduce_local, MPI_Type_contiguous, MPI_Type_hvector,
   MPI_Type_vector, MPI_Type_create_struct, MPI_Type_struct, MPI_Type_create_hindexed,
   MPI_Type_create_hindexed_block, MPI_Type_hindexed_block, MPI_Type_indexed,
   MPI_Type_dup, MPI_Type_create_resized, MPI_Type_free, MPI_Type_commit,
   MPI_Type_size, MPI_Type_get_extent, MPI_Type_get_name, MPI_Type_size_x,
   MPI_Pack_size, MPI_Pack, MPI_Get_count}

OtherCalls ==
  {MPI_Finalize, MPI_Initialized, MPI_Finalized, MPI_Get_processor_name,
   MPI_Get_library_version, MPI_Get_address, MPI_MANA_Internal, MPI_Error_class,
   MPI_Error_string}

FileCalls ==
  {MPI_File_open, MPI_File_close, MPI_File_set_view, MPI_File_get_view, MPI_File_delete,
   MPI_File_get_atomicity, MPI_File_set_atomicity, MPI_File_set_size, MPI_File_get_size,
   MPI_File_read, MPI_File_read_at, MPI_File_read_at_all, MPI_File_read_all,
   MPI_File_write, MPI_File_write_at, MPI_File_write_at_all, MPI_File_write_all,
   MPI_File_sync, MPI_File_get_position, MPI_File_seek, MPI_File_set_errhandler,
   MPI_File_get_errhandler}

Calls ==
  [all |-> CollectiveCalls \cup CommCalls \cup TypeCalls \cup OtherCalls \cup FileCalls,
   files |-> FileCalls,
   elements |-> {MPI_Type_dup, MPI_Get_elements, MPI_Get_elements_x}][Workload]

-----------------------------------------------------------------------------
VARIABLES
  call,        \* the steps left of the wrapper the application is in
  ok,          \* its library call returned MPI_SUCCESS
  looked,      \* the real ids it has looked up: [kind, handle, real]
  made,        \* the object its library call made and no handle names, or None
  result,      \* the handle it made, or 0
  depth,       \* LOWER_HALF_DISABLE_CKPTs not yet enabled
  critical,    \* between commit_begin and commit_finish
  initialized, \* g_libmpi_is_initialized
  ended,       \* MPI_Finalize has returned
  table,       \* the virtual-ID table: handle -> [kind, real]
  held,        \* the handles the application has: [kind, handle]
  params,      \* the keys of g_params_map
  next,        \* the next number for an object or a handle
  life,        \* the lower halves there were before this one
  objects,     \* the objects of the lower half: <<life, number>>
  checkpoint,  \* where the checkpoint is
  behind,      \* the rank has yet to make a collective call others have made
  ckpts        \* checkpoints so far

appVars == <<call, ok, looked, made, result, depth, critical, initialized, ended>>
objectVars == <<table, held, params, next, life, objects>>
ckptVars == <<checkpoint, behind, ckpts>>
wrapperVars == <<appVars, objectVars, ckptVars>>

None == <<>>
Predefined(l) == <<l, 0>>           \* the constants of the lower half l
RequestNull == <<0>>                \* MPI_REQUEST_NULL, of every lower half
Garbage == <<>>                     \* a variable the library left unset

WrappersInit ==
  /\ call = MPI_Init /\ ok = TRUE /\ looked = {} /\ made = None /\ result = 0
  /\ depth = 0 /\ critical = FALSE /\ initialized = FALSE /\ ended = FALSE
  /\ table = <<>> /\ held = {} /\ params = {} /\ next = 1
  /\ life = 0 /\ objects = {Predefined(0)}
  /\ checkpoint = "running" /\ behind = FALSE /\ ckpts = 0

(* DMTCP suspends the threads before PRECHECKPOINT.                        *)
Suspended == checkpoint \in {"saved", "invalid handle"}
At(op) == ~Suspended /\ call # <<>> /\ Head(call).op = op
Kind == Head(call).kind
Done == call' = Tail(call)

(* The program has a handle for each argument that has no usable constant. *)
HasArguments(w) ==
  \A i \in DOMAIN w :
    w[i].op \in {"get_real_id", "untranslated", "free_virt_id"}
      /\ w[i].kind \in {"group", "file", "request"}
      => \E h \in held : h.kind = w[i].kind
WithinBound(w) == next <= MaxObjects \/ \A i \in DOMAIN w : w[i].op # "make"

MakeCall ==
  /\ call = <<>> /\ initialized /\ ~ended /\ ~Suspended
  /\ \E w \in Calls : HasArguments(w) /\ WithinBound(w) /\ call' = w
  /\ result' = 0
  /\ UNCHANGED <<ok, looked, made, depth, critical, initialized, ended, objectVars, ckptVars>>

(* commit_begin: during a drain, only a rank that is behind goes on.       *)
CommitBegin ==
  /\ At("commit_begin") /\ Done
  /\ checkpoint = "running" \/ (checkpoint = "drain" /\ behind)
  /\ critical' = TRUE /\ behind' = FALSE
  /\ UNCHANGED <<ok, looked, made, result, depth, initialized, ended, objectVars, checkpoint, ckpts>>

CommitFinish ==
  /\ At("commit_finish") /\ Done
  /\ critical' = FALSE
  /\ result' = IF Tail(call) = <<>> THEN 0 ELSE result
  /\ UNCHANGED <<ok, looked, made, depth, initialized, ended, objectVars, ckptVars>>

DisableCkpt ==
  /\ At("LOWER_HALF_DISABLE_CKPT") /\ Done
  /\ depth > 0 \/ checkpoint \in {"running", "drain"}
  /\ depth' = depth + 1
  /\ UNCHANGED <<ok, looked, made, result, critical, initialized, ended, objectVars, ckptVars>>

EnableCkpt ==
  /\ At("LOWER_HALF_ENABLE_CKPT") /\ Done
  /\ depth' = depth - 1
  /\ looked' = IF depth = 1 THEN {} ELSE looked
  /\ ok' = (depth = 1 \/ ok)
  /\ result' = IF Tail(call) = <<>> THEN 0 ELSE result
  /\ UNCHANGED <<made, critical, initialized, ended, objectVars, ckptVars>>

(* get_real_id: of a handle the program has or of a predefined constant.   *)
GetRealId ==
  /\ At("get_real_id") /\ Done
  /\ \/ /\ Kind \in {"comm", "datatype", "op"}
        /\ looked' = looked \cup {[kind |-> Kind, handle |-> 0, real |-> Predefined(life)]}
     \/ \E h \in held :
          /\ h.kind = Kind /\ h.handle \in DOMAIN table
          /\ looked' = looked \cup {[kind |-> Kind, handle |-> h.handle,
                                     real |-> table[h.handle].real]}
  /\ UNCHANGED <<ok, made, result, depth, critical, initialized, ended, objectVars, ckptVars>>

(* get_real_id of the communicator that MPI_Comm_dup has just made.        *)
GetRealIdOfNewest ==
  /\ At("get_newest") /\ Done
  /\ looked' = looked \cup {[kind |-> Kind, handle |-> result, real |-> table[result].real]}
  /\ UNCHANGED <<ok, made, result, depth, critical, initialized, ended, objectVars, ckptVars>>

(* The handle itself, where the wrapper does not translate it.             *)
PassHandle ==
  /\ At("untranslated") /\ Done
  /\ \/ looked' = looked \cup {[kind |-> Kind, handle |-> 0, real |-> Predefined(life)]}
     \/ \E h \in held :
          /\ h.kind = Kind
          /\ looked' = looked \cup {[kind |-> Kind, handle |-> h.handle, real |-> <<h.handle>>]}
  /\ UNCHANGED <<ok, made, result, depth, critical, initialized, ended, objectVars, ckptVars>>

CallLibrary ==
  /\ At("call") /\ Done
  /\ ok' \in BOOLEAN
  /\ UNCHANGED <<looked, made, result, depth, critical, initialized, ended, objectVars, ckptVars>>

(* A call that makes an object: it may fail, or return a null handle.      *)
Make ==
  /\ At("make") /\ Done
  /\ \/ /\ ok' = FALSE /\ initialized
        /\ UNCHANGED <<made, next, objects>>
     \/ /\ ok' = TRUE /\ Kind \in {"comm", "group"} /\ initialized
        /\ UNCHANGED <<made, next, objects>>
     \/ /\ ok' = TRUE
        /\ made' = <<life, next>> /\ next' = next + 1
        /\ objects' = objects \cup {<<life, next>>}
  /\ UNCHANGED <<looked, result, depth, critical, initialized, ended,
                 table, held, params, life, ckptVars>>

(* A call that frees an object; the library refuses a constant.            *)
Unmake ==
  /\ At("unmake") /\ Done
  /\ \/ ok' = FALSE /\ UNCHANGED objects
     \/ \E l \in looked :
          /\ l.kind = Kind /\ l.handle # 0
          /\ ok' = TRUE /\ objects' = objects \ {l.real}
  /\ UNCHANGED <<looked, made, result, depth, critical, initialized, ended,
                 table, held, params, next, life, ckptVars>>

(* new_virt_*: nothing to name after a failure or a null handle.  The      *)
(* handle MPI_Init makes is MANA's own (g_world_comm).                     *)
Named(h, real) ==
  table' = [g \in DOMAIN table \cup {h} |->
              IF g = h THEN [kind |-> Kind, real |-> real] ELSE table[g]]
NewVirtId ==
  /\ At("new_virt_id") /\ Done
  /\ IF made = None
     THEN result' = 0 /\ UNCHANGED <<made, table, held, next>>
     ELSE /\ Named(next, made)
          /\ made' = None /\ result' = next /\ next' = next + 1
          /\ held' = IF initialized THEN held \cup {[kind |-> Kind, handle |-> next]} ELSE held
  /\ UNCHANGED <<ok, looked, depth, critical, initialized, ended,
                 params, life, objects, ckptVars>>

(* MPI_Comm_group: after an error it names whatever the variable held.     *)
NewVirtIdAlways ==
  /\ At("new_virt_id_always") /\ Done
  /\ IF ok /\ made = None
     THEN result' = 0 /\ UNCHANGED <<made, table, held, next>>
     ELSE /\ Named(next, IF ok THEN made ELSE Garbage)
          /\ made' = None /\ result' = next /\ next' = next + 1
          /\ held' = IF ok THEN held \cup {[kind |-> Kind, handle |-> next]} ELSE held
  /\ UNCHANGED <<ok, looked, depth, critical, initialized, ended,
                 params, life, objects, ckptVars>>

(* free_virt_id, free_virt_datatype: a datatype that others are made from  *)
(* stays in the table (Datatypes).                                         *)
Arguments == {l.handle : l \in {k \in looked : k.kind = Kind}}
FreeVirtIdStep ==
  /\ At("free_virt_id") /\ Done
  /\ IF ~ok \/ Arguments = {0}
     THEN UNCHANGED <<table, held>>
     ELSE \E h \in IF Arguments = {} THEN {g.handle : g \in {g \in held : g.kind = Kind}}
                   ELSE Arguments :
            /\ held' = {g \in held : g.handle # h}
            /\ \/ table' = Restrict(table, DOMAIN table \ {h})
               \/ Kind = "datatype" /\ UNCHANGED table
  /\ UNCHANGED <<ok, looked, made, result, depth, critical, initialized, ended,
                 params, next, life, objects, ckptVars>>

(* The keys of g_params_map: MPI_File_open, MPI_File_set_view,             *)
(* MPI_File_close.                                                         *)
NewKey ==
  /\ At("new_key") /\ Done
  /\ IF made = None
     THEN UNCHANGED <<table, params, next>>
     ELSE /\ Named(next, made)
          /\ params' = params \cup {next} /\ next' = next + 1
  /\ UNCHANGED <<ok, looked, made, result, depth, critical, initialized, ended,
                 held, life, objects, ckptVars>>

SetKey ==
  /\ At("set_key") /\ Done
  /\ params' = IF ok THEN params \cup Arguments ELSE params
  /\ UNCHANGED <<ok, looked, made, result, depth, critical, initialized, ended,
                 table, held, next, life, objects, ckptVars>>

EraseKey ==
  /\ At("erase_key") /\ Done
  /\ IF ok THEN /\ params' = params \ Arguments
                /\ held' = {h \in held : h.handle \notin Arguments}
           ELSE UNCHANGED <<params, held>>
  /\ UNCHANGED <<ok, looked, made, result, depth, critical, initialized, ended,
                 table, next, life, objects, ckptVars>>

(* The program's callbacks may make an MPI call of their own, and fail.    *)
DeleteCallbacks ==
  /\ At("delete_callbacks")
  /\ call' \in {Tail(call), MPI_Allreduce \o Tail(call), <<>>}
  /\ UNCHANGED <<ok, looked, made, result, depth, critical, initialized, ended,
                 objectVars, ckptVars>>

CopyCommAttributes ==
  /\ At("copy_comm_attributes")
  /\ \/ /\ call' \in {Tail(call), MPI_Allreduce \o Tail(call)}
        /\ result # 0 \/ call' = Tail(call)
        /\ UNCHANGED held
     \/ /\ result # 0
        /\ call' = FreeOf("get_newest")
        /\ held' = {h \in held : h.handle # result}
  /\ UNCHANGED <<ok, looked, made, result, depth, critical, initialized, ended,
                 table, params, next, life, objects, ckptVars>>

Initialized ==
  /\ At("initialized") /\ Done
  /\ initialized' = TRUE
  /\ UNCHANGED <<ok, looked, made, result, depth, critical, ended, objectVars, ckptVars>>

End ==
  /\ At("end") /\ Done
  /\ ended' = TRUE
  /\ UNCHANGED <<ok, looked, made, result, depth, critical, initialized, objectVars, ckptVars>>

-----------------------------------------------------------------------------
(* PRESUSPEND waits for MPI_Init; others may be ahead of this rank.        *)
RequestCheckpoint ==
  /\ checkpoint = "running" /\ initialized /\ ckpts < MaxCkpts
  /\ checkpoint' = "drain" /\ ckpts' = ckpts + 1 /\ behind' \in BOOLEAN
  /\ UNCHANGED <<appVars, objectVars>>

(* drain_mpi_collective has returned; close_lower_half shuts the door.     *)
CloseLowerHalf ==
  /\ checkpoint = "drain" /\ ~behind /\ ~critical
  /\ checkpoint' = "closing"
  /\ UNCHANGED <<appVars, objectVars, behind, ckpts>>

(* The lower half is empty; complete_pending_nonblocking_collectives.      *)
DrainRequests ==
  /\ checkpoint = "closing" /\ depth = 0
  /\ checkpoint' = "closed"
  /\ table' = [h \in DOMAIN table |->
                 IF table[h].kind = "request" THEN [table[h] EXCEPT !.real = RequestNull]
                                              ELSE table[h]]
  /\ UNCHANGED <<appVars, held, params, next, life, objects, behind, ckpts>>

(* PRECHECKPOINT, with the threads suspended.  Through MPI_File_get_*      *)
(* save_mpi_files asks the library about the file of every key that        *)
(* g_params_map has, and the file it writes has these keys.                *)
SavedFiles == {table[k].real : k \in params}
save_mpi_files ==
  /\ checkpoint = "closed" /\ checkpoint' = "saved"
  /\ UNCHANGED <<appVars, objectVars, behind, ckpts>>

Resume ==
  /\ checkpoint = "saved" /\ checkpoint' = "running"
  /\ UNCHANGED <<appVars, objectVars, behind, ckpts>>

(* A new lower half: reconstruct_descriptors, in any order here            *)
(* (CommRestart, Datatypes), then restore_mpi_files.  For each key it      *)
(* opens the file again and hands the real handle to wrappers, which find  *)
(* no such virtual id and loop in get_real_id_slow.                        *)
Rebuilt == {h \in DOMAIN table : table[h].kind \in {"comm", "group", "op", "datatype"}}
Restart ==
  /\ checkpoint = "saved"
  /\ life' = life + 1
  /\ objects' = {Predefined(life + 1)} \cup ({life + 1} \X (Rebuilt \cup params))
  /\ table' = [h \in DOMAIN table |->
                 IF h \in Rebuilt \cup params THEN [table[h] EXCEPT !.real = <<life + 1, h>>]
                                             ELSE table[h]]
  /\ checkpoint' = IF params = {} THEN "running" ELSE "invalid handle"
  /\ UNCHANGED <<appVars, held, params, next, behind, ckpts>>

(* MPI_Finalize has returned; or the restart loops for ever.               *)
Ended == ended /\ call = <<>> /\ UNCHANGED wrapperVars
Stuck == checkpoint = "invalid handle" /\ UNCHANGED wrapperVars

AppStep ==
  \/ CommitBegin \/ CommitFinish \/ DisableCkpt \/ EnableCkpt
  \/ GetRealId \/ GetRealIdOfNewest \/ PassHandle \/ CallLibrary \/ Make \/ Unmake
  \/ NewVirtId \/ NewVirtIdAlways \/ FreeVirtIdStep \/ NewKey \/ SetKey \/ EraseKey
  \/ DeleteCallbacks \/ CopyCommAttributes \/ Initialized \/ End
CkptStep == CloseLowerHalf \/ DrainRequests \/ save_mpi_files \/ Resume \/ Restart

WrappersNext == MakeCall \/ AppStep \/ RequestCheckpoint \/ CkptStep \/ Ended \/ Stuck

WrappersSpec == WrappersInit /\ [][WrappersNext]_wrapperVars

-----------------------------------------------------------------------------

(* The library is given objects of the lower half it is in: no real id     *)
(* that a wrapper the program calls has looked up is from before a         *)
(* restart, freed, or a handle of the program's (get_real_id inside the    *)
(* guard, before each NEXT_FUNC), whichever other than MPI_Get_elements    *)
(* and MPI_Get_elements_x it is; nor is the real id of a file the program  *)
(* has open, when save_mpi_files asks about it.                            *)
OpenFiles == {table[h.handle].real : h \in {g \in held : g.kind = "file"}}
CallsUseLiveObjects ==
  /\ At("call") \/ At("make") \/ At("unmake") =>
       \A l \in looked : l.real \in objects \cup {RequestNull}
  /\ checkpoint = "saved" =>
       SavedFiles \cap OpenFiles \subseteq objects \cup {RequestNull}

(* The rest of what save_mpi_files asks about.  MPI_File_close: "Remove    *)
(* closed file ... we just don't want to accidentally restore this handle" *)
(* (mpi_file_wrappers.cpp); so no closed file is asked about, or saved.    *)
SavesOpenFiles == checkpoint = "saved" => SavedFiles \subseteq objects

(* While the lower half is closed for a checkpoint, every object the       *)
(* program has is in the virtual-ID table with an object behind it, and    *)
(* none exists that only a library call's result names: a restart remakes  *)
(* what the table has and nothing else.                                    *)
NothingLost ==
  checkpoint \in {"closed", "saved"} =>
    /\ made = None
    /\ \A h \in held :
         h.handle \in DOMAIN table /\ table[h.handle].real \in objects \cup {RequestNull}

(* commit_begin may wait for a whole checkpoint, and a checkpoint waits    *)
(* for the lower half to empty and for critical sections to end: no thread *)
(* is in either when it comes to a commit_begin, its callbacks' included.  *)
CommitsOutside == At("commit_begin") => depth = 0 /\ ~critical

(* After a restart every file the program has open is open in the new      *)
(* lower half, and the restart itself gets done.                           *)
FilesRestored ==
  /\ checkpoint # "invalid handle"
  /\ life > 0 => \A h \in held : h.kind = "file" => table[h.handle].real \in objects

=============================================================================
