------------------------------- MODULE MemArena -------------------------------
(***************************************************************************)
(* The memory of one process (lower-half/mem-wrapper.cpp): which pages are *)
(* the upper half's, the two block lists that mmap(), munmap() and         *)
(* mremap() of the upper half keep, what of it the checkpoint image saves  *)
(* (mpi_plugin.cpp), and how a restart maps it again (lower-half.cpp).     *)
(*                                                                         *)
(* Addresses are page numbers, lengths are in pages (ROUND_UP); 0 is NULL. *)
(* Each wrapper holds lock_wrappers(), with signals blocked, for all of    *)
(* its work, so each is one step; the lower half maps between them.        *)
(***************************************************************************)
EXTENDS Integers, Sequences, FiniteSets, FiniteSetsExt

CONSTANTS
  LastPage,   \* pages 1 .. LastPage; the first and the last are the lower half's
  Stack,      \* [addr, len]: uh_stack_start, uh_stack_end
  MaxLen,     \* bound: pages of one request
  MaxAlign,   \* the largest alignment of a hint that is kept (2 MB)
  MaxTries,   \* 16
  MaxLhMaps,  \* bound: mappings of the lower half in one process
  MaxCkpts,   \* bound: restarts
  ZeroOld     \* whether the program calls mremap() with old_size 0

ASSUME ArenaConstants ==
  /\ LastPage \in Nat /\ MaxLen \in Nat /\ MaxAlign \in Nat /\ MaxTries \in Nat
  /\ Stack \in [addr : 2 .. LastPage, len : 1 .. LastPage]
  /\ Stack.addr + Stack.len <= LastPage

Pages == 1 .. LastPage
Lens == 1 .. MaxLen
End(b) == b.addr + b.len
PagesOf(b) == b.addr .. End(b) - 1
Block(addr, len) == [addr |-> addr, len |-> len]
Covered(list) == UNION {PagesOf(list[i]) : i \in DOMAIN list}

VARIABLES
  uh,                  \* the pages the upper half has mapped
  lh,                  \* the pages the lower half has mapped
  allocated_blocks, free_blocks,
  max_allocated_addr, arena_base,
  arena_end,           \* where the arena's first free block ended
  phase,               \* "run"; "reserved": a restart, before the restore
  image,               \* the pages the image being restarted from saved
  lhMaps, ckpts,
  everLh,              \* pages the lower half has had in this process
  refused              \* the length the arena has just refused, or 0

arenaVars == <<uh, lh, allocated_blocks, free_blocks, max_allocated_addr, arena_base,
               arena_end, phase, image, lhMaps, ckpts, everLh, refused>>
lists == <<allocated_blocks, free_blocks, max_allocated_addr>>
process == <<arena_base, arena_end, phase, image, ckpts>>

-----------------------------------------------------------------------------
(* The block lists: vectors that are sorted after each change.             *)
mem_compare(x, y) == x.addr < y.addr
InOrder(blocks) ==
  [i \in 1 .. Cardinality(blocks) |->
     CHOOSE b \in blocks : Cardinality({c \in blocks : mem_compare(c, b)}) = i - 1]

(* The blocks that overlap or touch new_block become one with it.          *)
Meets(b, m) == End(b) >= m.addr /\ b.addr <= End(m)
Absorb(m, b) == Block(Min({b.addr, m.addr}), Max({End(b), End(m)}) - Min({b.addr, m.addr}))
MergeStep(acc, b) ==
  IF Meets(b, acc.merged) THEN [merged |-> Absorb(acc.merged, b), kept |-> acc.kept]
  ELSE [merged |-> acc.merged, kept |-> acc.kept \cup {b}]
merge_overlap_blocks(new_block, blocks) ==
  LET after[i \in 0 .. Len(blocks)] ==
        IF i = 0 THEN [merged |-> new_block, kept |-> {}]
        ELSE MergeStep(after[i - 1], blocks[i])
      done == after[Len(blocks)]
  IN InOrder(done.kept \cup {done.merged})

(* What is left of b without new_block: the part in front, the part behind. *)
Front(b, new_block) == Block(b.addr, new_block.addr - b.addr)
Behind(b, new_block) == Block(End(new_block), End(b) - End(new_block))
Misses(b, new_block) == End(b) <= new_block.addr \/ b.addr >= End(new_block)
FrontOnly(b, new_block) ==
  IF Misses(b, new_block) THEN {b} ELSE {x \in {Front(b, new_block)} : x.len > 0}
Left(b, new_block) ==
  IF Misses(b, new_block) THEN {b}
  ELSE {x \in {Front(b, new_block), Behind(b, new_block)} : x.len > 0}
remove_overlap_blocks(new_block, blocks) ==
  InOrder(UNION {Left(blocks[i], new_block) : i \in DOMAIN blocks})

-----------------------------------------------------------------------------
(* /proc/self/maps.  The kernel shows adjacent mappings as one area.       *)
Mapped == uh \cup lh
Runs(pages) ==
  {b \in [addr : pages, len : 1 .. LastPage] :
     /\ PagesOf(b) \subseteq pages
     /\ b.addr - 1 \notin pages /\ End(b) \notin pages}

(* The first free block that holds length pages at the hint's alignment.   *)
Alignment(hint) ==
  LET aligns == {align \in 1 .. LastPage : align \in {1, 2, 4, 8, 16, 32} /\ hint % align = 0}
  IN IF hint # 0 /\ Max(aligns) <= MaxAlign THEN Max(aligns) ELSE 1
RoundUp(addr, align) == ((addr + align - 1) \div align) * align
next_free_addr(free, hint, length) ==
  LET aligned(i) == RoundUp(free[i].addr, Alignment(hint))
      fits == {i \in DOMAIN free : aligned(i) - free[i].addr + length <= free[i].len}
  IN IF fits = {} THEN 0 ELSE aligned(Min(fits))

(* The arena ends where the first area begins that begins above its base;  *)
(* an area of the lower half that begins below, next to the restored       *)
(* memory, is inside it, and a request that meets it collides.             *)
FirstMappingAbove(base, mapped) ==
  LET starts == {p \in mapped : p >= base /\ p - 1 \notin mapped}
  IN IF starts = {} THEN LastPage + 1 ELSE Min(starts)
init_mem_arena(base, mapped) == <<Block(base, FirstMappingAbove(base, mapped) - base)>>

(* arena_mmap: after a collision the mappings in the way leave the free    *)
(* list and the next fit is tried.  An address of 0 is MAP_FAILED.         *)
KeptFree(free, want) == free
Collided(free, want) ==
  LET areas == InOrder({area \in Runs(Mapped) : PagesOf(area) \cap PagesOf(want) # {}})
      after[i \in 0 .. Len(areas)] ==
        IF i = 0 THEN free ELSE remove_overlap_blocks(areas[i], after[i - 1])
  IN after[Len(areas)]

ReplacesNone(want) == PagesOf(want) \cap Mapped = {}

Tried(s, hint, length) ==
  LET addr == next_free_addr(s.free, hint, length) IN
  IF s.addr # 0 \/ addr = 0 THEN s
  ELSE IF ReplacesNone(Block(addr, length)) THEN [addr |-> addr, free |-> s.free]
  ELSE [addr |-> 0, free |-> Collided(s.free, Block(addr, length))]
arena_mmap(hint, length) ==
  LET after[tries \in 0 .. MaxTries] ==
        IF tries = 0 THEN [addr |-> 0, free |-> free_blocks]
        ELSE Tried(after[tries - 1], hint, length)
  IN after[MaxTries]

-----------------------------------------------------------------------------
(* The whole range that is recorded as the stack counts as mapped: the     *)
(* kernel maps what is below the copied top (deepCopyStack) as it grows.   *)
ArenaInit ==
  /\ uh = PagesOf(Stack)
  /\ lh = {1, LastPage}
  /\ allocated_blocks = <<>>
  /\ arena_base = End(Stack) + 1
  /\ free_blocks = init_mem_arena(End(Stack) + 1, uh \cup lh)
  /\ arena_end = End(free_blocks[1])
  /\ max_allocated_addr = 0
  /\ phase = "run" /\ image = {}
  /\ lhMaps = 0 /\ ckpts = 0
  /\ everLh = lh /\ refused = 0

Recorded(block, free) ==
  /\ allocated_blocks' = merge_overlap_blocks(block, allocated_blocks)
  /\ free_blocks' = remove_overlap_blocks(block, free)
Raised(addr) == max_allocated_addr' = Max({max_allocated_addr, addr})

(* mmap(): an address the arena chooses, never over a mapping ...  If the  *)
(* kernel has no memory for it, arena_mmap returns at once.                *)
MmapChosen(addr, length, fails) ==
  LET found == arena_mmap(addr, length) IN
  /\ UNCHANGED <<lh, everLh, lhMaps, process>>
  /\ refused' = IF found.addr = 0 /\ addr = 0 THEN length ELSE 0
  /\ IF found.addr = 0 \/ fails
     THEN free_blocks' = found.free /\ UNCHANGED <<uh, allocated_blocks, max_allocated_addr>>
     ELSE /\ uh' = uh \cup PagesOf(Block(found.addr, length))
          /\ Raised(found.addr + length)
          /\ Recorded(Block(found.addr, length), found.free)

(* ... or, with MAP_FIXED, the caller's, which replaces what is there.     *)
MmapFixed(addr, length, fails) ==
  /\ ~fails /\ refused' = 0
  /\ uh' = uh \cup PagesOf(Block(addr, length))
  /\ Recorded(Block(addr, length), free_blocks)
  /\ UNCHANGED <<lh, everLh, lhMaps, max_allocated_addr, process>>

IsChosen(addr, fixed) ==
  addr = 0 \/ ~fixed \/ (max_allocated_addr # 0 /\ addr > max_allocated_addr)

(* A program maps with MAP_FIXED over memory of its own, or free memory.   *)
mmap_wrapper(addr, length, fixed, fails) ==
  /\ phase = "run"
  /\ fixed => addr # 0 /\ PagesOf(Block(addr, length)) \subseteq Pages \ lh
  /\ IF IsChosen(addr, fixed) THEN MmapChosen(addr, length, fails)
     ELSE MmapFixed(addr, length, fails)

Unmapped(block) ==
  /\ allocated_blocks' = remove_overlap_blocks(block, allocated_blocks)
  /\ free_blocks' = merge_overlap_blocks(block, free_blocks)

munmap_wrapper(block) ==
  /\ phase = "run"
  /\ PagesOf(block) \subseteq uh \ PagesOf(Stack)
  /\ uh' = uh \ PagesOf(block)
  /\ Unmapped(block)
  /\ refused' = 0
  /\ UNCHANGED <<lh, everLh, lhMaps, max_allocated_addr, process>>

-----------------------------------------------------------------------------
(* mremap() of the pages old to new_size pages.                            *)
is_free_range(addr, len) ==
  \E i \in DOMAIN free_blocks : free_blocks[i].addr <= addr /\ addr + len <= End(free_blocks[i])

(* The lists after the mapping old is at new: the last lines of            *)
(* __mremap_wrapper, with the free list that arena_mmap left.              *)
MovedLists(old, new, dontunmap, free) ==
  /\ allocated_blocks' =
       merge_overlap_blocks(new, IF dontunmap THEN allocated_blocks
                                 ELSE remove_overlap_blocks(old, allocated_blocks))
  /\ free_blocks' =
       remove_overlap_blocks(new, IF dontunmap THEN free ELSE merge_overlap_blocks(old, free))

Moved(old, new, dontunmap, free) ==
  /\ uh' = (uh \ (IF dontunmap THEN {} ELSE PagesOf(old))) \cup PagesOf(new)
  /\ MovedLists(old, new, dontunmap, free)

GrowsInPlace(old, new_size) ==
  LET more == PagesOf(Block(End(old), new_size - old.len))
  IN new_size <= old.len
       \/ (is_free_range(End(old), new_size - old.len) /\ more \cap Mapped = {})

(* In place when the free list allows it and the kernel finds no mapping   *)
(* in the way; otherwise, with MREMAP_MAYMOVE, to a range that arena_mmap  *)
(* reserves.  The kernel may refuse each of the three; if it is the move,  *)
(* the range is unmapped.                                                  *)
mremap_wrapper(old, new_size, maymove, dontunmap, refuses) ==
  /\ phase = "run"
  /\ PagesOf(old) \subseteq uh \ PagesOf(Stack)
  /\ dontunmap => maymove
  /\ {"range", "move"} \cap refuses # {} => maymove
  /\ UNCHANGED <<lh, everLh, lhMaps, process>> /\ refused' = 0
  /\ IF ~dontunmap /\ GrowsInPlace(old, new_size) /\ "in place" \notin refuses
     THEN Moved(old, Block(old.addr, new_size), dontunmap, free_blocks)
          /\ Raised(old.addr + new_size)
     ELSE LET found == arena_mmap(0, new_size) IN
          IF ~maymove THEN UNCHANGED <<uh, lists>>
          ELSE IF found.addr = 0 \/ "range" \in refuses
               THEN free_blocks' = found.free
                    /\ UNCHANGED <<uh, allocated_blocks, max_allocated_addr>>
          ELSE IF "move" \in refuses
               THEN /\ free_blocks' = found.free /\ Raised(found.addr + new_size)
                    /\ UNCHANGED <<uh, allocated_blocks>>
               ELSE Moved(old, Block(found.addr, new_size), dontunmap, found.free)
                    /\ Raised(found.addr + new_size)

(* With MREMAP_FIXED the kernel moves old to an address of the caller's,   *)
(* over what is there: the lists follow.                                   *)
mremap_fixed(old, new, dontunmap) ==
  /\ phase = "run"
  /\ PagesOf(old) \subseteq uh \ PagesOf(Stack)
  /\ PagesOf(new) \subseteq Pages \ (lh \cup PagesOf(Stack) \cup PagesOf(old))
  /\ dontunmap => new.len = old.len
  /\ Moved(old, new, dontunmap, free_blocks)
  /\ Raised(End(new)) /\ refused' = 0
  /\ UNCHANGED <<lh, everLh, lhMaps, process>>

(* With an old_size of 0 as well it duplicates a shared mapping there.     *)
mremap_duplicate(addr, new) ==
  /\ ZeroOld /\ phase = "run"
  /\ addr \in uh \ PagesOf(Stack) /\ addr + new.len - 1 \in uh
  /\ PagesOf(new) \subseteq Pages \ (lh \cup PagesOf(Stack) \cup {addr})
  /\ Moved(Block(addr, 0), new, FALSE, free_blocks)
  /\ Raised(End(new)) /\ refused' = 0
  /\ UNCHANGED <<lh, everLh, lhMaps, process>>

-----------------------------------------------------------------------------
(* The lower half's own mappings: the kernel chooses where.                *)
LhMap(block) ==
  /\ lhMaps < MaxLhMaps
  /\ PagesOf(block) \subseteq Pages \ (Mapped \cup (IF phase = "reserved" THEN image ELSE {}))
  /\ lh' = lh \cup PagesOf(block)
  /\ everLh' = everLh \cup PagesOf(block)
  /\ lhMaps' = lhMaps + 1 /\ refused' = 0
  /\ UNCHANGED <<uh, lists, process>>

LhUnmap(page) ==
  /\ phase = "run" /\ page \in lh \ {1, LastPage}
  /\ lh' = lh \ {page} /\ refused' = 0
  /\ UNCHANGED <<uh, everLh, lhMaps, lists, process>>

-----------------------------------------------------------------------------
(* The image: DMTCP walks an area of /proc/self/maps and asks, at each     *)
(* address it has reached, what to skip and what to save.                  *)
RegionsOnly(addr) ==
  LET above == {i \in DOMAIN allocated_blocks : End(allocated_blocks[i]) > addr}
  IN IF above = {} THEN Block(0, 0) ELSE allocated_blocks[Min(above)]
nextUpperHalfRange(addr) ==
  LET above == {i \in DOMAIN allocated_blocks : End(allocated_blocks[i]) > addr}
      region == IF above = {} THEN Block(0, 0) ELSE allocated_blocks[Min(above)]
  IN IF End(Stack) > addr /\ (above = {} \/ Stack.addr < region.addr) THEN Stack ELSE region

Saved(area) ==
  LET from[addr \in area.addr .. End(area)] ==
        LET range == nextUpperHalfRange(addr)
            until == Min({End(range), End(area)})
        IN IF addr = End(area) \/ range.len = 0 \/ range.addr >= End(area) THEN {}
           ELSE IF range.addr > addr THEN from[range.addr]
           ELSE (addr .. until - 1) \cup from[until]
  IN from[area.addr]
SavedPages == UNION {Saved(area) : area \in Runs(Mapped)}

(* A restart: a new lower half, at some pages, has reserved the pages of   *)
(* the image without replacing any.  (If it has one of them already, the   *)
(* restart stops in reserve_memory_areas.)                                 *)
NewLowerHalf(pages) ==
  /\ phase = "run" /\ ckpts < MaxCkpts
  /\ ({1, LastPage} \cup pages) \cap SavedPages = {}
  /\ ckpts' = ckpts + 1 /\ image' = SavedPages /\ phase' = "reserved"
  /\ uh' = {} /\ lh' = {1, LastPage} \cup pages
  /\ allocated_blocks' = <<>> /\ free_blocks' = <<>>
  /\ max_allocated_addr' = 0 /\ arena_base' = 0 /\ arena_end' = 0
  /\ lhMaps' = 0 /\ everLh' = lh' /\ refused' = 0

(* release_reserved_memory, restore_memory_data and                        *)
(* init_mem_arena_after_restore.                                           *)
Restored ==
  LET areas == InOrder(Runs(image))
      after[i \in 0 .. Len(areas)] ==
        IF i = 0 THEN <<>> ELSE merge_overlap_blocks(areas[i], after[i - 1])
  IN after[Len(areas)]
RestoreMemory ==
  /\ phase = "reserved" /\ phase' = "run"
  /\ uh' = image /\ UNCHANGED lh
  /\ allocated_blocks' = Restored
  /\ max_allocated_addr' = Max({p + 1 : p \in image})
  /\ arena_base' = max_allocated_addr'
  /\ free_blocks' = init_mem_arena(arena_base', uh' \cup lh')
  /\ arena_end' = End(free_blocks'[1])
  /\ refused' = 0 /\ image' = {}
  /\ UNCHANGED <<ckpts, lhMaps, everLh>>

Blocks == {b \in [addr : Pages, len : Lens] : End(b) <= LastPage + 1}
Hints == {0, 2}  \* of a hint only the alignment matters
Refusals == {{}, {"in place"}, {"range"}, {"move"}, {"in place", "range"}, {"in place", "move"}}

ArenaNext ==
  \/ \E a \in Hints, n \in Lens, fails \in BOOLEAN : mmap_wrapper(a, n, FALSE, fails)
  \/ \E a \in Pages, n \in Lens, fails \in BOOLEAN : mmap_wrapper(a, n, TRUE, fails)
  \/ \E b \in Blocks : munmap_wrapper(b)
  \/ \E b \in Blocks :
       /\ PagesOf(b) \subseteq uh \ PagesOf(Stack)
       /\ \/ \E n \in Lens, maymove, dontunmap \in BOOLEAN,
                refuses \in Refusals :
               mremap_wrapper(b, n, maymove, dontunmap, refuses)
          \/ \E new \in Blocks, dontunmap \in BOOLEAN : mremap_fixed(b, new, dontunmap)
  \/ \E a \in Pages, b \in Blocks : mremap_duplicate(a, b)
  \/ \E b \in Blocks : LhMap(b)
  \/ \E p \in Pages : LhUnmap(p)
  \/ \E p \in Pages : NewLowerHalf({p})
  \/ RestoreMemory

ArenaSpec == ArenaInit /\ [][ArenaNext]_arenaVars

-----------------------------------------------------------------------------
(* After any sequence of calls, what the wrappers have recorded is what    *)
(* the upper half has mapped (mem-wrapper.cpp: allocated_blocks), and none *)
(* of it is the lower half's or in the arena's free list; an arena page    *)
(* that is not mapped can be used again, unless the lower half has had it. *)
ListsMatchMemory ==
  phase = "run" =>
    /\ Covered(allocated_blocks) \cup PagesOf(Stack) = uh
    /\ uh \cap (lh \cup Covered(free_blocks)) = {}
    /\ \A p \in arena_base .. arena_end - 1 :
         p \in uh \cup Covered(free_blocks) \cup everLh

(* What dmtcp_skip_memory_region_ckpting makes DMTCP save is the upper     *)
(* half's memory, all of it, and none of the lower half's, even where the  *)
(* kernel shows both as one area.                                          *)
ImageIsUpperHalf == phase = "run" => SavedPages = uh

(* The arena refuses a request for memory anywhere only when no free block *)
(* has room for it, or after all the tries that arena_mmap makes; and then *)
(* each try has met another mapping of the lower half that was in the free *)
(* list, and no longer is.  So a request that is refused although there is *)
(* room leaves fewer mappings in the way of the next one.                  *)
HasRoom(length) ==
  \E i \in DOMAIN free_blocks : \E a \in PagesOf(free_blocks[i]) :
    /\ a + length <= End(free_blocks[i])
    /\ PagesOf(Block(a, length)) \cap Mapped = {}
InTheWay(free) == {area \in Runs(Mapped) : PagesOf(area) \cap Covered(free) # {}}
RefusedForCause ==
  [][refused' # 0 =>
       \/ ~HasRoom(refused)'
       \/ Cardinality(InTheWay(free_blocks) \ InTheWay(free_blocks')) >= MaxTries]_arenaVars

(* The upper half's list as mpi_plugin.cpp relies on it: "sorted and       *)
(* disjoint, and touching regions are merged".                             *)
RegionsMerged ==
  \A i \in DOMAIN allocated_blocks :
    /\ allocated_blocks[i].len > 0
    /\ i > 1 => End(allocated_blocks[i - 1]) < allocated_blocks[i].addr

-----------------------------------------------------------------------------
(* Why the lists are right: an inductive invariant.                        *)

(* The lists are sorted and their blocks are apart.                        *)
Before(x, y) == x.addr < y.addr /\ End(x) <= y.addr
IsBlocks(list) ==
  /\ list \in Seq([addr : Nat, len : Nat])
  /\ \A i, j \in DOMAIN list : i < j => Before(list[i], list[j])

ArenaInv ==
  /\ phase \in {"run", "reserved"} /\ arena_base \in Nat /\ arena_end \in Nat
  /\ IsBlocks(allocated_blocks) /\ IsBlocks(free_blocks)
  /\ \A i \in DOMAIN allocated_blocks : allocated_blocks[i].len > 0
  /\ uh \cup lh \cup image \cup Covered(free_blocks) \subseteq Pages
  /\ lh \subseteq everLh
  /\ phase = "reserved" => PagesOf(Stack) \subseteq image /\ image \cap lh = {}
  /\ ListsMatchMemory
=============================================================================
