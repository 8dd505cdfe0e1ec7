------------------------------- MODULE Arena -------------------------------
(***************************************************************************)
(* runtime/arena.c: a bump allocator over a chain of blocks, newest first, *)
(* that takes its blocks from a parent allocator or lives in one fixed     *)
(* buffer.  Addresses are numbers below Word and address arithmetic wraps, *)
(* as uint64_t does; 0 is NULL.                                            *)
(*                                                                         *)
(* `lent` is the parent's ledger: the extents it has handed to the arena   *)
(* and not got back.  `live` is what the arena's users hold.               *)
(***************************************************************************)
EXTENDS Integers, Sequences, FiniteSets

CONSTANTS
    WordBits,       \* 64, scaled down
    Word,           \* 2 ^ WordBits
    HeaderBytes,    \* sizeof(loke_rt_arena_block_v1)
    ControlBytes,   \* sizeof(loke_rt_arena_v1)
    ControlAlign,   \* ARENA_CONTROL_ALIGN
    DefaultBlock,   \* ARENA_DEFAULT_BLOCK
    Sizes, Aligns,  \* the requests made
    MaxLive,        \* bound: allocations live at once
    Places,         \* where the parent may put an extent
    Buffers         \* fixed buffers offered: records [at, size]

ASSUME WordAssumption == WordBits \in Nat /\ Word \in Nat /\ Word > 1 /\ Word = 2 ^ WordBits
ASSUME LayoutAssumption ==
    /\ HeaderBytes \in 1 .. Word - 1 /\ ControlBytes \in 1 .. Word - 1
    /\ ControlAlign \in 1 .. Word - 1
    /\ ControlBytes % ControlAlign = 0 /\ HeaderBytes >= ControlAlign
    /\ DefaultBlock \in 1 .. Word - 1
    /\ DefaultBlock >= ControlBytes + HeaderBytes
ASSUME RequestAssumption ==
    /\ Sizes \subseteq 0 .. Word - 1 /\ Aligns \subseteq 0 .. Word - 1
    /\ \A a \in Aligns \ {0} : \E i \in 0 .. WordBits : a = 2 ^ i
    /\ \A a \in Aligns : a + HeaderBytes < Word
    /\ MaxLive \in Nat
\* The parent honours the alignment asked of it, and neither it nor the owner of
\* a buffer holds memory at address 0 or up to the very last address.
ASSUME PlaceAssumption ==
    /\ Places \subseteq 1 .. Word - 1
    /\ \A p \in Places : p % ControlAlign = 0
    /\ Buffers \subseteq [at : 1 .. Word - 1, size : 0 .. Word - 1]
    /\ \A b \in Buffers : b.at + b.size < Word

VARIABLES
    status,         \* "none", "open", or "fault" (the buffer was too small)
    hasParent,      \* arena->parent != 0
    blocks,         \* arena->blocks, newest first; the last one is arena->first
    block_bytes,
    control,        \* the extent the control block and first block live in
    lent,
    live,
    starved         \* arena_alloc grew and still could not serve the request

vars == <<status, hasParent, blocks, block_bytes, control, lent, live, starved>>

Heap == INSTANCE Allocator

Extent == [at : 0 .. Word - 1, size : 0 .. Word - 1]
Block == [base : 1 .. Word - 1, size : 0 .. Word - 1, used : 0 .. Word - 1, owned : BOOLEAN]

TypeOK ==
    /\ status \in {"none", "open", "fault"}
    /\ hasParent \in BOOLEAN
    /\ blocks \in Seq(Block)
    /\ block_bytes \in 0 .. Word - 1
    /\ control \in Extent
    /\ lent \subseteq Extent
    /\ live \subseteq Heap!Allocation
    /\ starved \in BOOLEAN

-----------------------------------------------------------------------------
(* uint64_t arithmetic *)

Add(x, y) == IF x + y < Word THEN x + y ELSE x + y - Word

arena_align(align) == IF align = 0 THEN 1 ELSE align

arena_round_up(value, align) ==
    LET slack == Add(value, align - 1) IN
    IF slack < value THEN 0 ELSE slack - (slack % align)

-----------------------------------------------------------------------------
(* Blocks *)

\* Mutant of arena_bump: places the request without its alignment.
BumpUnaligned(block, size, align) ==
    LET at == Add(block.base, block.used)
        end == Add(at, size)
    IN  IF end < at \/ end > Add(block.base, block.size) THEN 0 ELSE at

\* Where the request would go in the block, or 0 when it does not fit.
arena_bump(block, size, align) ==
    LET at == arena_round_up(Add(block.base, block.used), align)
        end == Add(at, size)
    IN  IF at = 0 \/ end < at \/ end > Add(block.base, block.size) THEN 0 ELSE at

Bumped(block, at, size) == [block EXCEPT !.used = Add(at, size) - block.base]

min_buffer == ControlBytes + HeaderBytes + ControlAlign

\* The first block laid out over `storage`, with base 0 when it does not fit.
arena_place(storage) ==
    LET control_at == arena_round_up(storage.at, ControlAlign)
        header_at == arena_round_up(Add(control_at, ControlBytes), ControlAlign)
        usable_at == Add(header_at, HeaderBytes)
        fits == /\ control_at # 0 /\ control_at >= storage.at
                /\ header_at # 0
                /\ usable_at >= header_at /\ usable_at <= Add(storage.at, storage.size)
    IN  [base |-> IF fits THEN usable_at ELSE 0,
         size |-> IF fits THEN storage.at + storage.size - usable_at ELSE 0,
         used |-> 0, owned |-> FALSE]

\* What the parent lent for a block.
BlockExtent(block) == [at |-> block.base - HeaderBytes, size |-> HeaderBytes + block.size]
OwnedExtents == {BlockExtent(blocks[i]) : i \in {j \in DOMAIN blocks : blocks[j].owned}}

\* The places where the parent can lend `size` bytes.
Lendable(size) ==
    {p \in Places : /\ p + size < Word
                    /\ \A e \in lent : p + size <= e.at \/ e.at + e.size <= p}

\* The sizes arena_grow may arrive at by doubling without overflow, and the first
\* of them that is enough.
Doublings == {w \in 1 .. Word - 1 : \E i \in 0 .. WordBits : w = block_bytes * 2 ^ i}
Enough(size, align) == Add(Add(size, align), HeaderBytes)
CanGrow(size, align) ==
    /\ hasParent
    /\ Enough(size, align) >= size
    /\ \E w \in Doublings : w >= Enough(size, align)
\* The block laid out over the `want` bytes the parent lent at p.
GrownBlock(p, want) ==
    [base |-> p + HeaderBytes, size |-> want - HeaderBytes, used |-> 0, owned |-> TRUE]
Want(size, align) ==
    CHOOSE w \in Doublings : /\ w >= Enough(size, align)
                             /\ \A v \in Doublings : v >= Enough(size, align) => w <= v

-----------------------------------------------------------------------------
\* loke_rt_v1_arena_open, loke_rt_v1_arena_open_fixed and a parent that refuses.
Start(parent, storage, first, bytes) ==
    /\ status' = "open"
    /\ hasParent' = parent
    /\ blocks' = <<first>>
    /\ block_bytes' = bytes
    /\ control' = storage
    /\ lent' = IF parent THEN lent \cup {storage} ELSE lent
    /\ UNCHANGED <<live, starved>>

Open ==
    /\ status = "none"
    /\ \E p \in Lendable(DefaultBlock) :
        LET storage == [at |-> p, size |-> DefaultBlock] IN
        /\ arena_place(storage).base # 0   \* else the storage goes straight back
        /\ Start(TRUE, storage, arena_place(storage), DefaultBlock)

OpenFixed ==
    /\ status = "none"
    /\ \E buffer \in Buffers :
        IF buffer.size < min_buffer \/ arena_place(buffer).base = 0
        THEN /\ status' = "fault"
             /\ control' = buffer
             /\ UNCHANGED <<hasParent, blocks, block_bytes, lent, live, starved>>
        ELSE Start(FALSE, buffer, arena_place(buffer), 0)

-----------------------------------------------------------------------------
(* arena_alloc.  It answers an address, and the program holds that in place of *)
(* the allocations `given` up for it; 0 is a refusal.                           *)

Top == blocks[1]

Hold(given, at, size, align) ==
    live' = IF at = 0 THEN live
            ELSE (live \ given) \cup {[at |-> at, size |-> size, align |-> align]}

Obtain(given, size, align) ==
    LET at == arena_bump(Top, size, align) IN
    \/ \* the newest block has room
       /\ size # 0 /\ at # 0
       /\ blocks' = [blocks EXCEPT ![1] = Bumped(Top, at, size)]
       /\ UNCHANGED <<block_bytes, lent, starved>>
       /\ Hold(given, at, size, align)
    \/ \* arena_grow: the parent lends one more block, then the request goes there
       /\ size # 0 /\ at = 0
       /\ CanGrow(size, align)
       /\ \E p \in Lendable(Want(size, align)) :
            LET want == Want(size, align)
                block == GrownBlock(p, want)
                again == arena_bump(block, size, align)
            IN  /\ blocks' = <<IF again = 0 THEN block ELSE Bumped(block, again, size)>>
                             \o blocks
                /\ block_bytes' = want
                /\ lent' = lent \cup {BlockExtent(block)}
                /\ starved' = (again = 0)
                /\ Hold(given, again, size, align)
    \/ \* nothing asked for, no parent, a size that cannot be met, or a refusal
       /\ size = 0 \/ at = 0
       /\ UNCHANGED <<blocks, block_bytes, lent, starved>>
       /\ Hold(given, 0, size, align)

Alloc(size, align) ==
    /\ status = "open" /\ Cardinality(live) < MaxLive
    /\ Obtain({}, size, arena_align(align))
    /\ UNCHANGED <<status, hasParent, control>>

-----------------------------------------------------------------------------
(* arena_resize, arena_free, arena_reset and the arena's drop. *)

\* Mutant of arena_is_top: compares offsets, whichever block the pointer is in.
IsTopByOffset(a) ==
    \E i \in DOMAIN blocks : Add(a.at, a.size) = Add(blocks[i].base, Top.used)

arena_is_top(a) == Add(a.at, a.size) = Add(Top.base, Top.used)

\* Whether the top allocation can end at the new size within its block.
RoomAtTop(a, size) ==
    /\ arena_is_top(a)
    /\ Add(a.at, size) >= a.at
    /\ Add(a.at, size) <= Add(Top.base, Top.size)

Resize(a, size) ==
    /\ status = "open"
    /\ IF size # 0 /\ RoomAtTop(a, size)
       THEN /\ blocks' = [blocks EXCEPT ![1] = Bumped(Top, a.at, size)]
            /\ Hold({a}, a.at, size, a.align)
            /\ UNCHANGED <<block_bytes, lent, starved>>
       ELSE IF size # 0 /\ size <= a.size
       THEN /\ Hold({a}, a.at, size, a.align)
            /\ UNCHANGED <<blocks, block_bytes, lent, starved>>
       ELSE Obtain({a}, size, a.align)
    /\ UNCHANGED <<status, hasParent, control>>

Free(a) ==
    /\ status = "open"
    /\ blocks' = IF arena_is_top(a) THEN [blocks EXCEPT ![1].used = @ - a.size] ELSE blocks
    /\ live' = live \ {a}
    /\ UNCHANGED <<status, hasParent, block_bytes, control, lent, starved>>

\* The ledger after the blocks the arena owns go back, with the sizes lent.
arena_release_blocks == lent \ OwnedExtents

Reset ==
    /\ status = "open"
    /\ lent' = arena_release_blocks
    /\ blocks' = <<[blocks[Len(blocks)] EXCEPT !.used = 0]>>
    /\ live' = {}
    /\ UNCHANGED <<status, hasParent, block_bytes, control, starved>>

Drop ==
    /\ status = "open"
    /\ status' = "none"
    /\ blocks' = <<>>
    /\ live' = {}
    /\ lent' = arena_release_blocks
               \ (IF hasParent THEN {[at |-> arena_round_up(control.at, ControlAlign),
                                      size |-> control.size]} ELSE {})
    /\ UNCHANGED <<hasParent, block_bytes, control, starved>>

-----------------------------------------------------------------------------
Init ==
    /\ status = "none" /\ hasParent = FALSE
    /\ blocks = <<>> /\ block_bytes = 0
    /\ control = [at |-> 0, size |-> 0]
    /\ lent = {} /\ live = {} /\ starved = FALSE

Next ==
    \/ Open \/ OpenFixed \/ Reset \/ Drop
    \/ \E size \in Sizes, align \in Aligns : Alloc(size, align)
    \/ \E a \in live, size \in Sizes : Resize(a, size)
    \/ \E a \in live : Free(a)

Spec == Init /\ [][Next]_vars

-----------------------------------------------------------------------------
(* What the arena owes the program and its parent. *)

\* No two live allocations share a byte, whatever was freed, resized or grown
\* in between.
LiveApart == \A a, b \in live : a # b => Heap!Apart(a, b)

\* A live allocation lies in the used bytes of a block of the arena: never in a
\* header, in the control block or in memory that went back to the parent.
LiveInBlocks ==
    \A a \in live : \E i \in DOMAIN blocks :
        /\ blocks[i].base <= a.at
        /\ a.at + a.size <= blocks[i].base + blocks[i].used

\* The parent's ledger is exactly the control block and the blocks grown since:
\* each is given back once, with the address and size it was lent with, and
\* nothing is left when the arena is dropped.
Ledger ==
    lent = IF status = "open"
           THEN OwnedExtents \cup (IF hasParent THEN {control} ELSE {})
           ELSE {}

\* A block the parent lent for a request always has room for that request.
GrowSuffices == ~starved

\* A buffer of at least loke_rt_v1_arena_min_buffer bytes hosts an arena,
\* however it is aligned.
MinBufferSuffices == status = "fault" => control.size < min_buffer

\* The arena implements the contract of an allocator record.
ImplementsAllocator == Heap!Spec

-----------------------------------------------------------------------------
(* The inductive invariant. *)

\* Blocks lie in memory without overflow, and no two of them overlap, their
\* headers included: so no live allocation of an older block can end where the
\* newest block's used bytes do.
BlocksOK ==
    /\ \A i \in DOMAIN blocks :
        /\ blocks[i].base > HeaderBytes
        /\ blocks[i].base + blocks[i].size < Word
        /\ blocks[i].used <= blocks[i].size
        /\ blocks[i].owned <=> i < Len(blocks)
    /\ \A i, j \in DOMAIN blocks :
        i # j => Heap!Apart(BlockExtent(blocks[i]), BlockExtent(blocks[j]))

\* The first block and the control block share the control extent.
ControlOK ==
    status = "open" =>
        /\ Len(blocks) >= 1
        /\ control.at > 0 /\ control.at + control.size < Word
        /\ LET first == blocks[Len(blocks)] IN
            /\ control.at + ControlBytes + HeaderBytes <= first.base
            /\ first.base + first.size = control.at + control.size
        /\ hasParent => control.at % ControlAlign = 0 /\ block_bytes > 0

LentOK == \A d, e \in lent : d # e => Heap!Apart(d, e)

Inv ==
    /\ TypeOK /\ BlocksOK /\ ControlOK /\ LentOK /\ Ledger
    /\ LiveApart /\ LiveInBlocks /\ GrowSuffices /\ MinBufferSuffices
    /\ status # "open" => blocks = <<>>

=============================================================================
