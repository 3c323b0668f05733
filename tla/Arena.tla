-------------------------------- MODULE Arena --------------------------------
(***************************************************************************)
(* The allocator behind stubs, framework and runtimes                      *)
(* (filc_async_arena.c). Its lock makes an allocation one step.            *)
(*                                                                         *)
(* Addresses and sizes are in any unit; 0 is NULL. Sums are of uintptr_t   *)
(* and size_t and wrap at Space; memory lies below Top and requests are at *)
(* most MaxSize, so none comes near it.                                    *)
(***************************************************************************)
EXTENDS Integers, Sequences

CONSTANTS
    Space,        \* 2^64
    Top,          \* where the memory of a process ends
    Pages,        \* where the collector may place a block
    Header,       \* sizeof(struct arena_block)
    NormalBlock,  \* ARENA_NORMAL_BLOCK
    MaxAlign,     \* ARENA_MAX_ALIGN
    PowersOfTwo,
    MaxSize,
    Requests      \* what callers ask for: <<size, align>>

ASSUME Positive ==
    /\ Space \in Nat \ {0} /\ Top \in Nat \ {0} /\ Header \in Nat \ {0}
    /\ NormalBlock \in Nat \ {0} /\ MaxAlign \in Nat \ {0} /\ MaxSize \in Nat \ {0}
ASSUME PagesType == Pages \subseteq 1 .. Top
ASSUME PowersPositive == PowersOfTwo \subseteq Nat \ {0}
ASSUME RequestsType == Requests \subseteq (0 .. MaxSize) \X Nat
ASSUME NothingWraps ==
    \A r \in Requests : Top + Header + NormalBlock + MaxSize + r[2] + 1 < Space

VARIABLES
    allocator,  \* g_allocator: the arena, or one of the program's
    blocks,     \* memory taken from the collector: [base, start, size]
    cur,        \* g_cur
    end,        \* g_end
    live        \* what has been handed out: [at, size, align]

arenaVars == <<allocator, blocks, cur, end, live>>

Address == 0 .. Top
Block == [base : Address, start : Address, size : Nat]

Word(x) == x % Space
Mask(x, align) == x - (x % align)          \* x & ~(align - 1)
Aligned(x, align) == Mask(Word(Word(x + align) - 1), align)

\* Where the collector can place size units at this alignment. External.
Regions(size, align) ==
    {b \in Pages : /\ b % align = 0
                   /\ b + size =< Top
                   /\ \A k \in blocks : b + size =< k.base \/ k.base + k.size =< b}

\* Mutant: the end of the block is compared with the start of the request.
Fits_start(at, size) == cur # 0 /\ at =< end

Fits(at, size) == cur # 0 /\ Word(at + size) =< end

-----------------------------------------------------------------------------
(* arena_alloc_locked: how the request is met, and at which address. *)

Bump(size, align, p) ==
    /\ Fits(Aligned(cur, align), size)
    /\ p = Aligned(cur, align)
    /\ cur' = p + size
    /\ UNCHANGED <<blocks, end>>

\* arena_chain_normal, then the bump in the new block.
Chain(size, align, p) ==
    /\ ~Fits(Aligned(cur, align), size)
    /\ \E b \in Regions(Header + NormalBlock, MaxAlign) :
          /\ blocks' = blocks \cup {[base |-> b, start |-> b + Header,
                                     size |-> Header + NormalBlock]}
          /\ end' = b + Header + NormalBlock
          /\ p = Aligned(b + Header, align)
    /\ cur' = p + size

arena_dedicated(size, align, p) ==
    /\ \E b \in Regions(Header + size + align, align) :
          /\ blocks' = blocks \cup {[base |-> b, start |-> b + Header,
                                     size |-> Header + size + align]}
          /\ p = Aligned(b + Header, align)
    /\ UNCHANGED <<cur, end>>

\* The collector has no memory left for it.
OutOfMemory(p) == p = 0 /\ UNCHANGED <<blocks, cur, end>>

\* Whether a normal block can hold the request, whatever padding it needs.
Normal(size, align) == align =< MaxAlign /\ Word(size + align) =< NormalBlock

arena_alloc(size, align, p) ==
    \/ align \notin PowersOfTwo /\ OutOfMemory(p)
    \/ align \in PowersOfTwo /\ Normal(size, align) /\ Bump(size, align, p)
    \/ align \in PowersOfTwo /\ Normal(size, align) /\ Chain(size, align, p)
    \/ align \in PowersOfTwo /\ ~Normal(size, align) /\ arena_dedicated(size, align, p)
    \/ /\ align \in PowersOfTwo
       /\ Normal(size, align) => ~Fits(Aligned(cur, align), size)
       /\ OutOfMemory(p)

\* An allocator of the program's own, which keeps to filc_async_alloc.h.
custom_alloc(size, align, p) ==
    /\ \/ /\ align \in PowersOfTwo
          /\ p \in Regions(size, align)
          /\ blocks' = blocks \cup {[base |-> p, start |-> p, size |-> size]}
       \/ p = 0 /\ UNCHANGED blocks
    /\ UNCHANGED <<cur, end>>

\* filc_async_alloc returns p. The arena counts a size or an alignment of 0 as
\* 1, and the program's allocator is taken to do so too.
filc_async_alloc(size, align, p) ==
    LET s == IF size = 0 THEN 1 ELSE size
        a == IF align = 0 THEN 1 ELSE align
    IN /\ IF allocator = "arena" THEN arena_alloc(s, a, p) ELSE custom_alloc(s, a, p)
       /\ live' = IF p = 0 THEN live ELSE Append(live, [at |-> p, size |-> s, align |-> a])
       /\ UNCHANGED allocator

\* filc_async_set_allocator; all zeros restores the arena, bump state and all.
filc_async_set_allocator(a) ==
    /\ allocator' = IF a = "zeros" THEN "arena" ELSE a
    /\ UNCHANGED <<blocks, cur, end, live>>

ArenaInit ==
    /\ allocator = "arena"
    /\ blocks = {}
    /\ cur = 0
    /\ end = 0
    /\ live = <<>>

ArenaNext ==
    \/ \E r \in Requests, p \in Address : filc_async_alloc(r[1], r[2], p)
    \/ \E a \in {"zeros", "custom"} : filc_async_set_allocator(a)

ArenaSpec == ArenaInit /\ [][ArenaNext]_arenaVars

-----------------------------------------------------------------------------
(* Properties *)

Apart(x, xs, y, ys) == x + xs =< y \/ y + ys =< x

(* Every variable stays in its type. *)
ArenaTypeOK ==
    /\ allocator \in {"arena", "custom"}
    /\ blocks \subseteq Block
    /\ cur \in Address
    /\ end \in Address
    /\ live \in Seq([at : Address, size : Nat \ {0}, align : Nat \ {0}])

(* What is handed out has its alignment, lies in the payload of one block, *)
(* clear of headers, and shares nothing with anything handed out before,   *)
(* by bumping, in blocks of its own or by another allocator in between.    *)
PlacedWell ==
    /\ \A i \in DOMAIN live :
          /\ live[i].at % live[i].align = 0
          /\ \E k \in blocks : /\ k.start =< live[i].at
                               /\ live[i].at + live[i].size =< k.base + k.size
    /\ \A i, j \in DOMAIN live :
          i # j => Apart(live[i].at, live[i].size, live[j].at, live[j].size)

(* Why PlacedWell is kept: blocks share nothing, g_cur and g_end are in    *)
(* one of them, and what was handed out of that one lies below g_cur.      *)
BlocksWell ==
    /\ \A k \in blocks : /\ k.base =< k.start
                         /\ k.start < k.base + k.size
                         /\ k.base + k.size =< Top
    /\ \A j, k \in blocks : j # k => Apart(j.base, j.size, k.base, k.size)

CurrentWell ==
    \/ cur = 0 /\ end = 0
    \/ \E k \in blocks : k.base + k.size = end /\ k.start =< cur /\ cur =< end

BelowCurrent ==
    \A i \in DOMAIN live :
        \E k \in blocks : /\ k.start =< live[i].at
                          /\ live[i].at + live[i].size =< k.base + k.size
                          /\ k.base + k.size = end => live[i].at + live[i].size =< cur

ArenaInv == ArenaTypeOK /\ PlacedWell /\ BlocksWell /\ CurrentWell /\ BelowCurrent

=============================================================================
