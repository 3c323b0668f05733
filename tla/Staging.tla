------------------------------- MODULE Staging -------------------------------
(***************************************************************************)
(* How the arguments of an annotated call travel: the stub stores them in  *)
(* cells of its own (stageArguments in FilAsync.cpp), the runtime's state  *)
(* comes from the same allocator, and whenever the runtime runs the body   *)
(* the thunk (emitRunThunk) loads them back. Dependency locks see an       *)
(* argument as the 64-bit word the stub makes of it (filc_async_lock_word, *)
(* filc_async_lock_ptr).                                                   *)
(*                                                                         *)
(* A unit of memory is a word; a cell is two. An argument is an integer of *)
(* up to WordBits bits, the word's, a pointer, or of another type, as      *)
(* wider integers are; the value of an integer is its bits read as signed, *)
(* that of a pointer its address. The memset of filc_async_complete is     *)
(* left out: by then no body loads the cells again.                        *)
(***************************************************************************)
EXTENDS Arena, FiniteSets

CONSTANTS
    Programs,   \* the argument lists of the calls: sequences of Arguments
    WordBits,   \* 64
    MaxAllocs   \* bound on what runtimes allocate beside

ASSUME WordBitsNat == WordBits \in Nat \ {0}

VARIABLES
    args,       \* the arguments of each call
    cells,      \* its staging memory; 0 before the stub has any
    stored,     \* how many arguments the stub has stored
    restored,   \* what the thunk has given the body
    memory,     \* the word at each address
    allocs

vars == <<arenaVars, args, cells, stored, restored, memory, allocs>>

Call == DOMAIN args

-----------------------------------------------------------------------------
Arguments == [type : {"int", "ptr", "other"}, bits : 1 .. WordBits, value : Int]

IsInteger(a) == a.type = "int"

\* The bits of an integer, and the signed integer they stand for.
Bits(x, width) == x % 2^width
Signed(w, width) == IF w >= 2^(width - 1) THEN w - 2^width ELSE w

\* ZExt for a narrower integer; zero for what does not fit a word.
StagedWord(a) ==
    CASE IsInteger(a) -> Bits(a.value, a.bits)
      [] a.type = "ptr" -> a.value
      [] OTHER -> 0

\* Trunc to the parameter's type; a null value where nothing was staged.
LoadedValue(a, word) ==
    CASE IsInteger(a) -> Signed(Bits(word, a.bits), a.bits)
      [] a.type = "ptr" -> word
      [] OTHER -> 0

(* An integer argument is a value of its type, and what a stub asks for is *)
(* no more than the other requests.                                        *)
Halfway(a) == 2^(a.bits - 1)
ASSUME ProgramsType ==
    \A a \in Programs : \A c \in DOMAIN a :
        /\ a[c] \in Seq(Arguments)
        /\ \A i \in DOMAIN a[c] : IsInteger(a[c][i]) =>
              a[c][i].value \in -Halfway(a[c][i]) .. Halfway(a[c][i]) - 1
        /\ 2 * Len(a[c]) =< MaxSize
ASSUME StagingWraps == Top + Header + NormalBlock + MaxSize + 2 + 1 < Space

\* What exponentiation is, for the provers, which do not know.
ASSUME PowersDouble == \A w \in 1 .. WordBits : 2^(w - 1) \in Nat \ {0} /\ 2^w = 2 * 2^(w - 1)
ASSUME PowersGrow == \A w \in 1 .. WordBits : \A v \in 0 .. w - 1 : 2^v =< 2^(w - 1)

\* Mutant: a key keeps the bits of an int.
LockKey_narrow(a) == Bits(StagedWord(a), WordBits - 1)

\* The value of a dependency lock's key, for an integer. (A pointer's is its
\* object, and no key of an integer is one of a pointer.)
LockKey(a) == StagedWord(a)

-----------------------------------------------------------------------------
(* The stub: filc_async_alloc, then a store for each argument. NULL is     *)
(* stored through like any pointer, which ends the program.                *)

StubAllocates(c) ==
    /\ cells[c] = 0
    /\ \E p \in Address \ {0} :
          /\ filc_async_alloc(2 * Len(args[c]), 2, p)
          /\ cells' = [cells EXCEPT ![c] = p]
    /\ UNCHANGED <<args, stored, restored, memory, allocs>>

\* Mutant: a cell is one word.
StubStores_word(c) ==
    /\ cells[c] # 0
    /\ stored[c] < Len(args[c])
    /\ memory' = [memory EXCEPT ![cells[c] + stored[c]] = StagedWord(args[c][stored[c] + 1])]
    /\ stored' = [stored EXCEPT ![c] = @ + 1]
    /\ UNCHANGED <<arenaVars, args, cells, restored, allocs>>

StubStores(c) ==
    /\ cells[c] # 0
    /\ stored[c] < Len(args[c])
    /\ LET i == stored[c] + 1
           at == cells[c] + 2 * (i - 1) IN
       memory' = [memory EXCEPT ![at] = StagedWord(args[c][i]),
                                ![at + 1] = IF args[c][i].type = "ptr" THEN @ ELSE 0]
    /\ stored' = [stored EXCEPT ![c] = @ + 1]
    /\ UNCHANGED <<arenaVars, args, cells, restored, allocs>>

\* The thunk, whenever the runtime runs it.
ThunkRuns(c) ==
    /\ cells[c] # 0
    /\ stored[c] = Len(args[c])
    /\ restored[c] = <<>>
    /\ restored' = [restored EXCEPT ![c] =
          [i \in DOMAIN args[c] |->
              LoadedValue(args[c][i], memory[cells[c] + 2 * (i - 1)])]]
    /\ UNCHANGED <<arenaVars, args, cells, stored, memory, allocs>>

(* A runtime allocates its own state and fills it. *)
RuntimeAllocates(size, align) ==
    /\ allocs < MaxAllocs
    /\ allocs' = allocs + 1
    /\ \E p \in Address :
          /\ filc_async_alloc(size, align, p)
          /\ memory' = [x \in DOMAIN memory |->
                IF p # 0 /\ x \in p .. p + size - 1 THEN 2^WordBits - 1 ELSE memory[x]]
    /\ UNCHANGED <<args, cells, stored, restored>>

SetAllocator(a) ==
    /\ filc_async_set_allocator(a)
    /\ UNCHANGED <<args, cells, stored, restored, memory, allocs>>

Init ==
    /\ ArenaInit
    /\ args \in Programs
    /\ cells = [c \in Call |-> 0]
    /\ stored = [c \in Call |-> 0]
    /\ restored = [c \in Call |-> <<>>]
    /\ memory = [x \in Address |-> 0]
    /\ allocs = 0

Next ==
    \/ \E c \in Call : StubAllocates(c) \/ StubStores(c) \/ ThunkRuns(c)
    \/ \E r \in Requests : RuntimeAllocates(r[1], r[2])
    \/ \E a \in {"zeros", "custom"} : SetAllocator(a)

Spec == Init /\ [][Next]_vars

-----------------------------------------------------------------------------
(* Properties *)

(* The body gets the arguments the call was made with, of every type that  *)
(* fits a word and with their sign, however late it runs and whatever was  *)
(* staged, allocated and written in between; of another type it gets zero. *)
ArgumentsRestored ==
    \A c \in Call : restored[c] # <<>> =>
        \A i \in DOMAIN args[c] :
            restored[c][i] = IF args[c][i].type = "other" THEN 0 ELSE args[c][i].value

(* An n of few bits has the key of the m of more bits that it is equal to  *)
(* when read as unsigned.                                                  *)
ReadAs(n, m) == n.bits < m.bits /\ n.value < 0 /\ m.value = n.value + 2^n.bits

(* When two calls contend for a lock on integers. Equal values of one      *)
(* width, or not negative, are one key; equal negative values of two       *)
(* widths never are, "not ordered" in the words of the FIXME at lock_take. *)
(* Of unequal values only those of ReadAs are one key, and such calls wait *)
(* for each other without need.                                            *)
KeysAgree ==
    \A c, d \in Call : \A i \in 1 .. stored[c], j \in 1 .. stored[d] :
        LET a == args[c][i]
            b == args[d][j] IN
        IsInteger(a) /\ IsInteger(b) =>
            (LockKey(a) = LockKey(b) <=>
                \/ a.value = b.value /\ (a.bits = b.bits \/ a.value >= 0)
                \/ ReadAs(a, b) \/ ReadAs(b, a))

=============================================================================
