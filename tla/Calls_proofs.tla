---------------------------- MODULE Calls_proofs ----------------------------
(***************************************************************************)
(* What every asynchronous call passes through in the framework. Its       *)
(* arena: safe for all sizes of blocks and headers, all requests and every *)
(* placement of blocks (ArenaInv). Staging, on top of it: arguments come   *)
(* back as they went, and keys tell values apart, for all programs and all *)
(* widths of words. And its tasks: the list of running ones, the handle    *)
(* table and get_stats, for any number of threads and tasks (TasksInv).    *)
(***************************************************************************)
EXTENDS Staging, Tasks, FiniteSetTheorems, TLAPS

Allocation == [at : Address, size : Nat \ {0}, align : Nat \ {0}]

(* No sum below the end of the address space wraps. *)
LEMMA WordSame ==
    ASSUME NEW x \in 0 .. Space - 1
    PROVE  Word(x) = x
BY Positive, SMT DEF Word

(* Rounding down to a multiple. *)
LEMMA MaskFacts ==
    ASSUME NEW x \in Nat, NEW a \in Nat \ {0}
    PROVE  /\ Mask(x, a) \in Int
           /\ Mask(x, a) =< x
           /\ x - a < Mask(x, a)
           /\ Mask(x, a) % a = 0
<1>1. x % a \in 0 .. a - 1
  BY SMT
<1>2. x = a * (x \div a) + (x % a)
  BY SMT
<1>3. (a * (x \div a)) % a = 0
  <2> DEFINE q == x \div a
  <2>1. q \in Int
    BY SMT
  <2> HIDE DEF q
  <2>2. (a * q) % a = 0
    BY <2>1, SMT
  <2> QED
    BY <2>2 DEF q
<1>4. x - (x % a) = a * (x \div a)
  BY <1>1, <1>2, SMT
<1> QED
  BY <1>1, <1>3, <1>4, SMT DEF Mask

(* An address is rounded up by less than the alignment. *)
LEMMA AlignedFacts ==
    ASSUME NEW x \in Nat, NEW a \in Nat \ {0}, x + a < Space
    PROVE  /\ Aligned(x, a) \in Nat
           /\ x =< Aligned(x, a)
           /\ Aligned(x, a) < x + a
           /\ Aligned(x, a) % a = 0
<1>1. Word(x + a) = x + a
  BY WordSame, Positive, SMT
<1>2. Word(x + a - 1) = x + a - 1
  BY WordSame, Positive, SMT
<1>3. Aligned(x, a) = Mask(x + a - 1, a)
  BY <1>1, <1>2 DEF Aligned
<1>4. x + a - 1 \in Nat
  BY SMT
<1>5. /\ Mask(x + a - 1, a) \in Int
      /\ Mask(x + a - 1, a) =< x + a - 1
      /\ x + a - 1 - a < Mask(x + a - 1, a)
      /\ Mask(x + a - 1, a) % a = 0
  BY <1>4, MaskFacts
<1> QED
  BY <1>3, <1>5, SMT


-----------------------------------------------------------------------------
LEMMA AllocationFacts ==
    ASSUME NEW x \in Allocation
    PROVE  x.at \in Nat /\ x.at =< Top /\ x.size \in Nat \ {0} /\ x.align \in Nat \ {0}
BY Positive, SMT DEF Allocation, Address

(* The types of the parts. *)
LEMMA TypeFacts ==
    ASSUME ArenaTypeOK
    PROVE  /\ \A i \in DOMAIN live : /\ live[i] \in Allocation
                                      /\ live[i].at \in Nat
                                      /\ live[i].size \in Nat \ {0}
           /\ \A k \in blocks : k.base \in Nat /\ k.start \in Nat /\ k.size \in Nat
           /\ cur \in Nat /\ end \in Nat
<1>1. \A a \in Address : a \in Nat
  BY Positive, SMT DEF Address
<1>2. live \in Seq(Allocation)
  BY DEF ArenaTypeOK, Allocation
<1>3. \A i \in DOMAIN live : live[i] \in Allocation
  BY <1>2, SMT
<1>4. \A x \in Allocation : x.at \in Nat /\ x.size \in Nat \ {0}
  BY <1>1 DEF Allocation
<1>5. \A k \in Block : k.base \in Nat /\ k.start \in Nat /\ k.size \in Nat
  BY <1>1 DEF Block
<1> QED
  BY <1>1, <1>3, <1>4, <1>5 DEF ArenaTypeOK

(* What stays true of the list of allocations when one more is handed out. *)
LEMMA AppendFacts ==
    ASSUME ArenaTypeOK, NEW x \in Allocation, live' = Append(live, x)
    PROVE  /\ live' \in Seq(Allocation)
           /\ \A i \in DOMAIN live' : i # Len(live) + 1 => i \in DOMAIN live /\ live'[i] = live[i]
           /\ live'[Len(live) + 1] = x
BY SMT DEF ArenaTypeOK, Allocation

(* An allocation with a place of its own keeps PlacedWell. *)
LEMMA PlacedKept ==
    ASSUME ArenaTypeOK, PlacedWell, blocks \subseteq blocks',
           NEW x \in Allocation, live' = Append(live, x),
           x.at % x.align = 0,
           \E k \in blocks' : k.start =< x.at /\ x.at + x.size =< k.base + k.size,
           \A i \in DOMAIN live : Apart(live[i].at, live[i].size, x.at, x.size)
    PROVE  PlacedWell'
<1> USE DEF Allocation
<1>1. /\ \A i \in DOMAIN live' : i # Len(live) + 1 => i \in DOMAIN live /\ live'[i] = live[i]
      /\ live'[Len(live) + 1] = x
  BY AppendFacts
<1>2. ASSUME NEW i \in DOMAIN live'
      PROVE  /\ live'[i].at % live'[i].align = 0
             /\ \E k \in blocks' : /\ k.start =< live'[i].at
                                   /\ live'[i].at + live'[i].size =< k.base + k.size
  <2>1. CASE i = Len(live) + 1
    BY <2>1, <1>1
  <2>2. CASE i # Len(live) + 1
    <3>1. i \in DOMAIN live /\ live'[i] = live[i]
      BY <2>2, <1>1
    <3> QED
      BY <3>1 DEF PlacedWell
  <2> QED
    BY <2>1, <2>2
<1>3. ASSUME NEW i \in DOMAIN live', NEW j \in DOMAIN live', i # j
      PROVE  Apart(live'[i].at, live'[i].size, live'[j].at, live'[j].size)
  <2>1. CASE i = Len(live) + 1
    <3>1. j \in DOMAIN live /\ live'[j] = live[j] /\ live'[i] = x
      BY <2>1, <1>1, <1>3
    <3> QED
      BY <3>1 DEF Apart
  <2>2. CASE j = Len(live) + 1
    <3>1. i \in DOMAIN live /\ live'[i] = live[i] /\ live'[j] = x
      BY <2>2, <1>1, <1>3
    <3> QED
      BY <3>1
  <2>3. CASE i # Len(live) + 1 /\ j # Len(live) + 1
    <3>1. /\ i \in DOMAIN live /\ live'[i] = live[i]
          /\ j \in DOMAIN live /\ live'[j] = live[j]
      BY <2>3, <1>1
    <3> QED
      BY <3>1, <1>3 DEF PlacedWell
  <2> QED
    BY <2>1, <2>2, <2>3
<1> QED
  BY <1>2, <1>3 DEF PlacedWell

(* An allocation in a block just taken from the collector, which becomes   *)
(* the current block or does not.                                          *)
LEMMA NewBlockKeeps ==
    ASSUME ArenaInv, NEW K \in Block, NEW x \in Allocation,
           K.base =< K.start, K.start < K.base + K.size, K.base + K.size =< Top,
           \A k \in blocks : Apart(K.base, K.size, k.base, k.size),
           K.start =< x.at, x.at + x.size =< K.base + K.size, x.at % x.align = 0,
           blocks' = blocks \cup {K}, live' = Append(live, x), allocator' = allocator,
           \/ cur' = cur /\ end' = end
           \/ cur' = x.at + x.size /\ end' = K.base + K.size
    PROVE  ArenaInv'
<1> USE Positive DEF Allocation, Block, Address
<1>1. ArenaTypeOK'
  <2>1. live' \in Seq(Allocation)
    BY AppendFacts DEF ArenaInv
  <2>2. cur' \in Address /\ end' \in Address
    BY DEF ArenaInv, ArenaTypeOK
  <2>3. blocks' \subseteq Block /\ allocator' \in {"arena", "custom"}
    BY DEF ArenaInv, ArenaTypeOK
  <2> QED
    BY <2>1, <2>2, <2>3 DEF ArenaTypeOK
<1>2. BlocksWell'
  BY DEF ArenaInv, BlocksWell, Apart, ArenaTypeOK
<1>3. PlacedWell'
  <2>1. ASSUME NEW i \in DOMAIN live
        PROVE  Apart(live[i].at, live[i].size, x.at, x.size)
    <3>1. PICK k \in blocks : /\ k.start =< live[i].at
                              /\ live[i].at + live[i].size =< k.base + k.size
      BY DEF ArenaInv, PlacedWell
    <3>2. k.base \in Nat /\ k.start \in Nat /\ k.size \in Nat /\ k.base =< k.start
      BY TypeFacts DEF ArenaInv, BlocksWell
    <3>3. live[i].at \in Nat /\ live[i].size \in Nat
      BY TypeFacts DEF ArenaInv
    <3>4. Apart(K.base, K.size, k.base, k.size)
      OBVIOUS
    <3> QED
      BY <3>1, <3>2, <3>3, <3>4, SMT DEF Apart
  <2> QED
    BY <2>1, PlacedKept DEF ArenaInv
<1>4. CurrentWell'
  <2>1. CASE cur' = cur /\ end' = end
    BY <2>1 DEF ArenaInv, CurrentWell
  <2>2. CASE cur' = x.at + x.size /\ end' = K.base + K.size
    <3>1. K.start =< cur' /\ cur' =< end'
      BY <2>2, SMT
    <3>2. K \in blocks'
      OBVIOUS
    <3> QED
      BY <2>2, <3>1, <3>2 DEF CurrentWell
  <2> QED
    BY <2>1, <2>2
<1>5. ASSUME NEW k \in blocks
      PROVE  k.base + k.size # K.base + K.size
  <2>1. /\ k.base \in Nat /\ k.start \in Nat /\ k.size \in Nat
        /\ k.base =< k.start /\ k.start < k.base + k.size
    BY TypeFacts DEF ArenaInv, BlocksWell
  <2>2. K.base \in Nat /\ K.start \in Nat /\ K.size \in Nat
    OBVIOUS
  <2>3. Apart(K.base, K.size, k.base, k.size)
    OBVIOUS
  <2> QED
    BY <2>1, <2>2, <2>3, SMT DEF Apart
<1>6. cur' = cur /\ end' = end => K.base + K.size # end
  BY <1>5 DEF ArenaInv, CurrentWell
<1>7. BelowCurrent'
  <2> SUFFICES ASSUME NEW i \in DOMAIN live'
               PROVE  \E k \in blocks' :
                         /\ k.start =< live'[i].at
                         /\ live'[i].at + live'[i].size =< k.base + k.size
                         /\ k.base + k.size = end' => live'[i].at + live'[i].size =< cur'
    BY DEF BelowCurrent
  <2>1. CASE i = Len(live) + 1
    <3>1. live'[i] = x
      BY <2>1, AppendFacts DEF ArenaInv
    <3> QED
      BY <3>1, <1>6
  <2>2. CASE i # Len(live) + 1
    <3>1. i \in DOMAIN live /\ live'[i] = live[i]
      BY <2>2, AppendFacts DEF ArenaInv
    <3>2. PICK k \in blocks : /\ k.start =< live[i].at
                              /\ live[i].at + live[i].size =< k.base + k.size
                              /\ k.base + k.size = end => live[i].at + live[i].size =< cur
      BY <3>1 DEF ArenaInv, BelowCurrent
    <3> QED
      BY <3>1, <3>2, <1>5
  <2> QED
    BY <2>1, <2>2
<1> QED
  BY <1>1, <1>2, <1>3, <1>4, <1>7 DEF ArenaInv

(* Sums are ordered through a third one. *)
LEMMA SumsThrough ==
    ASSUME NEW a \in Nat, NEW b \in Nat, NEW c \in Nat, NEW d \in Nat, NEW e \in Nat,
           a + b =< c + d, c + d =< e
    PROVE  a + b =< e
  OBVIOUS

(* A bump in the current block. *)
LEMMA BumpKeeps ==
    ASSUME ArenaInv, NEW x \in Allocation,
           cur # 0, cur =< x.at, x.at + x.size =< end, x.at % x.align = 0,
           cur' = x.at + x.size, live' = Append(live, x),
           UNCHANGED <<allocator, blocks, end>>
    PROVE  ArenaInv'
<1>t. /\ x.at \in Nat /\ x.size \in Nat \ {0}
      /\ cur \in Nat /\ end \in Nat /\ end =< Top
  BY AllocationFacts, TypeFacts, Positive DEF ArenaInv, ArenaTypeOK, Address
<1>0. PICK c \in blocks : c.base + c.size = end /\ c.start =< cur /\ cur =< end
  BY DEF ArenaInv, CurrentWell
<1>1. ArenaTypeOK'
  <2>1. live' \in Seq(Allocation)
    BY AppendFacts DEF ArenaInv
  <2> QED
    BY <2>1, <1>t, Positive DEF ArenaInv, ArenaTypeOK, Allocation, Address
<1>2. BlocksWell'
  BY DEF ArenaInv, BlocksWell
<1>3. PlacedWell'
  <2>1. ASSUME NEW i \in DOMAIN live
        PROVE  Apart(live[i].at, live[i].size, x.at, x.size)
    <3>1. PICK k \in blocks : /\ k.start =< live[i].at
                              /\ live[i].at + live[i].size =< k.base + k.size
                              /\ k.base + k.size = end => live[i].at + live[i].size =< cur
      BY DEF ArenaInv, BelowCurrent
    <3>2. /\ k.base \in Nat /\ k.start \in Nat /\ k.size \in Nat /\ k.base =< k.start
          /\ c.base \in Nat /\ c.start \in Nat /\ c.size \in Nat /\ c.base =< c.start
      BY TypeFacts DEF ArenaInv, BlocksWell
    <3>3. /\ live[i].at \in Nat /\ live[i].size \in Nat /\ cur \in Nat /\ end \in Nat
          /\ x.at \in Nat /\ x.size \in Nat
      BY <1>t, TypeFacts DEF ArenaInv
    <3>6. /\ k.start =< live[i].at
          /\ live[i].at + live[i].size =< k.base + k.size
          /\ k.base + k.size = end => live[i].at + live[i].size =< cur
      BY <3>1, Zenon
    <3>7. k.base =< live[i].at
      BY <3>6, <3>2, <3>3, SMT
    <3>4. CASE k = c
      BY <3>4, <1>0, <3>1, <3>2, <3>3, SMT DEF Apart
    <3>5. CASE k # c
      <4>1. Apart(c.base, c.size, k.base, k.size)
        BY <3>5 DEF ArenaInv, BlocksWell
      <4>2. CASE c.base + c.size =< k.base
        <5>1. end =< k.base
          BY <4>2, <1>0
        <5>3. x.at + x.size =< live[i].at
          BY <5>1, <3>7, <3>2, <3>3
        <5> QED
          BY <5>3 DEF Apart
      <4>3. CASE k.base + k.size =< c.base
        <5>1. c.base =< x.at
          BY <1>0, <3>2, <3>3
        <5>2. live[i].at + live[i].size =< c.base
          <6>1. /\ live[i].at \in Nat /\ live[i].size \in Nat
                /\ k.base \in Nat /\ k.size \in Nat /\ c.base \in Nat
                /\ live[i].at + live[i].size =< k.base + k.size
            BY <3>2, <3>3, <3>6, Zenon
          <6> QED
            BY <6>1, <4>3, SumsThrough
        <5>3. live[i].at + live[i].size =< x.at
          BY <5>1, <5>2, <3>2, <3>3
        <5> QED
          BY <5>3 DEF Apart
      <4> QED
        BY <4>1, <4>2, <4>3 DEF Apart
    <3> QED
      BY <3>4, <3>5
  <2>2. c.start =< x.at /\ x.at + x.size =< c.base + c.size
    <3>1. c.start \in Nat
      BY TypeFacts DEF ArenaInv
    <3> QED
      BY <1>0, <1>t, <3>1
  <2> QED
    BY <2>1, <2>2, PlacedKept DEF ArenaInv
<1>4. CurrentWell'
  <2>1. c.start \in Nat
    BY TypeFacts DEF ArenaInv
  <2>2. c.start =< cur' /\ cur' =< end'
    BY <1>0, <1>t, <2>1
  <2> QED
    BY <1>0, <2>2 DEF CurrentWell
<1>5. BelowCurrent'
  <2> SUFFICES ASSUME NEW i \in DOMAIN live'
               PROVE  \E k \in blocks :
                         /\ k.start =< live'[i].at
                         /\ live'[i].at + live'[i].size =< k.base + k.size
                         /\ k.base + k.size = end => live'[i].at + live'[i].size =< cur'
    BY DEF BelowCurrent
  <2>1. CASE i = Len(live) + 1
    <3>1. live'[i] = x
      BY <2>1, AppendFacts DEF ArenaInv
    <3>2. c.start \in Nat
      BY TypeFacts DEF ArenaInv
    <3>3. /\ c.start =< x.at /\ x.at + x.size =< c.base + c.size
          /\ c.base + c.size = end => x.at + x.size =< cur'
      BY <1>0, <1>t, <3>2
    <3> QED
      BY <3>1, <3>3, <1>0
  <2>2. CASE i # Len(live) + 1
    <3>1. i \in DOMAIN live /\ live'[i] = live[i]
      BY <2>2, AppendFacts DEF ArenaInv
    <3>2. PICK k \in blocks : /\ k.start =< live[i].at
                              /\ live[i].at + live[i].size =< k.base + k.size
                              /\ k.base + k.size = end => live[i].at + live[i].size =< cur
      BY <3>1 DEF ArenaInv, BelowCurrent
    <3>3. live[i].at \in Nat /\ live[i].size \in Nat /\ cur \in Nat
      BY <3>1, TypeFacts DEF ArenaInv
    <3>4. cur =< cur' /\ cur' \in Nat
      BY <1>t
    <3>5. k.base + k.size = end => live[i].at + live[i].size =< cur
      BY <3>2, Zenon
    <3>6. k.base + k.size = end => live[i].at + live[i].size =< cur'
      BY <3>3, <3>4, <3>5
    <3> QED
      BY <3>1, <3>2, <3>6, Zenon
  <2> QED
    BY <2>1, <2>2
<1> QED
  BY <1>1, <1>2, <1>3, <1>4, <1>5 DEF ArenaInv


-----------------------------------------------------------------------------
(* The ways a request is met. s and a are the size and the alignment once  *)
(* zeros have become ones.                                                 *)
LEMMA BumpStep ==
    ASSUME ArenaInv, NEW s \in 1 .. MaxSize, NEW a \in PowersOfTwo, NEW p \in Address,
           Top + MaxSize + a < Space, Bump(s, a, p), p # 0,
           live' = Append(live, [at |-> p, size |-> s, align |-> a]), allocator' = allocator
    PROVE  ArenaInv'
<1>1. cur \in Nat /\ end \in Nat /\ cur =< Top /\ a \in Nat \ {0} /\ s \in Nat \ {0}
  BY Positive, PowersPositive DEF ArenaInv, ArenaTypeOK, Address
<1>2. p \in Nat /\ cur =< p /\ p < cur + a /\ p % a = 0
  <2>1. cur + a < Space
    BY <1>1, Positive
  <2> QED
    BY <1>1, <2>1, AlignedFacts DEF Bump
<1>3. Word(p + s) = p + s
  BY <1>1, <1>2, WordSame, Positive, SMT
<1>4. cur # 0 /\ p + s =< end
  BY <1>3 DEF Bump, Fits
<1> DEFINE x == [at |-> p, size |-> s, align |-> a]
<1>5. x \in Allocation /\ x.at = p /\ x.size = s /\ x.align = a
  BY <1>1 DEF Allocation
<1>6. cur' = x.at + x.size /\ UNCHANGED <<allocator, blocks, end>>
  BY DEF Bump
<1> HIDE DEF x
<1>7. cur =< x.at /\ x.at + x.size =< end /\ x.at % x.align = 0
  BY <1>2, <1>4, <1>5
<1>8. live' = Append(live, x)
  BY DEF x
<1> QED
  BY <1>4, <1>5, <1>6, <1>7, <1>8, BumpKeeps

(* A region the collector can give is apart from every block. *)
LEMMA RegionFacts ==
    ASSUME ArenaInv, NEW n \in Nat \ {0}, NEW h \in Nat, h < n, NEW a \in Nat \ {0},
           NEW b \in Regions(n, a)
    PROVE  LET K == [base |-> b, start |-> b + h, size |-> n] IN
           /\ K \in Block
           /\ K.base =< K.start /\ K.start < K.base + K.size /\ K.base + K.size =< Top
           /\ \A k \in blocks : Apart(K.base, K.size, k.base, k.size)
<1>1. b \in Nat /\ b + n =< Top /\ b + h \in Address /\ b \in Address
  BY PagesType, Positive DEF Regions, Address
<1>2. \A k \in blocks : Apart(b, n, k.base, k.size)
  BY DEF Regions, Apart
<1> QED
  BY <1>1, <1>2, SMT DEF Block

(* An allocation in a new block with a header of h units. *)
LEMMA NewBlockStep ==
    ASSUME ArenaInv, NEW s \in Nat \ {0}, NEW a \in Nat \ {0}, NEW g \in Nat \ {0},
           NEW n \in Nat \ {0}, NEW h \in Nat, h < n, NEW b \in Regions(n, g),
           NEW p \in Address, b + h =< p, p + s =< b + n, p % a = 0,
           blocks' = blocks \cup {[base |-> b, start |-> b + h, size |-> n]},
           live' = Append(live, [at |-> p, size |-> s, align |-> a]), allocator' = allocator,
           \/ cur' = cur /\ end' = end
           \/ cur' = p + s /\ end' = b + n
    PROVE  ArenaInv'
<1> DEFINE K == [base |-> b, start |-> b + h, size |-> n]
           x == [at |-> p, size |-> s, align |-> a]
<1>1. /\ K \in Block
      /\ K.base =< K.start /\ K.start < K.base + K.size /\ K.base + K.size =< Top
      /\ \A k \in blocks : Apart(K.base, K.size, k.base, k.size)
  BY RegionFacts
<1>2. K.base = b /\ K.start = b + h /\ K.size = n
  OBVIOUS
<1>3. x \in Allocation /\ x.at = p /\ x.size = s /\ x.align = a
  BY DEF Allocation
<1>4. blocks' = blocks \cup {K} /\ live' = Append(live, x)
  OBVIOUS
<1> HIDE DEF K, x
<1>5. /\ K.start =< x.at /\ x.at + x.size =< K.base + K.size /\ x.at % x.align = 0
      /\ \/ cur' = cur /\ end' = end
         \/ cur' = x.at + x.size /\ end' = K.base + K.size
  BY <1>2, <1>3
<1> QED
  BY <1>1, <1>3, <1>4, <1>5, NewBlockKeeps

LEMMA ChainStep ==
    ASSUME ArenaInv, NEW s \in 1 .. MaxSize, NEW a \in PowersOfTwo, NEW p \in Address,
           Top + Header + NormalBlock + MaxSize + a < Space, Normal(s, a), Chain(s, a, p),
           live' = Append(live, [at |-> p, size |-> s, align |-> a]), allocator' = allocator
    PROVE  ArenaInv'
<1>1. a \in Nat \ {0} /\ s \in Nat \ {0}
  BY Positive, PowersPositive
<1>2. Word(s + a) = s + a
  BY <1>1, WordSame, Positive, SMT
<1>3. s + a =< NormalBlock
  BY <1>2 DEF Normal
<1>4. PICK b \in Regions(Header + NormalBlock, MaxAlign) :
         /\ blocks' = blocks \cup {[base |-> b, start |-> b + Header,
                                    size |-> Header + NormalBlock]}
         /\ end' = b + Header + NormalBlock
         /\ p = Aligned(b + Header, a)
  BY DEF Chain
<1>5. b \in Nat /\ b =< Top
  BY PagesType, Positive DEF Regions
<1>6. b + Header =< p /\ p < b + Header + a /\ p % a = 0 /\ p \in Nat
  <2>1. b + Header \in Nat /\ b + Header + a < Space
    BY <1>1, <1>5, Positive, SMT
  <2> QED
    BY <1>1, <1>4, <2>1, AlignedFacts
<1>7. p + s =< b + (Header + NormalBlock) /\ end' = b + (Header + NormalBlock)
  BY <1>1, <1>3, <1>4, <1>5, <1>6, Positive, SMT
<1>8. cur' = p + s
  BY DEF Chain
<1>9. Header + NormalBlock \in Nat \ {0} /\ Header \in Nat /\ Header < Header + NormalBlock
      /\ MaxAlign \in Nat \ {0}
  BY Positive, SMT
<1> QED
  BY <1>1, <1>4, <1>6, <1>7, <1>8, <1>9, NewBlockStep

LEMMA DedicatedStep ==
    ASSUME ArenaInv, NEW s \in 1 .. MaxSize, NEW a \in PowersOfTwo, NEW p \in Address,
           Top + Header + NormalBlock + MaxSize + a < Space, arena_dedicated(s, a, p),
           live' = Append(live, [at |-> p, size |-> s, align |-> a]), allocator' = allocator
    PROVE  ArenaInv'
<1>1. a \in Nat \ {0} /\ s \in Nat \ {0}
  BY Positive, PowersPositive
<1>2. PICK b \in Regions(Header + s + a, a) :
         /\ blocks' = blocks \cup {[base |-> b, start |-> b + Header, size |-> Header + s + a]}
         /\ p = Aligned(b + Header, a)
  BY DEF arena_dedicated
<1>3. b \in Nat /\ b =< Top
  BY PagesType, Positive DEF Regions
<1>4. b + Header =< p /\ p < b + Header + a /\ p % a = 0 /\ p \in Nat
  <2>1. b + Header \in Nat /\ b + Header + a < Space
    BY <1>1, <1>3, Positive, SMT
  <2> QED
    BY <1>1, <1>2, <2>1, AlignedFacts
<1>5. p + s =< b + (Header + s + a)
  BY <1>1, <1>3, <1>4, Positive, SMT
<1>6. cur' = cur /\ end' = end
  BY DEF arena_dedicated
<1>7. Header + s + a \in Nat \ {0} /\ Header \in Nat /\ Header < Header + s + a
  BY <1>1, Positive, SMT
<1> QED
  BY <1>1, <1>2, <1>4, <1>5, <1>6, <1>7, NewBlockStep

LEMMA CustomStep ==
    ASSUME ArenaInv, NEW s \in 1 .. MaxSize, NEW a \in Nat \ {0}, NEW p \in Address, p # 0,
           custom_alloc(s, a, p),
           live' = Append(live, [at |-> p, size |-> s, align |-> a]), allocator' = allocator
    PROVE  ArenaInv'
<1>1. s \in Nat \ {0} /\ p \in Nat
  BY Positive DEF Address
<1>2. /\ p \in Regions(s, a)
      /\ blocks' = blocks \cup {[base |-> p, start |-> p, size |-> s]}
      /\ cur' = cur /\ end' = end
  BY DEF custom_alloc
<1>3. p % a = 0
  BY <1>2 DEF Regions
<1>4. blocks' = blocks \cup {[base |-> p, start |-> p + 0, size |-> s]}
  BY <1>1, <1>2
<1>5. 0 \in Nat /\ 0 < s /\ p + 0 =< p /\ p + s =< p + s
  BY <1>1
<1> QED
  BY <1>1, <1>2, <1>3, <1>4, <1>5, NewBlockStep

(* A step that hands nothing out. *)
LEMMA NothingHandedOut ==
    ASSUME ArenaInv, allocator' \in {"arena", "custom"}, UNCHANGED <<blocks, cur, end, live>>
    PROVE  ArenaInv'
BY DEF ArenaInv, ArenaTypeOK, PlacedWell, BlocksWell, CurrentWell, BelowCurrent

LEMMA AllocStep ==
    ASSUME ArenaInv, NEW n \in 0 .. MaxSize, NEW g \in Nat, NEW p \in Address,
           Top + Header + NormalBlock + MaxSize + g + 1 < Space, filc_async_alloc(n, g, p)
    PROVE  ArenaInv'
<1> DEFINE s == IF n = 0 THEN 1 ELSE n
           a == IF g = 0 THEN 1 ELSE g
<1>2. s \in 1 .. MaxSize /\ a \in Nat \ {0} /\ a =< g + 1
  BY Positive
<1>3. Top + Header + NormalBlock + MaxSize + a < Space
  BY <1>2, Positive
<1>4. /\ IF allocator = "arena" THEN arena_alloc(s, a, p) ELSE custom_alloc(s, a, p)
      /\ live' = IF p = 0 THEN live ELSE Append(live, [at |-> p, size |-> s, align |-> a])
      /\ allocator' = allocator
  BY DEF filc_async_alloc
<1> HIDE DEF s, a
<1>5. allocator \in {"arena", "custom"}
  BY DEF ArenaInv, ArenaTypeOK
<1>6. Top + MaxSize + a < Space
  BY <1>2, <1>3, Positive
<1>7. CASE OutOfMemory(p)
  BY <1>4, <1>5, <1>7, NothingHandedOut DEF OutOfMemory
<1>8. CASE a \in PowersOfTwo /\ Bump(s, a, p)
  <2>1. p # 0
    <3>1. cur \in Nat /\ cur + a < Space /\ cur # 0
      BY <1>2, <1>6, <1>8, Positive DEF ArenaInv, ArenaTypeOK, Address, Bump, Fits
    <3> QED
      BY <1>2, <1>8, <3>1, AlignedFacts DEF Bump
  <2> QED
    BY <1>2, <1>4, <1>6, <1>8, <2>1, BumpStep
<1>9. CASE a \in PowersOfTwo /\ Normal(s, a) /\ Chain(s, a, p)
  <2>1. p # 0
    <3>1. PICK b \in Pages : p = Aligned(b + Header, a)
      BY <1>9 DEF Chain, Regions
    <3>2. b + Header \in Nat \ {0} /\ b + Header + a < Space
      BY <1>2, <1>3, PagesType, Positive
    <3> QED
      BY <1>2, <3>1, <3>2, AlignedFacts
  <2> QED
    BY <1>2, <1>3, <1>4, <1>9, <2>1, ChainStep
<1>10. CASE a \in PowersOfTwo /\ arena_dedicated(s, a, p)
  <2>1. p # 0
    <3>1. PICK b \in Pages : p = Aligned(b + Header, a)
      BY <1>10 DEF arena_dedicated, Regions
    <3>2. b + Header \in Nat \ {0} /\ b + Header + a < Space
      BY <1>2, <1>3, PagesType, Positive
    <3> QED
      BY <1>2, <3>1, <3>2, AlignedFacts
  <2> QED
    BY <1>2, <1>3, <1>4, <1>10, <2>1, DedicatedStep
<1>11. CASE custom_alloc(s, a, p) /\ p # 0
  BY <1>2, <1>4, <1>11, CustomStep
<1>12. CASE custom_alloc(s, a, p) /\ p = 0
  <2>1. 0 \notin Regions(s, a)
    BY PagesType, Positive DEF Regions
  <2>2. UNCHANGED <<blocks, cur, end>>
    BY <1>12, <2>1 DEF custom_alloc
  <2> QED
    BY <1>4, <1>5, <1>12, <2>2, NothingHandedOut
<1> QED
  BY <1>4, <1>7, <1>8, <1>9, <1>10, <1>11, <1>12 DEF arena_alloc

-----------------------------------------------------------------------------
(* What the arena hands out is aligned, inside its block and shared with   *)
(* nothing else (PlacedWell), and its state keeps its type, for every      *)
(* size of block and header, every request below the sizes that wrap and   *)
(* wherever the collector places blocks.                                   *)
THEOREM ArenaSafe == ArenaSpec => [](ArenaTypeOK /\ PlacedWell)
<1>1. ArenaInit => ArenaInv
  <2> SUFFICES ASSUME ArenaInit PROVE ArenaInv
    OBVIOUS
  <2>1. ArenaTypeOK
    BY Positive DEF ArenaInit, ArenaTypeOK, Address
  <2>2. PlacedWell /\ BlocksWell /\ CurrentWell /\ BelowCurrent
    BY DEF ArenaInit, PlacedWell, BlocksWell, CurrentWell, BelowCurrent
  <2> QED
    BY <2>1, <2>2 DEF ArenaInv
<1>2. ArenaInv /\ [ArenaNext]_arenaVars => ArenaInv'
  <2> SUFFICES ASSUME ArenaInv, [ArenaNext]_arenaVars PROVE ArenaInv'
    OBVIOUS
  <2>1. ASSUME NEW r \in Requests, NEW p \in Address, filc_async_alloc(r[1], r[2], p)
        PROVE  ArenaInv'
    <3>1. r[1] \in 0 .. MaxSize /\ r[2] \in Nat
      BY RequestsType
    <3>2. Top + Header + NormalBlock + MaxSize + r[2] + 1 < Space
      BY NothingWraps
    <3> QED
      BY <2>1, <3>1, <3>2, AllocStep
  <2>2. ASSUME NEW b \in {"zeros", "custom"}, filc_async_set_allocator(b)
        PROVE  ArenaInv'
    <3>1. allocator' \in {"arena", "custom"} /\ UNCHANGED <<blocks, cur, end, live>>
      BY <2>2 DEF filc_async_set_allocator
    <3> QED
      BY <3>1, NothingHandedOut
  <2>3. CASE UNCHANGED arenaVars
    <3>1. allocator' \in {"arena", "custom"} /\ UNCHANGED <<blocks, cur, end, live>>
      BY <2>3 DEF arenaVars, ArenaInv, ArenaTypeOK
    <3> QED
      BY <3>1, NothingHandedOut
  <2> QED
    BY <2>1, <2>2, <2>3 DEF ArenaNext
<1>3. ArenaInv => ArenaTypeOK /\ PlacedWell
  BY DEF ArenaInv
<1> QED
  BY <1>1, <1>2, <1>3, PTL DEF ArenaSpec

-----------------------------------------------------------------------------
(* Staging. What a stub was given is an allocation of the arena's, apart   *)
(* from those of the other stubs, and each word stored in it is still      *)
(* there.                                                                  *)

Need(c) == 2 * Len(args[c])

StagedType ==
    /\ args \in Programs
    /\ cells \in [Call -> Address]
    /\ stored \in [Call -> Nat]
    /\ \A c \in Call : stored[c] =< Len(args[c])
    /\ DOMAIN restored = Call
    /\ DOMAIN memory = Address

CellsWell ==
    /\ \A c \in Call : cells[c] # 0 =>
          \E k \in DOMAIN live : live[k].at = cells[c] /\ Need(c) =< live[k].size
    /\ \A c, d \in Call : c # d /\ cells[c] # 0 /\ cells[d] # 0 =>
          Apart(cells[c], Need(c), cells[d], Need(d))

StoredWell ==
    \A c \in Call : \A i \in 1 .. stored[c] :
        cells[c] # 0 /\ memory[cells[c] + 2 * (i - 1)] = StagedWord(args[c][i])

StagingInv == ArenaInv /\ StagedType /\ CellsWell /\ StoredWell /\ ArgumentsRestored

(* Conversions. *)

(* Integers of a type are told apart by their bits, and made of them. *)
LEMMA BitsFacts ==
    ASSUME NEW h \in Nat \ {0}, NEW x \in -h .. h - 1
    PROVE  /\ 0 =< x => x % (2 * h) = x
           /\ x < 0 => x % (2 * h) = x + 2 * h
<1>1. ASSUME NEW m \in Nat \ {0}, 0 =< x, x < m PROVE x % m = x
  BY <1>1
<1>2. ASSUME NEW m \in Nat \ {0}, x < 0, -m =< x PROVE x % m = x + m
  BY <1>2
<1>3. PICK m \in Nat \ {0} : m = 2 * h
  OBVIOUS
<1>4. x < m /\ -m =< x
  BY <1>3
<1>5. 0 =< x => x % m = x
  BY <1>1, <1>4
<1>6. x < 0 => x % m = x + m
  BY <1>2, <1>4
<1> QED
  BY <1>3, <1>5, <1>6, Zenon

LEMMA HalfFacts ==
    ASSUME NEW a \in Arguments
    PROVE  Halfway(a) \in Nat \ {0} /\ 2^a.bits = 2 * Halfway(a)
<1>1. a.bits \in 1 .. WordBits
  BY DEF Arguments
<1> QED
  BY <1>1, PowersDouble DEF Halfway

(* The conversions of integers. *)
LEMMA IntegerWords ==
    ASSUME NEW a \in Arguments, IsInteger(a), NEW w
    PROVE  /\ StagedWord(a) = Bits(a.value, a.bits)
           /\ LoadedValue(a, w) = Signed(Bits(w, a.bits), a.bits)
<1>1. a.type # "ptr"
  BY DEF IsInteger
<1> QED
  BY <1>1 DEF StagedWord, LoadedValue

(* A word stored and loaded is the argument, or zero for what does not fit *)
(* a word.                                                                 *)
LEMMA RoundTrip ==
    ASSUME NEW a \in Arguments,
           IsInteger(a) => a.value \in -Halfway(a) .. Halfway(a) - 1
    PROVE  LoadedValue(a, StagedWord(a)) = IF a.type = "other" THEN 0 ELSE a.value
<1>1. CASE IsInteger(a)
  <2>1. PICK h \in Nat \ {0} : h = Halfway(a) /\ 2^a.bits = 2 * h
    BY HalfFacts
  <2>2. PICK x \in -h .. h - 1 : x = a.value
    BY <1>1, <2>1
  <2>3. PICK w : w = x % (2 * h)
    OBVIOUS
  <2>4. /\ 0 =< x => w = x
        /\ x < 0 => w = x + 2 * h
    BY <2>3, BitsFacts
  <2>5. w \in 0 .. 2 * h - 1
    BY <2>4
  <2>6. w % (2 * h) = w
    <3>1. PICK m \in Nat \ {0} : m = 2 * h
      OBVIOUS
    <3>2. w \in 0 .. m - 1
      BY <2>5, <3>1
    <3>3. w % m = w
      BY <3>2
    <3> QED
      BY <3>1, <3>3
  <2>7. StagedWord(a) = w
    <3>1. StagedWord(a) = x % 2^a.bits
      BY <1>1, <2>2, IntegerWords DEF Bits
    <3> QED
      BY <2>1, <2>3, <3>1, Zenon
  <2>8. LoadedValue(a, w) = IF w >= h THEN w - 2 * h ELSE w
    <3>1. LoadedValue(a, w) = Signed(w % 2^a.bits, a.bits)
      BY <1>1, IntegerWords DEF Bits
    <3>2. w % 2^a.bits = w
      BY <2>1, <2>6, Zenon
    <3>3. Signed(w, a.bits) = IF w >= h THEN w - 2 * h ELSE w
      BY <2>1, Zenon DEF Signed, Halfway
    <3> QED
      BY <3>1, <3>2, <3>3, Zenon
  <2>9. (IF w >= h THEN w - 2 * h ELSE w) = x
    BY <2>4
  <2>10. a.type # "other"
    BY <1>1 DEF IsInteger
  <2> QED
    BY <2>2, <2>7, <2>8, <2>9, <2>10
<1>2. CASE a.type = "ptr"
  BY <1>2 DEF LoadedValue, StagedWord, IsInteger
<1>3. CASE a.type = "other"
  BY <1>3 DEF LoadedValue, StagedWord, IsInteger
<1> QED
  BY <1>1, <1>2, <1>3 DEF Arguments, IsInteger

(* A wider integer has at least twice the values. *)
LEMMA WiderFacts ==
    ASSUME NEW a \in Arguments, NEW b \in Arguments, a.bits < b.bits
    PROVE  2 * Halfway(a) =< Halfway(b)
<1>1. a.bits \in 1 .. WordBits /\ b.bits \in 1 .. WordBits
  BY DEF Arguments
<1>2. a.bits \in 0 .. b.bits - 1
  BY <1>1
<1>3. 2^a.bits =< 2^(b.bits - 1)
  BY <1>1, <1>2, PowersGrow
<1> QED
  BY <1>3, HalfFacts DEF Halfway

(* When the keys of two integers are equal. *)
LEMMA KeysTell ==
    ASSUME NEW a \in Arguments, NEW b \in Arguments, IsInteger(a), IsInteger(b),
           a.value \in -Halfway(a) .. Halfway(a) - 1,
           b.value \in -Halfway(b) .. Halfway(b) - 1
    PROVE  LockKey(a) = LockKey(b) <=>
              \/ a.value = b.value /\ (a.bits = b.bits \/ a.value >= 0)
              \/ ReadAs(a, b) \/ ReadAs(b, a)
<1>1. PICK h \in Nat \ {0} : h = Halfway(a) /\ 2^a.bits = 2 * h
  BY HalfFacts
<1>2. PICK g \in Nat \ {0} : g = Halfway(b) /\ 2^b.bits = 2 * g
  BY HalfFacts
<1>3. PICK x \in -h .. h - 1 : x = a.value
  BY <1>1
<1>4. PICK y \in -g .. g - 1 : y = b.value
  BY <1>2
<1>5. LockKey(a) = x % (2 * h) /\ LockKey(b) = y % (2 * g)
  <2>1. LockKey(a) = x % 2^a.bits /\ LockKey(b) = y % 2^b.bits
    BY <1>3, <1>4, IntegerWords DEF Bits, LockKey
  <2> QED
    BY <1>1, <1>2, <2>1, Zenon
<1>6. /\ 0 =< x => LockKey(a) = x
      /\ x < 0 => LockKey(a) = x + 2 * h
  BY <1>5, BitsFacts
<1>7. /\ 0 =< y => LockKey(b) = y
      /\ y < 0 => LockKey(b) = y + 2 * g
  BY <1>5, BitsFacts
<1>8. /\ ReadAs(a, b) <=> a.bits < b.bits /\ x < 0 /\ y = x + 2 * h
      /\ ReadAs(b, a) <=> b.bits < a.bits /\ y < 0 /\ x = y + 2 * g
  BY <1>1, <1>2, <1>3, <1>4, Zenon DEF ReadAs
<1>9. a.bits \in Nat /\ b.bits \in Nat
  BY DEF Arguments
<1>10. CASE a.bits = b.bits
  <2>1. h = g
    BY <1>1, <1>2, <1>10 DEF Halfway
  <2>2. LockKey(a) = LockKey(b) <=> x = y
    BY <1>6, <1>7, <2>1
  <2> QED
    BY <1>3, <1>4, <1>8, <1>9, <1>10, <2>2
<1>11. CASE a.bits < b.bits
  <2>1. 2 * h =< g
    BY <1>1, <1>2, <1>11, WiderFacts
  <2>2. LockKey(a) = LockKey(b) <=> (x = y /\ x >= 0) \/ (x < 0 /\ y = x + 2 * h)
    BY <1>6, <1>7, <2>1
  <2> QED
    BY <1>3, <1>4, <1>8, <1>9, <1>11, <2>2
<1>12. CASE b.bits < a.bits
  <2>1. 2 * g =< h
    BY <1>1, <1>2, <1>12, WiderFacts
  <2>2. LockKey(a) = LockKey(b) <=> (x = y /\ x >= 0) \/ (y < 0 /\ x = y + 2 * g)
    BY <1>6, <1>7, <2>1
  <2> QED
    BY <1>3, <1>4, <1>8, <1>9, <1>12, <2>2
<1> QED
  BY <1>9, <1>10, <1>11, <1>12

-----------------------------------------------------------------------------
(* Steps. *)

LEMMA CallFacts ==
    ASSUME StagedType, NEW c \in Call
    PROVE  /\ args[c] \in Seq(Arguments)
           /\ \A i \in DOMAIN args[c] : IsInteger(args[c][i]) =>
                 args[c][i].value \in -Halfway(args[c][i]) .. Halfway(args[c][i]) - 1
           /\ Len(args[c]) \in Nat /\ DOMAIN args[c] = 1 .. Len(args[c])
           /\ Need(c) \in 0 .. MaxSize
           /\ cells[c] \in Nat /\ stored[c] \in 0 .. Len(args[c])
<1>1. args \in Programs /\ c \in DOMAIN args
  BY DEF StagedType, Call
<1>2. /\ args[c] \in Seq(Arguments)
      /\ \A i \in DOMAIN args[c] : IsInteger(args[c][i]) =>
            args[c][i].value \in -Halfway(args[c][i]) .. Halfway(args[c][i]) - 1
      /\ 2 * Len(args[c]) =< MaxSize
  BY <1>1, ProgramsType, Zenon
<1>3. Len(args[c]) \in Nat /\ DOMAIN args[c] = 1 .. Len(args[c])
  BY <1>2
<1>4. Need(c) \in 0 .. MaxSize
  BY <1>2, <1>3, Positive DEF Need
<1>5. cells[c] \in Nat /\ stored[c] \in 0 .. Len(args[c])
  BY <1>3, Positive DEF StagedType, Address
<1> QED
  BY <1>2, <1>3, <1>4, <1>5

(* A stub's cells are in memory. *)
LEMMA CellBounds ==
    ASSUME StagingInv, NEW c \in Call, cells[c] # 0
    PROVE  cells[c] + Need(c) =< Top
<1>1. PICK k \in DOMAIN live : live[k].at = cells[c] /\ Need(c) =< live[k].size
  BY DEF StagingInv, CellsWell
<1>2. PICK b \in blocks : live[k].at + live[k].size =< b.base + b.size
  BY DEF StagingInv, ArenaInv, PlacedWell
<1>3. b.base + b.size =< Top
  BY DEF StagingInv, ArenaInv, BlocksWell
<1>4. live[k].at \in Nat /\ live[k].size \in Nat /\ b.base \in Nat /\ b.size \in Nat
  BY TypeFacts DEF StagingInv, ArenaInv
<1>5. Need(c) \in Nat
  BY CallFacts, Positive DEF StagingInv
<1>6. Top \in Nat
  BY Positive
<1>7. PICK x, y \in Nat : x = live[k].at /\ y = live[k].size
  BY <1>4
<1>8. x + y =< Top
  BY <1>2, <1>3, <1>4, <1>6, <1>7
<1> QED
  BY <1>1, <1>5, <1>6, <1>7, <1>8

(* What is handed out is apart from what was, and that stays. *)
LEMMA HandedOut ==
    ASSUME ArenaInv, ArenaInv', NEW n \in 0 .. MaxSize, NEW g \in Nat, NEW p \in Address,
           filc_async_alloc(n, g, p)
    PROVE  /\ \A k \in DOMAIN live : k \in DOMAIN live' /\ live'[k] = live[k]
           /\ p # 0 => \A k \in DOMAIN live :
                          Apart(live[k].at, live[k].size, p, IF n = 0 THEN 1 ELSE n)
           /\ p # 0 => \E k \in DOMAIN live' : live'[k].at = p /\ n =< live'[k].size
<1>0. live \in Seq(Allocation) /\ live' \in Seq(Allocation)
  BY DEF ArenaInv, ArenaTypeOK, Allocation
<1>1. CASE p = 0
  <2>1. live' = live
    BY <1>1 DEF filc_async_alloc
  <2> QED
    BY <1>1, <2>1
<1>2. CASE p # 0
  <2>1. PICK s \in Nat : s = IF n = 0 THEN 1 ELSE n
    OBVIOUS
  <2>2. PICK x : live' = Append(live, x) /\ x.at = p /\ x.size = s
    BY <1>2, <2>1 DEF filc_async_alloc
  <2>3. /\ \A k \in DOMAIN live : k \in DOMAIN live' /\ live'[k] = live[k] /\ k # Len(live) + 1
        /\ Len(live) + 1 \in DOMAIN live' /\ live'[Len(live) + 1] = x
    BY <1>0, <2>2
  <2>4. ASSUME NEW k \in DOMAIN live
        PROVE  Apart(live[k].at, live[k].size, p, s)
    <3>1. PICK j : j = Len(live) + 1
      OBVIOUS
    <3>2. k \in DOMAIN live' /\ j \in DOMAIN live' /\ k # j
      BY <2>3, <3>1
    <3>3. Apart(live'[k].at, live'[k].size, live'[j].at, live'[j].size)
      BY <3>2 DEF ArenaInv, PlacedWell
    <3> QED
      BY <2>2, <2>3, <3>1, <3>3
  <2>5. n =< s
    BY <2>1
  <2> QED
    BY <1>2, <2>1, <2>2, <2>3, <2>4, <2>5
<1> QED
  BY <1>1, <1>2

LEMMA CellsClear ==
    ASSUME StagingInv, ArenaInv', NEW n \in 0 .. MaxSize, NEW g \in Nat, NEW p \in Address,
           filc_async_alloc(n, g, p), p # 0, NEW c \in Call, cells[c] # 0
    PROVE  Apart(cells[c], Need(c), p, n) /\ Apart(p, n, cells[c], Need(c))
<1>1. PICK k \in DOMAIN live : live[k].at = cells[c] /\ Need(c) =< live[k].size
  BY DEF StagingInv, CellsWell
<1>2. PICK s \in Nat : s = IF n = 0 THEN 1 ELSE n
  OBVIOUS
<1>3. Apart(live[k].at, live[k].size, p, s)
  BY <1>2, HandedOut DEF StagingInv
<1>4. /\ live[k].size \in Nat /\ cells[c] \in Nat /\ Need(c) \in Nat /\ p \in Nat /\ n \in Nat
      /\ n =< s
  BY <1>2, TypeFacts, CallFacts, Positive DEF StagingInv, ArenaInv, Address
<1>5. Apart(cells[c], live[k].size, p, s)
  BY <1>1, <1>3
<1>6. PICK z \in Nat : z = live[k].size
  BY <1>4
<1>7. PICK m \in Nat : m = Need(c) /\ m =< z
  BY <1>1, <1>4, <1>6
<1>8. cells[c] + z =< p \/ p + s =< cells[c]
  BY <1>5, <1>6 DEF Apart
<1>9. cells[c] + m =< p \/ p + n =< cells[c]
  BY <1>4, <1>7, <1>8
<1> QED
  BY <1>7, <1>9 DEF Apart

(* Allocations of the arena kept in place, cells stay well. *)
LEMMA CellsKept ==
    ASSUME CellsWell, \A k \in DOMAIN live : k \in DOMAIN live' /\ live'[k] = live[k],
           UNCHANGED <<args, cells>>
    PROVE  CellsWell'
<1>0. Call' = Call /\ \A c \in Call : Need(c)' = Need(c)
  BY DEF Call, Need
<1>1. ASSUME NEW c \in Call, cells[c] # 0
      PROVE  \E k \in DOMAIN live' : live'[k].at = cells[c] /\ Need(c) =< live'[k].size
  BY <1>1 DEF CellsWell
<1>2. ASSUME NEW c \in Call, NEW d \in Call, c # d, cells[c] # 0, cells[d] # 0
      PROVE  Apart(cells[c], Need(c), cells[d], Need(d))
  BY <1>2 DEF CellsWell
<1> QED
  BY <1>0, <1>1, <1>2 DEF CellsWell

LEMMA StubAllocatesStep ==
    ASSUME StagingInv, NEW c \in Call, StubAllocates(c)
    PROVE  StagingInv'
<1>1. PICK p \in Address \ {0} :
         filc_async_alloc(Need(c), 2, p) /\ cells' = [cells EXCEPT ![c] = p]
  BY DEF StubAllocates, Need
<1>2. /\ cells[c] = 0 /\ UNCHANGED <<args, stored, restored, memory>>
      /\ Call' = Call
  BY DEF StubAllocates, Call
<1>3. Need(c) \in 0 .. MaxSize /\ 2 \in Nat
  BY CallFacts DEF StagingInv
<1>4. ArenaInv'
  BY <1>1, <1>3, AllocStep, StagingWraps DEF StagingInv
<1>5. /\ \A k \in DOMAIN live : k \in DOMAIN live' /\ live'[k] = live[k]
      /\ \E k \in DOMAIN live' : live'[k].at = p /\ Need(c) =< live'[k].size
  BY <1>1, <1>3, <1>4, HandedOut DEF StagingInv
<1>6. /\ DOMAIN cells = Call /\ cells'[c] = p
      /\ \A d \in Call : d # c => cells'[d] = cells[d]
  BY <1>1 DEF StagingInv, StagedType
<1>7. \A d \in Call : Need(d)' = Need(d)
  BY <1>2 DEF Need
<1>8. StagedType'
  <2>1. cells' \in [Call -> Address]
    BY <1>1 DEF StagingInv, StagedType
  <2> QED
    BY <1>2, <2>1 DEF StagingInv, StagedType
<1>9. CellsWell'
  <2>1. ASSUME NEW d \in Call, cells'[d] # 0
        PROVE  \E k \in DOMAIN live' : live'[k].at = cells'[d] /\ Need(d) =< live'[k].size
    BY <1>5, <1>6, <2>1 DEF StagingInv, CellsWell
  <2>2. ASSUME NEW d \in Call, NEW e \in Call, d # e, cells'[d] # 0, cells'[e] # 0
        PROVE  Apart(cells'[d], Need(d), cells'[e], Need(e))
    <3>1. CASE d = c
      BY <1>1, <1>3, <1>4, <1>6, <2>2, <3>1, CellsClear
    <3>2. CASE e = c
      BY <1>1, <1>3, <1>4, <1>6, <2>2, <3>2, CellsClear
    <3>3. CASE d # c /\ e # c
      BY <1>6, <2>2, <3>3 DEF StagingInv, CellsWell
    <3> QED
      BY <3>1, <3>2, <3>3
  <2> QED
    BY <1>2, <1>7, <2>1, <2>2 DEF CellsWell
<1>10. StoredWell'
  BY <1>2, <1>6 DEF StagingInv, StoredWell
<1>11. ArgumentsRestored'
  BY <1>2 DEF StagingInv, ArgumentsRestored
<1> QED
  BY <1>4, <1>8, <1>9, <1>10, <1>11 DEF StagingInv

LEMMA StubStoresStep ==
    ASSUME StagingInv, NEW c \in Call, StubStores(c)
    PROVE  StagingInv'
<1>1. /\ cells[c] # 0 /\ stored[c] < Len(args[c])
      /\ UNCHANGED <<arenaVars, args, cells, restored>>
      /\ stored' = [stored EXCEPT ![c] = @ + 1]
      /\ Call' = Call
  BY DEF StubStores, Call
<1>2. PICK i \in Nat : i = stored[c] + 1
  BY CallFacts DEF StagingInv
<1>3. PICK x, y : /\ x = cells[c] + 2 * (i - 1)
                  /\ y = cells[c] + 2 * (i - 1) + 1
  OBVIOUS
<1>4. /\ \A z \in Address : z # x /\ z # y => memory'[z] = memory[z]
      /\ x \in Address => memory'[x] = StagedWord(args[c][i])
      /\ DOMAIN memory' = Address
  <2>1. memory' = [memory EXCEPT ![x] = StagedWord(args[c][i]),
                                 ![y] = IF args[c][i].type = "ptr" THEN @ ELSE 0]
    BY <1>2, <1>3 DEF StubStores
  <2>2. x # y
    BY <1>2, <1>3, CallFacts DEF StagingInv
  <2>3. DOMAIN memory = Address
    BY DEF StagingInv, StagedType
  <2> QED
    BY <2>1, <2>2, <2>3
<1>5. ArenaInv'
  BY <1>1 DEF StagingInv, arenaVars, ArenaInv, ArenaTypeOK, PlacedWell, BlocksWell, CurrentWell,
     BelowCurrent
<1>6. StagedType'
  <2>1. stored[c] \in Nat /\ DOMAIN stored = Call /\ Len(args[c]) \in Nat
    BY CallFacts DEF StagingInv, StagedType
  <2>2. stored' \in [Call -> Nat] /\ \A d \in Call : stored'[d] =< Len(args[d])
    BY <1>1, <2>1 DEF StagingInv, StagedType
  <2> QED
    BY <1>1, <1>4, <2>2 DEF StagingInv, StagedType
<1>7. CellsWell'
  BY <1>1, CellsKept DEF StagingInv, arenaVars
<1>8. StoredWell'
  <2> SUFFICES ASSUME NEW d \in Call, NEW j \in 1 .. stored'[d]
               PROVE  cells[d] # 0 /\ memory'[cells[d] + 2 * (j - 1)] = StagedWord(args[d][j])
    BY <1>1 DEF StoredWell
  <2>1. /\ cells[c] \in Nat /\ Need(c) = 2 * Len(args[c]) /\ Len(args[c]) \in Nat
        /\ cells[d] \in Nat /\ Need(d) = 2 * Len(args[d]) /\ Len(args[d]) \in Nat
        /\ stored[c] \in Nat /\ stored[d] \in 0 .. Len(args[d])
        /\ Top \in Nat /\ cells[c] + Need(c) =< Top
    BY <1>1, CallFacts, CellBounds, Positive DEF StagingInv, Need
  <2>2. stored'[d] = IF d = c THEN i ELSE stored[d]
    BY <1>1, <1>2 DEF StagingInv, StagedType
  <2>3. j \in Nat
    BY <2>1, <2>2
  <2>a. PICK m, u, t \in Nat : m = cells[c] /\ u = Len(args[c]) /\ t = Top
    BY <2>1
  <2>b. m + 2 * u =< t /\ i =< u /\ i \in Nat \ {0}
    BY <1>1, <1>2, <2>1, <2>a
  <2>4. CASE d = c /\ j = i
    <3>1. x \in Address
      BY <1>3, <2>a, <2>b DEF Address
    <3> QED
      BY <1>1, <1>3, <1>4, <2>4, <3>1
  <2>5. CASE d = c /\ j # i
    <3>1. j \in 1 .. stored[d] /\ j < i
      BY <1>2, <2>1, <2>2, <2>5
    <3>2. cells[d] # 0 /\ memory[cells[d] + 2 * (j - 1)] = StagedWord(args[d][j])
      BY <3>1 DEF StagingInv, StoredWell
    <3>3. /\ cells[d] + 2 * (j - 1) \in Address
          /\ cells[d] + 2 * (j - 1) # x /\ cells[d] + 2 * (j - 1) # y
      <4>1. m + 2 * (j - 1) \in 0 .. t
        BY <2>b, <3>1
      <4>2. m + 2 * (j - 1) # m + 2 * (i - 1) /\ m + 2 * (j - 1) # m + 2 * (i - 1) + 1
        BY <2>b, <3>1
      <4> QED
        BY <1>3, <2>5, <2>a, <4>1, <4>2, Zenon DEF Address
    <3> QED
      BY <1>4, <3>2, <3>3
  <2>6. CASE d # c
    <3>1. j \in 1 .. stored[d]
      BY <2>2, <2>6
    <3>2. cells[d] # 0 /\ memory[cells[d] + 2 * (j - 1)] = StagedWord(args[d][j])
      BY <3>1 DEF StagingInv, StoredWell
    <3>3. cells[d] + Need(d) =< Top
      BY <3>2, CellBounds
    <3>4. Apart(cells[c], Need(c), cells[d], Need(d))
      BY <1>1, <2>6, <3>2 DEF StagingInv, CellsWell
    <3>5. PICK n, v \in Nat : n = cells[d] /\ v = Len(args[d])
      BY <2>1
    <3>6. m + 2 * u =< n \/ n + 2 * v =< m
      BY <2>1, <2>a, <3>4, <3>5 DEF Apart
    <3>8. j =< v /\ j \in Nat \ {0}
      BY <2>1, <3>1, <3>5
    <3>9. n + 2 * (j - 1) # m + 2 * (i - 1) /\ n + 2 * (j - 1) # m + 2 * (i - 1) + 1
      BY <2>b, <3>6, <3>8
    <3>10. n + 2 * (j - 1) \in Address
      BY <2>1, <3>3, <3>5, <3>8 DEF Address
    <3> QED
      BY <1>3, <1>4, <2>a, <3>2, <3>5, <3>9, <3>10
  <2> QED
    BY <2>4, <2>5, <2>6
<1>9. ArgumentsRestored'
  BY <1>1 DEF StagingInv, ArgumentsRestored
<1> QED
  BY <1>5, <1>6, <1>7, <1>8, <1>9 DEF StagingInv

LEMMA ThunkRunsStep ==
    ASSUME StagingInv, NEW c \in Call, ThunkRuns(c)
    PROVE  StagingInv'
<1>1. /\ cells[c] # 0 /\ stored[c] = Len(args[c])
      /\ UNCHANGED <<arenaVars, args, cells, stored, memory>>
      /\ Call' = Call
  BY DEF ThunkRuns, Call
<1>2. /\ DOMAIN restored' = DOMAIN restored
      /\ \A d \in DOMAIN restored : d # c => restored'[d] = restored[d]
      /\ c \in DOMAIN restored => restored'[c] = [i \in DOMAIN args[c] |->
            LoadedValue(args[c][i], memory[cells[c] + 2 * (i - 1)])]
  BY DEF ThunkRuns
<1>3. ArenaInv'
  BY <1>1 DEF StagingInv, arenaVars, ArenaInv, ArenaTypeOK, PlacedWell, BlocksWell, CurrentWell,
     BelowCurrent
<1>4. StagedType'
  BY <1>1, <1>2 DEF StagingInv, StagedType
<1>5. CellsWell'
  BY <1>1, CellsKept DEF StagingInv, arenaVars
<1>6. StoredWell'
  BY <1>1 DEF StagingInv, StoredWell
<1>7. ArgumentsRestored'
  <2> SUFFICES ASSUME NEW d \in Call, restored'[d] # <<>>, NEW i \in DOMAIN args[d]
               PROVE  restored'[d][i] =
                         IF args[d][i].type = "other" THEN 0 ELSE args[d][i].value
    BY <1>1 DEF ArgumentsRestored
  <2>0. DOMAIN restored = Call
    BY DEF StagingInv, StagedType
  <2>1. CASE d # c
    BY <1>2, <2>0, <2>1 DEF StagingInv, ArgumentsRestored
  <2>2. CASE d = c
    <3>1. PICK a : a = args[c][i]
      OBVIOUS
    <3>2. /\ a \in Arguments
          /\ IsInteger(a) => a.value \in -Halfway(a) .. Halfway(a) - 1
      <4>1. StagedType
        BY DEF StagingInv
      <4>2. args[c] \in Seq(Arguments)
        BY <4>1, CallFacts
      <4>3. IsInteger(args[c][i]) =>
               args[c][i].value \in -Halfway(args[c][i]) .. Halfway(args[c][i]) - 1
        BY <2>2, <4>1, CallFacts
      <4> QED
        BY <2>2, <3>1, <4>2, <4>3
    <3>3. i \in 1 .. stored[c]
      BY <1>1, <2>2, CallFacts DEF StagingInv
    <3>4. memory[cells[c] + 2 * (i - 1)] = StagedWord(a)
      BY <3>1, <3>3 DEF StagingInv, StoredWell
    <3>5. restored'[c][i] = LoadedValue(a, StagedWord(a))
      BY <1>2, <2>0, <2>2, <3>1, <3>4
    <3>6. LoadedValue(a, StagedWord(a)) = IF a.type = "other" THEN 0 ELSE a.value
      BY <3>2, RoundTrip
    <3> QED
      BY <2>2, <3>1, <3>5, <3>6
  <2> QED
    BY <2>1, <2>2
<1> QED
  BY <1>3, <1>4, <1>5, <1>6, <1>7 DEF StagingInv

LEMMA RuntimeAllocatesStep ==
    ASSUME StagingInv, NEW r \in Requests, RuntimeAllocates(r[1], r[2])
    PROVE  StagingInv'
<1>1. PICK n \in 0 .. MaxSize, g \in Nat :
         n = r[1] /\ g = r[2] /\ Top + Header + NormalBlock + MaxSize + g + 1 < Space
  BY RequestsType, NothingWraps
<1>2. PICK p \in Address :
         /\ filc_async_alloc(n, g, p)
         /\ memory' = [x \in DOMAIN memory |->
               IF p # 0 /\ x \in p .. p + n - 1 THEN 2^WordBits - 1 ELSE memory[x]]
  BY <1>1 DEF RuntimeAllocates
<1>3. UNCHANGED <<args, cells, stored, restored>> /\ Call' = Call
  BY DEF RuntimeAllocates, Call
<1>4. ArenaInv'
  BY <1>1, <1>2, AllocStep DEF StagingInv
<1>5. \A k \in DOMAIN live : k \in DOMAIN live' /\ live'[k] = live[k]
  BY <1>2, <1>4, HandedOut DEF StagingInv
<1>6. DOMAIN memory' = Address
  BY <1>2 DEF StagingInv, StagedType
<1>7. StagedType'
  BY <1>3, <1>6 DEF StagingInv, StagedType
<1>8. CellsWell'
  BY <1>3, <1>5, CellsKept DEF StagingInv
<1>9. StoredWell'
  <2> SUFFICES ASSUME NEW d \in Call, NEW j \in 1 .. stored[d]
               PROVE  cells[d] # 0 /\ memory'[cells[d] + 2 * (j - 1)] = StagedWord(args[d][j])
    BY <1>3 DEF StoredWell
  <2>1. cells[d] # 0 /\ memory[cells[d] + 2 * (j - 1)] = StagedWord(args[d][j])
    BY DEF StagingInv, StoredWell
  <2>2. PICK m, v, t \in Nat : m = cells[d] /\ v = Len(args[d]) /\ t = Top
    BY CallFacts, Positive DEF StagingInv
  <2>3. j \in Nat \ {0} /\ j =< v
    BY <2>2, CallFacts DEF StagingInv
  <2>4. m + 2 * v =< t
    BY <2>1, <2>2, CellBounds DEF Need
  <2>5. PICK z : z = m + 2 * (j - 1)
    OBVIOUS
  <2>6. z \in Address
    BY <2>2, <2>3, <2>4, <2>5 DEF Address
  <2>7. ~(p # 0 /\ z \in p .. p + n - 1)
    <3>1. SUFFICES ASSUME p # 0, z \in p .. p + n - 1 PROVE FALSE
      OBVIOUS
    <3>2. Apart(cells[d], Need(d), p, n)
      BY <1>2, <1>4, <2>1, <3>1, CellsClear
    <3>3. m + 2 * v =< p \/ p + n =< m
      BY <2>2, <3>2 DEF Apart, Need
    <3>4. p \in Nat /\ n \in Nat
      BY Positive DEF Address
    <3> QED
      BY <2>3, <2>5, <3>1, <3>3, <3>4
  <2>8. memory'[z] = memory[z]
    BY <1>2, <2>6, <2>7 DEF StagingInv, StagedType
  <2> QED
    BY <2>1, <2>2, <2>5, <2>8
<1>10. ArgumentsRestored'
  BY <1>3 DEF StagingInv, ArgumentsRestored
<1> QED
  BY <1>4, <1>7, <1>8, <1>9, <1>10 DEF StagingInv

LEMMA StagingInit == Init => StagingInv
<1> SUFFICES ASSUME Init PROVE StagingInv
  OBVIOUS
<1>1. ArenaInv
  <2>1. ArenaTypeOK
    BY Positive DEF Init, ArenaInit, ArenaTypeOK, Address
  <2>2. PlacedWell /\ BlocksWell /\ CurrentWell /\ BelowCurrent
    BY DEF Init, ArenaInit, PlacedWell, BlocksWell, CurrentWell, BelowCurrent
  <2> QED
    BY <2>1, <2>2 DEF ArenaInv
<1>2. StagedType
  <2>1. \A c \in Call : Len(args[c]) \in Nat
    <3>1. \A c \in DOMAIN args : args[c] \in Seq(Arguments)
      BY ProgramsType, Zenon DEF Init
    <3> QED
      BY <3>1 DEF Call
  <2>2. cells \in [Call -> Address] /\ stored \in [Call -> Nat]
    BY Positive DEF Init, Address
  <2>3. \A c \in Call : stored[c] =< Len(args[c])
    BY <2>1 DEF Init
  <2> QED
    BY <2>2, <2>3 DEF Init, StagedType
<1>3. CellsWell /\ StoredWell /\ ArgumentsRestored
  BY DEF Init, CellsWell, StoredWell, ArgumentsRestored
<1> QED
  BY <1>1, <1>2, <1>3 DEF StagingInv

LEMMA StagingStep == StagingInv /\ [Next]_vars => StagingInv'
<1> SUFFICES ASSUME StagingInv, [Next]_vars PROVE StagingInv'
  OBVIOUS
<1>1. ASSUME NEW c \in Call, StubAllocates(c) PROVE StagingInv'
  BY <1>1, StubAllocatesStep
<1>2. ASSUME NEW c \in Call, StubStores(c) PROVE StagingInv'
  BY <1>2, StubStoresStep
<1>3. ASSUME NEW c \in Call, ThunkRuns(c) PROVE StagingInv'
  BY <1>3, ThunkRunsStep
<1>4. ASSUME NEW r \in Requests, RuntimeAllocates(r[1], r[2]) PROVE StagingInv'
  BY <1>4, RuntimeAllocatesStep
<1>5. ASSUME allocator' \in {"arena", "custom"},
             UNCHANGED <<blocks, cur, end, live, args, cells, stored, restored, memory>>
      PROVE  StagingInv'
  <2>1. ArenaInv'
    BY <1>5, NothingHandedOut DEF StagingInv
  <2>2. CellsWell'
    BY <1>5, CellsKept DEF StagingInv
  <2>3. StagedType' /\ StoredWell' /\ ArgumentsRestored'
    BY <1>5 DEF StagingInv, StagedType, StoredWell, ArgumentsRestored, Call
  <2> QED
    BY <2>1, <2>2, <2>3 DEF StagingInv
<1>6. ASSUME NEW a \in {"zeros", "custom"}, SetAllocator(a) PROVE StagingInv'
  BY <1>5, <1>6 DEF SetAllocator, filc_async_set_allocator
<1>7. CASE UNCHANGED vars
  BY <1>5, <1>7 DEF vars, arenaVars, StagingInv, ArenaInv, ArenaTypeOK
<1> QED
  BY <1>1, <1>2, <1>3, <1>4, <1>6, <1>7 DEF Next

(* Every body gets the arguments of its call, of each type and with their  *)
(* sign, whatever the stubs and runtimes allocate and write in between:    *)
(* for all programs, widths of words, sizes of blocks and placements.      *)
THEOREM Restored == Spec => []ArgumentsRestored
<1>1. StagingInv => ArgumentsRestored
  BY DEF StagingInv
<1> QED
  BY <1>1, StagingInit, StagingStep, PTL DEF Spec

(* What stubs, runtimes and their allocators are given beside one another  *)
(* is aligned, within one block and shared with nothing.                   *)
THEOREM StagingPlaced == Spec => []PlacedWell
<1>1. StagingInv => PlacedWell
  BY DEF StagingInv, ArenaInv
<1> QED
  BY <1>1, StagingInit, StagingStep, PTL DEF Spec

(* Of integers up to a word, for all widths: two have one key in a lock    *)
(* (filc_async_lock_word) exactly when they are equal and of one width or  *)
(* not negative, or are equal once the narrower is read as unsigned. Equal *)
(* negative values of two widths never have.                               *)
THEOREM KeysTellValues == Spec => []KeysAgree
<1>1. StagingInv => KeysAgree
  <2> SUFFICES ASSUME StagingInv PROVE KeysAgree
    OBVIOUS
  <2>1. ASSUME NEW e \in Call, NEW k \in 1 .. stored[e], IsInteger(args[e][k])
        PROVE  /\ args[e][k] \in Arguments
               /\ args[e][k].value \in -Halfway(args[e][k]) .. Halfway(args[e][k]) - 1
    <3>1. StagedType
      BY DEF StagingInv
    <3>2. /\ args[e] \in Seq(Arguments) /\ DOMAIN args[e] = 1 .. Len(args[e])
          /\ stored[e] \in 0 .. Len(args[e]) /\ Len(args[e]) \in Nat
      BY <3>1, CallFacts
    <3>3. k \in DOMAIN args[e]
      BY <3>2
    <3> QED
      BY <2>1, <3>1, <3>2, <3>3, CallFacts
  <2> SUFFICES ASSUME NEW c \in Call, NEW d \in Call,
                      NEW i \in 1 .. stored[c], NEW j \in 1 .. stored[d],
                      IsInteger(args[c][i]), IsInteger(args[d][j])
               PROVE  LET a == args[c][i]
                          b == args[d][j] IN
                      LockKey(a) = LockKey(b) <=>
                         \/ a.value = b.value /\ (a.bits = b.bits \/ a.value >= 0)
                         \/ ReadAs(a, b) \/ ReadAs(b, a)
    BY DEF KeysAgree
  <2> QED
    BY <2>1, KeysTell
<1> QED
  BY <1>1, StagingInit, StagingStep, PTL DEF Spec

-----------------------------------------------------------------------------
(* The list of running tasks and its walkers: Tasks. *)

\* The order of a sequence b, as Before has it for begun.
Precedes(b, t, u) == \E i, j \in 1 .. Len(b) : i < j /\ b[i] = t /\ b[j] = u

FirstIn(b, x, S) == \/ S = {} /\ x = NoTask
                    \/ x \in S /\ \A u \in S : u = x \/ Precedes(b, x, u)
LastIn(b, x, S) == \/ S = {} /\ x = NoTask
                   \/ x \in S /\ \A u \in S : u = x \/ Precedes(b, u, x)

\* b is an order of the tasks in B.
Orders(b, B) ==
    /\ \A t, u \in Task : Precedes(b, t, u) => t \in B /\ u \in B /\ ~Precedes(b, u, t)
    /\ \A t, u, v \in Task : Precedes(b, t, u) /\ Precedes(b, u, v) => Precedes(b, t, v)
    /\ \A t, u \in B : t = u \/ Precedes(b, t, u) \/ Precedes(b, u, t)

(* The list from fst to lst through the links ol and nw is that of the     *)
(* tasks in R.                                                             *)
ListExact(b, R, ol, nw, fst, lst) ==
    /\ FirstIn(b, fst, R)
    /\ LastIn(b, lst, R)
    /\ \A t \in R : FirstIn(b, nw[t], {u \in R : Precedes(b, t, u)})
    /\ \A t \in R : LastIn(b, ol[t], {u \in R : Precedes(b, u, t)})

(* What a task taken out of the list still points at began later, and no   *)
(* running task lies between.                                              *)
StaleLinks(b, B, R, nw) ==
    \A t \in B \ R :
        \/ nw[t] = NoTask
        \/ /\ nw[t] \in B /\ Precedes(b, t, nw[t])
           /\ \A v \in R : ~(Precedes(b, t, v) /\ Precedes(b, v, nw[t]))

(* seen[t]: the tasks that had begun when t was taken out. Those after t   *)
(* that were running then can be reached from t, over tasks that were      *)
(* taken out later and saw no less.                                        *)
SeenWell(b, B, R, nw, seen) ==
    \A t \in B \ R :
        /\ seen[t] \subseteq B
        /\ nw[t] = NoTask => \A d \in seen[t] \cap R : ~Precedes(b, t, d)
        /\ nw[t] \in B \ R => seen[t] \subseteq seen[nw[t]]

(* Where a walk of get_stats is: what it has still to complete is ahead of *)
(* it, and it stands on no task that was taken out before it began.        *)
WalkWell(b, B, R, rdy, seen, p) ==
    p.op = "stats" =>
        /\ p.due \subseteq B /\ p.due \subseteq rdy
        /\ p.task = NoTask => p.due \cap R = {}
        /\ p.task # NoTask =>
            /\ p.task \in B
            /\ p.task \notin R => p.due \subseteq seen[p.task]
            /\ \A d \in p.due \cap R : (d = p.task /\ ~p.asked) \/ Precedes(b, p.task, d)

\* What a thread may be doing.
Doing ==
    {Idle}
    \cup [op : {"poll", "wait"}, task : Task, asked : BOOLEAN]
    \cup [op : {"stats"}, task : Task \cup {NoTask}, asked : BOOLEAN, due : SUBSET Task]

Begun == {t \in Task : state[t] # "new"}

TasksTypeOK ==
    /\ state \in [Task -> {"new", "running", "over"}]
    /\ older \in [Task -> Task \cup {NoTask}]
    /\ newer \in [Task -> Task \cup {NoTask}]
    /\ newest \in Task \cup {NoTask}
    /\ oldest \in Task \cup {NoTask}
    /\ handled \in SUBSET Task /\ IsFiniteSet(handled)
    /\ ready \in SUBSET Task
    /\ pc \in [Thread -> Doing]
    /\ begun \in Seq(Task)

HandlesExact ==
    /\ nhandles = Cardinality(handled)
    /\ Running \subseteq handled
    /\ handled \subseteq Begun

\* The tasks in B are in b, each once.
ListsOnce(b, B) ==
    /\ b \in Seq(Task)
    /\ {b[i] : i \in 1 .. Len(b)} = B
    /\ \A i, j \in 1 .. Len(b) : b[i] = b[j] => i = j

BegunOnce == ListsOnce(begun, Begun)

WalksWell ==
    \E seen \in [Task -> SUBSET Task] :
        /\ SeenWell(begun, Begun, Running, newer, seen)
        /\ \A th \in Thread : WalkWell(begun, Begun, Running, ready, seen, pc[th])

(* The inductive invariant. *)
TasksInv ==
    /\ TasksTypeOK
    /\ HandlesExact
    /\ BegunOnce
    /\ ListExact(begun, Running, older, newer, oldest, newest)
    /\ StaleLinks(begun, Begun, Running, newer)
    /\ WalksWell

\* In the order c, t follows all of B; otherwise c is b.
Follows(c, b, B, t) ==
    /\ t \in Task /\ t \notin B
    /\ \A u, v \in Task : Precedes(c, u, v) <=> Precedes(b, u, v) \/ (u \in B /\ v = t)

(* begun is an order of the tasks that have begun. *)
LEMMA SequenceOrders ==
  ASSUME NEW b, NEW B, ListsOnce(b, B)
  PROVE  Orders(b, B)
<1> b \in Seq(Task) /\ {b[i] : i \in 1 .. Len(b)} = B /\ \A i, j \in 1 .. Len(b) : b[i] = b[j] => i = j
  BY DEF ListsOnce
<1>1. Len(b) \in Nat
  OBVIOUS
<1>2. \A t, u \in Task : Precedes(b, t, u) => t \in B /\ u \in B /\ ~Precedes(b, u, t)
  <2> SUFFICES ASSUME NEW t \in Task, NEW u \in Task, Precedes(b, t, u)
               PROVE  t \in B /\ u \in B /\ ~Precedes(b, u, t)
    OBVIOUS
  <2>1. PICK i \in 1 .. Len(b), j \in 1 .. Len(b) : i < j /\ b[i] = t /\ b[j] = u
    BY DEF Precedes
  <2>2. ASSUME Precedes(b, u, t) PROVE FALSE
    <3>1. PICK k \in 1 .. Len(b), l \in 1 .. Len(b) : k < l /\ b[k] = u /\ b[l] = t
      BY <2>2 DEF Precedes
    <3>2. k = j /\ l = i
      BY <2>1, <3>1
    <3> QED
      BY <2>1, <3>1, <3>2, <1>1
  <2> QED
    BY <2>1, <2>2
<1>3. \A t, u, v \in Task : Precedes(b, t, u) /\ Precedes(b, u, v) => Precedes(b, t, v)
  <2> SUFFICES ASSUME NEW t \in Task, NEW u \in Task, NEW v \in Task, Precedes(b, t, u), Precedes(b, u, v)
               PROVE  Precedes(b, t, v)
    OBVIOUS
  <2>1. PICK i \in 1 .. Len(b), j \in 1 .. Len(b) : i < j /\ b[i] = t /\ b[j] = u
    BY DEF Precedes
  <2>2. PICK k \in 1 .. Len(b), l \in 1 .. Len(b) : k < l /\ b[k] = u /\ b[l] = v
    BY DEF Precedes
  <2>3. j = k
    BY <2>1, <2>2
  <2>4. i < l
    BY <2>1, <2>2, <2>3, <1>1
  <2> QED
    BY <2>1, <2>2, <2>4 DEF Precedes
<1>4. \A t, u \in B : t = u \/ Precedes(b, t, u) \/ Precedes(b, u, t)
  <2> SUFFICES ASSUME NEW t \in B, NEW u \in B PROVE t = u \/ Precedes(b, t, u) \/ Precedes(b, u, t)
    OBVIOUS
  <2>1. PICK i \in 1 .. Len(b) : b[i] = t
    OBVIOUS
  <2>2. PICK j \in 1 .. Len(b) : b[j] = u
    OBVIOUS
  <2>3. i = j \/ i < j \/ j < i
    BY <1>1
  <2> QED
    BY <2>1, <2>2, <2>3 DEF Precedes
<1> QED
  BY <1>2, <1>3, <1>4 DEF Orders

(* A task that begins comes after all that have. *)
LEMMA AppendOrders ==
  ASSUME NEW b, NEW B, ListsOnce(b, B), NEW t \in Task, t \notin B, NEW c, c = Append(b, t)
  PROVE  ListsOnce(c, B \cup {t}) /\ Follows(c, b, B, t)
<1> b \in Seq(Task) /\ {b[i] : i \in 1 .. Len(b)} = B /\ \A i, j \in 1 .. Len(b) : b[i] = b[j] => i = j
  BY DEF ListsOnce
<1> DEFINE n == Len(b)
<1>1. /\ n \in Nat /\ c \in Seq(Task) /\ Len(c) = n + 1 /\ c[n + 1] = t
      /\ \A i \in 1 .. n : c[i] = b[i]
  OBVIOUS
<1>2. \A i \in 1 .. Len(c) : (i \in 1 .. n /\ c[i] = b[i] /\ c[i] \in B) \/ (i = n + 1 /\ c[i] = t)
  BY <1>1
<1>3. {c[i] : i \in 1 .. Len(c)} = B \cup {t}
  <2>1. ASSUME NEW u \in B PROVE \E i \in 1 .. Len(c) : c[i] = u
    <3>1. PICK i \in 1 .. n : b[i] = u
      OBVIOUS
    <3> QED
      BY <3>1, <1>1
  <2>2. \E i \in 1 .. Len(c) : c[i] = t
    BY <1>1
  <2> QED
    BY <2>1, <2>2, <1>2
<1>4. \A i, j \in 1 .. Len(c) : c[i] = c[j] => i = j
  BY <1>2
<1>5. ASSUME NEW u \in Task, NEW v \in Task
      PROVE  Precedes(c, u, v) <=> Precedes(b, u, v) \/ (u \in B /\ v = t)
  <2>1. ASSUME Precedes(c, u, v) PROVE Precedes(b, u, v) \/ (u \in B /\ v = t)
    <3>1. PICK i \in 1 .. Len(c), j \in 1 .. Len(c) : i < j /\ c[i] = u /\ c[j] = v
      BY <2>1 DEF Precedes
    <3>2. i \in 1 .. n
      BY <1>1, <3>1
    <3>3. u \in B /\ b[i] = u
      BY <1>2, <3>1, <3>2
    <3>4. CASE j = n + 1
      BY <3>1, <3>3, <3>4, <1>1
    <3>5. CASE j \in 1 .. n
      BY <3>1, <3>2, <3>3, <3>5, <1>1 DEF Precedes
    <3> QED
      BY <3>4, <3>5, <1>2
  <2>2. ASSUME Precedes(b, u, v) PROVE Precedes(c, u, v)
    <3>1. PICK i \in 1 .. n, j \in 1 .. n : i < j /\ b[i] = u /\ b[j] = v
      BY <2>2 DEF Precedes
    <3>2. i \in 1 .. Len(c) /\ j \in 1 .. Len(c) /\ c[i] = u /\ c[j] = v
      BY <1>1, <3>1
    <3> QED
      BY <3>1, <3>2 DEF Precedes
  <2>3. ASSUME u \in B, v = t PROVE Precedes(c, u, v)
    <3>1. PICK i \in 1 .. n : b[i] = u
      BY <2>3
    <3>2. i \in 1 .. Len(c) /\ n + 1 \in 1 .. Len(c) /\ i < n + 1 /\ c[i] = u /\ c[n + 1] = v
      BY <1>1, <2>3, <3>1
    <3> QED
      BY <3>2 DEF Precedes
  <2> QED
    BY <2>1, <2>2, <2>3
<1> QED
  BY <1>1, <1>3, <1>4, <1>5 DEF ListsOnce, Follows

-----------------------------------------------------------------------------
(* The list of the tasks in R, of those in B that have begun, and what     *)
(* running_remove and running_add make of it.                              *)
TaskList(b, B, R, ol, nw, fst, lst) ==
    /\ B \in SUBSET Task /\ R \in SUBSET B
    /\ Orders(b, B)
    /\ ListExact(b, R, ol, nw, fst, lst)
    /\ StaleLinks(b, B, R, nw)

LinksOut(t, ol, nw, fst, lst, o2, n2, f2, l2) ==
    /\ o2 = [u \in Task |-> IF u = nw[t] THEN ol[t] ELSE ol[u]]
    /\ n2 = [u \in Task |-> IF u = ol[t] THEN nw[t] ELSE nw[u]]
    /\ f2 = IF ol[t] = NoTask THEN nw[t] ELSE fst
    /\ l2 = IF nw[t] = NoTask THEN ol[t] ELSE lst

LinksIn(t, ol, nw, fst, lst, o2, n2, f2, l2) ==
    /\ ol \in [Task -> Task \cup {NoTask}]
    /\ o2 = [ol EXCEPT ![t] = lst]
    /\ n2 = [u \in Task |-> IF u = t THEN NoTask ELSE IF u = lst THEN t ELSE nw[u]]
    /\ f2 = IF lst = NoTask THEN t ELSE fst
    /\ l2 = t

(* running_remove: the list is that of the tasks that are left. *)
LEMMA RemoveExact ==
  ASSUME NEW b, NEW B, NEW R, NEW t, NEW ol, NEW nw, NEW fst, NEW lst, NEW o2, NEW n2, NEW f2, NEW l2,
         TaskList(b, B, R, ol, nw, fst, lst), t \in R, LinksOut(t, ol, nw, fst, lst, o2, n2, f2, l2)
  PROVE  ListExact(b, R \ {t}, o2, n2, f2, l2)
<1> B \in SUBSET Task /\ R \in SUBSET B /\ Orders(b, B) /\ ListExact(b, R, ol, nw, fst, lst)
  BY DEF TaskList
<1> /\ o2 = [u \in Task |-> IF u = nw[t] THEN ol[t] ELSE ol[u]]
    /\ n2 = [u \in Task |-> IF u = ol[t] THEN nw[t] ELSE nw[u]]
    /\ f2 = (IF ol[t] = NoTask THEN nw[t] ELSE fst)
    /\ l2 = (IF nw[t] = NoTask THEN ol[t] ELSE lst)
  BY DEF LinksOut
<1> DEFINE Q == R \ {t}
           O(u, v) == Precedes(b, u, v)
<1>1. /\ \A u, v \in Task : O(u, v) => u \in B /\ v \in B /\ ~O(v, u)
      /\ \A u, v, w \in Task : O(u, v) /\ O(v, w) => O(u, w)
      /\ \A u, v \in R : u = v \/ O(u, v) \/ O(v, u)
  BY DEF Orders
<1>2. NoTask \notin R /\ \A u \in R : u \in Task
  BY NoTaskIsNot
<1>3. FirstIn(b, fst, R) /\ LastIn(b, lst, R)
  BY DEF ListExact
<1>4. \A u \in R : /\ FirstIn(b, nw[u], {v \in R : O(u, v)})
                   /\ LastIn(b, ol[u], {v \in R : O(v, u)})
  BY DEF ListExact
<1>5. \A u \in R : \/ nw[u] = NoTask /\ \A v \in R : ~O(u, v)
                   \/ nw[u] \in R /\ O(u, nw[u]) /\ \A v \in R : O(u, v) => v = nw[u] \/ O(nw[u], v)
  BY <1>4 DEF FirstIn
<1>6. \A u \in R : \/ ol[u] = NoTask /\ \A v \in R : ~O(v, u)
                   \/ ol[u] \in R /\ O(ol[u], u) /\ \A v \in R : O(v, u) => v = ol[u] \/ O(v, ol[u])
  BY <1>4 DEF LastIn
<1> HIDE DEF O
<1>7. \A u \in R : nw[u] = t <=> u = ol[t]
  <2> SUFFICES ASSUME NEW u \in R PROVE nw[u] = t <=> u = ol[t]
    OBVIOUS
  <2>1. ASSUME nw[u] = t PROVE u = ol[t]
    <3>1. O(u, t) /\ \A v \in R : O(u, v) => v = t \/ O(t, v)
      BY <1>2, <1>5, <2>1
    <3>2. ol[t] \in R /\ O(ol[t], t) /\ (u = ol[t] \/ O(u, ol[t]))
      BY <1>6, <3>1
    <3> QED
      BY <1>1, <1>2, <3>1, <3>2
  <2>2. ASSUME u = ol[t] PROVE nw[u] = t
    <3>1. O(u, t) /\ \A v \in R : O(v, t) => v = u \/ O(v, u)
      BY <1>2, <1>6, <2>2
    <3>2. nw[u] \in R /\ O(u, nw[u]) /\ (t = nw[u] \/ O(nw[u], t))
      BY <1>5, <3>1
    <3> QED
      BY <1>1, <1>2, <3>1, <3>2
  <2> QED
    BY <2>1, <2>2
<1>8. \A u \in R : ol[u] = t <=> u = nw[t]
  <2> SUFFICES ASSUME NEW u \in R PROVE ol[u] = t <=> u = nw[t]
    OBVIOUS
  <2>1. ASSUME ol[u] = t PROVE u = nw[t]
    <3>1. O(t, u) /\ \A v \in R : O(v, u) => v = t \/ O(v, t)
      BY <1>2, <1>6, <2>1
    <3>2. nw[t] \in R /\ O(t, nw[t]) /\ (u = nw[t] \/ O(nw[t], u))
      BY <1>5, <3>1
    <3> QED
      BY <1>1, <1>2, <3>1, <3>2
  <2>2. ASSUME u = nw[t] PROVE ol[u] = t
    <3>1. O(t, u) /\ \A v \in R : O(t, v) => v = u \/ O(u, v)
      BY <1>2, <1>5, <2>2
    <3>2. ol[u] \in R /\ O(ol[u], u) /\ (t = ol[u] \/ O(t, ol[u]))
      BY <1>6, <3>1
    <3> QED
      BY <1>1, <1>2, <3>1, <3>2
  <2> QED
    BY <2>1, <2>2
<1>9. FirstIn(b, f2, Q)
  <2>1. (R = {} /\ fst = NoTask) \/ (fst \in R /\ \A u \in R : u = fst \/ O(fst, u))
    BY <1>3 DEF FirstIn, O
  <2>2. CASE ol[t] = NoTask
    <3>1. \A v \in R : ~O(v, t)
      BY <2>2, <1>2, <1>6
    <3>2. \A v \in R : v = t \/ O(t, v)
      BY <3>1, <1>1
    <3>3. (nw[t] = NoTask /\ Q = {}) \/ (nw[t] \in Q /\ \A v \in Q : v = nw[t] \/ O(nw[t], v))
      BY <3>2, <1>1, <1>2, <1>5
    <3> QED
      BY <2>2, <3>3 DEF FirstIn, O
  <2>3. CASE ol[t] # NoTask
    <3>1. ol[t] \in R /\ O(ol[t], t)
      BY <2>3, <1>6
    <3>2. fst # t /\ fst \in R
      BY <2>1, <3>1, <1>1, <1>2
    <3> QED
      BY <2>1, <2>3, <3>2 DEF FirstIn, O
  <2> QED
    BY <2>2, <2>3
<1>10. LastIn(b, l2, Q)
  <2>1. (R = {} /\ lst = NoTask) \/ (lst \in R /\ \A u \in R : u = lst \/ O(u, lst))
    BY <1>3 DEF LastIn, O
  <2>2. CASE nw[t] = NoTask
    <3>1. \A v \in R : ~O(t, v)
      BY <2>2, <1>2, <1>5
    <3>2. \A v \in R : v = t \/ O(v, t)
      BY <3>1, <1>1
    <3>3. (ol[t] = NoTask /\ Q = {}) \/ (ol[t] \in Q /\ \A v \in Q : v = ol[t] \/ O(v, ol[t]))
      BY <3>2, <1>1, <1>2, <1>6
    <3> QED
      BY <2>2, <3>3 DEF LastIn, O
  <2>3. CASE nw[t] # NoTask
    <3>1. nw[t] \in R /\ O(t, nw[t])
      BY <2>3, <1>5
    <3>2. lst # t /\ lst \in R
      BY <2>1, <3>1, <1>1, <1>2
    <3> QED
      BY <2>1, <2>3, <3>2 DEF LastIn, O
  <2> QED
    BY <2>2, <2>3
<1>11. ASSUME NEW u \in Q PROVE FirstIn(b, n2[u], {v \in Q : Precedes(b, u, v)})
  <2>1. n2[u] = (IF u = ol[t] THEN nw[t] ELSE nw[u]) /\ u \in R /\ u # t
    BY <1>2
  <2>2. CASE u = ol[t]
    <3>1. O(u, t) /\ \A v \in R : O(v, t) => v = u \/ O(v, u)
      BY <1>2, <1>6, <2>1, <2>2
    <3>2. \A v \in R : O(u, v) <=> v = t \/ O(t, v)
      BY <3>1, <2>1, <1>1, <1>2
    <3>3. \/ nw[t] = NoTask /\ \A v \in Q : ~O(u, v)
          \/ nw[t] \in Q /\ O(u, nw[t]) /\ \A v \in Q : O(u, v) => v = nw[t] \/ O(nw[t], v)
      BY <3>2, <1>1, <1>2, <1>5
    <3> QED
      BY <2>1, <2>2, <3>3 DEF FirstIn, O
  <2>3. CASE u # ol[t]
    <3>1. nw[u] # t
      BY <2>1, <2>3, <1>7
    <3>2. \/ nw[u] = NoTask /\ \A v \in Q : ~O(u, v)
          \/ nw[u] \in Q /\ O(u, nw[u]) /\ \A v \in Q : O(u, v) => v = nw[u] \/ O(nw[u], v)
      BY <2>1, <3>1, <1>5
    <3> QED
      BY <2>1, <2>3, <3>2 DEF FirstIn, O
  <2> QED
    BY <2>2, <2>3
<1>12. ASSUME NEW u \in Q PROVE LastIn(b, o2[u], {v \in Q : Precedes(b, v, u)})
  <2>1. o2[u] = (IF u = nw[t] THEN ol[t] ELSE ol[u]) /\ u \in R /\ u # t
    BY <1>2
  <2>2. CASE u = nw[t]
    <3>1. O(t, u) /\ \A v \in R : O(t, v) => v = u \/ O(u, v)
      BY <1>2, <1>5, <2>1, <2>2
    <3>2. \A v \in R : O(v, u) <=> v = t \/ O(v, t)
      BY <3>1, <2>1, <1>1, <1>2
    <3>3. \/ ol[t] = NoTask /\ \A v \in Q : ~O(v, u)
          \/ ol[t] \in Q /\ O(ol[t], u) /\ \A v \in Q : O(v, u) => v = ol[t] \/ O(v, ol[t])
      BY <3>2, <1>1, <1>2, <1>6
    <3> QED
      BY <2>1, <2>2, <3>3 DEF LastIn, O
  <2>3. CASE u # nw[t]
    <3>1. ol[u] # t
      BY <2>1, <2>3, <1>8
    <3>2. \/ ol[u] = NoTask /\ \A v \in Q : ~O(v, u)
          \/ ol[u] \in Q /\ O(ol[u], u) /\ \A v \in Q : O(v, u) => v = ol[u] \/ O(v, ol[u])
      BY <2>1, <3>1, <1>6
    <3> QED
      BY <2>1, <2>3, <3>2 DEF LastIn, O
  <2> QED
    BY <2>2, <2>3
<1> QED
  BY <1>9, <1>10, <1>11, <1>12 DEF ListExact

(* running_add: the task that begins is the last. *)
LEMMA AddExact ==
  ASSUME NEW b, NEW c, NEW B, NEW R, NEW t, NEW ol, NEW nw, NEW fst, NEW lst, NEW o2, NEW n2, NEW f2, NEW l2,
         TaskList(b, B, R, ol, nw, fst, lst), Follows(c, b, B, t), LinksIn(t, ol, nw, fst, lst, o2, n2, f2, l2)
  PROVE  ListExact(c, R \cup {t}, o2, n2, f2, l2)
<1> B \in SUBSET Task /\ R \in SUBSET B /\ Orders(b, B) /\ ListExact(b, R, ol, nw, fst, lst)
  BY DEF TaskList
<1> t \in Task /\ t \notin B /\ \A u, v \in Task : Precedes(c, u, v) <=> Precedes(b, u, v) \/ (u \in B /\ v = t)
  BY DEF Follows
<1> f2 = (IF lst = NoTask THEN t ELSE fst) /\ l2 = t
  BY DEF LinksIn
<1> DEFINE Q == R \cup {t}
           O(u, v) == Precedes(b, u, v)
           P(u, v) == Precedes(c, u, v)
<1>1. /\ \A u, v \in Task : O(u, v) => u \in B /\ v \in B /\ ~O(v, u)
      /\ \A u, v \in R : u = v \/ O(u, v) \/ O(v, u)
      /\ \A u, v \in Task : P(u, v) <=> O(u, v) \/ (u \in B /\ v = t)
  BY DEF Orders
<1>2. NoTask \notin R /\ NoTask # t /\ \A u \in R : u \in Task /\ u \in B /\ u # t
  BY NoTaskIsNot
<1>3. (R = {} /\ fst = NoTask) \/ (fst \in R /\ \A u \in R : u = fst \/ O(fst, u))
  BY DEF ListExact, FirstIn
<1>4. (R = {} /\ lst = NoTask) \/ (lst \in R /\ \A u \in R : u = lst \/ O(u, lst))
  BY DEF ListExact, LastIn
<1>5. \A u \in R : \/ nw[u] = NoTask /\ \A v \in R : ~O(u, v)
                   \/ nw[u] \in R /\ O(u, nw[u]) /\ \A v \in R : O(u, v) => v = nw[u] \/ O(nw[u], v)
  BY DEF ListExact, FirstIn
<1>6. \A u \in R : \/ ol[u] = NoTask /\ \A v \in R : ~O(v, u)
                   \/ ol[u] \in R /\ O(ol[u], u) /\ \A v \in R : O(v, u) => v = ol[u] \/ O(v, ol[u])
  BY DEF ListExact, LastIn
<1>7. \A u \in R : o2[u] = ol[u] /\ n2[u] = IF u = lst THEN t ELSE nw[u]
  BY <1>2 DEF LinksIn
<1>8. o2[t] = lst /\ n2[t] = NoTask
  BY DEF LinksIn
<1> HIDE DEF O, P
<1>9. FirstIn(c, f2, Q)
  <2>1. f2 \in Q /\ \A u \in Q : u = f2 \/ P(f2, u)
    BY <1>1, <1>2, <1>3, <1>4
  <2> QED
    BY <2>1 DEF FirstIn, P
<1>10. LastIn(c, t, Q)
  <2>1. \A u \in Q : u = t \/ P(u, t)
    BY <1>1, <1>2
  <2> QED
    BY <2>1 DEF LastIn, P
<1>11. ASSUME NEW u \in Q PROVE FirstIn(c, n2[u], {v \in Q : Precedes(c, u, v)})
  <2>1. CASE u = t
    <3>1. \A v \in Q : ~P(t, v)
      BY <1>1, <1>2
    <3> QED
      BY <2>1, <3>1, <1>8 DEF FirstIn, P
  <2>2. CASE u \in R /\ u = lst
    <3>1. P(u, t) /\ \A v \in Q : P(u, v) => v = t
      BY <2>2, <1>1, <1>2, <1>4
    <3> QED
      BY <2>2, <3>1, <1>7 DEF FirstIn, P
  <2>3. CASE u \in R /\ u # lst
    <3>1. n2[u] = nw[u] /\ O(u, lst) /\ lst \in R
      BY <2>3, <1>4, <1>7
    <3>2. nw[u] \in R /\ O(u, nw[u]) /\ \A v \in R : O(u, v) => v = nw[u] \/ O(nw[u], v)
      BY <2>3, <3>1, <1>5
    <3>3. nw[u] \in Q /\ P(u, nw[u]) /\ \A v \in Q : P(u, v) => v = nw[u] \/ P(nw[u], v)
      BY <2>3, <3>2, <1>1, <1>2
    <3> QED
      BY <3>1, <3>3 DEF FirstIn, P
  <2> QED
    BY <2>1, <2>2, <2>3
<1>12. ASSUME NEW u \in Q PROVE LastIn(c, o2[u], {v \in Q : Precedes(c, v, u)})
  <2>1. CASE u = t
    <3>1. \/ lst = NoTask /\ \A v \in Q : ~P(v, t)
          \/ lst \in Q /\ P(lst, t) /\ \A v \in Q : P(v, t) => v = lst \/ P(v, lst)
      BY <1>1, <1>2, <1>4
    <3> QED
      BY <2>1, <3>1, <1>8 DEF LastIn, P
  <2>2. CASE u \in R
    <3>1. \/ ol[u] = NoTask /\ \A v \in Q : ~P(v, u)
          \/ ol[u] \in Q /\ P(ol[u], u) /\ \A v \in Q : P(v, u) => v = ol[u] \/ P(v, ol[u])
      BY <2>2, <1>1, <1>2, <1>6
    <3> QED
      BY <2>2, <3>1, <1>7 DEF LastIn, P
  <2> QED
    BY <2>1, <2>2
<1> QED
  BY <1>9, <1>10, <1>11, <1>12 DEF ListExact

(* What the links and the walks are worth once a task is taken out. *)
LEMMA RemoveWalks ==
  ASSUME NEW b, NEW B, NEW R, NEW t, NEW ol, NEW nw, NEW fst, NEW lst, NEW o2, NEW n2, NEW f2, NEW l2,
         TaskList(b, B, R, ol, nw, fst, lst), t \in R, LinksOut(t, ol, nw, fst, lst, o2, n2, f2, l2),
         NEW seen \in [Task -> SUBSET Task], SeenWell(b, B, R, nw, seen),
         NEW s2, s2 = [seen EXCEPT ![t] = B]
  PROVE  /\ StaleLinks(b, B, R \ {t}, n2)
         /\ s2 \in [Task -> SUBSET Task]
         /\ SeenWell(b, B, R \ {t}, n2, s2)
         /\ \A rdy : \A p \in Doing : WalkWell(b, B, R, rdy, seen, p) => WalkWell(b, B, R \ {t}, rdy, s2, p)
<1> /\ B \in SUBSET Task /\ R \in SUBSET B /\ Orders(b, B)
    /\ ListExact(b, R, ol, nw, fst, lst) /\ StaleLinks(b, B, R, nw)
  BY DEF TaskList
<1> n2 = [u \in Task |-> IF u = ol[t] THEN nw[t] ELSE nw[u]]
  BY DEF LinksOut
<1>1. /\ \A u, v \in Task : Precedes(b, u, v) => u \in B /\ v \in B /\ ~Precedes(b, v, u)
      /\ t \in Task /\ t \in B /\ NoTask \notin B
  BY NoTaskIsNot DEF Orders
<1>2. \/ nw[t] = NoTask /\ \A v \in R : ~Precedes(b, t, v)
      \/ nw[t] \in R /\ Precedes(b, t, nw[t]) /\ \A v \in R : Precedes(b, t, v) => v = nw[t] \/ Precedes(b, nw[t], v)
  BY DEF ListExact, FirstIn
<1>3. ol[t] = NoTask \/ (ol[t] \in R /\ Precedes(b, ol[t], t))
  BY DEF ListExact, LastIn
<1>4. ol[t] # t
  BY <1>1, <1>3
<1>5. n2[t] = nw[t] /\ \A u \in B \ R : n2[u] = nw[u]
  BY <1>1, <1>3, <1>4
<1>6. s2 \in [Task -> SUBSET Task] /\ s2[t] = B /\ \A u \in Task : u # t => s2[u] = seen[u]
  BY <1>1
<1>7. \A u \in B \ (R \ {t}) : u = t \/ u \in B \ R
  OBVIOUS
<1>8. StaleLinks(b, B, R \ {t}, n2)
  <2> SUFFICES ASSUME NEW u \in B \ (R \ {t}), n2[u] # NoTask
               PROVE  /\ n2[u] \in B /\ Precedes(b, u, n2[u])
                      /\ \A v \in R \ {t} : ~(Precedes(b, u, v) /\ Precedes(b, v, n2[u]))
    BY DEF StaleLinks
  <2>1. CASE u = t
    <3>1. nw[t] \in R /\ Precedes(b, t, nw[t]) /\ \A v \in R : Precedes(b, t, v) => v = nw[t] \/ Precedes(b, nw[t], v)
      BY <2>1, <1>2, <1>5
    <3>2. ASSUME NEW v \in R, Precedes(b, t, v), Precedes(b, v, nw[t]) PROVE FALSE
      BY <3>1, <3>2, <1>1
    <3> QED
      BY <2>1, <3>1, <3>2, <1>5
  <2>2. CASE u \in B \ R
    BY <2>2, <1>5 DEF StaleLinks
  <2> QED
    BY <2>1, <2>2, <1>7
<1>9. SeenWell(b, B, R \ {t}, n2, s2)
  <2> SUFFICES ASSUME NEW u \in B \ (R \ {t})
               PROVE  /\ s2[u] \subseteq B
                      /\ n2[u] = NoTask => \A d \in s2[u] \cap (R \ {t}) : ~Precedes(b, u, d)
                      /\ n2[u] \in B \ (R \ {t}) => s2[u] \subseteq s2[n2[u]]
    BY DEF SeenWell
  <2>1. CASE u = t
    <3>1. n2[t] \notin B \ (R \ {t})
      <4>1. nw[t] # t
        BY <1>1, <1>2
      <4> QED
        BY <4>1, <1>1, <1>2, <1>5
    <3> QED
      BY <2>1, <3>1, <1>2, <1>5, <1>6, <1>1
  <2>2. CASE u \in B \ R
    <3>1. u # t /\ s2[u] = seen[u] /\ n2[u] = nw[u]
      BY <2>2, <1>5, <1>6
    <3>2. s2[u] \subseteq B
      BY <2>2, <3>1 DEF SeenWell
    <3>3. n2[u] = NoTask => \A d \in s2[u] \cap (R \ {t}) : ~Precedes(b, u, d)
      BY <2>2, <3>1 DEF SeenWell
    <3>4. ASSUME n2[u] \in B \ (R \ {t}) PROVE s2[u] \subseteq s2[n2[u]]
      <4>1. CASE n2[u] = t
        BY <4>1, <3>2, <1>6
      <4>2. CASE n2[u] \in B \ R
        <5>1. s2[n2[u]] = seen[n2[u]]
          BY <4>2, <1>6
        <5> QED
          BY <2>2, <3>1, <4>2, <5>1 DEF SeenWell
      <4> QED
        BY <3>4, <4>1, <4>2
    <3> QED
      BY <3>2, <3>3, <3>4
  <2> QED
    BY <2>1, <2>2, <1>7
<1>10. ASSUME NEW rdy, NEW p \in Doing, WalkWell(b, B, R, rdy, seen, p)
       PROVE  WalkWell(b, B, R \ {t}, rdy, s2, p)
  <2> SUFFICES ASSUME p.op = "stats"
               PROVE  /\ p.due \subseteq B /\ p.due \subseteq rdy
                      /\ p.task = NoTask => p.due \cap (R \ {t}) = {}
                      /\ p.task # NoTask =>
                          /\ p.task \in B
                          /\ p.task \notin R \ {t} => p.due \subseteq s2[p.task]
                          /\ \A d \in p.due \cap (R \ {t}) : (d = p.task /\ ~p.asked) \/ Precedes(b, p.task, d)
    BY DEF WalkWell
  <2>1. /\ p.due \subseteq B /\ p.due \subseteq rdy
        /\ p.task = NoTask => p.due \cap R = {}
        /\ p.task # NoTask =>
            /\ p.task \in B
            /\ p.task \notin R => p.due \subseteq seen[p.task]
            /\ \A d \in p.due \cap R : (d = p.task /\ ~p.asked) \/ Precedes(b, p.task, d)
    BY <1>10 DEF WalkWell
  <2>2. ASSUME p.task # NoTask, p.task \notin R \ {t} PROVE p.due \subseteq s2[p.task]
    <3>1. CASE p.task = t
      BY <3>1, <2>1, <1>6
    <3>2. CASE p.task # t
      <4>1. p.task \in Task /\ p.task \notin R
        BY <2>1, <2>2, <3>2
      <4> QED
        BY <4>1, <3>2, <2>1, <2>2, <1>6
    <3> QED
      BY <3>1, <3>2
  <2> QED
    BY <2>1, <2>2
<1> QED
  BY <1>6, <1>8, <1>9, <1>10

(* And when a task begins. *)
LEMMA AddWalks ==
  ASSUME NEW b, NEW c, NEW B, NEW R, NEW t, NEW ol, NEW nw, NEW fst, NEW lst, NEW o2, NEW n2, NEW f2, NEW l2,
         TaskList(b, B, R, ol, nw, fst, lst), Follows(c, b, B, t), LinksIn(t, ol, nw, fst, lst, o2, n2, f2, l2),
         NEW seen \in [Task -> SUBSET Task], SeenWell(b, B, R, nw, seen)
  PROVE  /\ StaleLinks(c, B \cup {t}, R \cup {t}, n2)
         /\ SeenWell(c, B \cup {t}, R \cup {t}, n2, seen)
         /\ \A rdy : \A p \in Doing : WalkWell(b, B, R, rdy, seen, p) => WalkWell(c, B \cup {t}, R \cup {t}, rdy, seen, p)
<1> /\ B \in SUBSET Task /\ R \in SUBSET B /\ Orders(b, B)
    /\ ListExact(b, R, ol, nw, fst, lst) /\ StaleLinks(b, B, R, nw)
  BY DEF TaskList
<1> t \in Task /\ t \notin B /\ \A u, v \in Task : Precedes(c, u, v) <=> Precedes(b, u, v) \/ (u \in B /\ v = t)
  BY DEF Follows
<1> n2 = [u \in Task |-> IF u = t THEN NoTask ELSE IF u = lst THEN t ELSE nw[u]]
  BY DEF LinksIn
<1>1. /\ \A u, v \in Task : Precedes(b, u, v) => u \in B /\ v \in B /\ ~Precedes(b, v, u)
      /\ NoTask \notin B /\ NoTask # t
  BY NoTaskIsNot DEF Orders
<1>2. lst = NoTask \/ lst \in R
  BY DEF ListExact, LastIn
<1>3. \A u \in (B \cup {t}) \ (R \cup {t}) : u \in B \ R /\ n2[u] = nw[u] /\ u \in Task
  BY <1>1, <1>2
<1>4. StaleLinks(c, B \cup {t}, R \cup {t}, n2)
  <2> SUFFICES ASSUME NEW u \in B \ R, u \in Task, nw[u] # NoTask
               PROVE  /\ nw[u] \in B \cup {t} /\ Precedes(c, u, nw[u])
                      /\ \A v \in R \cup {t} : ~(Precedes(c, u, v) /\ Precedes(c, v, nw[u]))
    BY <1>3 DEF StaleLinks
  <2>1. /\ nw[u] \in B /\ Precedes(b, u, nw[u])
        /\ \A v \in R : ~(Precedes(b, u, v) /\ Precedes(b, v, nw[u]))
    BY DEF StaleLinks
  <2>2. nw[u] # t /\ nw[u] \in Task
    BY <2>1
  <2> QED
    BY <2>1, <2>2, <1>1
<1>5. SeenWell(c, B \cup {t}, R \cup {t}, n2, seen)
  <2> SUFFICES ASSUME NEW u \in B \ R, u \in Task
               PROVE  /\ seen[u] \subseteq B \cup {t}
                      /\ nw[u] = NoTask => \A d \in seen[u] \cap (R \cup {t}) : ~Precedes(c, u, d)
                      /\ nw[u] \in (B \cup {t}) \ (R \cup {t}) => seen[u] \subseteq seen[nw[u]]
    BY <1>3 DEF SeenWell
  <2>1. /\ seen[u] \subseteq B
        /\ nw[u] = NoTask => \A d \in seen[u] \cap R : ~Precedes(b, u, d)
        /\ nw[u] \in B \ R => seen[u] \subseteq seen[nw[u]]
    BY DEF SeenWell
  <2>2. t \notin seen[u]
    BY <2>1
  <2>3. ASSUME nw[u] = NoTask, NEW d \in seen[u] \cap (R \cup {t}) PROVE ~Precedes(c, u, d)
    <3>1. d \in R /\ d # t /\ d \in Task
      BY <2>2, <2>3
    <3> QED
      BY <2>1, <2>3, <3>1
  <2> QED
    BY <2>1, <2>3
<1>6. ASSUME NEW rdy, NEW p \in Doing, WalkWell(b, B, R, rdy, seen, p)
      PROVE  WalkWell(c, B \cup {t}, R \cup {t}, rdy, seen, p)
  <2> SUFFICES ASSUME p.op = "stats"
               PROVE  /\ p.due \subseteq B \cup {t} /\ p.due \subseteq rdy
                      /\ p.task = NoTask => p.due \cap (R \cup {t}) = {}
                      /\ p.task # NoTask =>
                          /\ p.task \in B \cup {t}
                          /\ p.task \notin R \cup {t} => p.due \subseteq seen[p.task]
                          /\ \A d \in p.due \cap (R \cup {t}) : (d = p.task /\ ~p.asked) \/ Precedes(c, p.task, d)
    BY DEF WalkWell
  <2>1. /\ p.due \subseteq B /\ p.due \subseteq rdy
        /\ p.task = NoTask => p.due \cap R = {}
        /\ p.task # NoTask =>
            /\ p.task \in B
            /\ p.task \notin R => p.due \subseteq seen[p.task]
            /\ \A d \in p.due \cap R : (d = p.task /\ ~p.asked) \/ Precedes(b, p.task, d)
    BY <1>6 DEF WalkWell
  <2>2. p.due \cap (R \cup {t}) = p.due \cap R
    BY <2>1
  <2>3. ASSUME p.task # NoTask, NEW d \in p.due \cap R PROVE (d = p.task /\ ~p.asked) \/ Precedes(c, p.task, d)
    <3>1. d \in Task /\ p.task \in Task
      BY <2>1, <2>3
    <3> QED
      BY <2>1, <2>3, <3>1
  <2> QED
    BY <2>1, <2>2, <2>3
<1> QED
  BY <1>4, <1>5, <1>6

-----------------------------------------------------------------------------
(* The steps of Tasks *)

LEMMA OrderNow ==
  ASSUME TasksInv
  PROVE  TaskList(begun, Begun, Running, older, newer, oldest, newest)
<1>1. begun \in Seq(Task)
  BY DEF TasksInv, TasksTypeOK
<1>2. Orders(begun, Begun)
  BY <1>1, SequenceOrders DEF TasksInv, BegunOnce
<1>3. Begun \in SUBSET Task /\ Running \in SUBSET Begun
  BY DEF Begun, Running
<1> QED
  BY <1>2, <1>3 DEF TasksInv, TaskList

(* What a step leaves of the list and of the walks that may have taken a   *)
(* task out of it.                                                         *)
LinksTyped ==
    /\ state' \in [Task -> {"new", "running", "over"}]
    /\ older' \in [Task -> Task \cup {NoTask}]
    /\ newer' \in [Task -> Task \cup {NoTask}]
    /\ newest' \in Task \cup {NoTask}
    /\ oldest' \in Task \cup {NoTask}

WalksGoOn ==
    \A seen \in [Task -> SUBSET Task] :
        SeenWell(begun, Begun, Running, newer, seen) =>
            \E s2 \in [Task -> SUBSET Task] :
                /\ SeenWell(begun, Begun, Running', newer', s2)
                /\ \A p \in Doing : WalkWell(begun, Begun, Running, ready, seen, p) =>
                                    WalkWell(begun, Begun, Running', ready, s2, p)

ListMoved ==
    /\ LinksTyped
    /\ Begun' = Begun
    /\ Running' \subseteq Running
    /\ ListExact(begun, Running', older', newer', oldest', newest')
    /\ StaleLinks(begun, Begun, Running', newer')
    /\ WalksGoOn

LEMMA SameMoves ==
  ASSUME TasksInv, UNCHANGED <<state, listVars>>
  PROVE  ListMoved /\ Running' = Running
<1>1. /\ state' = state /\ older' = older /\ newer' = newer /\ newest' = newest /\ oldest' = oldest
  BY DEF listVars
<1>2. Running' = Running /\ Begun' = Begun
  BY <1>1 DEF Running, Begun
<1>3. LinksTyped
  BY <1>1 DEF TasksInv, TasksTypeOK, LinksTyped
<1>4. WalksGoOn
  BY <1>1, <1>2 DEF WalksGoOn
<1>5. ListExact(begun, Running', older', newer', oldest', newest') /\ StaleLinks(begun, Begun, Running', newer')
  BY <1>1, <1>2 DEF TasksInv
<1> QED
  BY <1>2, <1>3, <1>4, <1>5 DEF ListMoved

LEMMA CompleteMoves ==
  ASSUME TasksInv, NEW t \in Task, filc_async_complete(t)
  PROVE  ListMoved /\ t \notin Running'
<1>1. CASE state[t] # "running" /\ UNCHANGED <<state, listVars>>
  BY <1>1, SameMoves DEF Running
<1>2. CASE state[t] = "running" /\ state' = [state EXCEPT ![t] = "over"] /\ running_remove(t)
  <2>1. TasksTypeOK
    BY DEF TasksInv
  <2>2. t \in Running /\ Running' = Running \ {t} /\ Begun' = Begun /\ state' \in [Task -> {"new", "running", "over"}]
    BY <1>2, <2>1 DEF TasksTypeOK, Running, Begun
  <2>3. /\ older' = [u \in Task |-> IF u = newer[t] THEN older[t] ELSE older[u]]
        /\ newer' = [u \in Task |-> IF u = older[t] THEN newer[t] ELSE newer[u]]
        /\ newest' = (IF newer[t] = NoTask THEN older[t] ELSE newest)
        /\ oldest' = (IF older[t] = NoTask THEN newer[t] ELSE oldest)
    BY <1>2 DEF running_remove
  <2>4. LinksTyped
    BY <2>1, <2>2, <2>3 DEF TasksTypeOK, LinksTyped
  <2>5. /\ TaskList(begun, Begun, Running, older, newer, oldest, newest)
        /\ LinksOut(t, older, newer, oldest, newest, older', newer', oldest', newest')
    BY <2>3, OrderNow DEF LinksOut
  <2>6. ListExact(begun, Running \ {t}, older', newer', oldest', newest')
    BY <2>2, <2>5, RemoveExact
  <2>7. ASSUME NEW seen \in [Task -> SUBSET Task], SeenWell(begun, Begun, Running, newer, seen)
        PROVE  /\ StaleLinks(begun, Begun, Running', newer')
               /\ \E s2 \in [Task -> SUBSET Task] :
                    /\ SeenWell(begun, Begun, Running', newer', s2)
                    /\ \A p \in Doing : WalkWell(begun, Begun, Running, ready, seen, p) =>
                                        WalkWell(begun, Begun, Running', ready, s2, p)
    <3> DEFINE s2 == [seen EXCEPT ![t] = Begun]
    <3>0. s2 = [seen EXCEPT ![t] = Begun]
      OBVIOUS
    <3> HIDE DEF s2
    <3>1. /\ StaleLinks(begun, Begun, Running \ {t}, newer')
          /\ s2 \in [Task -> SUBSET Task]
          /\ SeenWell(begun, Begun, Running \ {t}, newer', s2)
          /\ \A rdy : \A p \in Doing : WalkWell(begun, Begun, Running, rdy, seen, p) =>
                                       WalkWell(begun, Begun, Running \ {t}, rdy, s2, p)
      BY <3>0, <2>2, <2>5, <2>7, RemoveWalks
    <3> QED
      BY <3>1, <2>2
  <2>8. WalksGoOn
    BY <2>7 DEF WalksGoOn
  <2>9. StaleLinks(begun, Begun, Running', newer')
    BY <2>7 DEF TasksInv, WalksWell
  <2> QED
    BY <2>2, <2>4, <2>6, <2>8, <2>9 DEF ListMoved
<1> QED
  BY <1>1, <1>2 DEF filc_async_complete

LEMMA PollMoves ==
  ASSUME TasksInv, NEW t \in Task, RuntimePolled(t)
  PROVE  ListMoved /\ (t \in ready => t \notin Running')
BY CompleteMoves, SameMoves DEF RuntimePolled

(* A walk's promise through a thread's step. *)
KeepsWalk(p, q) ==
    \A s \in [Task -> SUBSET Task] :
        SeenWell(begun, Begun, Running', newer', s) /\ WalkWell(begun, Begun, Running', ready, s, p) =>
            WalkWell(begun, Begun, Running', ready', s, q)

LEMMA MovedKeeps ==
  ASSUME TasksInv, ListMoved, begun' = begun, ready \subseteq ready', ready' \in SUBSET Task,
         handled' \subseteq handled, IsFiniteSet(handled'), nhandles' = Cardinality(handled'),
         Running' \subseteq handled', pc' \in [Thread -> Doing],
         \A th \in Thread : KeepsWalk(pc[th], pc'[th])
  PROVE  TasksInv'
<1>1. TasksTypeOK'
  BY DEF TasksInv, TasksTypeOK, ListMoved, LinksTyped
<1>2. Begun' = Begun
  BY DEF ListMoved
<1>3. HandlesExact'
  BY <1>2 DEF TasksInv, HandlesExact
<1>4. BegunOnce'
  BY <1>2 DEF TasksInv, BegunOnce
<1>5. ListExact(begun', Running', older', newer', oldest', newest') /\ StaleLinks(begun', Begun', Running', newer')
  BY <1>2 DEF ListMoved
<1>6. WalksWell'
  <2>1. PICK seen \in [Task -> SUBSET Task] :
            /\ SeenWell(begun, Begun, Running, newer, seen)
            /\ \A th \in Thread : WalkWell(begun, Begun, Running, ready, seen, pc[th])
    BY DEF TasksInv, WalksWell
  <2>2. PICK s2 \in [Task -> SUBSET Task] :
            /\ SeenWell(begun, Begun, Running', newer', s2)
            /\ \A p \in Doing : WalkWell(begun, Begun, Running, ready, seen, p) =>
                                WalkWell(begun, Begun, Running', ready, s2, p)
    BY <2>1 DEF ListMoved, WalksGoOn
  <2>3. ASSUME NEW th \in Thread PROVE WalkWell(begun, Begun, Running', ready', s2, pc'[th])
    <3>1. pc[th] \in Doing
      BY DEF TasksInv, TasksTypeOK
    <3>2. WalkWell(begun, Begun, Running', ready, s2, pc[th])
      BY <2>1, <2>2, <3>1
    <3> QED
      BY <2>2, <3>2 DEF KeepsWalk
  <2>4. /\ SeenWell(begun', Begun', Running', newer', s2)
        /\ \A th \in Thread : WalkWell(begun', Begun', Running', ready', s2, pc'[th])
    BY <2>2, <2>3, <1>2
  <2>5. \E s \in [Task -> SUBSET Task] :
            /\ SeenWell(begun', Begun', Running', newer', s)
            /\ \A th \in Thread : WalkWell(begun', Begun', Running', ready', s, pc'[th])
    BY <2>4
  <2> QED
    BY <2>5 DEF WalksWell
<1> QED
  BY <1>1, <1>3, <1>4, <1>5, <1>6 DEF TasksInv

LEMMA BeginKeeps ==
  ASSUME TasksInv, NEW t \in Task, Begin(t)
  PROVE  TasksInv'
<1>1. TasksTypeOK /\ HandlesExact /\ BegunOnce
  BY DEF TasksInv
<1>2. /\ t \notin Begun /\ t \notin Running
      /\ Running' = Running \cup {t} /\ Begun' = Begun \cup {t}
      /\ state' \in [Task -> {"new", "running", "over"}]
  BY <1>1 DEF Begin, TasksTypeOK, Running, Begun
<1>3. begun' = Append(begun, t) /\ ready' = ready /\ pc' = pc
  BY DEF Begin
<1>4. /\ newer' = [u \in Task |-> IF u = t THEN NoTask ELSE IF u = newest THEN t ELSE newer[u]]
      /\ older' = [older EXCEPT ![t] = newest]
      /\ oldest' = (IF newest = NoTask THEN t ELSE oldest)
      /\ newest' = t
  BY DEF Begin, running_add
<1>5. /\ begun' \in Seq(Task) /\ BegunOnce'
      /\ Follows(begun', begun, Begun, t)
  <2>1. ListsOnce(begun, Begun)
    BY <1>1 DEF BegunOnce
  <2>2. ListsOnce(begun', Begun \cup {t}) /\ Follows(begun', begun, Begun, t)
    BY <2>1, <1>2, <1>3, AppendOrders
  <2> QED
    BY <2>2, <1>2, <1>3 DEF BegunOnce, ListsOnce
<1>6. /\ TaskList(begun, Begun, Running, older, newer, oldest, newest)
      /\ LinksIn(t, older, newer, oldest, newest, older', newer', oldest', newest')
  BY <1>1, <1>4, OrderNow DEF LinksIn, TasksTypeOK
<1>7. ListExact(begun', Running', older', newer', oldest', newest')
  BY <1>2, <1>5, <1>6, AddExact
<1>8. PICK seen \in [Task -> SUBSET Task] :
          /\ SeenWell(begun, Begun, Running, newer, seen)
          /\ \A th \in Thread : WalkWell(begun, Begun, Running, ready, seen, pc[th])
  BY DEF TasksInv, WalksWell
<1>9. /\ StaleLinks(begun', Begun \cup {t}, Running \cup {t}, newer')
      /\ SeenWell(begun', Begun \cup {t}, Running \cup {t}, newer', seen)
      /\ \A rdy : \A p \in Doing : WalkWell(begun, Begun, Running, rdy, seen, p) =>
                                   WalkWell(begun', Begun \cup {t}, Running \cup {t}, rdy, seen, p)
  BY <1>5, <1>6, <1>8, AddWalks
<1>10. StaleLinks(begun', Begun', Running', newer')
  BY <1>2, <1>9
<1>11. WalksWell'
  <2>1. \A th \in Thread : pc[th] \in Doing
    BY <1>1 DEF TasksTypeOK
  <2>2. \A th \in Thread : WalkWell(begun', Begun', Running', ready', seen, pc'[th])
    BY <2>1, <1>2, <1>3, <1>8, <1>9
  <2>3. \E s \in [Task -> SUBSET Task] :
            /\ SeenWell(begun', Begun', Running', newer', s)
            /\ \A th \in Thread : WalkWell(begun', Begun', Running', ready', s, pc'[th])
    BY <2>2, <1>2, <1>9
  <2> QED
    BY <2>3 DEF WalksWell
<1>12. HandlesExact' /\ handled' \in SUBSET Task /\ IsFiniteSet(handled')
  <2>1. handled' = handled \cup {t} /\ nhandles' = nhandles + 1
    BY DEF Begin
  <2>2. t \notin handled
    BY <1>1, <1>2 DEF HandlesExact
  <2> QED
    BY <2>1, <2>2, <1>1, <1>2, FS_AddElement DEF HandlesExact, TasksTypeOK
<1>13. TasksTypeOK'
  BY <1>1, <1>2, <1>3, <1>4, <1>5, <1>12 DEF TasksTypeOK
<1> QED
  BY <1>5, <1>7, <1>10, <1>11, <1>12, <1>13 DEF TasksInv

-----------------------------------------------------------------------------
(* get_stats goes on to the task its own points at, which may have been    *)
(* taken out, and so may the one it stands on.                             *)
LEMMA WalkMoves ==
  ASSUME NEW b, NEW B, NEW R, NEW ol, NEW nw, NEW fst, NEW lst, TaskList(b, B, R, ol, nw, fst, lst),
         NEW seen, SeenWell(b, B, R, nw, seen), NEW rdy, NEW p, NEW q, WalkWell(b, B, R, rdy, seen, p),
         p.op = "stats", p.task # NoTask, p.asked \/ p.task \notin R,
         q.op = "stats", q.due = p.due, q.task = nw[p.task], ~q.asked
  PROVE  WalkWell(b, B, R, rdy, seen, q)
<1> DEFINE w == p.task
           x == nw[w]
           D == p.due
<1>1. /\ D \subseteq B /\ D \subseteq rdy /\ w \in B
      /\ w \notin R => D \subseteq seen[w]
      /\ \A d \in D \cap R : (d = w /\ ~p.asked) \/ Precedes(b, w, d)
  BY DEF WalkWell
<1>2. \A d \in D \cap R : Precedes(b, w, d)
  BY <1>1
<1>3. B \subseteq Task /\ R \subseteq B /\ NoTask \notin B
  BY NoTaskIsNot DEF TaskList
<1>4. /\ x = NoTask => D \cap R = {}
      /\ x # NoTask => /\ x \in B
                       /\ x \notin R => D \subseteq seen[x]
                       /\ \A d \in D \cap R : d = x \/ Precedes(b, x, d)
  <2>1. CASE w \in R
    <3>1. \/ x = NoTask /\ \A v \in R : ~Precedes(b, w, v)
          \/ x \in R /\ \A v \in R : Precedes(b, w, v) => v = x \/ Precedes(b, x, v)
      BY <2>1 DEF TaskList, ListExact, FirstIn
    <3> QED
      BY <3>1, <1>2, <1>3
  <2>2. CASE w \notin R
    <3>1. /\ x = NoTask => \A d \in seen[w] \cap R : ~Precedes(b, w, d)
          /\ x \in B \ R => seen[w] \subseteq seen[x]
      BY <2>2, <1>1 DEF SeenWell
    <3>2. CASE x = NoTask
      BY <2>2, <3>1, <3>2, <1>1, <1>2
    <3>3. CASE x # NoTask
      <4>1. /\ x \in B /\ Precedes(b, w, x)
            /\ \A v \in R : ~(Precedes(b, w, v) /\ Precedes(b, v, x))
        BY <2>2, <3>3, <1>1 DEF TaskList, StaleLinks
      <4>2. \A d \in D \cap R : d = x \/ Precedes(b, x, d) \/ Precedes(b, d, x)
        BY <4>1, <1>3 DEF TaskList, Orders
      <4> QED
        BY <2>2, <3>1, <3>3, <4>1, <4>2, <1>1, <1>2
    <3> QED
      BY <3>2, <3>3
  <2> QED
    BY <2>1, <2>2
<1> QED
  BY <1>1, <1>4 DEF WalkWell

(* And it starts at the oldest running task. *)
LEMMA WalkStarts ==
  ASSUME NEW b, NEW B, NEW R, NEW ol, NEW nw, NEW fst, NEW lst, TaskList(b, B, R, ol, nw, fst, lst),
         NEW seen, NEW rdy, NEW q, q.op = "stats", q.due = R \cap rdy, q.task = fst, ~q.asked
  PROVE  WalkWell(b, B, R, rdy, seen, q)
<1>1. R \subseteq B /\ NoTask \notin B
  BY NoTaskIsNot DEF TaskList
<1>2. \/ R = {} /\ fst = NoTask
      \/ fst \in R /\ \A u \in R : u = fst \/ Precedes(b, fst, u)
  BY DEF TaskList, ListExact, FirstIn
<1> QED
  BY <1>1, <1>2 DEF WalkWell

(* The handles after a step that begins no task. *)
HandlesKept ==
    /\ handled' \subseteq handled /\ IsFiniteSet(handled')
    /\ nhandles' = Cardinality(handled')
    /\ Running' \subseteq handled'

LEMMA SameHandles ==
  ASSUME TasksInv, ListMoved, UNCHANGED handleVars
  PROVE  HandlesKept
BY DEF TasksInv, TasksTypeOK, HandlesExact, ListMoved, HandlesKept, handleVars

(* A thread's step. *)
LEMMA ThreadMoves ==
  ASSUME TasksInv, ListMoved, begun' = begun, ready' = ready, HandlesKept,
         NEW th \in Thread, NEW x \in Doing, Goes(th, x), KeepsWalk(pc[th], x)
  PROVE  TasksInv'
<1>1. pc \in [Thread -> Doing] /\ ready \in SUBSET Task
  BY DEF TasksInv, TasksTypeOK
<1>2. /\ pc' \in [Thread -> Doing] /\ pc'[th] = x
      /\ \A o \in Thread : o # th => pc'[o] = pc[o]
  BY <1>1 DEF Goes
<1>3. ASSUME NEW o \in Thread PROVE KeepsWalk(pc[o], pc'[o])
  <2>1. CASE o = th
    BY <2>1, <1>2
  <2>2. CASE o # th
    <3>1. pc'[o] = pc[o]
      BY <2>2, <1>2
    <3> QED
      BY <3>1 DEF KeepsWalk
  <2> QED
    BY <2>1, <2>2
<1> QED
  BY <1>1, <1>2, <1>3, MovedKeeps DEF HandlesKept

LEMMA NoWalk ==
  ASSUME NEW p, NEW q, q.op # "stats"
  PROVE  KeepsWalk(p, q)
BY DEF KeepsWalk, WalkWell

LEMMA AskingDoing ==
  ASSUME NEW p \in Doing, p.op \in {"poll", "wait"}
  PROVE  /\ p \in [op : {"poll", "wait"}, task : Task, asked : BOOLEAN]
         /\ [p EXCEPT !.asked = TRUE] \in Doing
         /\ [p EXCEPT !.asked = TRUE].op # "stats"
<1>1. p \in [op : {"poll", "wait"}, task : Task, asked : BOOLEAN]
  BY DEF Doing, Idle
<1>2. /\ [p EXCEPT !.asked = TRUE] \in [op : {"poll", "wait"}, task : Task, asked : BOOLEAN]
      /\ [p EXCEPT !.asked = TRUE].op = p.op
  BY <1>1
<1> QED
  BY <1>1, <1>2 DEF Doing

LEMMA WalkingDoing ==
  ASSUME NEW p \in Doing, p.op = "stats"
  PROVE  p \in [op : {"stats"}, task : Task \cup {NoTask}, asked : BOOLEAN, due : SUBSET Task]
BY DEF Doing, Idle

LEMMA WorkDoneKeeps ==
  ASSUME TasksInv, NEW t \in Task, WorkDone(t)
  PROVE  TasksInv'
<1>1. ListMoved /\ Running' = Running
  BY SameMoves DEF WorkDone
<1>2. ready' = ready \cup {t} /\ pc' = pc /\ begun' = begun
  BY DEF WorkDone
<1>3. HandlesKept
  BY <1>1, SameHandles DEF WorkDone
<1>4. pc \in [Thread -> Doing] /\ ready' \in SUBSET Task
  BY <1>2 DEF TasksInv, TasksTypeOK
<1>5. ASSUME NEW th \in Thread PROVE KeepsWalk(pc[th], pc'[th])
  BY <1>2 DEF KeepsWalk, WalkWell
<1> QED
  BY <1>1, <1>2, <1>3, <1>4, <1>5, MovedKeeps DEF HandlesKept

LEMMA ReportKeeps ==
  ASSUME TasksInv, NEW t \in Task, RuntimeReports(t)
  PROVE  TasksInv'
<1>1. ListMoved
  BY CompleteMoves DEF RuntimeReports
<1>2. ready' = ready /\ pc' = pc /\ begun' = begun
  BY DEF RuntimeReports
<1>3. HandlesKept
  BY <1>1, SameHandles DEF RuntimeReports
<1>4. pc \in [Thread -> Doing] /\ ready' \in SUBSET Task
  BY <1>2 DEF TasksInv, TasksTypeOK
<1>5. ASSUME NEW th \in Thread PROVE KeepsWalk(pc[th], pc'[th])
  BY <1>2 DEF KeepsWalk
<1> QED
  BY <1>1, <1>2, <1>3, <1>4, <1>5, MovedKeeps DEF HandlesKept

LEMMA FindsKeeps ==
  ASSUME TasksInv, NEW th \in Thread, NEW t \in Task, NEW op \in {"poll", "wait"}, Finds(th, t, op)
  PROVE  TasksInv'
<1> DEFINE x == [op |-> op, task |-> t, asked |-> state[t] # "running"]
<1>1. ListMoved
  BY SameMoves DEF Finds
<1>2. HandlesKept
  BY <1>1, SameHandles DEF Finds
<1>3. x \in Doing /\ x.op # "stats"
  BY DEF Doing
<1>4. Goes(th, x) /\ begun' = begun /\ ready' = ready
  BY DEF Finds
<1> HIDE DEF x
<1>5. KeepsWalk(pc[th], x)
  BY <1>3, NoWalk
<1> QED
  BY <1>1, <1>2, <1>3, <1>4, <1>5, ThreadMoves

LEMMA AsksKeeps ==
  ASSUME TasksInv, NEW th \in Thread, Asks(th)
  PROVE  TasksInv'
<1>1. pc[th] \in Doing /\ pc[th].op \in {"poll", "wait"}
  BY DEF TasksInv, TasksTypeOK, Asks
<1> DEFINE x == [pc[th] EXCEPT !.asked = TRUE]
<1>2. pc[th].task \in Task /\ x \in Doing /\ x.op # "stats"
  BY <1>1, AskingDoing
<1>3. ListMoved
  BY <1>2, PollMoves DEF Asks
<1>4. HandlesKept
  BY <1>3, SameHandles DEF Asks
<1>5. Goes(th, x) /\ begun' = begun /\ ready' = ready
  BY DEF Asks
<1> HIDE DEF x
<1>6. KeepsWalk(pc[th], x)
  BY <1>2, NoWalk
<1> QED
  BY <1>2, <1>3, <1>4, <1>5, <1>6, ThreadMoves

(* The first of several deliveries of one completion takes the handle out. *)
LEMMA DeliversKeeps ==
  ASSUME TasksInv, NEW th \in Thread, Delivers(th)
  PROVE  TasksInv'
<1> DEFINE t == pc[th].task
<1>1. ListMoved /\ Running' = Running
  BY SameMoves DEF Delivers
<1>2. Idle \in Doing /\ Idle.op # "stats"
  BY DEF Doing, Idle
<1>3. Goes(th, Idle) /\ begun' = begun /\ ready' = ready /\ retire_task(t)
  BY DEF Delivers
<1>4. IsFiniteSet(handled) /\ nhandles = Cardinality(handled) /\ Running \subseteq handled
  BY DEF TasksInv, TasksTypeOK, HandlesExact
<1>5. HandlesKept
  <2>1. CASE state[t] # "running" /\ t \in handled
    <3>1. handled' = handled \ {t} /\ nhandles' = nhandles - 1
      BY <1>3, <2>1 DEF retire_task
    <3>2. IsFiniteSet(handled \ {t}) /\ Cardinality(handled \ {t}) = Cardinality(handled) - 1
      BY <1>4, <2>1, FS_RemoveElement
    <3>3. t \notin Running
      BY <2>1 DEF Running
    <3> QED
      BY <3>1, <3>2, <3>3, <1>1, <1>4 DEF HandlesKept
  <2>2. CASE ~(state[t] # "running" /\ t \in handled)
    <3>1. handled' = handled /\ nhandles' = nhandles
      BY <1>3, <2>2 DEF retire_task
    <3> QED
      BY <3>1, <1>1, <1>4 DEF HandlesKept
  <2> QED
    BY <2>1, <2>2
<1>6. KeepsWalk(pc[th], Idle)
  BY <1>2, NoWalk
<1> QED
  BY <1>1, <1>2, <1>3, <1>5, <1>6, ThreadMoves

LEMMA StatsCalledKeeps ==
  ASSUME TasksInv, NEW th \in Thread, StatsCalled(th)
  PROVE  TasksInv'
<1> DEFINE x == [op |-> "stats", task |-> oldest, asked |-> FALSE, due |-> Running \cap ready]
<1>1. ListMoved /\ Running' = Running
  BY SameMoves DEF StatsCalled
<1>2. HandlesKept
  BY <1>1, SameHandles DEF StatsCalled
<1>3. x \in Doing /\ x.op = "stats" /\ x.due = Running \cap ready /\ x.task = oldest /\ ~x.asked
  BY DEF Doing, Running, TasksInv, TasksTypeOK
<1>4. Goes(th, x) /\ begun' = begun /\ ready' = ready
  BY DEF StatsCalled
<1> HIDE DEF x
<1>5. ASSUME NEW s PROVE WalkWell(begun, Begun, Running, ready, s, x)
  <2>1. TaskList(begun, Begun, Running, older, newer, oldest, newest)
    BY OrderNow
  <2> QED
    BY <2>1, <1>3, WalkStarts
<1>6. KeepsWalk(pc[th], x)
  BY <1>1, <1>4, <1>5 DEF KeepsWalk
<1> QED
  BY <1>1, <1>2, <1>3, <1>4, <1>6, ThreadMoves

(* A task that had finished when get_stats was called is not running once  *)
(* it has been polled.                                                     *)
LEMMA StatsAsksKeeps ==
  ASSUME TasksInv, NEW th \in Thread, StatsAsks(th)
  PROVE  TasksInv'
<1> DEFINE p == pc[th]
           x == [pc[th] EXCEPT !.asked = TRUE]
<1>1. p \in Doing /\ p.op = "stats" /\ p.task \in Running /\ p.task \in Task
  BY DEF TasksInv, TasksTypeOK, StatsAsks, Running
<1>2. x \in Doing /\ x.op = "stats" /\ x.task = p.task /\ x.due = p.due /\ x.asked
  BY <1>1, WalkingDoing DEF Doing
<1>3. ListMoved /\ (p.task \in ready => p.task \notin Running')
  BY <1>1, PollMoves DEF StatsAsks
<1>4. HandlesKept
  BY <1>3, SameHandles DEF StatsAsks
<1>5. Goes(th, x) /\ begun' = begun /\ ready' = ready
  BY DEF StatsAsks
<1> HIDE DEF x
<1>6. ASSUME NEW s, WalkWell(begun, Begun, Running', ready, s, p)
      PROVE  WalkWell(begun, Begun, Running', ready, s, x)
  BY <1>1, <1>2, <1>3, <1>6 DEF WalkWell
<1>7. KeepsWalk(p, x)
  BY <1>5, <1>6 DEF KeepsWalk
<1> QED
  BY <1>2, <1>3, <1>4, <1>5, <1>7, ThreadMoves

LEMMA StatsMovesKeeps ==
  ASSUME TasksInv, NEW th \in Thread, StatsMoves(th)
  PROVE  TasksInv'
<1> DEFINE p == pc[th]
           x == [pc[th] EXCEPT !.task = newer[@], !.asked = FALSE]
<1>1. /\ p \in Doing /\ p.op = "stats" /\ p.task # NoTask
      /\ p.asked \/ p.task \notin Running
      /\ newer \in [Task -> Task \cup {NoTask}]
  BY DEF TasksInv, TasksTypeOK, StatsMoves
<1>2. p \in [op : {"stats"}, task : Task \cup {NoTask}, asked : BOOLEAN, due : SUBSET Task]
  BY <1>1, WalkingDoing
<1>3. p.task \in Task /\ newer[p.task] \in Task \cup {NoTask}
  BY <1>1, <1>2
<1>4. x \in Doing /\ x.op = "stats" /\ x.task = newer[p.task] /\ x.due = p.due /\ ~x.asked
  BY <1>2, <1>3 DEF Doing
<1>5. ListMoved /\ Running' = Running /\ newer' = newer
  BY SameMoves DEF StatsMoves, listVars
<1>6. HandlesKept
  BY <1>5, SameHandles DEF StatsMoves
<1>7. Goes(th, x) /\ begun' = begun /\ ready' = ready
  BY DEF StatsMoves
<1> HIDE DEF x
<1>8. ASSUME NEW s, SeenWell(begun, Begun, Running, newer, s), WalkWell(begun, Begun, Running, ready, s, p)
      PROVE  WalkWell(begun, Begun, Running, ready, s, x)
  <2>1. TaskList(begun, Begun, Running, older, newer, oldest, newest)
    BY OrderNow
  <2> QED
    BY <2>1, <1>1, <1>4, <1>8, WalkMoves
<1>9. KeepsWalk(p, x)
  BY <1>5, <1>7, <1>8 DEF KeepsWalk
<1> QED
  BY <1>4, <1>5, <1>6, <1>7, <1>9, ThreadMoves

LEMMA StatsReturnsKeeps ==
  ASSUME TasksInv, NEW th \in Thread, StatsReturns(th)
  PROVE  TasksInv'
<1>1. ListMoved
  BY SameMoves DEF StatsReturns
<1>2. HandlesKept
  BY <1>1, SameHandles DEF StatsReturns
<1>3. Idle \in Doing /\ Idle.op # "stats"
  BY DEF Doing, Idle
<1>4. Goes(th, Idle) /\ begun' = begun /\ ready' = ready
  BY DEF StatsReturns
<1>5. KeepsWalk(pc[th], Idle)
  BY <1>3, NoWalk
<1> QED
  BY <1>1, <1>2, <1>3, <1>4, <1>5, ThreadMoves

-----------------------------------------------------------------------------
LEMMA TasksInitInv ==
  ASSUME TasksInit
  PROVE  TasksInv
<1>1. Begun = {} /\ Running = {}
  BY DEF TasksInit, Begun, Running
<1>2. begun \in Seq(Task) /\ Len(begun) = 0
  BY DEF TasksInit
<1>3. BegunOnce
  BY <1>1, <1>2 DEF BegunOnce, ListsOnce
<1>4. TasksTypeOK
  BY FS_EmptySet DEF TasksInit, TasksTypeOK, Doing
<1>5. HandlesExact
  BY <1>1, FS_EmptySet DEF TasksInit, HandlesExact
<1>6. ListExact(begun, Running, older, newer, oldest, newest) /\ StaleLinks(begun, Begun, Running, newer)
  BY <1>1 DEF TasksInit, ListExact, FirstIn, LastIn, StaleLinks
<1>7. WalksWell
  <2>1. [t \in Task |-> {}] \in [Task -> SUBSET Task]
    OBVIOUS
  <2>2. \A s : SeenWell(begun, Begun, Running, newer, s)
    BY <1>1 DEF SeenWell
  <2>3. \A s : \A th \in Thread : WalkWell(begun, Begun, Running, ready, s, pc[th])
    BY DEF TasksInit, WalkWell, Idle
  <2> QED
    BY <2>1, <2>2, <2>3 DEF WalksWell
<1> QED
  BY <1>3, <1>4, <1>5, <1>6, <1>7 DEF TasksInv

LEMMA TasksStutters ==
  ASSUME TasksInv, UNCHANGED taskVars
  PROVE  TasksInv'
<1>1. UNCHANGED <<state, listVars>> /\ UNCHANGED handleVars /\ ready' = ready /\ pc' = pc /\ begun' = begun
  BY DEF taskVars
<1>2. ListMoved
  BY <1>1, SameMoves
<1>3. HandlesKept
  BY <1>1, <1>2, SameHandles
<1>4. pc \in [Thread -> Doing] /\ ready' \in SUBSET Task
  BY <1>1 DEF TasksInv, TasksTypeOK
<1>5. ASSUME NEW th \in Thread PROVE KeepsWalk(pc[th], pc'[th])
  BY <1>1 DEF KeepsWalk
<1> QED
  BY <1>1, <1>2, <1>3, <1>4, <1>5, MovedKeeps DEF HandlesKept

LEMMA TasksInvHolds == TasksSpec => []TasksInv
<1>1. TasksInit => TasksInv
  BY TasksInitInv
<1>2. TasksInv /\ [TasksNext]_taskVars => TasksInv'
  <2> SUFFICES ASSUME TasksInv, [TasksNext]_taskVars PROVE TasksInv'
    OBVIOUS
  <2>1. ASSUME NEW t \in Task, Begin(t) PROVE TasksInv'
    BY <2>1, BeginKeeps
  <2>2. ASSUME NEW t \in Task, WorkDone(t) PROVE TasksInv'
    BY <2>2, WorkDoneKeeps
  <2>3. ASSUME NEW t \in Task, RuntimeReports(t) PROVE TasksInv'
    BY <2>3, ReportKeeps
  <2>4. ASSUME NEW th \in Thread, NEW t \in Task, NEW op \in {"poll", "wait"}, Finds(th, t, op) PROVE TasksInv'
    BY <2>4, FindsKeeps
  <2>5. ASSUME NEW th \in Thread, Asks(th) PROVE TasksInv'
    BY <2>5, AsksKeeps
  <2>6. ASSUME NEW th \in Thread, Delivers(th) PROVE TasksInv'
    BY <2>6, DeliversKeeps
  <2>7. ASSUME NEW th \in Thread, StatsCalled(th) PROVE TasksInv'
    BY <2>7, StatsCalledKeeps
  <2>8. ASSUME NEW th \in Thread, StatsAsks(th) PROVE TasksInv'
    BY <2>8, StatsAsksKeeps
  <2>9. ASSUME NEW th \in Thread, StatsMoves(th) PROVE TasksInv'
    BY <2>9, StatsMovesKeeps
  <2>10. ASSUME NEW th \in Thread, StatsReturns(th) PROVE TasksInv'
    BY <2>10, StatsReturnsKeeps
  <2>11. ASSUME UNCHANGED taskVars PROVE TasksInv'
    BY <2>11, TasksStutters
  <2> QED
    BY <2>1, <2>2, <2>3, <2>4, <2>5, <2>6, <2>7, <2>8, <2>9, <2>10, <2>11 DEF TasksNext
<1> QED
  BY <1>1, <1>2, PTL DEF TasksSpec

(* The list of running tasks is exact in both directions and the handle    *)
(* table counted right, however the threads of filc_async_poll,            *)
(* filc_async_wait, get_stats and the runtimes interleave, for any number  *)
(* of threads and tasks.                                                   *)
THEOREM RunningListExact == TasksSpec => []TablesExact
<1>1. TasksInv => TablesExact
  <2> SUFFICES ASSUME TasksInv PROVE TablesExact
    OBVIOUS
  <2>1. TaskList(begun, Begun, Running, older, newer, oldest, newest)
    BY OrderNow
  <2>2. \A t, u : Before(t, u) <=> Precedes(begun, t, u)
    <3>1. DOMAIN begun = 1 .. Len(begun)
      BY DEF TasksInv, TasksTypeOK
    <3> QED
      BY <3>1 DEF Before, Precedes
  <2>3. ASSUME NEW x, NEW S, FirstIn(begun, x, S) PROVE FirstOf(x, S)
    BY <2>2, <2>3 DEF FirstIn, FirstOf
  <2>4. ASSUME NEW x, NEW S, LastIn(begun, x, S) PROVE LastOf(x, S)
    BY <2>2, <2>4 DEF LastIn, LastOf
  <2>5. FirstOf(oldest, Running) /\ LastOf(newest, Running)
    BY <2>1, <2>3, <2>4 DEF TaskList, ListExact
  <2>6. ASSUME NEW t \in Running
        PROVE  /\ FirstOf(newer[t], {u \in Running : Before(t, u)})
               /\ LastOf(older[t], {u \in Running : Before(u, t)})
    <3>1. /\ FirstIn(begun, newer[t], {u \in Running : Precedes(begun, t, u)})
          /\ LastIn(begun, older[t], {u \in Running : Precedes(begun, u, t)})
      BY <2>1 DEF TaskList, ListExact
    <3>2. /\ {u \in Running : Before(t, u)} = {u \in Running : Precedes(begun, t, u)}
          /\ {u \in Running : Before(u, t)} = {u \in Running : Precedes(begun, u, t)}
      BY <2>2
    <3> QED
      BY <3>1, <3>2, <2>3, <2>4
  <2>7. nhandles = Cardinality(handled) /\ Running \subseteq handled
    BY DEF TasksInv, HandlesExact
  <2> QED
    BY <2>5, <2>6, <2>7 DEF TablesExact
<1> QED
  BY <1>1, TasksInvHolds, PTL

(* get_stats counts every call that had finished when it was called,       *)
(* although it lets g_lock go at every task and the links it follows may   *)
(* be those of tasks long taken out.                                       *)
THEOREM StatsCountFinished == TasksSpec => []StatsSeeFinished
<1>1. TasksInv => StatsSeeFinished
  BY DEF TasksInv, WalksWell, WalkWell, StatsSeeFinished
<1> QED
  BY <1>1, TasksInvHolds, PTL

=============================================================================
