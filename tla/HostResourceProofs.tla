------------------------- MODULE HostResourceProofs -------------------------
(***************************************************************************)
(* The host pool, for every size of it and any number of allocations and   *)
(* reservations: no block is handed out twice, and the total covers what   *)
(* is reserved and allocated.                                              *)
(*                                                                         *)
(* BlocksDisjoint is not inductive: expand_pool hands out new numbers, and *)
(* the proof needs to know that every block in circulation has an old one  *)
(* (Circulating), and that an allocation that takes blocks exists (Taker). *)
(*                                                                         *)
(* Neither is NeverUndercounted.  Once a new arena has had the address of  *)
(* an old one, an allocation may be given back to an arena it was not      *)
(* charged to, whose own allocations are then worth more than its charge.  *)
(* Owed adds that difference to the weight of the arena; the total covers  *)
(* Owed in every state, and Accounted is never above it.                   *)
(***************************************************************************)
EXTENDS HostResource, SumTheorems, TLAPS

\* The blocks in circulation are blocks of the pool.
Circulating ==
  /\ pools \in Nat
  /\ free \subseteq AllBlocks
  /\ blocks \in [Allocs -> SUBSET AllBlocks]
  /\ taking.got \subseteq AllBlocks

\* The call that takes blocks works for an allocation that has none yet.
Taker ==
  /\ taking = [alloc |-> taking.alloc, arena |-> taking.arena,
               want |-> taking.want, got |-> taking.got]
  /\ taking # Idle => taking.alloc \in Allocs /\ blocks[taking.alloc] = {}

BlockInv == Circulating /\ Taker /\ BlocksDisjoint

\* A larger pool has all the blocks of the smaller one, and the new ones are
\* not among them.
LEMMA PoolGrows ==
  ASSUME NEW p \in Nat
  PROVE  /\ 1..(p * PoolSize) \subseteq 1..((p + 1) * PoolSize)
         /\ (p * PoolSize + 1)..((p + 1) * PoolSize) \subseteq 1..((p + 1) * PoolSize)
         /\ (p * PoolSize + 1)..((p + 1) * PoolSize) \cap 1..(p * PoolSize) = {}
<1>1. PoolSize \in Nat
  BY HostAssumption
<1>2. (p + 1) * PoolSize = p * PoolSize + PoolSize /\ p * PoolSize \in Nat
  BY <1>1
<1> DEFINE q == p * PoolSize
<1>3. q \in Nat /\ (p + 1) * PoolSize = q + PoolSize
  BY <1>2
<1> HIDE DEF q
<1>4. /\ 1..q \subseteq 1..(q + PoolSize)
      /\ (q + 1)..(q + PoolSize) \subseteq 1..(q + PoolSize)
      /\ (q + 1)..(q + PoolSize) \cap 1..q = {}
  BY <1>1, <1>3
<1> QED
  BY <1>3, <1>4 DEF q

\* The initial pool is on the free list and nowhere else.
LEMMA BlockInit == Init => BlockInv
<1> SUFFICES ASSUME Init PROVE BlockInv
  OBVIOUS
<1>1. Circulating
  BY HostAssumption DEF Init, Circulating, AllBlocks, Idle
<1>2. Taker
  BY DEF Init, Taker, Idle
<1>3. BlocksDisjoint
  BY DEF Init, BlocksDisjoint, Idle
<1> QED
  BY <1>1, <1>2, <1>3 DEF BlockInv

\* Every step keeps the blocks apart.
LEMMA BlockStep == BlockInv /\ [Next]_vars => BlockInv'
<1> SUFFICES ASSUME BlockInv, [Next]_vars PROVE BlockInv'
  OBVIOUS
<1> USE DEF BlockInv
<1>1. ASSUME UNCHANGED <<pools, free, blocks, taking>> PROVE BlockInv'
  BY <1>1 DEF Circulating, Taker, BlocksDisjoint, AllBlocks, Idle
<1>2. CASE Reservation
  <2>1. UNCHANGED <<pools, free, blocks, taking>>
    BY <1>2 DEF Reservation, Reserve, ReserveUpto, ChargeReservation, GrowReservationBy,
                RegisterReservation, ShrinkReservationToFit, ReleaseReservation,
                poolVars, allocVars
  <2> QED
    BY <2>1, <1>1
<1>3. ASSUME NEW x \in Allocs, NEW a \in Arenas \cup {NoArena}, NEW n \in Sizes,
             BeginAllocation(x, a, n)
      PROVE  BlockInv'
  <2>1. /\ blocks[x] = {} /\ UNCHANGED <<pools, free, blocks>>
        /\ taking' = [alloc |-> x, arena |-> a, want |-> BlocksFor(n), got |-> {}]
    BY <1>3 DEF BeginAllocation, poolVars, allocVars
  <2> QED
    BY <2>1 DEF Circulating, Taker, BlocksDisjoint, AllBlocks, Idle
<1>4. ASSUME NEW S \in SUBSET free, TakeBlocks(S) PROVE BlockInv'
  <2>0. /\ free' = free \ S /\ UNCHANGED pools /\ taking # Idle
        /\ taking.alloc \in Allocs /\ blocks[taking.alloc] = {}
    BY <1>4 DEF TakeBlocks, Taker, Idle
  <2>1. CASE /\ taking' = [taking EXCEPT !.want = @ - Cardinality(S), !.got = @ \cup S]
             /\ UNCHANGED blocks
    <3>1. /\ taking'.got = taking.got \cup S
          /\ taking'.alloc = taking.alloc
          /\ taking' = [alloc |-> taking'.alloc, arena |-> taking'.arena,
                        want |-> taking'.want, got |-> taking'.got]
      BY <2>1 DEF Taker
    <3>2. Circulating'
      BY <3>1, <2>0, <2>1 DEF Circulating, AllBlocks
    <3>3. Taker'
      BY <3>1, <2>0, <2>1 DEF Taker
    <3>4. BlocksDisjoint'
      BY <3>1, <2>0, <2>1 DEF BlocksDisjoint, Circulating
    <3> QED
      BY <3>2, <3>3, <3>4
  <2>2. CASE /\ blocks' = [blocks EXCEPT ![taking.alloc] = taking.got \cup S]
             /\ taking' = Idle
    <3>1. /\ \A y \in Allocs : y # taking.alloc => blocks'[y] = blocks[y]
          /\ blocks'[taking.alloc] = taking.got \cup S
          /\ taking'.got = {}
      BY <2>0, <2>2 DEF Circulating, Idle
    <3>2. Circulating'
      BY <3>1, <2>0, <2>2 DEF Circulating, AllBlocks
    <3>3. Taker'
      BY <2>2 DEF Taker, Idle
    <3>4. BlocksDisjoint'
      BY <3>1, <2>0 DEF BlocksDisjoint, Circulating
    <3> QED
      BY <3>2, <3>3, <3>4
  <2> QED
    BY <1>4, <2>1, <2>2 DEF TakeBlocks, allocVars
<1>5. CASE ExpandPool
  <2> DEFINE new == (pools * PoolSize + 1)..((pools + 1) * PoolSize)
  <2>1. /\ AllBlocks \subseteq AllBlocks'
        /\ new \subseteq AllBlocks'
        /\ new \cap AllBlocks = {}
    BY <1>5, PoolGrows DEF ExpandPool, AllBlocks, Circulating
  <2>2. free' = new /\ pools' \in Nat /\ UNCHANGED <<blocks, taking>>
    BY <1>5 DEF ExpandPool, Circulating, allocVars
  <2> HIDE DEF new
  <2>3. Circulating'
    BY <2>1, <2>2 DEF Circulating
  <2>4. Taker'
    BY <2>2 DEF Taker, Idle
  <2>5. BlocksDisjoint'
    BY <2>1, <2>2 DEF BlocksDisjoint, Circulating
  <2> QED
    BY <2>3, <2>4, <2>5
<1>6. CASE ExpandPoolThrows
  <2>1. UNCHANGED <<pools, free, blocks>> /\ taking' = Idle
    BY <1>6 DEF ExpandPoolThrows, poolVars, allocVars
  <2> QED
    BY <2>1 DEF Circulating, Taker, BlocksDisjoint, AllBlocks, Idle
<1>7. ASSUME NEW x \in Allocs, ReturnAllocatedChunks(x) PROVE BlockInv'
  <2>1. /\ UNCHANGED <<pools, free, taking>> /\ taking = Idle
        /\ blocks' = [blocks EXCEPT ![x] = {}]
    BY <1>7 DEF ReturnAllocatedChunks, MutexFree, poolVars
  <2>2. \A y \in Allocs : blocks'[y] = {} \/ blocks'[y] = blocks[y]
    BY <2>1 DEF Circulating
  <2>3. Circulating'
    BY <2>1 DEF Circulating, AllBlocks
  <2>4. Taker'
    BY <2>1 DEF Taker, Idle
  <2>5. BlocksDisjoint'
    BY <2>1, <2>2 DEF BlocksDisjoint
  <2> QED
    BY <2>3, <2>4, <2>5
<1>8. CASE UNCHANGED vars
  BY <1>1, <1>8 DEF vars
<1> QED
  BY <1>2, <1>3, <1>4, <1>5, <1>6, <1>7, <1>8 DEF Next, Allocation

\* No block of the pool belongs to two allocations, or to an allocation and to
\* the free list, however allocations, upstream failures and returns interleave.
THEOREM NoBlockTwice == Spec => []BlocksDisjoint
<1>1. BlockInv => BlocksDisjoint
  BY DEF BlockInv
<1> QED
  BY <1>1, BlockInit, BlockStep, PTL DEF Spec

-----------------------------------------------------------------------------
(* Types, and who an allocation is charged to.                             *)

\* Blocks are counted in bytes.
Bytes(n) == n * BlockSize

\* An allocation charged to an arena refers to it, and the arena is
\* registered; so is the arena of the call that takes blocks.
Owned ==
  /\ pending \cap registered = {}
  /\ \A x \in Allocs : owner[x] # NoArena =>
       owner[x] \in registered /\ reservedMemory[x] = owner[x]
  /\ taking.arena \in registered \cup {NoArena}

\* A size_t, whatever it is assigned.
LEMMA WrapType == ASSUME NEW n \in Int PROVE Wrap(n) \in 0..(SizeMod - 1)
  BY HostAssumption DEF Wrap

\* A result within the range of a size_t is not changed by it.
LEMMA WrapSame == ASSUME NEW n \in Nat, n <= Capacity PROVE Wrap(n) = n
  BY HostAssumption DEF Wrap

\* A number of blocks is a number of bytes, and no block is no byte.
LEMMA BytesType == Bytes(0) = 0 /\ \A n \in Nat : Bytes(n) \in Nat
  BY HostAssumption DEF Bytes

\* What a request is rounded up to.
LEMMA RoundedType ==
  ASSUME NEW n \in Sizes
  PROVE  BlocksFor(n) \in Nat /\ AlignUp(n) \in Nat /\ AlignUp(n) = Bytes(BlocksFor(n))
<1>1. BlocksFor(n) \in Nat
  BY HostAssumption DEF BlocksFor
<1> QED
  BY <1>1, BytesType DEF AlignUp, Bytes

\* The larger of two numbers, one of them natural.
LEMMA LargerType ==
  ASSUME NEW m \in Nat, NEW n \in Int
  PROVE  Larger(m, n) \in Nat /\ Larger(m, n) >= m /\ Larger(m, n) >= n
  BY DEF Larger

\* What reserve_upto adds.
LEMMA BoundedType ==
  ASSUME NEW n \in Nat, allocated \in Nat
  PROVE  /\ BoundedBy(n, MemoryLimit) \in Nat
         /\ allocated <= Capacity => allocated + BoundedBy(n, MemoryLimit) <= Capacity
  BY HostAssumption DEF BoundedBy, Smaller

Finite ==
  /\ \A x \in Allocs : IsFiniteSet(blocks[x]) /\ Cardinality(blocks[x]) \in Nat
  /\ IsFiniteSet(taking.got) /\ Cardinality(taking.got) \in Nat
  /\ IsFiniteSet(free) /\ Cardinality(free) \in Nat

\* There are only finitely many blocks.
LEMMA BlocksFinite == TypeOK => Finite
<1> SUFFICES ASSUME TypeOK PROVE Finite
  OBVIOUS
<1> DEFINE k == pools * PoolSize
<1>1. k \in Nat
  BY HostAssumption DEF TypeOK
<1> HIDE DEF k
<1>2. IsFiniteSet(1..k)
  BY <1>1, FS_Interval
<1>3. ASSUME NEW S \in SUBSET (1..k) PROVE IsFiniteSet(S) /\ Cardinality(S) \in Nat
  BY <1>2, FS_Subset, FS_CardinalityType
<1>4. /\ \A x \in Allocs : blocks[x] \in SUBSET (1..k)
      /\ taking.got \in SUBSET (1..k) /\ free \in SUBSET (1..k)
  BY DEF TypeOK, AllBlocks, k
<1> QED
  BY <1>3, <1>4 DEF Finite

Structure == TypeOK /\ BlockInv /\ Owned

\* Every variable keeps its type.
LEMMA TypeStep == Structure /\ [Next]_vars => TypeOK'
<1> SUFFICES ASSUME Structure, [Next]_vars PROVE TypeOK'
  OBVIOUS
<1>0. TypeOK /\ BlockInv' /\ Finite /\ \A n \in Sizes : AlignUp(n) \in Nat /\ BlocksFor(n) \in Nat
  BY BlockStep, BlocksFinite, RoundedType DEF Structure
<1>1. /\ pools' \in Nat /\ free' \in SUBSET AllBlocks'
      /\ blocks' \in [Allocs -> SUBSET AllBlocks'] /\ taking'.got \in SUBSET AllBlocks'
  BY <1>0 DEF BlockInv, Circulating
<1>2. ASSUME UNCHANGED <<pending, registered, size, charged, reservedMemory, owner>>,
             allocated' \in 0..(SizeMod - 1),
             taking' \in [alloc : Allocs \cup {NoAlloc}, arena : Arenas \cup {NoArena},
                          want : Nat, got : SUBSET AllBlocks']
      PROVE  TypeOK'
  BY <1>0, <1>1, <1>2 DEF TypeOK
<1>3. ASSUME UNCHANGED <<pools, taking>> 
      PROVE  taking' \in [alloc : Allocs \cup {NoAlloc}, arena : Arenas \cup {NoArena},
                          want : Nat, got : SUBSET AllBlocks']
  BY <1>0, <1>3 DEF TypeOK, AllBlocks
<1>4. ASSUME NEW a \in Arenas, NEW n \in Nat, ChargeReservation(a, n) PROVE TypeOK'
  <2>1. allocated' \in 0..(SizeMod - 1)
    BY <1>0, <1>4, WrapType DEF ChargeReservation, TypeOK
  <2> QED
    BY <2>1, <1>0, <1>1, <1>3, <1>4 DEF ChargeReservation, TypeOK, poolVars, allocVars
<1>5. CASE Reservation
  <2>1. ASSUME NEW a \in Arenas, NEW n \in Sizes, Reserve(a, n) PROVE TypeOK'
    BY <2>1, <1>0, <1>4 DEF Reserve
  <2>2. ASSUME NEW a \in Arenas, NEW n \in Sizes, ReserveUpto(a, n) PROVE TypeOK'
    <3>1. BoundedBy(AlignUp(n), MemoryLimit) \in Nat
      BY <1>0, BoundedType DEF TypeOK
    <3> QED
      BY <2>2, <3>1, <1>4 DEF ReserveUpto
  <2>3. ASSUME NEW a \in Arenas, NEW n \in Sizes, GrowReservationBy(a, n) PROVE TypeOK'
    <3>1. allocated' \in 0..(SizeMod - 1)
      BY <1>0, <2>3, WrapType DEF GrowReservationBy, TypeOK
    <3> QED
      BY <3>1, <1>0, <1>1, <1>3, <2>3 DEF GrowReservationBy, TypeOK, poolVars, allocVars
  <2>4. ASSUME NEW a \in Arenas, RegisterReservation(a) PROVE TypeOK'
    BY <1>0, <1>1, <1>3, <2>4 DEF RegisterReservation, TypeOK, poolVars, allocVars
  <2>5. ASSUME NEW a \in Arenas, ShrinkReservationToFit(a) PROVE TypeOK'
    <3>1. Larger(0, charged[a]) \in Nat /\ size[a] \in Nat
      BY <1>0, LargerType DEF TypeOK
    <3>2. allocated' \in 0..(SizeMod - 1)
      BY <1>0, <3>1, <2>5, WrapType DEF ShrinkReservationToFit, TypeOK
    <3> QED
      BY <3>1, <3>2, <1>0, <1>1, <1>3, <2>5
      DEF ShrinkReservationToFit, TypeOK, poolVars, allocVars
  <2>6. ASSUME NEW a \in Arenas, ReleaseReservation(a) PROVE TypeOK'
    <3>1. UnusedBytes(a) \in Nat
      BY <1>0 DEF TypeOK, UnusedBytes, Larger
    <3>2. allocated' \in 0..(SizeMod - 1)
      BY <1>0, <3>1, <2>6, WrapType DEF ReleaseReservation, TypeOK
    <3> QED
      BY <3>2, <1>0, <1>1, <1>3, <2>6 DEF ReleaseReservation, TypeOK, poolVars
  <2> QED
    BY <1>5, <2>1, <2>2, <2>3, <2>4, <2>5, <2>6 DEF Reservation
<1>6. ASSUME NEW x \in Allocs, NEW a \in Arenas \cup {NoArena}, NEW n \in Sizes,
             BeginAllocation(x, a, n)
      PROVE  TypeOK'
  <2>1. UpstreamTracked(a, AlignUp(n)) \in Nat
    BY <1>0 DEF TypeOK, UpstreamTracked, Larger
  <2>2. allocated' \in 0..(SizeMod - 1)
    BY <1>0, <2>1, <1>6, WrapType DEF BeginAllocation, TypeOK
  <2>3. charged' \in [Arenas -> Int]
    BY <1>0, <1>6 DEF BeginAllocation, TypeOK
  <2> QED
    BY <2>2, <2>3, <1>0, <1>1, <1>6 DEF BeginAllocation, TypeOK, poolVars, allocVars
<1>7. ASSUME NEW S \in SUBSET free, TakeBlocks(S) PROVE TypeOK'
  <2>1. taking.alloc \in Allocs /\ taking.arena \in Arenas \cup {NoArena} /\ taking.want \in Nat
    BY <1>0, <1>7 DEF TakeBlocks, TypeOK, Structure, BlockInv, Taker, Idle
  <2>2. IsFiniteSet(S) /\ Cardinality(S) \in Nat
    BY <1>0, FS_Subset, FS_CardinalityType DEF Finite
  <2>3. CASE /\ Cardinality(S) < taking.want
             /\ taking' = [taking EXCEPT !.want = @ - Cardinality(S), !.got = @ \cup S]
             /\ UNCHANGED allocVars
    <3>1. taking.want - Cardinality(S) \in Nat
      BY <2>1, <2>2, <2>3
    <3>2. taking' \in [alloc : Allocs \cup {NoAlloc}, arena : Arenas \cup {NoArena},
                       want : Nat, got : SUBSET AllBlocks']
      BY <1>0, <1>1, <2>3, <3>1 DEF TypeOK
    <3> QED
      BY <3>2, <1>0, <1>2, <1>7, <2>3 DEF TakeBlocks, TypeOK, allocVars, arenaVars
  <2>4. CASE /\ reservedMemory' = [reservedMemory EXCEPT ![taking.alloc] = taking.arena]
             /\ owner' = [owner EXCEPT ![taking.alloc] = taking.arena]
             /\ taking' = Idle
    BY <2>1, <2>4, <1>0, <1>1, <1>7 DEF TakeBlocks, TypeOK, Idle, arenaVars
  <2> QED
    BY <1>7, <2>3, <2>4 DEF TakeBlocks
<1>8. CASE ExpandPool
  BY <1>0, <1>1, <1>2, <1>8 DEF ExpandPool, TypeOK, arenaVars, allocVars
<1>9. CASE ExpandPoolThrows
  BY <1>0, <1>1, <1>2, <1>9 DEF ExpandPoolThrows, TypeOK, Idle, arenaVars, allocVars
<1>10. ASSUME NEW x \in Allocs, ReturnAllocatedChunks(x) PROVE TypeOK'
  <2> DEFINE a == reservedMemory[x]
             n == Bytes(Cardinality(blocks[x]))
  <2>1. n \in Nat
    BY <1>0, BytesType DEF Finite
  <2>2. /\ allocated' = Wrap(allocated - (IF a \in registered THEN Reclaimed(a, n) ELSE n))
        /\ charged' = IF a \in registered THEN [charged EXCEPT ![a] = @ - n] ELSE charged
    BY <1>10 DEF ReturnAllocatedChunks, Bytes
  <2> HIDE DEF n
  <2>3. a \in registered => Reclaimed(a, n) \in Int
    BY <1>0, <2>1 DEF Reclaimed, TypeOK
  <2>4. allocated' \in 0..(SizeMod - 1)
    BY <1>0, <2>1, <2>2, <2>3, WrapType DEF TypeOK
  <2>5. charged' \in [Arenas -> Int]
    BY <1>0, <2>1, <2>2 DEF TypeOK
  <2> QED
    BY <2>4, <2>5, <1>0, <1>1, <1>3, <1>10 DEF ReturnAllocatedChunks, TypeOK, poolVars
<1>11. CASE UNCHANGED vars
  BY <1>0, <1>1, <1>3, <1>11 DEF vars, TypeOK
<1> QED
  BY <1>5, <1>6, <1>7, <1>8, <1>9, <1>10, <1>11 DEF Next, Allocation

\* Arenas and allocations keep referring to each other.
LEMMA OwnedStep == Structure /\ [Next]_vars => Owned'
<1> SUFFICES ASSUME Structure, [Next]_vars PROVE Owned'
  OBVIOUS
<1>0. TypeOK /\ Owned /\ NoArena \notin Arenas
  BY HostAssumption DEF Structure
<1>1. ASSUME NEW a \in Arenas, NEW n, ChargeReservation(a, n) PROVE Owned'
  BY <1>0, <1>1 DEF ChargeReservation, Owned, allocVars
<1>2. CASE Reservation
  <2>1. ASSUME NEW a \in Arenas, NEW n \in Sizes, GrowReservationBy(a, n) PROVE Owned'
    BY <1>0, <2>1 DEF GrowReservationBy, Owned, allocVars
  <2>2. ASSUME NEW a \in Arenas, RegisterReservation(a) PROVE Owned'
    BY <1>0, <2>2 DEF RegisterReservation, Owned, allocVars
  <2>3. ASSUME NEW a \in Arenas, ShrinkReservationToFit(a) PROVE Owned'
    BY <1>0, <2>3 DEF ShrinkReservationToFit, Owned, allocVars
  <2>4. ASSUME NEW a \in Arenas, ReleaseReservation(a) PROVE Owned'
    BY <1>0, <2>4 DEF ReleaseReservation, Owned, MutexFree, Idle
  <2> QED
    BY <1>1, <1>2, <2>1, <2>2, <2>3, <2>4 DEF Reservation, Reserve, ReserveUpto
<1>3. ASSUME NEW x \in Allocs, NEW a \in Arenas \cup {NoArena}, NEW n \in Sizes,
             BeginAllocation(x, a, n)
      PROVE  Owned'
  BY <1>0, <1>3 DEF BeginAllocation, Owned, allocVars
<1>4. ASSUME NEW S \in SUBSET free, TakeBlocks(S) PROVE Owned'
  <2>1. taking.alloc \in Allocs
    BY <1>4 DEF TakeBlocks, Structure, BlockInv, Taker, Idle
  <2>2. CASE /\ taking' = [taking EXCEPT !.want = @ - Cardinality(S), !.got = @ \cup S]
             /\ UNCHANGED allocVars
    <3>1. taking'.arena = taking.arena
      BY <1>0, <2>2 DEF TypeOK
    <3> QED
      BY <3>1, <1>0, <1>4, <2>2 DEF TakeBlocks, Owned, allocVars, arenaVars
  <2>3. CASE /\ reservedMemory' = [reservedMemory EXCEPT ![taking.alloc] = taking.arena]
             /\ owner' = [owner EXCEPT ![taking.alloc] = taking.arena]
             /\ taking' = Idle
    BY <2>1, <2>3, <1>0, <1>4 DEF TakeBlocks, TypeOK, Owned, Idle, arenaVars
  <2> QED
    BY <1>4, <2>2, <2>3 DEF TakeBlocks
<1>5. CASE ExpandPool
  BY <1>0, <1>5 DEF ExpandPool, Owned, arenaVars, allocVars
<1>6. CASE ExpandPoolThrows
  BY <1>0, <1>6 DEF ExpandPoolThrows, Owned, Idle, arenaVars, allocVars
<1>7. ASSUME NEW x \in Allocs, ReturnAllocatedChunks(x) PROVE Owned'
  BY <1>0, <1>7 DEF ReturnAllocatedChunks, Owned, TypeOK
<1>8. CASE UNCHANGED vars
  BY <1>0, <1>8 DEF vars, Owned
<1> QED
  BY <1>2, <1>3, <1>4, <1>5, <1>6, <1>7, <1>8 DEF Next, Allocation

\* What the sums are about stays in shape.
LEMMA StructureStep == Structure /\ [Next]_vars => Structure'
  BY BlockStep, TypeStep, OwnedStep DEF Structure

\* And is in shape when the resource is made.
LEMMA StructureInit == Init => Structure
<1> SUFFICES ASSUME Init PROVE Structure
  OBVIOUS
<1>1. TypeOK
  BY HostAssumption DEF Init, TypeOK, AllBlocks, Idle
<1>2. Owned
  BY DEF Init, Owned, Idle
<1> QED
  BY <1>1, <1>2, BlockInit DEF Structure

-----------------------------------------------------------------------------
(* The bytes allocated from an arena, and from none.                       *)

Places == Arenas \cup {NoArena}

Held(a) == [x \in Allocs |-> IF owner[x] = a THEN Bytes(Cardinality(blocks[x])) ELSE 0]

InHand(a) == IF taking.arena = a THEN Bytes(taking.want + Cardinality(taking.got)) ELSE 0

Usage == [a \in Places |-> Tally(Allocs, Held(a)) + InHand(a)]

UsageType ==
  /\ \A a : Held(a) \in [Allocs -> Nat] /\ Tally(Allocs, Held(a)) \in Nat /\ InHand(a) \in Nat
  /\ Usage \in [Places -> Nat]

\* Bytes are natural numbers.
LEMMA UsageTyped == TypeOK => UsageType
<1> SUFFICES ASSUME TypeOK PROVE UsageType
  OBVIOUS
<1>0. Finite
  BY BlocksFinite
<1>1. ASSUME NEW a PROVE Held(a) \in [Allocs -> Nat]
  BY <1>0, BytesType DEF Held, Finite
<1>2. ASSUME NEW a PROVE Tally(Allocs, Held(a)) \in Nat
  BY <1>1, TallyType, HostAssumption
<1>3. ASSUME NEW a PROVE InHand(a) \in Nat
  BY <1>0, BytesType DEF InHand, Finite, TypeOK
<1>4. Usage \in [Places -> Nat]
  BY <1>2, <1>3 DEF Usage
<1> QED
  BY <1>1, <1>2, <1>3, <1>4 DEF UsageType

\* The same in the next state.
LEMMA UsageTypedNext == TypeOK' => UsageType'
  BY UsageTyped, PTL

\* Nothing changes in a step that leaves the allocations alone.
LEMMA UsageSame ==
  ASSUME UNCHANGED <<blocks, owner, taking>>
  PROVE  Usage' = Usage
  BY DEF Usage, Held, InHand

\* The call that takes blocks has all the bytes it asked for in hand.
LEMMA UsageBegins ==
  ASSUME Structure, Structure', NEW x \in Allocs, NEW a \in Places, NEW n \in Sizes,
         BeginAllocation(x, a, n)
  PROVE  /\ Usage'[a] = Usage[a] + AlignUp(n)
         /\ \A b \in Places : b # a => Usage'[b] = Usage[b]
<1>1. UsageType /\ UsageType' /\ AlignUp(n) \in Nat
  BY UsageTyped, UsageTypedNext, RoundedType DEF Structure
<1>2. ASSUME NEW b \in Places PROVE Held(b)' = Held(b)
  BY DEF BeginAllocation, Held, allocVars
<1>3. /\ taking = Idle
      /\ taking' = [alloc |-> x, arena |-> a, want |-> BlocksFor(n), got |-> {}]
  BY DEF BeginAllocation, MutexFree
<1>4. ASSUME NEW b \in Places PROVE InHand(b) = 0
  BY <1>3, BytesType, FS_EmptySet DEF InHand, Idle
<1>5. ASSUME NEW b \in Places PROVE InHand(b)' = IF b = a THEN AlignUp(n) ELSE 0
  BY <1>3, BytesType, RoundedType, FS_EmptySet DEF InHand
<1>6. \A b \in Places : Usage'[b] = Usage[b] + IF b = a THEN AlignUp(n) ELSE 0
  BY <1>1, <1>2, <1>4, <1>5 DEF Usage, UsageType
<1>7. \A b \in Places : Usage[b] \in Nat
  BY <1>1 DEF UsageType
<1> QED
  BY <1>1, <1>6, <1>7

\* Bytes in hand become bytes of an allocation, block by block.
LEMMA UsageTaken ==
  ASSUME Structure, Structure', NEW S \in SUBSET free, TakeBlocks(S)
  PROVE  Usage' = Usage
<1>0. UsageType /\ UsageType' /\ Finite /\ Finite'
  <2>1. Finite' 
    BY BlocksFinite, PTL DEF Structure
  <2> QED
    BY <2>1, UsageTyped, UsageTypedNext, BlocksFinite DEF Structure
<1>1. IsFiniteSet(S) /\ Cardinality(S) \in Nat
  BY <1>0, FS_Subset, FS_CardinalityType DEF Finite
<1>2. taking.got \cap S = {}
  BY DEF Structure, BlockInv, BlocksDisjoint
<1>3. Cardinality(taking.got \cup S) = Cardinality(taking.got) + Cardinality(S)
  <2>1. Cardinality(taking.got \cup S) = Cardinality(taking.got) + Cardinality(S) - Cardinality({})
    BY <1>0, <1>1, <1>2, FS_Union DEF Finite
  <2> QED
    BY <2>1, <1>0, <1>1, FS_EmptySet DEF Finite
<1>4. /\ taking.alloc \in Allocs /\ blocks[taking.alloc] = {}
      /\ taking.arena \in Places /\ taking.want \in Nat
  BY DEF TakeBlocks, TypeOK, Structure, BlockInv, Taker, Idle, Places
<1>5. CASE /\ taking' = [taking EXCEPT !.want = @ - Cardinality(S), !.got = @ \cup S]
           /\ UNCHANGED allocVars
  <2>1. /\ taking'.arena = taking.arena /\ taking'.want = taking.want - Cardinality(S)
        /\ taking'.got = taking.got \cup S
    BY <1>5 DEF TypeOK, Structure
  <2>2. taking'.want + Cardinality(taking'.got) = taking.want + Cardinality(taking.got)
    BY <2>1, <1>0, <1>1, <1>3, <1>4 DEF Finite
  <2>3. \A b : InHand(b)' = InHand(b) /\ Held(b)' = Held(b)
    BY <1>5, <2>1, <2>2 DEF InHand, Held, allocVars
  <2> QED
    BY <2>3 DEF Usage
<1>6. CASE /\ Cardinality(S) = taking.want
           /\ blocks' = [blocks EXCEPT ![taking.alloc] = taking.got \cup S]
           /\ owner' = [owner EXCEPT ![taking.alloc] = taking.arena]
           /\ taking' = Idle
  <2> DEFINE x == taking.alloc
             n == Bytes(taking.want + Cardinality(taking.got))
  <2>1. taking.want + Cardinality(taking.got) = Cardinality(taking.got \cup S)
    BY <1>0, <1>3, <1>4, <1>6 DEF Finite
  <2>2. /\ blocks'[x] = taking.got \cup S /\ owner'[x] = taking.arena
        /\ \A y \in Allocs : y # x => blocks'[y] = blocks[y] /\ owner'[y] = owner[y]
    BY <1>4, <1>6 DEF Structure, TypeOK
  <2>3. n \in Nat
    BY <1>0, <1>4, BytesType DEF Finite
  <2>4. ASSUME NEW b \in Places PROVE Held(b)[x] = 0 /\ Held(b)'[x] = InHand(b)
    <3>1. Held(b)[x] = 0
      BY <1>4, BytesType, FS_EmptySet DEF Held
    <3>2. Held(b)'[x] = InHand(b)
      BY <1>4, <2>1, <2>2 DEF Held, InHand
    <3> QED
      BY <3>1, <3>2
  <2>5. ASSUME NEW b \in Places PROVE InHand(b)' = 0
    BY <1>6, BytesType, FS_EmptySet DEF InHand, Idle
  <2>6. ASSUME NEW b \in Places
        PROVE  Tally(Allocs, Held(b)') - Held(b)'[x] = Tally(Allocs, Held(b)) - Held(b)[x]
    <3>1. \A y \in Allocs : y # x => Held(b)[y] = Held(b)'[y]
      BY <2>2 DEF Held
    <3> DEFINE v == Held(b)
               w == Held(b)'
    <3>2. v \in [Allocs -> Nat] /\ w \in [Allocs -> Nat] /\ \A y \in Allocs : y # x => v[y] = w[y]
      BY <3>1, <1>0 DEF UsageType
    <3> HIDE DEF v, w
    <3>3. Tally(Allocs, w) - w[x] = Tally(Allocs, v) - v[x]
      BY <3>2, <1>4, TallyChange, HostAssumption
    <3> QED
      BY <3>3 DEF v, w
  <2>7. ASSUME NEW b \in Places PROVE Usage'[b] = Usage[b]
    <3>1. /\ Usage'[b] = Tally(Allocs, Held(b)') + InHand(b)'
          /\ Usage[b] = Tally(Allocs, Held(b)) + InHand(b)
      BY DEF Usage
    <3>2. /\ Tally(Allocs, Held(b)') \in Nat /\ InHand(b)' \in Nat
          /\ Tally(Allocs, Held(b)) \in Nat /\ InHand(b) \in Nat
      BY <1>0 DEF UsageType
    <3> QED
      BY <3>1, <3>2, <2>4, <2>5, <2>6
  <2>8. Usage = [b \in Places |-> Usage[b]] /\ Usage' = [b \in Places |-> Usage'[b]]
    BY DEF Usage
  <2> QED
    BY <2>7, <2>8
<1> QED
  BY <1>5, <1>6 DEF TakeBlocks

\* The bytes in hand of a call that fails are nobody's.
LEMMA UsageDropped ==
  ASSUME Structure, Structure', ExpandPoolThrows
  PROVE  \A b \in Places : Usage'[b] <= Usage[b] /\ (b # taking.arena => Usage'[b] = Usage[b])
<1>0. UsageType /\ UsageType'
  BY UsageTyped, UsageTypedNext DEF Structure
<1>1. taking' = Idle /\ UNCHANGED <<blocks, owner>>
  BY DEF ExpandPoolThrows, allocVars
<1>2. ASSUME NEW b \in Places PROVE InHand(b)' = 0 /\ (b # taking.arena => InHand(b) = 0)
  BY <1>1, BytesType, FS_EmptySet DEF InHand, Idle
<1>3. ASSUME NEW b \in Places PROVE Held(b)' = Held(b)
  BY <1>1 DEF Held
<1> QED
  BY <1>0, <1>2, <1>3 DEF Usage, UsageType

\* An allocation that is destroyed gives its bytes back to where it is charged.
LEMMA UsageReturned ==
  ASSUME Structure, Structure', NEW x \in Allocs, ReturnAllocatedChunks(x)
  PROVE  /\ Usage'[owner[x]] = Usage[owner[x]] - Bytes(Cardinality(blocks[x]))
         /\ \A b \in Places : b # owner[x] => Usage'[b] = Usage[b]
         /\ Bytes(Cardinality(blocks[x])) \in Nat
<1>0. UsageType /\ UsageType' /\ Finite
  BY UsageTyped, UsageTypedNext, BlocksFinite DEF Structure
<1> DEFINE n == Bytes(Cardinality(blocks[x]))
<1>1. n \in Nat
  BY <1>0, BytesType DEF Finite
<1>2. /\ blocks' = [blocks EXCEPT ![x] = {}] /\ owner' = [owner EXCEPT ![x] = NoArena]
      /\ UNCHANGED taking
  BY DEF ReturnAllocatedChunks
<1>3. /\ blocks'[x] = {}
      /\ \A y \in Allocs : y # x => blocks'[y] = blocks[y] /\ owner'[y] = owner[y]
  BY <1>2 DEF Structure, TypeOK
<1>4. owner[x] \in Places
  BY DEF Structure, TypeOK, Places
<1>5. ASSUME NEW b \in Places
      PROVE  Held(b)'[x] = 0 /\ Held(b)[x] = IF b = owner[x] THEN n ELSE 0
  BY <1>3, BytesType, FS_EmptySet DEF Held
<1>6. ASSUME NEW b \in Places
      PROVE  Tally(Allocs, Held(b)') - Held(b)'[x] = Tally(Allocs, Held(b)) - Held(b)[x]
  <2>1. \A y \in Allocs : y # x => Held(b)[y] = Held(b)'[y]
    BY <1>3 DEF Held
  <2> DEFINE v == Held(b)
             w == Held(b)'
  <2>2. v \in [Allocs -> Nat] /\ w \in [Allocs -> Nat] /\ \A y \in Allocs : y # x => v[y] = w[y]
    BY <2>1, <1>0 DEF UsageType
  <2> HIDE DEF v, w
  <2>3. Tally(Allocs, w) - w[x] = Tally(Allocs, v) - v[x]
    BY <2>2, TallyChange, HostAssumption
  <2> QED
    BY <2>3 DEF v, w
<1>7. ASSUME NEW b \in Places PROVE Usage'[b] = Usage[b] - IF b = owner[x] THEN n ELSE 0
  <2>1. /\ Usage'[b] = Tally(Allocs, Held(b)') + InHand(b)'
        /\ Usage[b] = Tally(Allocs, Held(b)) + InHand(b)
        /\ InHand(b)' = InHand(b)
    BY <1>2 DEF Usage, InHand
  <2>2. /\ Tally(Allocs, Held(b)') \in Nat /\ InHand(b) \in Nat
        /\ Tally(Allocs, Held(b)) \in Nat
    BY <1>0 DEF UsageType
  <2> HIDE DEF n
  <2> QED
    BY <1>1, <2>1, <2>2, <1>5, <1>6
<1>8. \A b \in Places : Usage[b] \in Nat
  BY <1>0 DEF UsageType
<1> HIDE DEF n
<1>9. Usage'[owner[x]] = Usage[owner[x]] - n /\ \A b \in Places : b # owner[x] => Usage'[b] = Usage[b]
  BY <1>1, <1>4, <1>7, <1>8
<1> QED
  BY <1>1, <1>9 DEF n

\* What is allocated from an arena that is destroyed is charged to none.
LEMMA UsageReleased ==
  ASSUME Structure, Structure', NEW a \in Arenas, ReleaseReservation(a)
  PROVE  /\ Usage'[NoArena] = Usage[NoArena] + Usage[a]
         /\ \A b \in Arenas : b # a => Usage'[b] = Usage[b]
<1>0. UsageType /\ UsageType' /\ NoArena \notin Arenas
  BY UsageTyped, UsageTypedNext, HostAssumption DEF Structure
<1>1. /\ owner' = [x \in Allocs |-> IF owner[x] = a THEN NoArena ELSE owner[x]]
      /\ UNCHANGED <<blocks, taking>> /\ taking = Idle
  BY DEF ReleaseReservation, MutexFree
<1>2. ASSUME NEW b \in Places PROVE InHand(b) = 0 /\ InHand(b)' = 0
  BY <1>1, BytesType, FS_EmptySet DEF InHand, Idle
<1>3. ASSUME NEW b \in Arenas, b # a PROVE Usage'[b] = Usage[b]
  <2>1. Held(b)' = Held(b)
    BY <1>0, <1>1, <1>3 DEF Held
  <2> QED
    BY <2>1, <1>2 DEF Usage, Places
<1>4. Tally(Allocs, Held(NoArena)') = Tally(Allocs, Held(NoArena)) + Tally(Allocs, Held(a))
  <2> DEFINE v == Held(NoArena)
             w == Held(a)
             z == Held(NoArena)'
  <2>1. v \in [Allocs -> Nat] /\ w \in [Allocs -> Nat] /\ z \in [Allocs -> Nat]
    BY <1>0 DEF UsageType
  <2>2. ASSUME NEW y \in Allocs PROVE (v[y] = 0 \/ w[y] = 0) /\ z[y] = v[y] + w[y]
    <3> DEFINE k == Bytes(Cardinality(blocks[y]))
    <3>1. /\ v[y] = IF owner[y] = NoArena THEN k ELSE 0
          /\ w[y] = IF owner[y] = a THEN k ELSE 0
          /\ z[y] = IF owner[y] \in {a, NoArena} THEN k ELSE 0
      BY <1>0, <1>1 DEF Held
    <3>2. v[y] \in Nat /\ w[y] \in Nat
      BY <2>1
    <3> HIDE DEF k, v, w, z
    <3> QED
      BY <1>0, <3>1, <3>2
  <2> HIDE DEF v, w, z
  <2>3. Tally(Allocs, z) = Tally(Allocs, v) + Tally(Allocs, w)
    BY <2>1, <2>2, TallyPlus, HostAssumption
  <2> QED
    BY <2>3 DEF v, w, z
<1>5. /\ Usage'[NoArena] = Tally(Allocs, Held(NoArena)') + InHand(NoArena)'
      /\ Usage[NoArena] = Tally(Allocs, Held(NoArena)) + InHand(NoArena)
      /\ Usage[a] = Tally(Allocs, Held(a)) + InHand(a)
  BY DEF Usage, Places
<1>6. /\ Tally(Allocs, Held(NoArena)') \in Nat /\ Tally(Allocs, Held(NoArena)) \in Nat
      /\ Tally(Allocs, Held(a)) \in Nat
  BY <1>0 DEF UsageType
<1>7. InHand(a) = 0 /\ InHand(NoArena) = 0 /\ InHand(NoArena)' = 0
  BY <1>2 DEF Places
<1> QED
  BY <1>3, <1>4, <1>5, <1>6, <1>7

-----------------------------------------------------------------------------
(* What the total has to cover.                                            *)

\* A registered arena is worth the larger of its size and its charge, and what
\* is allocated from it beyond the charge; a charge can only be too low once an
\* arena has had the address of another.
Worth(s, c, u) == Larger(s, c) + Larger(0, u - c)

Weight == [a \in Arenas |->
  IF a \in registered THEN Worth(size[a], charged[a], Usage[a])
  ELSE IF a \in pending THEN size[a] ELSE 0]

Owed == Tally(Arenas, Weight) + Usage[NoArena]

OwedType ==
  /\ Weight \in [Arenas -> Nat] /\ Tally(Arenas, Weight) \in Nat
  /\ Usage \in [Places -> Nat] /\ Usage[NoArena] \in Nat /\ Owed \in Nat

\* So many bytes.
LEMMA OwedTyped == TypeOK => OwedType
<1> SUFFICES ASSUME TypeOK PROVE OwedType
  OBVIOUS
<1>1. Usage \in [Places -> Nat] /\ Usage[NoArena] \in Nat
  BY UsageTyped DEF UsageType, Places
<1>2. ASSUME NEW s \in Nat, NEW c \in Int, NEW u \in Nat PROVE Worth(s, c, u) \in Nat
  BY DEF Worth, Larger
<1>3. Weight \in [Arenas -> Nat]
  BY <1>1, <1>2 DEF Weight, TypeOK, Places
<1>4. Tally(Arenas, Weight) \in Nat
  BY <1>3, TallyType, HostAssumption
<1> QED
  BY <1>1, <1>3, <1>4 DEF OwedType, Owed

\* The same in the next state.
LEMMA OwedTypedNext == TypeOK' => OwedType'
  BY OwedTyped, PTL

\* A step that changes one arena.
LEMMA OwedMoves ==
  ASSUME OwedType, OwedType', NEW a \in Arenas,
         \A b \in Arenas : b # a => /\ Usage'[b] = Usage[b]
                                    /\ size'[b] = size[b] /\ charged'[b] = charged[b]
                                    /\ b \in registered' <=> b \in registered
                                    /\ b \in pending' <=> b \in pending
  PROVE  /\ Owed' - Weight'[a] - Usage'[NoArena] = Owed - Weight[a] - Usage[NoArena]
         /\ Weight[a] + Usage[NoArena] <= Owed
         /\ Weight[a] \in Nat /\ Weight'[a] \in Nat
<1>1. \A b \in Arenas : b # a => Weight[b] = Weight'[b]
  BY DEF Weight
<1>2. IsFiniteSet(Arenas) /\ Weight \in [Arenas -> Nat] /\ Weight' \in [Arenas -> Nat]
  BY HostAssumption DEF OwedType
<1>3. Tally(Arenas, Weight') - Weight'[a] = Tally(Arenas, Weight) - Weight[a]
  BY <1>1, <1>2, TallyChange
<1>4. Weight[a] <= Tally(Arenas, Weight)
  BY <1>2, TallyBound
<1>5. /\ Weight[a] \in Nat /\ Weight'[a] \in Nat /\ Tally(Arenas, Weight) \in Nat
      /\ Tally(Arenas, Weight') \in Nat /\ Usage[NoArena] \in Nat /\ Usage'[NoArena] \in Nat
  BY <1>2 DEF OwedType
<1> QED
  BY <1>3, <1>4, <1>5 DEF Owed

\* A step that changes no arena.
LEMMA OwedStays ==
  ASSUME OwedType, OwedType',
         \A b \in Arenas : Usage'[b] = Usage[b],
         UNCHANGED <<size, charged, registered, pending>>
  PROVE  Owed' - Usage'[NoArena] = Owed - Usage[NoArena]
<1>1. \A b \in Arenas : Weight[b] = Weight'[b]
  BY DEF Weight
<1>2. Tally(Arenas, Weight') = Tally(Arenas, Weight)
  BY <1>1, TallySame
<1> QED
  BY <1>2 DEF Owed, OwedType

\* The total covers what is owed, and no more than the capacity is promised.
Covered == Owed <= allocated /\ allocated <= Capacity

\* Nothing is lost, and who refers to an arena is charged to it.
Exact ==
  /\ Owed = allocated
  /\ \A a \in registered : charged[a] = Usage[a]
  /\ \A x \in Allocs : reservedMemory[x] \in pending \cup registered =>
       owner[x] = reservedMemory[x]

\* A total that stays between what is owed and the capacity does not wrap.
LEMMA CoveredNext ==
  ASSUME NEW e \in Int, allocated' = Wrap(e), OwedType', Owed' <= e, e <= Capacity
  PROVE  Covered' /\ allocated' = e
<1>1. Owed' \in Nat
  BY DEF OwedType
<1>2. e \in Nat
  BY <1>1
<1> QED
  BY <1>2, WrapSame DEF Covered

Typed == Structure /\ Structure' /\ OwedType /\ OwedType' /\ Covered

\* A new reservation is owed what it is charged.
LEMMA ChargeCovers ==
  ASSUME Typed, NEW a \in Arenas, NEW n \in Nat, ChargeReservation(a, n),
         allocated + n <= Capacity
  PROVE  /\ Covered'
         /\ Exact /\ (\A x \in Allocs : reservedMemory[x] # a) => Exact'
<1>1. Usage' = Usage
  BY UsageSame DEF ChargeReservation, allocVars
<1>2. /\ a \notin pending /\ a \notin registered /\ pending' = pending \cup {a}
      /\ size' = [size EXCEPT ![a] = n] /\ allocated' = Wrap(allocated + n)
      /\ UNCHANGED <<registered, charged, blocks, reservedMemory, owner>>
  BY DEF ChargeReservation, allocVars
<1>3. size \in [Arenas -> Nat] /\ allocated \in Nat /\ Owed \in Nat /\ Owed' \in Nat
      /\ Usage[NoArena] \in Nat
  BY DEF Typed, Structure, TypeOK, OwedType
<1>4. Owed' - Weight'[a] - Usage'[NoArena] = Owed - Weight[a] - Usage[NoArena]
  BY <1>1, <1>2, <1>3, OwedMoves DEF Typed
<1>5. Weight[a] = 0 /\ Weight'[a] = n
  BY <1>2, <1>3 DEF Weight
<1>6. Owed' = Owed + n
  BY <1>1, <1>3, <1>4, <1>5
<1>7. Covered' /\ allocated' = allocated + n
  BY <1>2, <1>3, <1>6, CoveredNext DEF Typed, Covered
<1>8. ASSUME Exact, \A x \in Allocs : reservedMemory[x] # a PROVE Exact'
  BY <1>1, <1>2, <1>6, <1>7, <1>8 DEF Exact
<1> QED
  BY <1>7, <1>8

\* Registering an arena changes nothing: nothing is allocated from it yet.
LEMMA RegisterCovers ==
  ASSUME Typed, NEW a \in Arenas, RegisterReservation(a)
  PROVE  Covered' /\ (Exact => Exact')
<1>1. Usage' = Usage
  BY UsageSame DEF RegisterReservation, allocVars
<1>2. /\ a \in pending /\ a \notin registered /\ taking = Idle
      /\ pending' = pending \ {a} /\ registered' = registered \cup {a}
      /\ charged' = [charged EXCEPT ![a] = 0]
      /\ UNCHANGED <<allocated, size, blocks, reservedMemory, owner>>
  BY DEF RegisterReservation, MutexFree, allocVars, Typed, Structure, Owned
<1>3. /\ size \in [Arenas -> Nat] /\ charged \in [Arenas -> Int] /\ Owed \in Nat /\ Owed' \in Nat
      /\ Usage[NoArena] \in Nat /\ Weight[a] \in Nat
  BY DEF Typed, Structure, TypeOK, OwedType
<1>4. Owed' - Weight'[a] - Usage'[NoArena] = Owed - Weight[a] - Usage[NoArena]
  BY <1>1, <1>2, <1>3, OwedMoves DEF Typed
<1>5. Usage[a] = 0
  <2>1. \A x \in Allocs : owner[x] # a
    BY <1>2, HostAssumption DEF Typed, Structure, Owned
  <2>2. \A x \in Allocs : Held(a)[x] = 0
    BY <2>1 DEF Held
  <2>3. Tally(Allocs, Held(a)) = 0
    BY <2>2, TallyZero
  <2>4. InHand(a) = 0
    BY <1>2, HostAssumption DEF InHand, Idle
  <2> QED
    BY <2>3, <2>4 DEF Usage, Places
<1>6. Weight[a] = size[a] /\ Weight'[a] = Worth(size[a], 0, 0)
  BY <1>1, <1>2, <1>3, <1>5 DEF Weight
<1>7. Weight'[a] = Weight[a]
  BY <1>3, <1>6 DEF Worth, Larger
<1>8. Owed' = Owed
  BY <1>1, <1>3, <1>4, <1>7
<1>9. Covered'
  BY <1>2, <1>8 DEF Typed, Covered
<1>10. ASSUME Exact PROVE Exact'
  BY <1>1, <1>2, <1>3, <1>5, <1>8, <1>10 DEF Exact
<1> QED
  BY <1>9, <1>10

\* A reservation that grows is owed at most as much more as it is charged, and
\* exactly as much unless it is overrun.
LEMMA GrowCovers ==
  ASSUME Typed, NEW a \in Arenas, NEW m \in Sizes, GrowReservationBy(a, m)
  PROVE  Covered' /\ (Exact /\ ~(charged[a] > size[a]) => Exact')
<1> DEFINE n == AlignUp(m)
<1>0. n \in Nat
  BY RoundedType
<1>1. Usage' = Usage
  BY UsageSame DEF GrowReservationBy, allocVars
<1>2. /\ a \in registered /\ allocated + n <= Capacity /\ allocated' = Wrap(allocated + n)
      /\ size' = [size EXCEPT ![a] = @ + n]
      /\ UNCHANGED <<pending, registered, charged, blocks, reservedMemory, owner>>
  BY <1>0, HostAssumption DEF GrowReservationBy, Fits, allocVars, Typed, Structure, TypeOK
<1>3. /\ size \in [Arenas -> Nat] /\ charged \in [Arenas -> Int] /\ Owed \in Nat /\ Owed' \in Nat
      /\ Usage[NoArena] \in Nat /\ Weight[a] \in Nat /\ Weight'[a] \in Nat /\ allocated \in Nat
      /\ Usage[a] \in Nat
  BY DEF Typed, Structure, TypeOK, OwedType, Places
<1> HIDE DEF n
<1>4. Owed' - Weight'[a] - Usage'[NoArena] = Owed - Weight[a] - Usage[NoArena]
  BY <1>1, <1>2, <1>3, OwedMoves DEF Typed
<1>5. /\ Weight[a] = Worth(size[a], charged[a], Usage[a])
      /\ Weight'[a] = Worth(size[a] + n, charged[a], Usage[a])
  BY <1>1, <1>2, <1>3 DEF Weight
<1>6. Weight'[a] <= Weight[a] + n /\ (~(charged[a] > size[a]) => Weight'[a] = Weight[a] + n)
  BY <1>0, <1>3, <1>5 DEF Worth, Larger
<1>7. Owed' <= Owed + n /\ (~(charged[a] > size[a]) => Owed' = Owed + n)
  BY <1>0, <1>1, <1>3, <1>4, <1>6
<1>8. Covered' /\ allocated' = allocated + n
  BY <1>0, <1>2, <1>3, <1>7, CoveredNext DEF Typed, Covered
<1>9. ASSUME Exact, ~(charged[a] > size[a]) PROVE Exact'
  BY <1>1, <1>2, <1>7, <1>8, <1>9 DEF Exact
<1> QED
  BY <1>8, <1>9

\* Shrinking gives back what is not used.
LEMMA ShrinkCovers ==
  ASSUME Typed, NEW a \in Arenas, ShrinkReservationToFit(a)
  PROVE  Covered' /\ (Exact => Exact')
<1>1. Usage' = Usage
  BY UsageSame DEF ShrinkReservationToFit, allocVars
<1> DEFINE k == Larger(0, charged[a])
<1>2. /\ a \in registered /\ k < size[a] /\ allocated' = Wrap(allocated - (size[a] - k))
      /\ size' = [size EXCEPT ![a] = k]
      /\ UNCHANGED <<pending, registered, charged, blocks, reservedMemory, owner>>
  BY DEF ShrinkReservationToFit, allocVars
<1>3. /\ size \in [Arenas -> Nat] /\ charged \in [Arenas -> Int] /\ Owed \in Nat /\ Owed' \in Nat
      /\ Usage[NoArena] \in Nat /\ Weight[a] \in Nat /\ Weight'[a] \in Nat /\ allocated \in Nat
      /\ Usage[a] \in Nat
  BY DEF Typed, Structure, TypeOK, OwedType, Places
<1>4. Owed' - Weight'[a] - Usage'[NoArena] = Owed - Weight[a] - Usage[NoArena]
  BY <1>1, <1>2, <1>3, OwedMoves DEF Typed
<1>5. /\ Weight[a] = Worth(size[a], charged[a], Usage[a])
      /\ Weight'[a] = Worth(k, charged[a], Usage[a])
  BY <1>1, <1>2, <1>3 DEF Weight
<1>6. k \in Nat
  BY <1>3, LargerType
<1>7. Weight[a] - Weight'[a] = size[a] - k
  BY <1>2, <1>3, <1>5 DEF Worth, Larger
<1> HIDE DEF k
<1>8. Owed' = Owed - (size[a] - k)
  BY <1>1, <1>3, <1>4, <1>6, <1>7
<1>9. Capacity \in Nat
  BY HostAssumption
<1>10. Covered' /\ allocated' = allocated - (size[a] - k)
  BY <1>2, <1>3, <1>6, <1>8, <1>9, CoveredNext DEF Typed, Covered
<1>11. ASSUME Exact PROVE Exact'
  BY <1>1, <1>2, <1>8, <1>10, <1>11 DEF Exact
<1> QED
  BY <1>10, <1>11

\* An arena that is destroyed leaves behind what is allocated from it.
LEMMA ReleaseCovers ==
  ASSUME Typed, NEW a \in Arenas, ReleaseReservation(a)
  PROVE  Covered' /\ (Exact => Exact')
<1>1. /\ Usage'[NoArena] = Usage[NoArena] + Usage[a]
      /\ \A b \in Arenas : b # a => Usage'[b] = Usage[b]
  BY UsageReleased DEF Typed
<1> DEFINE n == UnusedBytes(a)
<1>2. /\ a \in registered /\ a \notin pending /\ allocated' = Wrap(allocated - n)
      /\ registered' = registered \ {a}
      /\ size' = [size EXCEPT ![a] = 0] /\ charged' = [charged EXCEPT ![a] = 0]
      /\ owner' = [x \in Allocs |-> IF owner[x] = a THEN NoArena ELSE owner[x]]
      /\ UNCHANGED <<pending, blocks, reservedMemory>>
  BY DEF ReleaseReservation, Typed, Structure, Owned
<1>3. /\ size \in [Arenas -> Nat] /\ charged \in [Arenas -> Int] /\ Owed \in Nat /\ Owed' \in Nat
      /\ Usage[NoArena] \in Nat /\ Weight[a] \in Nat /\ Weight'[a] \in Nat /\ allocated \in Nat
      /\ Usage[a] \in Nat /\ Usage'[NoArena] \in Nat
  BY DEF Typed, Structure, TypeOK, OwedType, Places
<1>4. Owed' - Weight'[a] - Usage'[NoArena] = Owed - Weight[a] - Usage[NoArena]
  BY <1>1, <1>2, <1>3, OwedMoves DEF Typed
<1>5. Weight[a] = Worth(size[a], charged[a], Usage[a]) /\ Weight'[a] = 0
  BY <1>2 DEF Weight
<1>6. n \in Nat /\ Weight[a] - Usage[a] >= n /\ (charged[a] = Usage[a] => Weight[a] - Usage[a] = n)
  BY <1>3, <1>5 DEF UnusedBytes, Worth, Larger
<1> HIDE DEF n
<1>7. Owed' <= Owed - n /\ (charged[a] = Usage[a] => Owed' = Owed - n)
  BY <1>1, <1>3, <1>4, <1>5, <1>6
<1>8. Capacity \in Nat
  BY HostAssumption
<1>9. Covered' /\ allocated' = allocated - n
  BY <1>2, <1>3, <1>6, <1>7, <1>8, CoveredNext DEF Typed, Covered
<1>10. ASSUME Exact PROVE Exact'
  <2>1. Owed' = allocated'
    BY <1>2, <1>7, <1>9, <1>10 DEF Exact
  <2>2. \A b \in registered' : charged'[b] = Usage'[b]
    BY <1>1, <1>2, <1>3, <1>10 DEF Exact, Typed, Structure, TypeOK
  <2>3. \A x \in Allocs : reservedMemory'[x] \in pending' \cup registered' =>
          owner'[x] = reservedMemory'[x]
    BY <1>2, <1>10 DEF Exact
  <2> QED
    BY <2>1, <2>2, <2>3 DEF Exact
<1> QED
  BY <1>9, <1>10

\* An allocation is charged to the total what it takes beyond its reservation.
LEMMA BeginCovers ==
  ASSUME Typed, NEW x \in Allocs, NEW a \in Places, NEW m \in Sizes, BeginAllocation(x, a, m)
  PROVE  Covered' /\ (Exact => Exact')
<1> DEFINE n == AlignUp(m)
           k == UpstreamTracked(a, n)
<1>0. n \in Nat
  BY RoundedType
<1>1. /\ Usage'[a] = Usage[a] + n
      /\ \A b \in Places : b # a => Usage'[b] = Usage[b]
  BY UsageBegins DEF Typed
<1>2. /\ a \in registered \cup {NoArena}
      /\ Fits(k, Capacity) /\ allocated' = Wrap(allocated + k)
      /\ charged' = IF a = NoArena THEN charged ELSE [charged EXCEPT ![a] = @ + n]
      /\ UNCHANGED <<pending, registered, size, blocks, reservedMemory, owner>>
  BY DEF BeginAllocation, allocVars
<1>3. /\ size \in [Arenas -> Nat] /\ charged \in [Arenas -> Int] /\ Owed \in Nat /\ Owed' \in Nat
      /\ Usage[NoArena] \in Nat /\ allocated \in Nat
      /\ Usage[a] \in Nat /\ Usage'[NoArena] \in Nat /\ Capacity \in Nat /\ NoArena \notin Arenas
      /\ NoArena \in Places /\ Arenas \subseteq Places /\ registered \subseteq Arenas
  BY HostAssumption DEF Typed, Structure, TypeOK, OwedType, Places
<1> HIDE DEF n
<1>4. k \in Nat
  BY <1>0, <1>2, <1>3 DEF UpstreamTracked, Larger
<1>5. Owed' = Owed + k
  <2>1. CASE a = NoArena
    <3>1. Owed' - Usage'[NoArena] = Owed - Usage[NoArena]
      BY <1>1, <1>2, <1>3, <2>1, OwedStays DEF Typed
    <3>2. k = n
      BY <2>1 DEF UpstreamTracked
    <3> QED
      BY <1>0, <1>1, <1>3, <2>1, <3>1, <3>2
  <2>2. CASE a # NoArena
    <3>1. a \in registered /\ a \in Arenas
      BY <1>2, <1>3, <2>2
    <3>2. \A b \in Arenas : b # a => charged'[b] = charged[b] /\ Usage'[b] = Usage[b]
      BY <1>1, <1>2, <1>3
    <3>3. Owed' - Weight'[a] - Usage'[NoArena] = Owed - Weight[a] - Usage[NoArena]
      BY <1>2, <3>1, <3>2, OwedMoves DEF Typed
    <3>4. /\ Weight[a] = Worth(size[a], charged[a], Usage[a])
          /\ Weight'[a] = Worth(size[a], charged[a] + n, Usage[a] + n)
      BY <1>1, <1>2, <1>3, <3>1, <2>2 DEF Weight
    <3>5. Weight[a] \in Nat /\ Weight'[a] = Weight[a] + k
      BY <1>0, <1>3, <3>1, <3>4, <2>2 DEF Worth, UpstreamTracked, Larger
    <3>6. Usage'[NoArena] = Usage[NoArena]
      BY <1>1, <1>3, <2>2
    <3> HIDE DEF k
    <3> QED
      BY <1>3, <1>4, <3>3, <3>5, <3>6
  <2> QED
    BY <2>1, <2>2
<1> HIDE DEF k
<1>6. allocated + k <= Capacity
  BY <1>2, <1>3, <1>4 DEF Fits
<1>7. Covered' /\ allocated' = allocated + k
  BY <1>2, <1>3, <1>4, <1>5, <1>6, CoveredNext DEF Typed, Covered
<1>8. ASSUME Exact PROVE Exact'
  <2>1. Owed' = allocated'
    BY <1>5, <1>7, <1>8 DEF Exact
  <2>2. \A b \in registered' : charged'[b] = Usage'[b]
    BY <1>0, <1>1, <1>2, <1>3, <1>8 DEF Exact
  <2>3. \A y \in Allocs : reservedMemory'[y] \in pending' \cup registered' =>
          owner'[y] = reservedMemory'[y]
    BY <1>2, <1>8 DEF Exact
  <2> QED
    BY <2>1, <2>2, <2>3 DEF Exact
<1> QED
  BY <1>7, <1>8

\* Taking blocks charges nothing.
LEMMA TakeCovers ==
  ASSUME Typed, NEW S \in SUBSET free, TakeBlocks(S)
  PROVE  Covered' /\ (Exact => Exact')
<1>1. Usage' = Usage
  BY UsageTaken DEF Typed
<1>2. UNCHANGED <<allocated, pending, registered, size, charged>>
  BY DEF TakeBlocks, arenaVars
<1>3. Owed' = Owed
  BY <1>1, <1>2 DEF Owed, Weight
<1>4. \A x \in Allocs : \/ owner'[x] = reservedMemory'[x]
                        \/ owner'[x] = owner[x] /\ reservedMemory'[x] = reservedMemory[x]
  <2>1. CASE UNCHANGED allocVars
    BY <2>1 DEF allocVars
  <2>2. CASE /\ reservedMemory' = [reservedMemory EXCEPT ![taking.alloc] = taking.arena]
             /\ owner' = [owner EXCEPT ![taking.alloc] = taking.arena]
    BY <2>2 DEF Typed, Structure, TypeOK
  <2> QED
    BY <2>1, <2>2 DEF TakeBlocks
<1> QED
  BY <1>1, <1>2, <1>3, <1>4 DEF Typed, Covered, Exact

\* When the upstream resource fails the charge stays and the bytes are gone.
LEMMA ThrowCovers ==
  ASSUME Typed, ExpandPoolThrows
  PROVE  Covered'
<1>1. \A b \in Places : Usage'[b] <= Usage[b] /\ (b # taking.arena => Usage'[b] = Usage[b])
  BY UsageDropped DEF Typed
<1>2. UNCHANGED <<allocated, pending, registered, size, charged>>
  BY DEF ExpandPoolThrows, arenaVars
<1>3. /\ size \in [Arenas -> Nat] /\ charged \in [Arenas -> Int] /\ Owed \in Nat /\ Owed' \in Nat
      /\ Weight \in [Arenas -> Nat] /\ Weight' \in [Arenas -> Nat]
      /\ Usage \in [Places -> Nat] /\ Usage' \in [Places -> Nat] /\ IsFiniteSet(Arenas)
      /\ Tally(Arenas, Weight) \in Nat /\ Tally(Arenas, Weight') \in Nat
  BY HostAssumption DEF Typed, Structure, TypeOK, OwedType
<1>4. ASSUME NEW b \in Arenas PROVE Weight'[b] <= Weight[b]
  <2>1. size[b] \in Nat /\ charged[b] \in Int /\ Usage[b] \in Nat /\ Usage'[b] \in Nat
        /\ Usage'[b] <= Usage[b]
    BY <1>1, <1>3 DEF Places
  <2>2. Worth(size[b], charged[b], Usage'[b]) <= Worth(size[b], charged[b], Usage[b])
    BY <2>1 DEF Worth, Larger
  <2> QED
    BY <1>2, <2>1, <2>2 DEF Weight
<1>5. Tally(Arenas, Weight') <= Tally(Arenas, Weight)
  BY <1>3, <1>4, TallyMonotone
<1>6. Usage'[NoArena] <= Usage[NoArena] /\ Usage[NoArena] \in Nat /\ Usage'[NoArena] \in Nat
  BY <1>1, <1>3 DEF Places
<1>7. Owed' <= Owed
  BY <1>3, <1>5, <1>6 DEF Owed
<1> QED
  BY <1>2, <1>3, <1>7, HostAssumption DEF Typed, Covered, Structure, TypeOK

\* An allocation that is destroyed gives back no more than it is owed, whether
\* its arena is still there, gone, or another one with the same address.
LEMMA ReturnCovers ==
  ASSUME Typed, NEW x \in Allocs, ReturnAllocatedChunks(x)
  PROVE  Covered' /\ (Exact => Exact')
<1> DEFINE a == reservedMemory[x]
           n == Bytes(Cardinality(blocks[x]))
           k == IF a \in registered THEN Reclaimed(a, n) ELSE n
<1>1. /\ Usage'[owner[x]] = Usage[owner[x]] - n
      /\ \A b \in Places : b # owner[x] => Usage'[b] = Usage[b]
      /\ n \in Nat
  BY UsageReturned DEF Typed
<1>2. /\ allocated' = Wrap(allocated - k)
      /\ charged' = IF a \in registered THEN [charged EXCEPT ![a] = @ - n] ELSE charged
      /\ owner' = [owner EXCEPT ![x] = NoArena]
      /\ reservedMemory' = [reservedMemory EXCEPT ![x] = NoArena]
      /\ UNCHANGED <<pending, registered, size>>
  BY DEF ReturnAllocatedChunks, Bytes
<1>3. /\ size \in [Arenas -> Nat] /\ charged \in [Arenas -> Int] /\ Owed \in Nat /\ Owed' \in Nat
      /\ Usage[NoArena] \in Nat /\ allocated \in Nat
      /\ Usage'[NoArena] \in Nat /\ Capacity \in Nat /\ NoArena \notin Arenas
      /\ NoArena \in Places /\ Arenas \subseteq Places
      /\ registered \subseteq Arenas /\ pending \subseteq Arenas
      /\ owner \in [Allocs -> Places] /\ reservedMemory \in [Allocs -> Places]
      /\ Usage \in [Places -> Nat]
  BY HostAssumption DEF Typed, Structure, TypeOK, OwedType, Places
<1>4. owner[x] # NoArena => owner[x] = a /\ a \in registered
  BY DEF Typed, Structure, Owned
<1> HIDE DEF n
<1>5. k \in Nat
  BY <1>1, <1>3 DEF Reclaimed
<1>6. Owed' <= Owed - k /\ (owner[x] = a \/ a \notin registered => Owed' = Owed - k)
  <2>1. CASE a \notin registered
    <3>1. owner[x] = NoArena /\ k = n
      BY <1>4, <2>1
    <3>2. Owed' - Usage'[NoArena] = Owed - Usage[NoArena]
      BY <1>1, <1>2, <1>3, <2>1, <3>1, OwedStays DEF Typed
    <3>3. Usage'[NoArena] = Usage[NoArena] - n
      BY <1>1, <3>1
    <3> HIDE DEF k
    <3> QED
      BY <1>1, <1>3, <3>1, <3>2, <3>3
  <2>2. CASE a \in registered
    <3>1. \A b \in Arenas : b # a => charged'[b] = charged[b] /\ Usage'[b] = Usage[b]
      BY <1>1, <1>2, <1>3, <1>4, <2>2
    <3>2. Owed' - Weight'[a] - Usage'[NoArena] = Owed - Weight[a] - Usage[NoArena]
      BY <1>2, <1>3, <2>2, <3>1, OwedMoves DEF Typed
    <3>3. /\ size[a] \in Nat /\ charged[a] \in Int /\ Usage[a] \in Nat
          /\ charged'[a] = charged[a] - n
      BY <1>2, <1>3, <2>2
    <3>4. /\ Weight[a] = Worth(size[a], charged[a], Usage[a])
          /\ Weight'[a] = Worth(size[a], charged[a] - n, Usage'[a])
      BY <1>2, <1>3, <3>3, <2>2 DEF Weight
    <3>5. k = Reclaimed(a, n)
      BY <2>2
    <3>6. CASE owner[x] = a
      <4>1. Usage'[a] = Usage[a] - n /\ Usage'[NoArena] = Usage[NoArena]
        BY <1>1, <1>3, <2>2, <3>6
      <4>2. Weight[a] \in Nat /\ Weight'[a] = Weight[a] - k
        BY <1>1, <3>3, <3>4, <3>5, <4>1 DEF Worth, Reclaimed, Larger
      <4> HIDE DEF k
      <4> QED
        BY <1>3, <1>5, <3>2, <4>1, <4>2
    <3>7. CASE owner[x] # a
      <4>1. Usage'[a] = Usage[a] /\ Usage'[NoArena] = Usage[NoArena] - n
        BY <1>1, <1>3, <1>4, <2>2, <3>7
      <4>2. Weight[a] \in Nat /\ Weight'[a] \in Nat /\ Weight'[a] <= Weight[a] - k + n
        BY <1>1, <3>3, <3>4, <3>5, <4>1 DEF Worth, Reclaimed, Larger
      <4> HIDE DEF k
      <4> QED
        BY <1>1, <1>3, <1>5, <3>2, <3>7, <2>2, <4>1, <4>2
    <3> QED
      BY <3>6, <3>7
  <2> QED
    BY <2>1, <2>2
<1> HIDE DEF k
<1>7. Covered' /\ allocated' = allocated - k
  BY <1>2, <1>3, <1>5, <1>6, CoveredNext DEF Typed, Covered
<1>8. ASSUME Exact PROVE Exact'
  <2>1. owner[x] = a \/ a \notin registered
    BY <1>8 DEF Exact
  <2>2. Owed' = allocated'
    BY <1>6, <1>7, <1>8, <2>1 DEF Exact
  <2>3. \A b \in registered' : charged'[b] = Usage'[b]
    BY <1>1, <1>2, <1>3, <1>4, <1>8, <2>1 DEF Exact
  <2>4. \A y \in Allocs : reservedMemory'[y] \in pending' \cup registered' =>
          owner'[y] = reservedMemory'[y]
    BY <1>2, <1>3, <1>8 DEF Exact
  <2> QED
    BY <2>2, <2>3, <2>4 DEF Exact
<1> QED
  BY <1>7, <1>8

-----------------------------------------------------------------------------
(* The invariant.                                                          *)

HostInv == Structure /\ Covered /\ (~drifted => Exact)

\* Every step keeps the total above what is owed, and exact unless it is one
\* of the three that the code does not account for.
LEMMA HostStep == HostInv /\ [Next]_vars => HostInv'
<1> SUFFICES ASSUME HostInv, [Next]_vars PROVE HostInv'
  OBVIOUS
<1>0. Typed /\ Structure'
  BY StructureStep, OwedTyped, OwedTypedNext DEF HostInv, Typed, Structure
<1>1. ASSUME Covered', Exact => Exact', drifted' = drifted PROVE HostInv'
  BY <1>0, <1>1, Zenon DEF HostInv
<1>2. ASSUME NEW a \in Arenas, NEW n \in Nat, ChargeReservation(a, n), allocated + n <= Capacity
      PROVE  HostInv'
  <2>1. Covered' /\ (Exact /\ (\A x \in Allocs : reservedMemory[x] # a) => Exact')
    BY <1>0, <1>2, ChargeCovers
  <2>2. drifted' = (drifted \/ \E x \in Allocs : reservedMemory[x] = a)
    BY <1>2, Zenon DEF ChargeReservation
  <2> QED
    BY <1>0, <2>1, <2>2, Zenon DEF HostInv
<1>3. ASSUME NEW a \in Arenas, NEW n \in Sizes, Reserve(a, n) PROVE HostInv'
  <2>1. AlignUp(n) \in Nat
    BY RoundedType
  <2>2. allocated + AlignUp(n) <= Capacity
    BY <1>0, <1>3, <2>1, HostAssumption DEF Reserve, Fits, Typed, Structure, TypeOK
  <2> QED
    BY <1>2, <1>3, <2>1, <2>2 DEF Reserve
<1>4. ASSUME NEW a \in Arenas, NEW n \in Sizes, ReserveUpto(a, n) PROVE HostInv'
  <2>1. /\ BoundedBy(AlignUp(n), MemoryLimit) \in Nat
        /\ allocated + BoundedBy(AlignUp(n), MemoryLimit) <= Capacity
    BY <1>0, RoundedType, BoundedType DEF Typed, Structure, TypeOK, Covered
  <2> QED
    BY <1>2, <1>4, <2>1 DEF ReserveUpto
<1>5. ASSUME NEW a \in Arenas, NEW n \in Sizes, GrowReservationBy(a, n) PROVE HostInv'
  <2>1. Covered' /\ (Exact /\ ~(charged[a] > size[a]) => Exact')
    BY <1>0, <1>5, GrowCovers
  <2>2. drifted' = (drifted \/ charged[a] > size[a])
    BY <1>5, Zenon DEF GrowReservationBy
  <2> QED
    BY <1>0, <2>1, <2>2, Zenon DEF HostInv
<1>6. CASE Reservation
  <2>1. ASSUME NEW a \in Arenas, RegisterReservation(a) PROVE HostInv'
    BY <1>0, <1>1, <2>1, RegisterCovers DEF RegisterReservation
  <2>2. ASSUME NEW a \in Arenas, ShrinkReservationToFit(a) PROVE HostInv'
    BY <1>0, <1>1, <2>2, ShrinkCovers DEF ShrinkReservationToFit
  <2>3. ASSUME NEW a \in Arenas, ReleaseReservation(a) PROVE HostInv'
    BY <1>0, <1>1, <2>3, ReleaseCovers DEF ReleaseReservation
  <2> QED
    BY <1>3, <1>4, <1>5, <1>6, <2>1, <2>2, <2>3 DEF Reservation
<1>7. CASE Allocation
  <2>1. ASSUME NEW x \in Allocs, NEW a \in Arenas \cup {NoArena}, NEW n \in Sizes,
               BeginAllocation(x, a, n)
        PROVE  HostInv'
    BY <1>0, <1>1, <2>1, BeginCovers DEF BeginAllocation, Places
  <2>2. ASSUME NEW S \in SUBSET free, TakeBlocks(S) PROVE HostInv'
    BY <1>0, <1>1, <2>2, TakeCovers DEF TakeBlocks
  <2>3. CASE ExpandPool
    <3>1. Usage' = Usage
      BY <2>3, UsageSame DEF ExpandPool, allocVars
    <3>2. UNCHANGED <<allocated, pending, registered, size, charged, reservedMemory, owner>>
      BY <2>3 DEF ExpandPool, arenaVars, allocVars
    <3>3. Covered' /\ (Exact => Exact')
      BY <1>0, <3>1, <3>2 DEF Typed, Covered, Exact, Owed, Weight
    <3> QED
      BY <1>1, <2>3, <3>3 DEF ExpandPool
  <2>4. CASE ExpandPoolThrows
    <3>1. drifted' = TRUE
      BY <2>4, Zenon DEF ExpandPoolThrows
    <3>2. Covered'
      BY <1>0, <2>4, ThrowCovers
    <3> QED
      BY <1>0, <3>1, <3>2, Zenon DEF HostInv
  <2>5. ASSUME NEW x \in Allocs, ReturnAllocatedChunks(x) PROVE HostInv'
    BY <1>0, <1>1, <2>5, ReturnCovers DEF ReturnAllocatedChunks
  <2> QED
    BY <1>7, <2>1, <2>2, <2>3, <2>4, <2>5 DEF Allocation
<1>8. CASE UNCHANGED vars
  <2>1. Usage' = Usage
    BY <1>8, UsageSame DEF vars
  <2>2. Covered' /\ (Exact => Exact')
    BY <1>0, <1>8, <2>1 DEF vars, Typed, Covered, Exact, Owed, Weight
  <2> QED
    BY <1>1, <1>8, <2>2 DEF vars
<1> QED
  BY <1>6, <1>7, <1>8 DEF Next

\* Nothing is owed when the resource is made.
LEMMA HostInit == Init => HostInv
<1> SUFFICES ASSUME Init PROVE HostInv
  OBVIOUS
<1>0. Structure /\ OwedType
  BY StructureInit, OwedTyped DEF Structure
<1>1. ASSUME NEW a \in Places PROVE Usage[a] = 0
  <2>1. \A x \in Allocs : Held(a)[x] = 0
    BY BytesType, FS_EmptySet DEF Init, Held
  <2>2. Tally(Allocs, Held(a)) = 0
    BY <2>1, TallyZero
  <2>3. InHand(a) = 0
    BY BytesType, FS_EmptySet DEF Init, InHand, Idle
  <2> QED
    BY <2>2, <2>3 DEF Usage
<1>2. \A a \in Arenas : Weight[a] = 0
  BY DEF Weight, Init
<1>3. Tally(Arenas, Weight) = 0
  BY <1>2, TallyZero
<1>4. Owed = 0
  BY <1>1, <1>3 DEF Owed, Places
<1>5. Covered /\ Exact
  BY <1>4, HostAssumption DEF Init, Covered, Exact
<1> QED
  BY <1>0, <1>5, Zenon DEF HostInv

-----------------------------------------------------------------------------
(* The sums of the properties are these.                                   *)

Waiting == [a \in Arenas |-> IF a \in pending THEN size[a] ELSE 0]

Larged == [a \in Arenas |-> IF a \in registered THEN Larger(size[a], charged[a]) ELSE 0]

\* The bytes of the allocations that are charged to an arena.
LEMMA HeldSum ==
  ASSUME NEW a
  PROVE  SumOver({x \in Allocs : owner[x] = a}, LAMBDA x : Cardinality(blocks[x]) * BlockSize)
           = Tally(Allocs, Held(a))
<1> DEFINE w == Held(a)
           S == {y \in Allocs : owner[y] = a}
<1>1. \A x \in Allocs : \A k : k \in 1..w[x] <=> x \in S /\ k \in 1..(Cardinality(blocks[x]) * BlockSize)
  BY DEF Held, Bytes
<1>2. S \subseteq Allocs
  OBVIOUS
<1> HIDE DEF S, w
<1>3. Units(Allocs, w) = UNION {{x} \X (1..(Cardinality(blocks[x]) * BlockSize)) : x \in S}
  BY <1>1, <1>2, UnitsMember
<1> QED
  BY <1>3 DEF SumOver, Tally, w, S

\* Used adds them up with the blocks in hand.
LEMMA UsedIsUsage == \A a \in Places : Used(a) = Usage[a]
  BY HeldSum DEF Used, Usage, InHand, Bytes

\* What is accounted for is owed, and it is all that is owed where the charges
\* of the arenas are right.
LEMMA AccountedIsOwed ==
  ASSUME TypeOK, Owned
  PROVE  /\ Accounted \in Nat /\ Accounted <= Owed
         /\ (\A a \in registered : charged[a] = Usage[a]) => Accounted = Owed
<1>0. OwedType /\ IsFiniteSet(Arenas)
  BY OwedTyped, HostAssumption
<1>1. ASSUME NEW w, w = Waiting
      PROVE  Cardinality(UNION {{x} \X (1..size[x]) : x \in pending}) = Tally(Arenas, w)
  <2>1. \A x \in Arenas : \A k : k \in 1..w[x] <=> x \in pending /\ k \in 1..size[x]
    BY <1>1 DEF Waiting
  <2>2. pending \subseteq Arenas
    BY DEF TypeOK
  <2>3. Units(Arenas, w) = UNION {{x} \X (1..size[x]) : x \in pending}
    BY <2>1, <2>2, UnitsMember
  <2> QED
    BY <2>3 DEF Tally
<1>2. ASSUME NEW w, w = Larged
      PROVE  Cardinality(UNION {{x} \X (1..Larger(size[x], charged[x])) : x \in registered})
               = Tally(Arenas, w)
  <2>1. \A x \in Arenas : \A k :
          k \in 1..w[x] <=> x \in registered /\ k \in 1..Larger(size[x], charged[x])
    BY <1>2 DEF Larged
  <2>2. registered \subseteq Arenas
    BY DEF TypeOK
  <2>3. Units(Arenas, w) = UNION {{x} \X (1..Larger(size[x], charged[x])) : x \in registered}
    BY <2>1, <2>2, UnitsMember
  <2> QED
    BY <2>3 DEF Tally
<1>3. /\ SumOver(pending, LAMBDA a : size[a]) = Tally(Arenas, Waiting)
      /\ SumOver(registered, LAMBDA a : Larger(size[a], charged[a])) = Tally(Arenas, Larged)
  BY <1>1, <1>2 DEF SumOver
<1>4. Waiting \in [Arenas -> Nat] /\ Larged \in [Arenas -> Nat]
  BY DEF TypeOK, Waiting, Larged, Larger
<1> DEFINE z == [a \in Arenas |-> Waiting[a] + Larged[a]]
<1>5. z \in [Arenas -> Nat] /\ \A a \in Arenas : z[a] = Waiting[a] + Larged[a]
  BY <1>4
<1>6. \A a \in Arenas : Waiting[a] = 0 \/ Larged[a] = 0
  BY DEF Waiting, Larged, Owned
<1>7. ASSUME NEW a \in Arenas
      PROVE  z[a] <= Weight[a] /\ ((a \in registered => charged[a] = Usage[a]) => z[a] = Weight[a])
  <2>1. size[a] \in Nat /\ charged[a] \in Int /\ Usage[a] \in Nat
    BY <1>0 DEF TypeOK, OwedType, Places
  <2>2. a \in registered => a \notin pending
    BY DEF Owned
  <2> QED
    BY <2>1, <2>2 DEF Waiting, Larged, Weight, Worth, Larger
<1> HIDE DEF z
<1>8. Tally(Arenas, z) = Tally(Arenas, Waiting) + Tally(Arenas, Larged)
  BY <1>0, <1>4, <1>5, <1>6, TallyPlus
<1>9. Tally(Arenas, z) <= Tally(Arenas, Weight)
  BY <1>0, <1>5, <1>7, TallyMonotone DEF OwedType
<1>10. ASSUME \A a \in registered : charged[a] = Usage[a]
       PROVE  Tally(Arenas, z) = Tally(Arenas, Weight)
  <2>1. \A a \in Arenas : z[a] = Weight[a]
    BY <1>7, <1>10
  <2> QED
    BY <2>1, TallySame
<1>11. Accounted = Tally(Arenas, Waiting) + Tally(Arenas, Larged)
                     + Tally(Allocs, Held(NoArena)) + InHand(NoArena)
  BY <1>3, HeldSum DEF Accounted, InHand, Bytes
<1>12. Usage[NoArena] = Tally(Allocs, Held(NoArena)) + InHand(NoArena)
  BY DEF Usage, Places
<1>13. /\ Tally(Allocs, Held(NoArena)) \in Nat /\ InHand(NoArena) \in Nat
       /\ Tally(Arenas, Waiting) \in Nat /\ Tally(Arenas, Larged) \in Nat
       /\ Tally(Arenas, z) \in Nat /\ Tally(Arenas, Weight) \in Nat
  BY <1>0, <1>4, <1>5, UsageTyped, TallyType DEF OwedType, UsageType
<1>14. Accounted = Tally(Arenas, z) + Usage[NoArena] /\ Usage[NoArena] \in Nat
  BY <1>8, <1>11, <1>12, <1>13
<1> QED
  BY <1>9, <1>10, <1>13, <1>14 DEF Owed

\* The invariant of the resource.
THEOREM HostInvariant == Spec => []HostInv
  BY HostInit, HostStep, PTL DEF Spec

\* _allocated_bytes covers everything that is reserved or allocated and stays
\* within the capacity, in every state: also after an upstream failure, a grown
\* overrun or the reuse of an arena's address.
THEOREM TotalCovers == Spec => []NeverUndercounted
<1>1. HostInv => NeverUndercounted
  <2> SUFFICES ASSUME HostInv PROVE NeverUndercounted
    OBVIOUS
  <2>1. TypeOK /\ Owned /\ Covered
    BY DEF HostInv, Structure
  <2>2. Accounted \in Nat /\ Accounted <= Owed
    BY <2>1, AccountedIsOwed
  <2>3. Owed \in Nat /\ allocated \in Nat
    BY <2>1, OwedTyped DEF OwedType, TypeOK
  <2> QED
    BY <2>1, <2>2, <2>3, HostAssumption DEF NeverUndercounted, Covered
<1> QED
  BY <1>1, HostInvariant, PTL

\* Until one of the three, _allocated_bytes and the trackers are exact.
THEOREM TotalIsExact == Spec => []ExactUntilDrift
<1>1. HostInv => ExactUntilDrift
  <2> SUFFICES ASSUME HostInv, ~drifted
               PROVE  allocated = Accounted /\ \A a \in registered : charged[a] = Used(a)
    BY Zenon DEF ExactUntilDrift
  <2>1. TypeOK /\ Owned /\ Exact
    BY Zenon DEF HostInv, Structure
  <2>2. Accounted = Owed
    BY <2>1, AccountedIsOwed DEF Exact
  <2>3. \A a \in registered : Used(a) = Usage[a]
    BY <2>1, UsedIsUsage DEF TypeOK, Places
  <2> QED
    BY <2>1, <2>2, <2>3 DEF Exact
<1> QED
  BY <1>1, HostInvariant, PTL

=============================================================================
