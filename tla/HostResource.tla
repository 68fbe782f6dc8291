---------------------------- MODULE HostResource ----------------------------
(***************************************************************************)
(* fixed_size_host_memory_resource, the pinned host memory of a NUMA node  *)
(* (src/memory/fixed_size_host_memory_resource.cpp): a pool of blocks of   *)
(* one size, reservations ("arenas"), and allocations of several blocks,   *)
(* with or without a reservation.                                          *)
(*                                                                         *)
(* Everything but the charge of a new reservation runs under _mutex.  An   *)
(* operation is one step, with two exceptions: an allocation, which calls  *)
(* the upstream resource while it holds the mutex ("taking"), and a new    *)
(* reservation, which is charged before it is registered ("pending").      *)
(* A call that fails before anything changed, or that has undone its       *)
(* changes under the mutex, is no step.                                    *)
(*                                                                         *)
(* An arena is identified by its address: once destroyed, a later one may  *)
(* have the same.  Peak counters and notifiers are left out.               *)
(***************************************************************************)
EXTENDS Integers, FiniteSets, Sums

CONSTANTS
  Arenas,        \* addresses of chunked_reserved_area objects
  Allocs,        \* multiple_blocks_allocation objects
  NoArena, NoAlloc,
  Sizes,         \* bytes that clients ask for
  MemoryLimit,   \* _memory_limit: what reservations may bring the total to
  Capacity,      \* _memory_capacity: what allocations may bring the total to
  BlockSize,     \* _block_size
  PoolSize,      \* _pool_size: blocks of one upstream allocation
  InitialPools,
  MaxPools,      \* bound on the upstream allocations that succeed
  SizeMod        \* 2^64 in the code: where a size_t wraps

ASSUME HostAssumption ==
  /\ NoArena \notin Arenas /\ NoAlloc \notin Allocs
  /\ IsFiniteSet(Arenas) /\ IsFiniteSet(Allocs)
  /\ Sizes \subseteq Nat \ {0}
  /\ MemoryLimit \in Nat /\ Capacity \in Nat /\ SizeMod \in Nat
  /\ MemoryLimit <= Capacity /\ Capacity < SizeMod
  /\ BlockSize \in Nat \ {0} /\ PoolSize \in Nat \ {0}
  /\ InitialPools \in Nat /\ MaxPools \in Nat /\ InitialPools <= MaxPools

VARIABLES
  allocated,   \* _allocated_bytes
  pools,       \* number of entries of _allocated_blocks
  free,        \* _free_blocks
  pending,     \* arenas that are charged and not yet registered
  registered,  \* the keys of _active_reservations
  size,        \* _size of an arena
  charged,     \* allocated_bytes of its tracker
  blocks,      \* _blocks of an allocation, {} when it does not exist
  reservedMemory, \* its _reseved_memory: an address, never cleared
  owner,       \* history: the live arena an allocation was charged to
  taking,      \* the allocation that holds the mutex
  drifted      \* history: something has happened that the code does not account for

vars == <<allocated, pools, free, pending, registered, size, charged, blocks,
          reservedMemory, owner, taking, drifted>>
poolVars == <<pools, free>>
arenaVars == <<pending, registered, size, charged>>
allocVars == <<blocks, reservedMemory, owner>>

\* Blocks are numbered in the order in which expand_pool makes them.
AllBlocks == 1..(pools * PoolSize)

Idle == [alloc |-> NoAlloc, arena |-> NoArena, want |-> 0, got |-> {}]

Init ==
  /\ allocated = 0
  /\ pools = InitialPools
  /\ free = 1..(InitialPools * PoolSize)
  /\ pending = {} /\ registered = {}
  /\ size = [a \in Arenas |-> 0]
  /\ charged = [a \in Arenas |-> 0]
  /\ blocks = [x \in Allocs |-> {}]
  /\ reservedMemory = [x \in Allocs |-> NoArena]
  /\ owner = [x \in Allocs |-> NoArena]
  /\ taking = Idle
  /\ drifted = FALSE

-----------------------------------------------------------------------------
Larger(m, n) == IF m > n THEN m ELSE n
Smaller(m, n) == IF m < n THEN m ELSE n

Wrap(n) == n % SizeMod

BlocksFor(n) == (n + BlockSize - 1) \div BlockSize

AlignUp(n) == BlocksFor(n) * BlockSize

\* The condition of try_add(n, bound), and the amount that add_bounded adds.
Fits(n, bound) == allocated <= bound /\ n <= bound - allocated

BoundedBy(n, bound) == IF allocated < bound THEN Smaller(n, bound - allocated) ELSE 0

MutexFree == taking = Idle

-----------------------------------------------------------------------------
(* Reservations.                                                           *)

\* The charge of reserve and reserve_upto; the arena exists from here on.
ChargeReservation(a, n) ==
  /\ a \notin pending \cup registered
  /\ allocated' = Wrap(allocated + n)
  /\ pending' = pending \cup {a}
  /\ size' = [size EXCEPT ![a] = n]
  /\ drifted' = (drifted \/ \E x \in Allocs : reservedMemory[x] = a)
  /\ UNCHANGED <<poolVars, registered, charged, allocVars, taking>>

Reserve(a, n) == Fits(AlignUp(n), MemoryLimit) /\ ChargeReservation(a, AlignUp(n))

\* What is left below the limit need not be a multiple of the block size.
ReserveUpto(a, n) == ChargeReservation(a, BoundedBy(AlignUp(n), MemoryLimit))

RegisterReservation(a) ==
  /\ MutexFree
  /\ a \in pending
  /\ pending' = pending \ {a}
  /\ registered' = registered \cup {a}
  /\ charged' = [charged EXCEPT ![a] = 0]
  /\ UNCHANGED <<allocated, poolVars, size, allocVars, taking, drifted>>

GrowReservationBy(a, n) ==
  /\ MutexFree
  /\ a \in registered
  /\ Fits(AlignUp(n), MemoryLimit)
  /\ allocated' = Wrap(allocated + AlignUp(n))
  /\ size' = [size EXCEPT ![a] = @ + AlignUp(n)]
  /\ drifted' = (drifted \/ charged[a] > size[a])
  /\ UNCHANGED <<poolVars, pending, registered, charged, allocVars, taking>>

ShrinkReservationToFit(a) ==
  /\ MutexFree
  /\ a \in registered
  /\ Larger(0, charged[a]) < size[a]
  /\ size' = [size EXCEPT ![a] = Larger(0, charged[a])]
  /\ allocated' = Wrap(allocated - (size[a] - Larger(0, charged[a])))
  /\ UNCHANGED <<poolVars, pending, registered, charged, allocVars, taking, drifted>>

\* The destructor of an arena.  What is allocated from it stays charged, from
\* now on to no arena.
UnusedBytes(a) ==
  IF size[a] > Larger(0, charged[a]) THEN size[a] - Larger(0, charged[a]) ELSE 0

ReleaseReservation(a) ==
  /\ MutexFree
  /\ a \in registered
  /\ allocated' = Wrap(allocated - UnusedBytes(a))
  /\ registered' = registered \ {a}
  /\ size' = [size EXCEPT ![a] = 0]
  /\ charged' = [charged EXCEPT ![a] = 0]
  /\ owner' = [x \in Allocs |-> IF owner[x] = a THEN NoArena ELSE owner[x]]
  /\ UNCHANGED <<poolVars, pending, blocks, reservedMemory, taking, drifted>>

-----------------------------------------------------------------------------
(* Allocations.                                                            *)

\* What n bytes more in the arena take from the total.
UpstreamTracked_Unsplit(a, n) ==
  IF a = NoArena \/ charged[a] >= size[a] THEN n ELSE 0

UpstreamTracked(a, n) ==
  IF a = NoArena \/ charged[a] >= size[a] THEN n
  ELSE Larger(0, charged[a] + n - size[a])

\* allocate_multiple_blocks takes the mutex and charges the arena and the
\* total; without room in the total it undoes the first and returns nullptr.
BeginAllocation(x, a, n) ==
  /\ MutexFree
  /\ blocks[x] = {}
  /\ a \in registered \cup {NoArena}
  /\ Fits(UpstreamTracked(a, AlignUp(n)), Capacity)
  /\ allocated' = Wrap(allocated + UpstreamTracked(a, AlignUp(n)))
  /\ charged' = IF a = NoArena THEN charged ELSE [charged EXCEPT ![a] = @ + AlignUp(n)]
  /\ taking' = [alloc |-> x, arena |-> a, want |-> BlocksFor(n), got |-> {}]
  /\ UNCHANGED <<poolVars, pending, registered, size, allocVars, drifted>>

\* Blocks are taken off the free list, as many as there are; with all of them
\* the allocation is made and the mutex released.
TakeBlocks_Shared(S) ==
  /\ S \subseteq free /\ S # {}
  /\ Cardinality(S) = Smaller(taking.want, Cardinality(free))
  /\ taking.want > 0
  /\ \/ /\ Cardinality(S) < taking.want
        /\ taking' = [taking EXCEPT !.want = @ - Cardinality(S), !.got = @ \cup S]
        /\ free' = free \ S
        /\ UNCHANGED allocVars
     \/ /\ Cardinality(S) = taking.want
        /\ blocks' = [blocks EXCEPT ![taking.alloc] = taking.got \cup S]
        /\ reservedMemory' = [reservedMemory EXCEPT ![taking.alloc] = taking.arena]
        /\ owner' = [owner EXCEPT ![taking.alloc] = taking.arena]
        /\ taking' = Idle
        /\ UNCHANGED free
  /\ UNCHANGED <<allocated, pools, arenaVars, drifted>>

TakeBlocks(S) ==
  /\ S \subseteq free /\ S # {}
  /\ Cardinality(S) = Smaller(taking.want, Cardinality(free))
  /\ taking.want > 0
  /\ free' = free \ S
  /\ \/ /\ Cardinality(S) < taking.want
        /\ taking' = [taking EXCEPT !.want = @ - Cardinality(S), !.got = @ \cup S]
        /\ UNCHANGED allocVars
     \/ /\ Cardinality(S) = taking.want
        /\ blocks' = [blocks EXCEPT ![taking.alloc] = taking.got \cup S]
        /\ reservedMemory' = [reservedMemory EXCEPT ![taking.alloc] = taking.arena]
        /\ owner' = [owner EXCEPT ![taking.alloc] = taking.arena]
        /\ taking' = Idle
  /\ UNCHANGED <<allocated, pools, arenaVars, drifted>>

\* With a pool size above 0 the free list is not empty afterwards, and the
\* clean-up that follows in the code is never reached.
ExpandPool ==
  /\ taking.want > 0
  /\ free = {}
  /\ pools < MaxPools
  /\ pools' = pools + 1
  /\ free' = (pools * PoolSize + 1)..((pools + 1) * PoolSize)
  /\ UNCHANGED <<allocated, arenaVars, allocVars, taking, drifted>>

\* The exception of the upstream resource leaves allocate_multiple_blocks: the
\* charges stay, and the blocks taken so far belong to nobody.
ExpandPoolThrows ==
  /\ taking.want > 0
  /\ free = {}
  /\ taking' = Idle
  /\ drifted' = TRUE
  /\ UNCHANGED <<allocated, poolVars, arenaVars, allocVars>>

\* What n bytes less in the arena give back to the total.
Reclaimed_Inner(a, n) ==
  IF charged[a] <= size[a] THEN 0
  ELSE IF charged[a] - n < size[a] THEN size[a] - (charged[a] - n) ELSE n

Reclaimed(a, n) ==
  IF charged[a] <= size[a] THEN 0
  ELSE IF charged[a] - n < size[a] THEN charged[a] - size[a] ELSE n

\* The destructor of an allocation: the arena is looked up by its address.  The
\* blocks are not put back on the free list.
ReturnAllocatedChunks(x) ==
  LET a == reservedMemory[x]
      n == Cardinality(blocks[x]) * BlockSize
  IN  /\ MutexFree
      /\ blocks[x] # {}
      /\ allocated' = Wrap(allocated - (IF a \in registered THEN Reclaimed(a, n) ELSE n))
      /\ charged' = IF a \in registered THEN [charged EXCEPT ![a] = @ - n] ELSE charged
      /\ blocks' = [blocks EXCEPT ![x] = {}]
      /\ reservedMemory' = [reservedMemory EXCEPT ![x] = NoArena]
      /\ owner' = [owner EXCEPT ![x] = NoArena]
      /\ UNCHANGED <<poolVars, pending, registered, size, taking, drifted>>

-----------------------------------------------------------------------------
Reservation ==
  \E a \in Arenas :
    \/ \E n \in Sizes : Reserve(a, n) \/ ReserveUpto(a, n) \/ GrowReservationBy(a, n)
    \/ RegisterReservation(a) \/ ShrinkReservationToFit(a) \/ ReleaseReservation(a)

Allocation ==
  \/ \E x \in Allocs, a \in Arenas \cup {NoArena}, n \in Sizes : BeginAllocation(x, a, n)
  \/ \E S \in SUBSET free : TakeBlocks(S)
  \/ ExpandPool
  \/ ExpandPoolThrows
  \/ \E x \in Allocs : ReturnAllocatedChunks(x)

Next == Reservation \/ Allocation

Spec == Init /\ [][Next]_vars

-----------------------------------------------------------------------------
(* Properties.                                                             *)

\* Types.
TypeOK ==
  /\ allocated \in 0..(SizeMod - 1)
  /\ pools \in Nat
  /\ free \in SUBSET AllBlocks
  /\ pending \in SUBSET Arenas /\ registered \in SUBSET Arenas
  /\ size \in [Arenas -> Nat]
  /\ charged \in [Arenas -> Int]
  /\ blocks \in [Allocs -> SUBSET AllBlocks]
  /\ reservedMemory \in [Allocs -> Arenas \cup {NoArena}]
  /\ owner \in [Allocs -> Arenas \cup {NoArena}]
  /\ taking \in [alloc : Allocs \cup {NoAlloc}, arena : Arenas \cup {NoArena},
                 want : Nat, got : SUBSET AllBlocks]

\* No block is handed out twice: not to two allocations, not to one that is
\* being made, and not while it is on the free list.
BlocksDisjoint ==
  /\ \A x, y \in Allocs : x # y => blocks[x] \cap blocks[y] = {}
  /\ \A x \in Allocs : blocks[x] \cap free = {} /\ blocks[x] \cap taking.got = {}
  /\ free \cap taking.got = {}

\* What should be charged to the total: every arena with the larger of its
\* size and the bytes allocated from it, and the bytes of no arena.
Accounted ==
  SumOver(pending, LAMBDA a : size[a])
    + SumOver(registered, LAMBDA a : Larger(size[a], charged[a]))
    + SumOver({x \in Allocs : owner[x] = NoArena},
              LAMBDA x : Cardinality(blocks[x]) * BlockSize)
    + (IF taking.arena = NoArena THEN (taking.want + Cardinality(taking.got)) * BlockSize ELSE 0)

\* The total never falls short of what is reserved and allocated, and never
\* exceeds the capacity: however allocations overrun, outlive or lose their
\* reservation, the resource does not promise memory twice.
NeverUndercounted == Accounted <= allocated /\ allocated <= Capacity

\* The bytes that are really allocated from an arena.
Used(a) ==
  SumOver({x \in Allocs : owner[x] = a}, LAMBDA x : Cardinality(blocks[x]) * BlockSize)
    + (IF taking.arena = a THEN (taking.want + Cardinality(taking.got)) * BlockSize ELSE 0)

\* The total and the trackers are exact, through overruns, releases of arenas
\* in use, shrinking and interleaved charges, until one of three things
\* happens: the upstream resource fails in the middle of an allocation, a
\* reservation that is overrun grows, or a new arena gets the address of one
\* that an allocation still refers to.
ExactUntilDrift ==
  ~drifted => allocated = Accounted /\ \A a \in registered : charged[a] = Used(a)

\* fixed_size_host_memory_resource.hpp, lines 280 and 281: the wrapper
\* "automatically deallocates all blocks when it goes out of scope, preventing
\* memory leaks".  Every block of the pool is free or belongs to somebody, as
\* long as the upstream resource has not failed.
BlocksConserved ==
  ~drifted => AllBlocks = free \cup taking.got \cup UNION {blocks[x] : x \in Allocs}

=============================================================================
