------------------------- MODULE ReservationAdaptor -------------------------
(***************************************************************************)
(* reservation_aware_resource_adaptor, the GPU allocator of the library    *)
(* (src/memory/reservation_aware_resource_adaptor.cpp), with the policies  *)
(* of src/memory/memory_reservation.cpp: reservations ("arenas") charge a  *)
(* total in advance, and allocations on the stream an arena is attached to *)
(* draw on it before they charge the total themselves.                     *)
(*                                                                         *)
(* The counters are lock-free, so an allocation or a deallocation is one   *)
(* step per atomic operation: the arena's counter, the policy, the total,  *)
(* the upstream resource.  What a client does to a reservation it alone    *)
(* owns is one step.  With AllocationTrackingScope::PER_THREAD the key of  *)
(* the tracker is the thread, otherwise the stream: "Streams" is either.   *)
(* A call that throws before any counter moved is no step.  The out of     *)
(* memory policy is the default one, which rethrows.  Peak counters and    *)
(* the release notifier are left out.                                      *)
(***************************************************************************)
EXTENDS Integers, FiniteSets, Sums

CONSTANTS
  Streams, Arenas, Ptrs, Threads,
  NoArena,
  Sizes,        \* bytes that clients ask for
  MemoryLimit,  \* _memory_limit: what reservations may bring the total to
  Capacity,     \* _capacity: what allocations may bring the total to
  SizeMod,      \* 2^64 in the code: where a size_t wraps
  Align,        \* CUDA_ALLOCATION_ALIGNMENT (256)
  Policies,     \* the reservation_limit_policy kinds that clients attach
  PadQuarters   \* padding factor of the increase policy, in quarters

ASSUME AdaptorAssumption ==
  /\ NoArena \notin Arenas
  /\ IsFiniteSet(Arenas) /\ IsFiniteSet(Ptrs) /\ IsFiniteSet(Threads)
  /\ Sizes \subseteq Nat \ {0}
  /\ MemoryLimit \in Nat /\ Capacity \in Nat /\ SizeMod \in Nat
  /\ MemoryLimit <= Capacity /\ Capacity < SizeMod
  /\ Align \in Nat \ {0}
  /\ Policies \subseteq {"ignore", "fail", "increase"}
  /\ PadQuarters \in Nat

VARIABLES
  total,     \* _total_allocated_bytes
  reserved,  \* _total_reserved_bytes
  active,    \* _number_of_allocations
  arenas,    \* the device_reserved_arena objects that exist
  size,      \* _size of an arena
  alloc,     \* allocated_bytes of an arena (signed)
  tracker,   \* the arena attached to a stream, or NoArena
  policy,    \* reservation_policy of a stream
  bytes,     \* size of a live allocation, 0 for none
  call,      \* the allocation or deallocation a thread is in
  owner,     \* history: the live arena an allocation was charged to
  strayed    \* history: the live arenas that a stray free has touched

vars == <<total, reserved, active, arenas, size, alloc, tracker, policy, bytes, call,
          owner, strayed>>
totals == <<total, reserved, active>>
arenaVars == <<arenas, size, alloc>>
streamVars == <<tracker, policy>>
ptrVars == <<bytes, owner, strayed>>

\* limit: the reservation_size a call beyond it has read; current: the bytes
\* charged to the arena at that moment; track: what the call adds to the total,
\* or is going to subtract from it.
Call ==
  [at : {"idle", "policy", "charge", "total", "upstream", "undo", "free"},
   arena : Arenas \cup {NoArena}, bytes : Nat, limit : Nat, current : Int, track : Nat]

CallAt(where, a, n, lim, cur, m) ==
  [at |-> where, arena |-> a, bytes |-> n, limit |-> lim, current |-> cur, track |-> m]

NoCall == CallAt("idle", NoArena, 0, 0, 0, 0)

Init ==
  /\ total = 0 /\ reserved = 0 /\ active = 0
  /\ arenas = {}
  /\ size = [a \in Arenas |-> 0]
  /\ alloc = [a \in Arenas |-> 0]
  /\ tracker = [s \in Streams |-> NoArena]
  /\ policy = [s \in Streams |-> "ignore"]
  /\ bytes = [p \in Ptrs |-> 0]
  /\ call = [t \in Threads |-> NoCall]
  /\ owner = [p \in Ptrs |-> NoArena]
  /\ strayed = {}

-----------------------------------------------------------------------------
Larger(m, n) == IF m > n THEN m ELSE n
Smaller(m, n) == IF m < n THEN m ELSE n

\* size_t arithmetic.
Wrap(n) == n % SizeMod

AlignUp(n) == ((n + Align - 1) \div Align) * Align

\* The condition under which try_add(n, bound) on the total succeeds.
Fits(n, bound) == total <= bound /\ n <= bound - total

\* What add_bounded(n, bound) adds to the total.
BoundedBy_NoCheck(n, bound) == Smaller(n, bound - total)

BoundedBy(n, bound) == IF total < bound THEN Smaller(n, bound - total) ELSE 0

Loose(a) == a \in arenas /\ \A s \in Streams : tracker[s] # a

At(t, where) == call[t].at = where

\* Threads that are still going to touch the arena.
Using(a) == {t \in Threads : call[t].arena = a}

-----------------------------------------------------------------------------
(* Reservations.                                                           *)

\* A new arena of n bytes.
NewArena(a, n) ==
  /\ a \notin arenas
  /\ total' = Wrap(total + n)
  /\ reserved' = Wrap(reserved + n)
  /\ active' = Wrap(active + 1)
  /\ arenas' = arenas \cup {a}
  /\ size' = [size EXCEPT ![a] = n]
  /\ UNCHANGED <<alloc, streamVars, ptrVars, call>>

Reserve(a, n) == Fits(n, MemoryLimit) /\ NewArena(a, n)

\* May make an arena of 0 bytes.
ReserveUpto(a, n) == NewArena(a, BoundedBy(n, MemoryLimit))

GrowReservationBy(a, n) ==
  /\ Loose(a)
  /\ Fits(n, MemoryLimit)
  /\ total' = Wrap(total + n)
  /\ reserved' = Wrap(reserved + n)
  /\ size' = [size EXCEPT ![a] = @ + n]
  /\ UNCHANGED <<active, arenas, alloc, streamVars, ptrVars, call>>

\* The reserved counter is not lowered.
ShrinkReservationToFit(a) ==
  /\ Loose(a)
  /\ Larger(0, alloc[a]) < size[a]
  /\ size' = [size EXCEPT ![a] = Larger(0, alloc[a])]
  /\ total' = Wrap(total - (size[a] - Larger(0, alloc[a])))
  /\ UNCHANGED <<reserved, active, arenas, alloc, streamVars, ptrVars, call>>

\* The part of an arena that its destructor gives back to the total.  What is
\* still allocated from it stays charged, from now on to no arena.
ReleasedBytes_All(a) == size[a]

ReleasedBytes(a) == IF size[a] > alloc[a] THEN size[a] - Larger(0, alloc[a]) ELSE 0

DoReleaseReservation(a) ==
  /\ total' = Wrap(total - ReleasedBytes(a))
  /\ reserved' = Wrap(reserved - Larger(0, size[a]))
  /\ active' = Wrap(active - 1)
  /\ arenas' = arenas \ {a}
  /\ size' = [size EXCEPT ![a] = 0]
  /\ alloc' = [alloc EXCEPT ![a] = 0]
  /\ owner' = [p \in Ptrs |-> IF owner[p] = a THEN NoArena ELSE owner[p]]
  /\ strayed' = strayed \ {a}
  /\ UNCHANGED <<bytes, call>>

\* The destructor of a reservation that was not attached.
DropReservation(a) ==
  /\ Loose(a)
  /\ DoReleaseReservation(a)
  /\ UNCHANGED streamVars

\* A stream that already has a reservation keeps it: the call returns false
\* (or throws, when it loses a race), and the reservation it was given dies.
AttachReservationToTracker(s, a, p) ==
  /\ Loose(a)
  /\ \/ /\ tracker[s] = NoArena
        /\ tracker' = [tracker EXCEPT ![s] = a]
        /\ policy' = [policy EXCEPT ![s] = p]
        /\ UNCHANGED <<totals, arenaVars, ptrVars, call>>
     \/ /\ tracker[s] # NoArena
        /\ DoReleaseReservation(a)
        /\ UNCHANGED streamVars

\* The tracker state is destroyed: clients must not let an allocation on the
\* stream race with this (calls hold a plain pointer to it).
ResetStreamReservation(s) ==
  /\ tracker[s] # NoArena
  /\ Using(tracker[s]) = {}
  /\ tracker' = [tracker EXCEPT ![s] = NoArena]
  /\ UNCHANGED policy
  /\ DoReleaseReservation(tracker[s])

-----------------------------------------------------------------------------
(* Allocation.                                                             *)

\* What an allocation of n bytes that brings an arena of size lim to "post"
\* has to take from the total.
UpstreamTracking(post, n, lim) ==
  IF post < lim THEN 0 ELSE IF post - n < lim THEN post - lim ELSE n

\* do_allocate: untracked, within the reservation, or beyond it.
AllocateUntracked(t, s, n) ==
  /\ At(t, "idle")
  /\ tracker[s] = NoArena
  /\ call' = [call EXCEPT ![t] = CallAt("total", NoArena, n, 0, 0, AlignUp(n))]
  /\ UNCHANGED <<totals, arenaVars, streamVars, ptrVars>>

AllocateWithin(t, s, n) ==
  LET a == tracker[s]
      post == alloc[a] + AlignUp(n)
  IN  /\ At(t, "idle")
      /\ a # NoArena
      /\ post <= size[a]
      /\ alloc' = [alloc EXCEPT ![a] = post]
      /\ call' = [call EXCEPT ![t] =
                    CallAt("total", a, n, 0, 0, UpstreamTracking(post, AlignUp(n), size[a]))]
      /\ UNCHANGED <<totals, arenas, size, streamVars, ptrVars>>

\* The fail policy throws at once; the others go on.
AllocateBeyond_NoPolicy(t, s, n) ==
  LET a == tracker[s]
  IN  /\ At(t, "idle")
      /\ a # NoArena
      /\ alloc[a] + AlignUp(n) > size[a]
      /\ call' = [call EXCEPT ![t] = CallAt("charge", a, n, size[a], alloc[a], 0)]
      /\ UNCHANGED <<totals, arenaVars, streamVars, ptrVars>>

AllocateBeyond(t, s, n) ==
  LET a == tracker[s]
  IN  /\ At(t, "idle")
      /\ a # NoArena
      /\ alloc[a] + AlignUp(n) > size[a]
      /\ policy[s] # "fail"
      /\ call' = [call EXCEPT ![t] =
                    CallAt(IF policy[s] = "increase" THEN "policy" ELSE "charge",
                           a, n, size[a], alloc[a], 0)]
      /\ UNCHANGED <<totals, arenaVars, streamVars, ptrVars>>

\* The increase policy, under the stream's _arbitration_mutex: grow by the
\* padded amount, else by what is needed, else throw.
HandleOverReservation(t) ==
  LET c == call[t]
      extra == Wrap(c.current + AlignUp(c.bytes) - size[c.arena])
      padded == (extra * PadQuarters) \div 4
      Grow(n) == /\ total' = Wrap(total + n)
                 /\ reserved' = Wrap(reserved + n)
                 /\ size' = [size EXCEPT ![c.arena] = @ + n]
                 /\ call' = [call EXCEPT ![t].at = "charge"]
  IN  /\ At(t, "policy")
      /\ \/ Fits(padded, MemoryLimit) /\ Grow(padded)
         \/ ~Fits(padded, MemoryLimit) /\ Fits(extra, MemoryLimit) /\ Grow(extra)
         \/ /\ ~Fits(padded, MemoryLimit) /\ ~Fits(extra, MemoryLimit)
            /\ call' = [call EXCEPT ![t] = NoCall]
            /\ UNCHANGED <<total, reserved, size>>
      /\ UNCHANGED <<active, arenas, alloc, streamVars, ptrVars>>

\* The allocation is charged to the arena all the same; the split uses the
\* reservation_size read before the policy ran.
ChargeBeyond(t) ==
  LET c == call[t]
      post == alloc[c.arena] + AlignUp(c.bytes)
  IN  /\ At(t, "charge")
      /\ alloc' = [alloc EXCEPT ![c.arena] = post]
      /\ call' = [call EXCEPT ![t] =
                    CallAt("total", c.arena, c.bytes, 0, 0,
                           UpstreamTracking(post, AlignUp(c.bytes), c.limit))]
      /\ UNCHANGED <<totals, arenas, size, streamVars, ptrVars>>

\* do_allocate_unmanaged.
ChargeTotal_Unbounded(t) ==
  /\ At(t, "total")
  /\ total' = Wrap(total + call[t].track)
  /\ call' = [call EXCEPT ![t].at = "upstream"]
  /\ UNCHANGED <<reserved, active, arenaVars, streamVars, ptrVars>>

ChargeTotal(t) ==
  /\ At(t, "total")
  /\ \/ /\ Fits(call[t].track, Capacity)
        /\ total' = Wrap(total + call[t].track)
        /\ call' = [call EXCEPT ![t].at = "upstream"]
     \/ /\ ~Fits(call[t].track, Capacity)
        /\ call' = [call EXCEPT ![t].at = "undo"]
        /\ UNCHANGED total
  /\ UNCHANGED <<reserved, active, arenaVars, streamVars, ptrVars>>

UpstreamAllocates(t, p) ==
  /\ At(t, "upstream")
  /\ bytes[p] = 0
  /\ bytes' = [bytes EXCEPT ![p] = call[t].bytes]
  /\ owner' = [owner EXCEPT ![p] = call[t].arena]
  /\ call' = [call EXCEPT ![t] = NoCall]
  /\ UNCHANGED <<totals, arenaVars, streamVars, strayed>>

UpstreamThrows(t) ==
  /\ At(t, "upstream")
  /\ total' = Wrap(total - call[t].track)
  /\ call' = [call EXCEPT ![t].at = "undo"]
  /\ UNCHANGED <<reserved, active, arenaVars, streamVars, ptrVars>>

\* Out of memory: a tracked allocation takes its charge off the arena.
UndoCharge_Forget(t) ==
  /\ At(t, "undo")
  /\ call' = [call EXCEPT ![t] = NoCall]
  /\ UNCHANGED <<totals, arenaVars, streamVars, ptrVars>>

UndoCharge(t) ==
  LET c == call[t]
  IN  /\ At(t, "undo")
      /\ alloc' = IF c.arena = NoArena THEN alloc
                  ELSE [alloc EXCEPT ![c.arena] = @ - AlignUp(c.bytes)]
      /\ call' = [call EXCEPT ![t] = NoCall]
      /\ UNCHANGED <<totals, arenas, size, streamVars, ptrVars>>

-----------------------------------------------------------------------------
(* Deallocation.                                                           *)

\* What freeing n bytes, which brings an arena of size lim to "post", gives
\* back to the total.
ReclaimedBytes_Whole(post, n, lim) == n

ReclaimedBytes(post, n, lim) ==
  IF post + n <= lim THEN 0 ELSE IF post < lim THEN lim - post ELSE n

\* do_deallocate looks up the reservation that the stream it is called with has
\* now.  A free is stray when that is not where the memory was charged: freed on
\* another stream, or allocated before the stream got its reservation.
Deallocate(t, p, s) ==
  LET a == tracker[s]
      n == AlignUp(bytes[p])
  IN  /\ At(t, "idle")
      /\ bytes[p] # 0
      /\ alloc' = IF a = NoArena THEN alloc ELSE [alloc EXCEPT ![a] = @ - n]
      /\ call' = [call EXCEPT ![t] =
                    CallAt("free", NoArena, 0, 0, 0,
                           IF a = NoArena THEN n ELSE ReclaimedBytes(alloc[a] - n, n, size[a]))]
      /\ bytes' = [bytes EXCEPT ![p] = 0]
      /\ owner' = [owner EXCEPT ![p] = NoArena]
      /\ strayed' = IF a = owner[p] THEN strayed ELSE strayed \cup ({a, owner[p]} \ {NoArena})
      /\ UNCHANGED <<totals, arenas, size, streamVars>>

DischargeTotal(t) ==
  /\ At(t, "free")
  /\ total' = Wrap(total - call[t].track)
  /\ call' = [call EXCEPT ![t] = NoCall]
  /\ UNCHANGED <<reserved, active, arenaVars, streamVars, ptrVars>>

-----------------------------------------------------------------------------
Reservation ==
  \E a \in Arenas :
    \/ \E n \in Sizes : Reserve(a, n) \/ ReserveUpto(a, n) \/ GrowReservationBy(a, n)
    \/ ShrinkReservationToFit(a)
    \/ DropReservation(a)
    \/ \E s \in Streams, p \in Policies : AttachReservationToTracker(s, a, p)

Allocation(t) ==
  \/ \E s \in Streams, n \in Sizes :
       AllocateUntracked(t, s, n) \/ AllocateWithin(t, s, n) \/ AllocateBeyond(t, s, n)
  \/ HandleOverReservation(t) \/ ChargeBeyond(t) \/ ChargeTotal(t)
  \/ \E p \in Ptrs : UpstreamAllocates(t, p)
  \/ UpstreamThrows(t) \/ UndoCharge(t)

Deallocation(t) ==
  \/ \E p \in Ptrs, s \in Streams : Deallocate(t, p, s)
  \/ DischargeTotal(t)

Next ==
  \/ Reservation
  \/ \E s \in Streams : ResetStreamReservation(s)
  \/ \E t \in Threads : Allocation(t) \/ Deallocation(t)

Spec == Init /\ [][Next]_vars

-----------------------------------------------------------------------------
(* Properties.                                                             *)

ChargedTo(a) ==
  SumOver({p \in Ptrs : owner[p] = a}, LAMBDA p : AlignUp(bytes[p]))
    + SumOver({t \in Threads : call[t].arena = a /\ call[t].at \in {"total", "upstream", "undo"}},
              LAMBDA t : AlignUp(call[t].bytes))

\* Types.  The sizes of reservations and what a call adds to the total or
\* takes from it are never negative (they are converted to size_t).
TypeOK ==
  /\ total \in 0..(SizeMod - 1) /\ reserved \in 0..(SizeMod - 1)
  /\ active \in 0..(SizeMod - 1)
  /\ arenas \subseteq Arenas
  /\ size \in [Arenas -> Nat]
  /\ alloc \in [Arenas -> Int]
  /\ tracker \in [Streams -> Arenas \cup {NoArena}]
  /\ policy \in [Streams -> {"ignore", "fail", "increase"}]
  /\ bytes \in [Ptrs -> Nat]
  /\ call \in [Threads -> Call]
  /\ owner \in [Ptrs -> Arenas \cup {NoArena}]
  /\ strayed \subseteq Arenas

\* get_allocated_bytes(stream) is the memory allocated from the reservation,
\* whatever policy it has and however calls interleave, failed ones included,
\* as long as no free strayed from it or to it: stray frees between other
\* streams never show in its counter, and a new reservation is not affected by
\* the frees of an earlier one.
ArenaExact == \A a \in arenas \ strayed : alloc[a] = ChargedTo(a)

\* A reservation is honoured: an arena under the fail policy never holds more
\* than was reserved for it.
WithinReservation ==
  \A s \in Streams : tracker[s] # NoArena /\ policy[s] = "fail" =>
    alloc[tracker[s]] <= size[tracker[s]]

=============================================================================
