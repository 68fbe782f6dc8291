---------------------- MODULE ReservationAdaptorProofs ----------------------
(***************************************************************************)
(* Proofs about ReservationAdaptor: type correctness, that the fail policy *)
(* keeps a stream within its reservation, that the counters of arenas are  *)
(* exact, and that the total covers what is allocated and promised, for    *)
(* every number of streams, arenas, threads and allocations, for every     *)
(* mixture of policies, and wherever memory is freed.                      *)
(***************************************************************************)
EXTENDS AdaptorDrift, SumTheorems, TLAPS

-----------------------------------------------------------------------------
(* The arithmetic of the model.                                            *)

\* size_t arithmetic stays within a size_t.
LEMMA WrapType == ASSUME NEW n \in Int PROVE Wrap(n) \in 0..(SizeMod - 1)
  BY AdaptorAssumption DEF Wrap

\* rmm::align_up rounds a byte count to a byte count.
LEMMA AlignUpType == ASSUME NEW n \in Nat PROVE AlignUp(n) \in Nat
<1> DEFINE q == (n + Align - 1) \div Align
<1>1. Align \in Nat /\ Align > 0
  BY AdaptorAssumption
<1>2. q \in Nat
  BY <1>1
<1>3. \A k \in Nat : k * Align \in Nat
  BY <1>1
<1> HIDE DEF q
<1>4. q * Align \in Nat
  BY <1>2, <1>3
<1> QED
  BY <1>4 DEF AlignUp, q

\* What the increase policy asks for is a byte count.
LEMMA PaddedType == ASSUME NEW n \in Nat PROVE (n * PadQuarters) \div 4 \in Nat
<1>1. n * PadQuarters \in Nat
  BY AdaptorAssumption
<1> DEFINE m == n * PadQuarters
<1>2. m \in Nat
  BY <1>1
<1> HIDE DEF m
<1>3. m \div 4 \in Nat
  BY <1>2
<1> QED
  BY <1>3 DEF m

\* The split of an allocation between arena and total never goes negative.
LEMMA UpstreamTrackingType ==
  ASSUME NEW post \in Int, NEW n \in Nat, NEW lim \in Nat
  PROVE  UpstreamTracking(post, n, lim) \in Nat
  BY DEF UpstreamTracking

\* Nor does the split of a deallocation.
LEMMA ReclaimedBytesType ==
  ASSUME NEW post \in Int, NEW n \in Nat, NEW lim \in Nat
  PROVE  ReclaimedBytes(post, n, lim) \in Nat
  BY DEF ReclaimedBytes

-----------------------------------------------------------------------------
(* Type correctness.                                                       *)

\* The record of a call has its type when its fields do.
LEMMA CallType ==
  /\ NoCall \in Call
  /\ \A w \in {"idle", "policy", "charge", "total", "upstream", "undo", "free"},
        a \in Arenas \cup {NoArena}, n, lim, m \in Nat, k \in Int :
       CallAt(w, a, n, lim, k, m) \in Call
  BY DEF NoCall, Call, CallAt

\* A call beyond the reservation has an arena.
BeyondHasArena ==
  \A t \in Threads : call[t].at \in {"policy", "charge"} => call[t].arena \in Arenas

\* Every step preserves the types.
LEMMA TypeStep == TypeOK /\ BeyondHasArena /\ [Next]_vars => TypeOK'
<1> SUFFICES ASSUME TypeOK, BeyondHasArena, [Next]_vars PROVE TypeOK'
  OBVIOUS
<1> USE DEF TypeOK
<1>0. /\ SizeMod \in Nat /\ SizeMod > 0 /\ MemoryLimit \in Nat /\ Capacity \in Nat
      /\ Sizes \subseteq Nat /\ Policies \subseteq {"ignore", "fail", "increase"}
      /\ NoArena \notin Arenas
  BY AdaptorAssumption
<1>1. ASSUME NEW a \in Arenas, NEW n \in Nat, NewArena(a, n) PROVE TypeOK'
  BY <1>0, <1>1, WrapType DEF NewArena, streamVars, ptrVars
<1>2. ASSUME NEW a \in Arenas, NEW n \in Sizes, Reserve(a, n) PROVE TypeOK'
  BY <1>0, <1>1, <1>2 DEF Reserve
<1>3. ASSUME NEW a \in Arenas, NEW n \in Sizes, ReserveUpto(a, n) PROVE TypeOK'
  <2>1. BoundedBy(n, MemoryLimit) \in Nat
    BY <1>0 DEF BoundedBy, Smaller
  <2> QED
    BY <2>1, <1>1, <1>3 DEF ReserveUpto
<1>4. ASSUME NEW a \in Arenas, NEW n \in Sizes, GrowReservationBy(a, n) PROVE TypeOK'
  BY <1>0, <1>4, WrapType DEF GrowReservationBy, streamVars, ptrVars
<1>5. ASSUME NEW a \in Arenas, ShrinkReservationToFit(a) PROVE TypeOK'
  <2>1. Larger(0, alloc[a]) \in Nat
    BY DEF Larger
  <2> QED
    BY <2>1, <1>0, <1>5, WrapType DEF ShrinkReservationToFit, streamVars, ptrVars
<1>6. ASSUME NEW a \in Arenas, DoReleaseReservation(a)
      PROVE  /\ total' \in 0..(SizeMod - 1) /\ reserved' \in 0..(SizeMod - 1)
             /\ active' \in 0..(SizeMod - 1)
             /\ arenas' \subseteq Arenas
             /\ size' \in [Arenas -> Nat]
             /\ alloc' \in [Arenas -> Int]
             /\ owner' \in [Ptrs -> Arenas \cup {NoArena}]
             /\ strayed' \subseteq Arenas
             /\ bytes' = bytes /\ call' = call
  <2>1. Larger(0, alloc[a]) \in Nat /\ Larger(0, size[a]) \in Nat
    BY DEF Larger
  <2>2. ReleasedBytes(a) \in Int
    BY <2>1 DEF ReleasedBytes
  <2> QED
    BY <2>1, <2>2, <1>0, <1>6, WrapType DEF DoReleaseReservation
<1>7. ASSUME NEW a \in Arenas, DropReservation(a) PROVE TypeOK'
  BY <1>6, <1>7 DEF DropReservation, streamVars
<1>8. ASSUME NEW s \in Streams, NEW a \in Arenas, NEW p \in Policies,
             AttachReservationToTracker(s, a, p)
      PROVE  TypeOK'
  <2>1. CASE tracker[s] = NoArena
    BY <2>1, <1>0, <1>8 DEF AttachReservationToTracker, totals, arenaVars, ptrVars
  <2>2. CASE tracker[s] # NoArena
    BY <2>2, <1>6, <1>8 DEF AttachReservationToTracker, streamVars
  <2> QED
    BY <2>1, <2>2
<1>9. ASSUME NEW s \in Streams, ResetStreamReservation(s) PROVE TypeOK'
  <2> DEFINE a == tracker[s]
  <2>1. a \in Arenas /\ DoReleaseReservation(a)
    BY <1>9 DEF ResetStreamReservation
  <2> QED
    BY <2>1, <1>6, <1>9 DEF ResetStreamReservation
<1>a. \A n \in Sizes : n \in Nat /\ AlignUp(n) \in Nat
  BY <1>0, AlignUpType
<1>b. ASSUME NEW t \in Threads PROVE AlignUp(call[t].bytes) \in Nat
  BY AlignUpType DEF Call
<1>10. ASSUME NEW t \in Threads, NEW s \in Streams, NEW n \in Sizes,
              AllocateUntracked(t, s, n)
       PROVE  TypeOK'
  <2>1. CallAt("total", NoArena, n, 0, 0, AlignUp(n)) \in Call
    BY <1>a DEF CallAt, Call
  <2> QED
    BY <2>1, <1>10 DEF AllocateUntracked, totals, arenaVars, streamVars, ptrVars
<1>11. ASSUME NEW t \in Threads, NEW s \in Streams, NEW n \in Sizes,
              AllocateWithin(t, s, n)
       PROVE  TypeOK'
  <2> DEFINE a == tracker[s]
             post == alloc[a] + AlignUp(n)
  <2>1. a \in Arenas /\ post \in Int
    BY <1>a, <1>11 DEF AllocateWithin
  <2>2. UpstreamTracking(post, AlignUp(n), size[a]) \in Nat
    BY <2>1, <1>a, UpstreamTrackingType
  <2> QED
    BY <2>1, <2>2, <1>a, <1>11, CallType DEF AllocateWithin, totals, streamVars, ptrVars
<1>12. ASSUME NEW t \in Threads, NEW s \in Streams, NEW n \in Sizes,
              AllocateBeyond(t, s, n)
       PROVE  TypeOK'
  BY <1>a, <1>12, CallType DEF AllocateBeyond, totals, arenaVars, streamVars, ptrVars
<1>13. ASSUME NEW t \in Threads, HandleOverReservation(t) PROVE TypeOK'
  <2> DEFINE c == call[t]
             extra == Wrap(c.current + AlignUp(c.bytes) - size[c.arena])
             padded == (extra * PadQuarters) \div 4
             Grow(n) == /\ total' = Wrap(total + n)
                        /\ reserved' = Wrap(reserved + n)
                        /\ size' = [size EXCEPT ![c.arena] = @ + n]
                        /\ call' = [call EXCEPT ![t].at = "charge"]
  <2>1. c.arena \in Arenas
    BY <1>13 DEF HandleOverReservation, At, BeyondHasArena
  <2>2. extra \in Nat
    BY <2>1, <1>b, <1>0, WrapType DEF Call
  <2> HIDE DEF extra
  <2>3. padded \in Nat
    BY <2>2, PaddedType
  <2>4. /\ UNCHANGED <<active, arenas, alloc, streamVars, ptrVars>>
        /\ \/ Grow(padded)
           \/ Grow(extra)
           \/ call' = [call EXCEPT ![t] = NoCall] /\ UNCHANGED <<total, reserved, size>>
    BY <1>13 DEF HandleOverReservation, extra
  <2> HIDE DEF padded
  <2>5. CASE call' = [call EXCEPT ![t] = NoCall] /\ UNCHANGED <<total, reserved, size>>
    BY <2>4, <2>5, CallType DEF streamVars, ptrVars
  <2>6. ASSUME NEW n \in Nat, Grow(n) PROVE TypeOK'
    BY <2>1, <2>4, <2>6, <1>0, WrapType DEF streamVars, ptrVars, Call
  <2> QED
    BY <2>2, <2>3, <2>4, <2>5, <2>6
<1>14. ASSUME NEW t \in Threads, ChargeBeyond(t) PROVE TypeOK'
  <2> DEFINE c == call[t]
             post == alloc[c.arena] + AlignUp(c.bytes)
  <2>1. c.arena \in Arenas
    BY <1>14 DEF ChargeBeyond, At, BeyondHasArena
  <2>2. post \in Int /\ c.limit \in Nat
    BY <2>1, <1>b DEF Call
  <2>3. UpstreamTracking(post, AlignUp(c.bytes), c.limit) \in Nat
    BY <2>2, <1>b, UpstreamTrackingType
  <2>4. /\ alloc' \in [Arenas -> Int]
        /\ UNCHANGED <<totals, arenas, size, streamVars, ptrVars>>
    BY <2>1, <2>2, <1>14 DEF ChargeBeyond
  <2>5. call' \in [Threads -> Call]
    <3> DEFINE m == UpstreamTracking(post, AlignUp(c.bytes), c.limit)
    <3>1. call' = [call EXCEPT ![t] = CallAt("total", c.arena, c.bytes, 0, 0, m)]
      BY <1>14 DEF ChargeBeyond
    <3>2. m \in Nat /\ c.arena \in Arenas /\ c.bytes \in Nat
      BY <2>1, <2>3 DEF Call
    <3> HIDE DEF m
    <3>3. CallAt("total", c.arena, c.bytes, 0, 0, m) \in Call
      BY <3>2 DEF CallAt, Call
    <3> QED
      BY <3>1, <3>3
  <2> QED
    BY <2>4, <2>5 DEF totals, streamVars, ptrVars
<1>15. ASSUME NEW t \in Threads, ChargeTotal(t) PROVE TypeOK'
  <2>1. call[t].track \in Nat
    BY DEF Call
  <2> QED
    BY <2>1, <1>0, <1>15, WrapType DEF ChargeTotal, Call, arenaVars, streamVars, ptrVars
<1>16. ASSUME NEW t \in Threads, NEW p \in Ptrs, UpstreamAllocates(t, p) PROVE TypeOK'
  <2>1. call[t].bytes \in Nat /\ call[t].arena \in Arenas \cup {NoArena}
    BY DEF Call
  <2> QED
    BY <2>1, <1>16, CallType DEF UpstreamAllocates, totals, arenaVars, streamVars
<1>17. ASSUME NEW t \in Threads, UpstreamThrows(t) PROVE TypeOK'
  <2>1. call[t].track \in Nat
    BY DEF Call
  <2> QED
    BY <2>1, <1>0, <1>17, WrapType DEF UpstreamThrows, Call, arenaVars, streamVars, ptrVars
<1>18. ASSUME NEW t \in Threads, UndoCharge(t) PROVE TypeOK'
  <2>1. AlignUp(call[t].bytes) \in Nat /\ call[t].arena \in Arenas \cup {NoArena}
    BY <1>b DEF Call
  <2> QED
    BY <2>1, <1>18, CallType DEF UndoCharge, totals, streamVars, ptrVars
<1>19. ASSUME NEW t \in Threads, NEW p \in Ptrs, NEW s \in Streams, Deallocate(t, p, s)
       PROVE  TypeOK'
  <2> DEFINE a == tracker[s]
             n == AlignUp(bytes[p])
             m == IF a = NoArena THEN n ELSE ReclaimedBytes(alloc[a] - n, n, size[a])
  <2>1. n \in Nat
    BY AlignUpType
  <2>2. m \in Nat
    <3> HIDE DEF n
    <3>1. CASE a = NoArena
      BY <3>1, <2>1
    <3>2. CASE a \in Arenas
      <4>1. alloc[a] - n \in Int /\ size[a] \in Nat
        BY <3>2, <2>1
      <4>2. ReclaimedBytes(alloc[a] - n, n, size[a]) \in Nat
        BY <4>1, <2>1, ReclaimedBytesType
      <4> QED
        BY <4>2, <2>1
    <3> QED
      BY <3>1, <3>2
  <2>4. call' = [call EXCEPT ![t] = CallAt("free", NoArena, 0, 0, 0, m)]
    BY <1>19 DEF Deallocate
  <2> HIDE DEF m
  <2>3. CallAt("free", NoArena, 0, 0, 0, m) \in Call
    BY <2>2 DEF CallAt, Call
  <2>5. strayed' \subseteq Arenas
    BY <1>19 DEF Deallocate
  <2> QED
    BY <2>1, <2>3, <2>4, <2>5, <1>19 DEF Deallocate, totals, streamVars
<1>20. ASSUME NEW t \in Threads, DischargeTotal(t) PROVE TypeOK'
  <2>1. call[t].track \in Nat
    BY DEF Call
  <2>2. total' \in 0..(SizeMod - 1)
    BY <2>1, <1>0, <1>20, WrapType DEF DischargeTotal
  <2>3. call' \in [Threads -> Call]
    BY <1>20, CallType DEF DischargeTotal
  <2> QED
    BY <2>1, <2>2, <2>3, <1>20 DEF DischargeTotal, arenaVars, streamVars, ptrVars
<1>21. CASE UNCHANGED vars
  BY <1>21 DEF vars
<1> QED
  BY <1>2, <1>3, <1>4, <1>5, <1>7, <1>8, <1>9, <1>10, <1>11, <1>12, <1>13, <1>14, <1>15,
     <1>16, <1>17, <1>18, <1>19, <1>20, <1>21
  DEF Next, Reservation, Allocation, Deallocation

-----------------------------------------------------------------------------
(* The fail policy.  WithinReservation is not inductive by itself: the     *)
(* proof needs to know that an arena belongs to one stream, that arenas    *)
(* nobody has attached are empty, and that a call that goes beyond its     *)
(* reservation belongs to a stream with another policy.                    *)

\* An attached arena exists and is attached to one stream.
Placed ==
  /\ \A s \in Streams : tracker[s] # NoArena => tracker[s] \in arenas
  /\ \A s, r \in Streams : tracker[s] = tracker[r] /\ tracker[s] # NoArena => s = r

\* Nothing is charged to an arena that is not attached.
LooseEmpty == \A a \in Arenas : (\A s \in Streams : tracker[s] # a) => alloc[a] = 0

\* The arena of a call is attached as long as the call needs it.
CallsPlaced ==
  \A t \in Threads : call[t].arena # NoArena => \E s \in Streams : tracker[s] = call[t].arena

\* Only streams with a lenient policy have calls beyond their reservation.
BeyondAllowed ==
  \A t \in Threads : call[t].at \in {"policy", "charge"} =>
    \E s \in Streams : /\ call[t].arena \in Arenas
                        /\ tracker[s] = call[t].arena
                        /\ policy[s] # "fail"

AdaptorInv ==
  /\ TypeOK
  /\ Placed
  /\ LooseEmpty
  /\ CallsPlaced
  /\ BeyondAllowed
  /\ WithinReservation

\* Every step preserves the invariant.
LEMMA AdaptorStep == AdaptorInv /\ [Next]_vars => AdaptorInv'
<1> SUFFICES ASSUME AdaptorInv, [Next]_vars PROVE AdaptorInv'
  OBVIOUS
<1> DEFINE Rest == Placed /\ LooseEmpty /\ CallsPlaced /\ BeyondAllowed /\ WithinReservation
<1>0. TypeOK /\ Rest
  BY DEF AdaptorInv
<1>t. TypeOK'
  BY <1>0, TypeStep DEF BeyondAllowed, BeyondHasArena
<1>n. NoArena \notin Arenas
  BY AdaptorAssumption
<1>a. \A n \in Sizes : n \in Nat /\ AlignUp(n) \in Nat
  BY AdaptorAssumption, AlignUpType
<1>b. ASSUME NEW t \in Threads
      PROVE  /\ AlignUp(call[t].bytes) \in Nat
             /\ call[t].arena \in Arenas \cup {NoArena}
  BY <1>0, AlignUpType DEF Call, TypeOK
<1> USE DEF TypeOK, Placed, LooseEmpty, CallsPlaced, BeyondAllowed, WithinReservation
<1>1. ASSUME NEW a \in Arenas, NEW n \in Nat, NewArena(a, n) PROVE Rest'
  BY <1>0, <1>1, <1>n DEF NewArena, streamVars, ptrVars
<1>2. ASSUME NEW a \in Arenas, NEW n \in Sizes, Reserve(a, n) PROVE Rest'
  BY <1>1, <1>2, <1>a DEF Reserve
<1>3. ASSUME NEW a \in Arenas, NEW n \in Sizes, ReserveUpto(a, n) PROVE Rest'
  <2>1. BoundedBy(n, MemoryLimit) \in Nat
    BY <1>0, <1>a, AdaptorAssumption DEF BoundedBy, Smaller
  <2> QED
    BY <2>1, <1>1, <1>3 DEF ReserveUpto
<1>4. ASSUME NEW a \in Arenas, NEW n \in Sizes, GrowReservationBy(a, n) PROVE Rest'
  BY <1>0, <1>4, <1>n DEF GrowReservationBy, Loose, streamVars, ptrVars
<1>5. ASSUME NEW a \in Arenas, ShrinkReservationToFit(a) PROVE Rest'
  BY <1>0, <1>5, <1>n DEF ShrinkReservationToFit, Loose, streamVars, ptrVars
<1>6. ASSUME NEW a \in Arenas, Loose(a), DoReleaseReservation(a), UNCHANGED streamVars PROVE Rest'
  BY <1>0, <1>6, <1>n DEF DoReleaseReservation, Loose, streamVars
<1>7. ASSUME NEW a \in Arenas, DropReservation(a) PROVE Rest'
  BY <1>6, <1>7 DEF DropReservation
<1>8. ASSUME NEW s \in Streams, NEW a \in Arenas, NEW p \in Policies,
             AttachReservationToTracker(s, a, p)
      PROVE  Rest'
  <2>1. CASE tracker[s] = NoArena
    BY <2>1, <1>0, <1>8, <1>n
    DEF AttachReservationToTracker, Loose, totals, arenaVars, ptrVars
  <2>2. CASE tracker[s] # NoArena
    BY <2>2, <1>6, <1>8 DEF AttachReservationToTracker
  <2> QED
    BY <2>1, <2>2
<1>9. ASSUME NEW s \in Streams, ResetStreamReservation(s) PROVE Rest'
  BY <1>0, <1>9, <1>n DEF ResetStreamReservation, DoReleaseReservation, Using
<1>10. ASSUME NEW t \in Threads, NEW s \in Streams, NEW n \in Sizes, AllocateUntracked(t, s, n)
       PROVE  Rest'
  BY <1>0, <1>10, <1>n DEF AllocateUntracked, CallAt, totals, arenaVars, streamVars, ptrVars
<1>11. ASSUME NEW t \in Threads, NEW s \in Streams, NEW n \in Sizes, AllocateWithin(t, s, n)
       PROVE  Rest'
  BY <1>0, <1>11, <1>n, <1>a DEF AllocateWithin, CallAt, totals, streamVars, ptrVars
<1>12. ASSUME NEW t \in Threads, NEW s \in Streams, NEW n \in Sizes, AllocateBeyond(t, s, n)
       PROVE  Rest'
  BY <1>0, <1>12, <1>n DEF AllocateBeyond, CallAt, totals, arenaVars, streamVars, ptrVars
<1>13. ASSUME NEW t \in Threads, HandleOverReservation(t) PROVE Rest'
  <2> DEFINE a == call[t].arena
             extra == Wrap(call[t].current + AlignUp(call[t].bytes) - size[a])
             padded == (extra * PadQuarters) \div 4
  <2>1. /\ a \in Arenas
        /\ \E s \in Streams : tracker[s] = a /\ policy[s] # "fail"
    BY <1>0, <1>13 DEF HandleOverReservation, At
  <2>2. /\ UNCHANGED <<arenas, alloc, tracker, policy>>
        /\ \/ size' = size /\ call' = [call EXCEPT ![t] = NoCall]
           \/ /\ \E n \in {padded, extra} : size' = [size EXCEPT ![a] = @ + n]
              /\ call' = [call EXCEPT ![t].at = "charge"]
    BY <1>13 DEF HandleOverReservation, streamVars
  <2> HIDE DEF padded, extra
  <2>3. CASE size' = size /\ call' = [call EXCEPT ![t] = NoCall]
    BY <2>2, <2>3, <1>0, <1>n DEF NoCall, CallAt
  <2>4. CASE /\ \E n \in {padded, extra} : size' = [size EXCEPT ![a] = @ + n]
             /\ call' = [call EXCEPT ![t].at = "charge"]
    <3>1. \A b \in Arenas : b # a => size'[b] = size[b]
      BY <2>4, <1>0
    <3>2. /\ \A u \in Threads : call'[u].arena = call[u].arena
          /\ \A u \in Threads : u # t => call'[u].at = call[u].at
      BY <2>4, <1>0 DEF Call
    <3> QED
      BY <3>1, <3>2, <2>1, <2>2, <1>0, <1>n
  <2> QED
    BY <2>2, <2>3, <2>4
<1>14. ASSUME NEW t \in Threads, ChargeBeyond(t) PROVE Rest'
  BY <1>0, <1>14, <1>n, <1>b DEF ChargeBeyond, At, CallAt, totals, streamVars, ptrVars
<1>c. ASSUME NEW t \in Threads, NEW where \in {"upstream", "undo"},
             call' = [call EXCEPT ![t].at = where],
             UNCHANGED <<arenaVars, streamVars>>
      PROVE  Rest'
  <2>1. UNCHANGED <<arenas, size, alloc, tracker, policy>>
    BY <1>c DEF arenaVars, streamVars
  <2>2. \A u \in Threads : /\ call'[u].arena = call[u].arena
                           /\ call'[u].at = call[u].at \/ call'[u].at \in {"upstream", "undo"}
    BY <1>c, <1>0 DEF Call
  <2>3. Placed' /\ LooseEmpty' /\ WithinReservation'
    BY <2>1, <1>0
  <2>4. CallsPlaced' /\ BeyondAllowed'
    BY <2>1, <2>2, <1>0
  <2> QED
    BY <2>3, <2>4
<1>15. ASSUME NEW t \in Threads, ChargeTotal(t) PROVE Rest'
  <2>1. \E where \in {"upstream", "undo"} : call' = [call EXCEPT ![t].at = where]
    BY <1>15 DEF ChargeTotal
  <2> QED
    BY <2>1, <1>c, <1>15 DEF ChargeTotal
<1>16. ASSUME NEW t \in Threads, NEW p \in Ptrs, UpstreamAllocates(t, p) PROVE Rest'
  BY <1>0, <1>16, <1>n DEF UpstreamAllocates, NoCall, CallAt, totals, arenaVars, streamVars
<1>17. ASSUME NEW t \in Threads, UpstreamThrows(t) PROVE Rest'
  <2>1. call' = [call EXCEPT ![t].at = "undo"]
    BY <1>17 DEF UpstreamThrows
  <2> QED
    BY <2>1, <1>c, <1>17 DEF UpstreamThrows
<1>18. ASSUME NEW t \in Threads, UndoCharge(t) PROVE Rest'
  BY <1>0, <1>18, <1>n, <1>b DEF UndoCharge, NoCall, CallAt, totals, streamVars, ptrVars
<1>19. ASSUME NEW t \in Threads, NEW p \in Ptrs, NEW s \in Streams, Deallocate(t, p, s)
       PROVE  Rest'
  <2> DEFINE a == tracker[s]
             n == AlignUp(bytes[p])
             m == IF a = NoArena THEN n ELSE ReclaimedBytes(alloc[a] - n, n, size[a])
  <2>1. n \in Nat
    BY <1>0, AlignUpType
  <2>2. /\ call' = [call EXCEPT ![t] = CallAt("free", NoArena, 0, 0, 0, m)]
        /\ alloc' = IF a = NoArena THEN alloc ELSE [alloc EXCEPT ![a] = @ - n]
        /\ UNCHANGED <<arenas, size, tracker, policy>>
    BY <1>19 DEF Deallocate, streamVars
  <2> HIDE DEF m, n
  <2> QED
    BY <2>1, <2>2, <1>0, <1>n DEF CallAt
<1>20. ASSUME NEW t \in Threads, DischargeTotal(t) PROVE Rest'
  BY <1>0, <1>20, <1>n DEF DischargeTotal, NoCall, CallAt, arenaVars, streamVars, ptrVars
<1> HIDE DEF Rest, TypeOK, Placed, LooseEmpty, CallsPlaced, BeyondAllowed, WithinReservation
<1>21. ASSUME UNCHANGED vars PROVE Rest'
  <2>1. UNCHANGED <<arenas, size, alloc, tracker, policy, call>>
    BY <1>21 DEF vars
  <2>2. Placed' /\ LooseEmpty'
    BY <2>1, <1>0 DEF Rest, Placed, LooseEmpty
  <2>3. CallsPlaced' /\ BeyondAllowed'
    BY <2>1, <1>0 DEF Rest, CallsPlaced, BeyondAllowed
  <2>4. WithinReservation'
    BY <2>1, <1>0 DEF Rest, WithinReservation
  <2> QED
    BY <2>2, <2>3, <2>4 DEF Rest
<1>22. Rest'
  <2>1. CASE Reservation
    BY <2>1, <1>2, <1>3, <1>4, <1>5, <1>7, <1>8 DEF Reservation
  <2>2. ASSUME NEW t \in Threads, Allocation(t) PROVE Rest'
    BY <2>2, <1>10, <1>11, <1>12, <1>13, <1>14, <1>15, <1>16, <1>17, <1>18 DEF Allocation
  <2>3. ASSUME NEW t \in Threads, Deallocation(t) PROVE Rest'
    BY <2>3, <1>19, <1>20 DEF Deallocation
  <2> QED
    BY <2>1, <2>2, <2>3, <1>9, <1>21 DEF Next
<1> QED
  BY <1>t, <1>22 DEF AdaptorInv, Rest

\* The initial state: there are no arenas, streams with a reservation or calls.
LEMMA AdaptorInitial == Init => AdaptorInv
  BY AdaptorAssumption, CallType
  DEF Init, AdaptorInv, TypeOK, Placed, LooseEmpty, CallsPlaced, BeyondAllowed,
      WithinReservation, NoCall, CallAt

\* The inductive invariant of the adaptor.
THEOREM AdaptorInvariant == Spec => []AdaptorInv
<1>1. AdaptorInv /\ [Next]_vars => AdaptorInv'
  BY AdaptorStep
<1> QED
  BY AdaptorInitial, <1>1, PTL DEF Spec

\* Every state of the adaptor is well typed: in particular a reservation
\* never has a negative size and no call takes a negative amount off the
\* total, both of which the code converts to size_t.
THEOREM TypeCorrect == Spec => []TypeOK
<1>1. AdaptorInv => TypeOK
  BY DEF AdaptorInv
<1> QED
  BY <1>1, AdaptorInvariant, PTL

\* A stream under the fail policy never has more memory than its reservation,
\* whatever other streams and threads do and whatever fails on the way.
THEOREM FailPolicyHolds == Spec => []WithinReservation
<1>1. AdaptorInv => WithinReservation
  BY DEF AdaptorInv
<1> QED
  BY <1>1, AdaptorInvariant, PTL
-----------------------------------------------------------------------------
(* The sums behind the counters, as weights on pointers, threads and       *)
(* arenas.                                                                 *)

\* What the live allocations of an arena (or of none) weigh.
Held(a) == [p \in Ptrs |-> IF owner[p] = a THEN AlignUp(bytes[p]) ELSE 0]

\* What the calls that have charged an arena and not finished weigh.
Coming(a) ==
  [t \in Threads |-> IF call[t].arena = a /\ call[t].at \in {"total", "upstream", "undo"}
                     THEN AlignUp(call[t].bytes) ELSE 0]

\* The room of the arenas.
Room == [a \in Arenas |-> IF a \in arenas THEN Unused(a) ELSE 0]

\* What the live allocations weigh, wherever they were charged.
Live == [p \in Ptrs |-> AlignUp(bytes[p])]

\* What the total has to cover for calls.
Flight ==
  [t \in Threads |-> IF call[t].at \in {"total", "undo"} THEN AlignUp(call[t].bytes) - call[t].track
                     ELSE IF call[t].at = "upstream" THEN AlignUp(call[t].bytes)
                     ELSE IF call[t].at = "free" THEN call[t].track ELSE 0]

HeldSum(a) == Tally(Ptrs, Held(a))
ComingSum(a) == Tally(Threads, Coming(a))
RoomSum == Tally(Arenas, Room)
LiveSum == Tally(Ptrs, Live)
FlightSum == Tally(Threads, Flight)
OwedSum == RoomSum + LiveSum + FlightSum

AsTallies ==
  /\ \A a : ChargedTo(a) = HeldSum(a) + ComingSum(a)
  /\ arenas \subseteq Arenas => Owed = OwedSum

\* The sums of the properties are the sums of these weights.
LEMMA SumsAreTallies == AsTallies
<1>a. ASSUME NEW a, NEW w, w = Held(a)
      PROVE  Cardinality(UNION {{x} \X (1..AlignUp(bytes[x])) : x \in {p \in Ptrs : owner[p] = a}})
               = Tally(Ptrs, w)
  <2>1. \A x \in Ptrs : \A k : k \in 1..w[x] <=> owner[x] = a /\ k \in 1..AlignUp(bytes[x])
    BY <1>a DEF Held
  <2>2. Units(Ptrs, w)
          = UNION {{x} \X (1..AlignUp(bytes[x])) : x \in {p \in Ptrs : owner[p] = a}}
    BY <2>1, UnitsMember
  <2> QED
    BY <2>2 DEF Tally
<1>b. ASSUME NEW a, NEW w, w = Coming(a)
      PROVE  Cardinality(UNION {{x} \X (1..AlignUp(call[x].bytes)) :
                                  x \in {t \in Threads : /\ call[t].arena = a
                                                         /\ call[t].at \in {"total", "upstream", "undo"}}})
               = Tally(Threads, w)
  <2> DEFINE S == {t \in Threads : /\ call[t].arena = a
                                   /\ call[t].at \in {"total", "upstream", "undo"}}
  <2>1. \A x \in Threads : \A k : k \in 1..w[x] <=> x \in S /\ k \in 1..AlignUp(call[x].bytes)
    BY <1>b DEF Coming
  <2>2. S \subseteq Threads
    OBVIOUS
  <2> HIDE DEF S
  <2>3. Units(Threads, w) = UNION {{x} \X (1..AlignUp(call[x].bytes)) : x \in S}
    BY <2>1, <2>2, UnitsMember
  <2> QED
    BY <2>3 DEF Tally, S
<1>c. ASSUME NEW w, w = Room, arenas \subseteq Arenas
      PROVE  Cardinality(UNION {{x} \X (1..Unused(x)) : x \in arenas}) = Tally(Arenas, w)
  <2>1. \A x \in Arenas : \A k : k \in 1..w[x] <=> x \in arenas /\ k \in 1..Unused(x)
    BY <1>c DEF Room
  <2>2. Units(Arenas, w) = UNION {{x} \X (1..Unused(x)) : x \in arenas}
    BY <2>1, <1>c, UnitsMember
  <2> QED
    BY <2>2 DEF Tally
<1>d. ASSUME NEW w, w = Live
      PROVE  Cardinality(UNION {{x} \X (1..AlignUp(bytes[x])) : x \in Ptrs}) = Tally(Ptrs, w)
  <2>1. \A x \in Ptrs : w[x] = AlignUp(bytes[x])
    BY <1>d DEF Live
  <2>2. Units(Ptrs, w) = UNION {{x} \X (1..AlignUp(bytes[x])) : x \in Ptrs}
    BY <2>1, UnitsMember
  <2> QED
    BY <2>2 DEF Tally
<1>f. ASSUME NEW w, w = Flight
      PROVE  Cardinality(UNION {{x} \X (1..InFlight(x)) : x \in Threads}) = Tally(Threads, w)
  <2>1. \A x \in Threads : w[x] = InFlight(x)
    BY <1>f DEF Flight, InFlight, At
  <2>2. Units(Threads, w) = UNION {{x} \X (1..InFlight(x)) : x \in Threads}
    BY <2>1, UnitsMember
  <2> QED
    BY <2>2 DEF Tally
<1>1. \A a : ChargedTo(a) = HeldSum(a) + ComingSum(a)
  BY <1>a, <1>b DEF ChargedTo, SumOver, HeldSum, ComingSum
<1>2. ASSUME arenas \subseteq Arenas PROVE Owed = OwedSum
  BY <1>2, <1>c, <1>d, <1>f DEF Owed, SumOver, OwedSum, RoomSum, LiveSum, FlightSum
<1> QED
  BY <1>1, <1>2 DEF AsTallies

\* The same in the next state.
LEMMA SumsAreTalliesNext == AsTallies'
  BY SumsAreTallies, PTL

WeightsType ==
  /\ \A a : Held(a) \in [Ptrs -> Nat] /\ HeldSum(a) \in Nat
  /\ \A a : Coming(a) \in [Threads -> Nat] /\ ComingSum(a) \in Nat

\* The weights are natural numbers, and so are their sums.
LEMMA WeightsTyped == TypeOK => WeightsType
<1> SUFFICES ASSUME TypeOK PROVE WeightsType
  OBVIOUS
<1>0. IsFiniteSet(Ptrs) /\ IsFiniteSet(Threads)
  BY AdaptorAssumption
<1>1. ASSUME NEW a PROVE Held(a) \in [Ptrs -> Nat]
  BY AlignUpType DEF TypeOK, Held
<1>2. ASSUME NEW a PROVE Coming(a) \in [Threads -> Nat]
  BY AlignUpType DEF TypeOK, Call, Coming
<1> QED
  BY <1>0, <1>1, <1>2, TallyType DEF WeightsType, HeldSum, ComingSum

\* The same in the next state.
LEMMA WeightsTypedNext == TypeOK' => WeightsType'
  BY WeightsTyped, PTL

\* A step that changes one allocation changes the sums by that one's weight.
LEMMA HeldMoves ==
  ASSUME WeightsType, WeightsType', NEW a, NEW p \in Ptrs,
         \A q \in Ptrs : q # p => owner'[q] = owner[q] /\ bytes'[q] = bytes[q]
  PROVE  HeldSum(a)' - Held(a)'[p] = HeldSum(a) - Held(a)[p]
<1>1. \A q \in Ptrs : q # p => Held(a)[q] = Held(a)'[q]
  BY DEF Held
<1> QED
  BY <1>1, TallyChange, AdaptorAssumption DEF WeightsType, HeldSum

\* A step of one thread changes the sums by the weight of its call.
LEMMA CallMoves ==
  ASSUME WeightsType, WeightsType', NEW t \in Threads, NEW a,
         \A u \in Threads : u # t => call'[u] = call[u]
  PROVE  ComingSum(a)' - Coming(a)'[t] = ComingSum(a) - Coming(a)[t]
<1>1. \A u \in Threads : u # t => Coming(a)[u] = Coming(a)'[u]
  BY DEF Coming
<1> QED
  BY <1>1, TallyChange, AdaptorAssumption DEF WeightsType, ComingSum

-----------------------------------------------------------------------------
(* The counters of arenas.                                                 *)

\* rmm::align_up(0) is 0.
LEMMA AlignUpZero == AlignUp(0) = 0
<1>1. Align \in Nat /\ Align > 0
  BY AdaptorAssumption
<1>2. (0 + Align - 1) \div Align = 0
  BY <1>1
<1> QED
  BY <1>1, <1>2 DEF AlignUp

\* ArenaExact for the arenas that do not exist, too: nothing is charged to them.
AllExact == \A a \in Arenas \ strayed : alloc[a] = ChargedTo(a)

\* Every step keeps the counters of arenas exact.
LEMMA ExactStep == AdaptorInv /\ AllExact /\ [Next]_vars => AllExact'
<1> SUFFICES ASSUME AdaptorInv, AllExact, [Next]_vars, NEW a \in Arenas, a \notin strayed'
             PROVE  alloc'[a] = HeldSum(a)' + ComingSum(a)'
  BY SumsAreTalliesNext DEF AllExact, AsTallies
<1>0. TypeOK /\ TypeOK' /\ Placed /\ CallsPlaced /\ BeyondAllowed
  BY AdaptorStep DEF AdaptorInv
<1>w. WeightsType /\ WeightsType'
  BY <1>0, WeightsTyped, WeightsTypedNext
<1>s. /\ HeldSum(a) \in Nat /\ HeldSum(a)' \in Nat
      /\ ComingSum(a) \in Nat /\ ComingSum(a)' \in Nat
      /\ alloc[a] \in Int
  BY <1>0, <1>w DEF WeightsType, TypeOK
<1>e. a \notin strayed => alloc[a] = HeldSum(a) + ComingSum(a)
  BY SumsAreTallies DEF AllExact, AsTallies
<1>n. NoArena \notin Arenas
  BY AdaptorAssumption
<1>z. \A n \in Sizes : n \in Nat /\ AlignUp(n) \in Nat
  BY AdaptorAssumption, AlignUpType
<1>c. \A t \in Threads : AlignUp(call[t].bytes) \in Nat /\ call[t].arena \in Arenas \cup {NoArena}
  BY <1>0, AlignUpType DEF Call, TypeOK
<1>h. ASSUME UNCHANGED ptrVars PROVE HeldSum(a)' = HeldSum(a)
  BY <1>h DEF HeldSum, Held, ptrVars
<1>1. CASE UNCHANGED <<alloc, ptrVars, call>>
  BY <1>1, <1>e, <1>h DEF ComingSum, Coming, ptrVars
<1>2. ASSUME NEW b \in Arenas, DoReleaseReservation(b), Using(b) = {}
      PROVE  alloc'[a] = HeldSum(a)' + ComingSum(a)'
  <2>1. ComingSum(a)' = ComingSum(a)
    BY <1>2 DEF DoReleaseReservation, ComingSum, Coming
  <2>2. CASE a # b
    <3>1. \A p \in Ptrs : Held(a)'[p] = Held(a)[p]
      BY <1>2, <2>2, <1>n DEF DoReleaseReservation, Held
    <3>2. HeldSum(a)' = HeldSum(a)
      BY <3>1, TallySame DEF HeldSum
    <3>3. alloc'[a] = alloc[a] /\ a \notin strayed
      BY <1>0, <1>2, <2>2 DEF DoReleaseReservation, TypeOK
    <3> QED
      BY <1>e, <2>1, <3>2, <3>3
  <2>3. CASE a = b
    <3>1. \A p \in Ptrs : Held(a)'[p] = 0
      BY <1>2, <2>3, <1>n DEF DoReleaseReservation, Held
    <3>2. HeldSum(a)' = 0
      BY <3>1, TallyZero DEF HeldSum
    <3>3. \A t \in Threads : Coming(a)[t] = 0
      BY <1>2, <2>3 DEF Using, Coming
    <3>4. ComingSum(a) = 0
      BY <3>3, TallyZero DEF ComingSum
    <3>5. alloc'[a] = 0
      BY <1>0, <1>2, <2>3 DEF DoReleaseReservation, TypeOK
    <3> QED
      BY <2>1, <3>2, <3>4, <3>5
  <2> QED
    BY <2>2, <2>3
<1>3. ASSUME NEW b \in Arenas, Loose(b) PROVE Using(b) = {}
  BY <1>0, <1>3, <1>n DEF Loose, Using, CallsPlaced
<1>4. CASE Reservation
  <2>1. ASSUME NEW b \in Arenas, NEW n, Reserve(b, n) \/ ReserveUpto(b, n) \/ GrowReservationBy(b, n)
        PROVE  UNCHANGED <<alloc, ptrVars, call>>
    BY <2>1 DEF Reserve, ReserveUpto, NewArena, GrowReservationBy
  <2>2. ASSUME NEW b \in Arenas, ShrinkReservationToFit(b)
        PROVE  UNCHANGED <<alloc, ptrVars, call>>
    BY <2>2 DEF ShrinkReservationToFit
  <2>3. ASSUME NEW b \in Arenas, DropReservation(b)
        PROVE  alloc'[a] = HeldSum(a)' + ComingSum(a)'
    BY <2>3, <1>2, <1>3 DEF DropReservation
  <2>4. ASSUME NEW b \in Arenas, NEW s \in Streams, NEW p \in Policies,
               AttachReservationToTracker(s, b, p)
        PROVE  alloc'[a] = HeldSum(a)' + ComingSum(a)'
    <3>1. CASE UNCHANGED <<totals, arenaVars, ptrVars, call>>
      BY <3>1, <1>1 DEF arenaVars
    <3>2. CASE DoReleaseReservation(b)
      BY <2>4, <3>2, <1>2, <1>3 DEF AttachReservationToTracker
    <3> QED
      BY <2>4, <3>1, <3>2 DEF AttachReservationToTracker
  <2> QED
    BY <1>4, <1>1, <2>1, <2>2, <2>3, <2>4 DEF Reservation
<1>5. ASSUME NEW s \in Streams, ResetStreamReservation(s)
      PROVE  alloc'[a] = HeldSum(a)' + ComingSum(a)'
  <2>1. tracker[s] \in Arenas
    BY <1>0, <1>5 DEF ResetStreamReservation, TypeOK
  <2> QED
    BY <2>1, <1>2, <1>5 DEF ResetStreamReservation
<1>6. ASSUME NEW t \in Threads, NEW c, call' = [call EXCEPT ![t] = c], UNCHANGED ptrVars,
             alloc'[a] - Coming(a)'[t] = alloc[a] - Coming(a)[t]
      PROVE  alloc'[a] = HeldSum(a)' + ComingSum(a)'
  <2>1. \A u \in Threads : u # t => call'[u] = call[u]
    BY <1>0, <1>6 DEF TypeOK
  <2>2. ComingSum(a)' - Coming(a)'[t] = ComingSum(a) - Coming(a)[t]
    BY <1>w, <2>1, CallMoves
  <2>3. Coming(a)'[t] \in Nat /\ Coming(a)[t] \in Nat /\ alloc'[a] \in Int
    BY <1>0, <1>w DEF WeightsType, TypeOK
  <2>4. a \notin strayed
    BY <1>6 DEF ptrVars
  <2> QED
    BY <1>6, <1>h, <1>e, <1>s, <2>2, <2>3, <2>4
<1>7. ASSUME NEW t \in Threads, Allocation(t)
      PROVE  alloc'[a] = HeldSum(a)' + ComingSum(a)'
  <2> USE DEF TypeOK, Coming, At, CallAt
  <2>1. ASSUME NEW s \in Streams, NEW n \in Sizes, AllocateUntracked(t, s, n)
        PROVE  alloc'[a] = HeldSum(a)' + ComingSum(a)'
    <3>1. alloc' = alloc /\ Coming(a)'[t] = 0 /\ Coming(a)[t] = 0
      BY <2>1, <1>0, <1>n DEF AllocateUntracked, arenaVars
    <3> QED
      BY <2>1, <3>1, <1>6 DEF AllocateUntracked
  <2>2. ASSUME NEW s \in Streams, NEW n \in Sizes, AllocateWithin(t, s, n)
        PROVE  alloc'[a] = HeldSum(a)' + ComingSum(a)'
    <3>1. /\ alloc'[a] = alloc[a] + IF a = tracker[s] THEN AlignUp(n) ELSE 0
          /\ Coming(a)'[t] = IF a = tracker[s] THEN AlignUp(n) ELSE 0
          /\ Coming(a)[t] = 0
      BY <2>2, <1>0, <1>n, <1>z DEF AllocateWithin
    <3>2. alloc'[a] - Coming(a)'[t] = alloc[a] - Coming(a)[t]
      BY <3>1, <1>z, <1>s
    <3>3. PICK c : call' = [call EXCEPT ![t] = c]
      BY <2>2 DEF AllocateWithin
    <3>4. UNCHANGED ptrVars
      BY <2>2 DEF AllocateWithin
    <3> QED
      BY <3>2, <3>3, <3>4, <1>6
  <2>3. ASSUME NEW s \in Streams, NEW n \in Sizes, AllocateBeyond(t, s, n)
        PROVE  alloc'[a] = HeldSum(a)' + ComingSum(a)'
    <3>1. alloc' = alloc /\ Coming(a)'[t] = 0 /\ Coming(a)[t] = 0
      BY <2>3, <1>0, <1>n DEF AllocateBeyond, arenaVars
    <3> QED
      BY <2>3, <3>1, <1>6 DEF AllocateBeyond
  <2>4. ASSUME HandleOverReservation(t)
        PROVE  alloc'[a] = HeldSum(a)' + ComingSum(a)'
    <3>1. /\ alloc' = alloc /\ UNCHANGED ptrVars
          /\ \/ call' = [call EXCEPT ![t].at = "charge"]
             \/ call' = [call EXCEPT ![t] = NoCall]
      BY <2>4 DEF HandleOverReservation
    <3>2. PICK c : call' = [call EXCEPT ![t] = c]
      BY <3>1
    <3>3. Coming(a)'[t] = 0 /\ Coming(a)[t] = 0
      BY <2>4, <3>1, <1>0, <1>n DEF HandleOverReservation, NoCall, Call
    <3> QED
      BY <3>1, <3>2, <3>3, <1>6
  <2>5. ASSUME ChargeBeyond(t)
        PROVE  alloc'[a] = HeldSum(a)' + ComingSum(a)'
    <3> DEFINE n == AlignUp(call[t].bytes)
    <3>1. call[t].arena \in Arenas
      BY <2>5, <1>0 DEF ChargeBeyond, BeyondAllowed
    <3>2. /\ alloc'[a] = alloc[a] + IF a = call[t].arena THEN n ELSE 0
          /\ Coming(a)'[t] = IF a = call[t].arena THEN n ELSE 0
          /\ Coming(a)[t] = 0
      BY <2>5, <3>1, <1>0, <1>c DEF ChargeBeyond
    <3>3. alloc'[a] - Coming(a)'[t] = alloc[a] - Coming(a)[t]
      BY <3>2, <1>c, <1>s
    <3>4. PICK c : call' = [call EXCEPT ![t] = c]
      BY <2>5 DEF ChargeBeyond
    <3>5. UNCHANGED ptrVars
      BY <2>5 DEF ChargeBeyond
    <3> QED
      BY <3>3, <3>4, <3>5, <1>6
  <2>6. ASSUME ChargeTotal(t) \/ UpstreamThrows(t)
        PROVE  alloc'[a] = HeldSum(a)' + ComingSum(a)'
    <3>1. /\ alloc' = alloc /\ UNCHANGED ptrVars
          /\ call[t].at \in {"total", "upstream"}
          /\ \E w \in {"upstream", "undo"} : call' = [call EXCEPT ![t].at = w]
      BY <2>6 DEF ChargeTotal, UpstreamThrows, arenaVars
    <3>2. PICK c : call' = [call EXCEPT ![t] = c]
      BY <3>1
    <3>3. Coming(a)'[t] = Coming(a)[t]
      BY <3>1, <1>0 DEF Call
    <3> QED
      BY <3>1, <3>2, <3>3, <1>6, <1>s
  <2>7. ASSUME NEW p \in Ptrs, UpstreamAllocates(t, p)
        PROVE  alloc'[a] = HeldSum(a)' + ComingSum(a)'
    <3> DEFINE n == IF a = call[t].arena THEN AlignUp(call[t].bytes) ELSE 0
    <3>1. \A u \in Threads : u # t => call'[u] = call[u]
      BY <2>7, <1>0 DEF UpstreamAllocates
    <3>2. \A q \in Ptrs : q # p => owner'[q] = owner[q] /\ bytes'[q] = bytes[q]
      BY <2>7, <1>0 DEF UpstreamAllocates
    <3>3. Coming(a)[t] = n /\ Coming(a)'[t] = 0 /\ alloc' = alloc
      BY <2>7, <1>0, <1>n DEF UpstreamAllocates, NoCall, arenaVars
    <3>4. Held(a)[p] = 0 /\ Held(a)'[p] = n
      BY <2>7, <1>0, AlignUpZero DEF UpstreamAllocates, Held
    <3>5. n \in Nat
      BY <1>c
    <3>6. ComingSum(a)' - Coming(a)'[t] = ComingSum(a) - Coming(a)[t]
      BY <1>w, <3>1, CallMoves
    <3>7. HeldSum(a)' - Held(a)'[p] = HeldSum(a) - Held(a)[p]
      BY <1>w, <3>2, HeldMoves
    <3>8. a \notin strayed
      BY <2>7 DEF UpstreamAllocates
    <3> HIDE DEF n
    <3> QED
      BY <1>e, <1>s, <3>3, <3>4, <3>5, <3>6, <3>7, <3>8
  <2>8. ASSUME UndoCharge(t)
        PROVE  alloc'[a] = HeldSum(a)' + ComingSum(a)'
    <3> DEFINE n == IF a = call[t].arena THEN AlignUp(call[t].bytes) ELSE 0
    <3>1. alloc'[a] = alloc[a] - n /\ Coming(a)[t] = n /\ Coming(a)'[t] = 0
      BY <2>8, <1>0, <1>n, <1>c DEF UndoCharge, NoCall
    <3>2. alloc'[a] - Coming(a)'[t] = alloc[a] - Coming(a)[t]
      BY <3>1, <1>c, <1>s
    <3> QED
      BY <2>8, <3>2, <1>6 DEF UndoCharge
  <2> QED
    BY <1>7, <2>1, <2>2, <2>3, <2>4, <2>5, <2>6, <2>7, <2>8 DEF Allocation
<1>8. ASSUME NEW t \in Threads, NEW p \in Ptrs, NEW s \in Streams, Deallocate(t, p, s)
      PROVE  alloc'[a] = HeldSum(a)' + ComingSum(a)'
  <2> USE DEF TypeOK, Coming, At, CallAt
  <2> DEFINE n == IF a = owner[p] THEN AlignUp(bytes[p]) ELSE 0
  <2>1. \A u \in Threads : u # t => call'[u] = call[u]
    BY <1>8, <1>0 DEF Deallocate
  <2>2. \A q \in Ptrs : q # p => owner'[q] = owner[q] /\ bytes'[q] = bytes[q]
    BY <1>8, <1>0 DEF Deallocate
  <2>3. Coming(a)[t] = 0 /\ Coming(a)'[t] = 0
    BY <1>8, <1>0, <1>n DEF Deallocate
  <2>4. Held(a)[p] = n /\ Held(a)'[p] = 0
    BY <1>8, <1>0, <1>n DEF Deallocate, Held
  <2>5. n \in Nat
    BY <1>0, AlignUpType
  <2>6. alloc'[a] = alloc[a] - n /\ a \notin strayed
    <3>1. /\ a \notin strayed
          /\ tracker[s] = owner[p] \/ (a # tracker[s] /\ a # owner[p])
          /\ alloc' = IF tracker[s] = NoArena THEN alloc
                      ELSE [alloc EXCEPT ![tracker[s]] = @ - AlignUp(bytes[p])]
      BY <1>8, <1>n DEF Deallocate
    <3> QED
      BY <3>1, <1>0, <1>n, <1>s, <2>5
  <2>7. ComingSum(a)' - Coming(a)'[t] = ComingSum(a) - Coming(a)[t]
    BY <1>w, <2>1, CallMoves
  <2>8. HeldSum(a)' - Held(a)'[p] = HeldSum(a) - Held(a)[p]
    BY <1>w, <2>2, HeldMoves
  <2> HIDE DEF n
  <2> QED
    BY <1>e, <1>s, <2>3, <2>4, <2>5, <2>6, <2>7, <2>8
<1>9. ASSUME NEW t \in Threads, DischargeTotal(t)
      PROVE  alloc'[a] = HeldSum(a)' + ComingSum(a)'
  <2>1. alloc' = alloc /\ Coming(a)'[t] = 0 /\ Coming(a)[t] = 0
    BY <1>9, <1>0, <1>n DEF DischargeTotal, NoCall, CallAt, Coming, At, TypeOK, arenaVars
  <2> QED
    BY <1>9, <2>1, <1>6 DEF DischargeTotal
<1>10. CASE UNCHANGED vars
  BY <1>10, <1>1 DEF vars, ptrVars
<1> QED
  BY <1>4, <1>5, <1>7, <1>8, <1>9, <1>10 DEF Next, Deallocation

\* The counters start exact: there are no arenas, allocations or calls.
LEMMA ExactInit == Init => AllExact
<1> SUFFICES ASSUME Init, NEW a \in Arenas PROVE alloc[a] = HeldSum(a) + ComingSum(a)
  BY SumsAreTallies DEF AllExact, AsTallies
<1>1. \A p \in Ptrs : Held(a)[p] = 0
  BY AlignUpZero DEF Init, Held
<1>2. \A t \in Threads : Coming(a)[t] = 0
  BY DEF Init, Coming, NoCall, CallAt
<1>3. HeldSum(a) = 0 /\ ComingSum(a) = 0
  BY <1>1, <1>2, TallyZero DEF HeldSum, ComingSum
<1> QED
  BY <1>3 DEF Init

\* get_allocated_bytes of a stream is the memory allocated from its
\* reservation, whatever the policy, however many calls are under way and
\* wherever other reservations' memory is freed, unless memory of the
\* reservation was freed elsewhere, or memory from elsewhere on its stream.
THEOREM ArenasAreExact == Spec => []ArenaExact
<1>1. AdaptorInv /\ AllExact /\ [Next]_vars => AllExact'
  BY ExactStep
<1>2. AdaptorInv /\ AllExact => ArenaExact
  BY DEF AllExact, ArenaExact, AdaptorInv, TypeOK
<1> QED
  BY ExactInit, <1>1, <1>2, AdaptorInvariant, PTL DEF Spec

-----------------------------------------------------------------------------
(* The total of the device.  That it covers what is owed is not inductive: *)
(* what a call charges to the total must be a part of what it allocates,   *)
(* all of it on a stream without reservation, and the size that a call     *)
(* beyond its reservation has read must not be larger than the arena is.   *)

TrackRight ==
  \A t \in Threads : call[t].at \in {"total", "upstream", "undo"} =>
    /\ call[t].track <= AlignUp(call[t].bytes)
    /\ call[t].arena = NoArena => call[t].track = AlignUp(call[t].bytes)

LimitRight ==
  \A t \in Threads : call[t].at \in {"policy", "charge"} => call[t].limit <= size[call[t].arena]

CallsRight == TrackRight /\ LimitRight

\* A number that fits in a size_t does not wrap.
LEMMA WrapSame == ASSUME NEW n \in Nat, n < SizeMod PROVE Wrap(n) = n
  BY AdaptorAssumption DEF Wrap

\* Every step keeps the records of calls right.
LEMMA CallsStep ==
  ASSUME AdaptorInv, CallsRight, [Next]_vars
  PROVE  CallsRight'
<1>0. /\ TypeOK /\ TypeOK' /\ Placed /\ LooseEmpty /\ CallsPlaced /\ BeyondAllowed
      /\ TrackRight /\ LimitRight
  BY AdaptorStep DEF AdaptorInv, CallsRight
<1>n. NoArena \notin Arenas
  BY AdaptorAssumption
<1>z. \A n \in Sizes : n \in Nat /\ AlignUp(n) \in Nat
  BY AdaptorAssumption, AlignUpType
<1>c. \A t \in Threads : /\ AlignUp(call[t].bytes) \in Nat /\ call[t].track \in Nat
                         /\ call[t].limit \in Nat
                         /\ call[t].arena \in Arenas \cup {NoArena}
  BY <1>0, AlignUpType DEF Call, TypeOK
<1>b. ASSUME NEW t \in Threads, call[t].at \in {"policy", "charge"}
      PROVE  call[t].arena \in Arenas /\ call[t].arena \in arenas /\ ~Loose(call[t].arena)
  BY <1>0, <1>b, <1>n DEF BeyondAllowed, Placed, Loose
<1> USE DEF TypeOK, CallsRight, TrackRight, LimitRight
<1>1. ASSUME call' = call,
             \A t \in Threads : call[t].at \in {"policy", "charge"} =>
               size'[call[t].arena] = size[call[t].arena]
      PROVE  CallsRight'
  BY <1>0, <1>1
<1>2. ASSUME NEW a \in Arenas, DoReleaseReservation(a), Using(a) = {} PROVE CallsRight'
  <2>1. \A t \in Threads : call[t].at \in {"policy", "charge"} =>
          size'[call[t].arena] = size[call[t].arena]
    BY <1>0, <1>2, <1>b DEF DoReleaseReservation, Using
  <2> QED
    BY <1>1, <1>2, <2>1 DEF DoReleaseReservation
<1>3. ASSUME NEW a \in Arenas, Loose(a) PROVE Using(a) = {}
  BY <1>0, <1>3, <1>n DEF Loose, Using, CallsPlaced
<1>4. ASSUME Reservation PROVE CallsRight'
  <2>1. ASSUME NEW a \in Arenas, NEW n, NewArena(a, n) PROVE CallsRight'
    <3>1. \A t \in Threads : call[t].at \in {"policy", "charge"} =>
            size'[call[t].arena] = size[call[t].arena]
      BY <1>0, <2>1, <1>b DEF NewArena
    <3> QED
      BY <1>1, <2>1, <3>1 DEF NewArena
  <2>2. ASSUME NEW a \in Arenas, Loose(a), NEW n, size' = [size EXCEPT ![a] = n], call' = call
        PROVE  CallsRight'
    <3>1. \A t \in Threads : call[t].at \in {"policy", "charge"} =>
            size'[call[t].arena] = size[call[t].arena]
      BY <1>0, <2>2, <1>b
    <3> QED
      BY <1>1, <2>2, <3>1
  <2>3. ASSUME NEW a \in Arenas, NEW n \in Sizes, GrowReservationBy(a, n) PROVE CallsRight'
    BY <2>2, <2>3 DEF GrowReservationBy
  <2>4. ASSUME NEW a \in Arenas, ShrinkReservationToFit(a) PROVE CallsRight'
    BY <2>2, <2>4 DEF ShrinkReservationToFit
  <2>5. ASSUME NEW a \in Arenas, DropReservation(a) PROVE CallsRight'
    BY <2>5, <1>2, <1>3 DEF DropReservation
  <2>6. ASSUME NEW a \in Arenas, NEW s \in Streams, NEW p \in Policies,
               AttachReservationToTracker(s, a, p)
        PROVE  CallsRight'
    <3>1. CASE UNCHANGED <<totals, arenaVars, ptrVars, call>>
      BY <3>1, <1>1 DEF arenaVars
    <3>2. CASE DoReleaseReservation(a)
      BY <2>6, <3>2, <1>2, <1>3 DEF AttachReservationToTracker
    <3> QED
      BY <2>6, <3>1, <3>2 DEF AttachReservationToTracker
  <2> QED
    BY <1>4, <2>1, <2>3, <2>4, <2>5, <2>6 DEF Reservation, Reserve, ReserveUpto
<1>5. ASSUME NEW s \in Streams, ResetStreamReservation(s) PROVE CallsRight'
  <2>1. tracker[s] \in Arenas
    BY <1>0, <1>5 DEF ResetStreamReservation
  <2> QED
    BY <2>1, <1>2, <1>5 DEF ResetStreamReservation
<1>6. ASSUME NEW t \in Threads, NEW c, call' = [call EXCEPT ![t] = c], size' = size,
             c.at \in {"total", "upstream", "undo"} =>
               /\ c.track <= AlignUp(c.bytes)
               /\ c.arena = NoArena => c.track = AlignUp(c.bytes),
             c.at \in {"policy", "charge"} => c.limit <= size[c.arena]
      PROVE  CallsRight'
  BY <1>0, <1>6
<1>7. ASSUME NEW t \in Threads, NEW s \in Streams, NEW n \in Sizes, AllocateUntracked(t, s, n)
      PROVE  CallsRight'
  <2> DEFINE c == CallAt("total", NoArena, n, 0, 0, AlignUp(n))
  <2>1. call' = [call EXCEPT ![t] = c] /\ size' = size
    BY <1>7 DEF AllocateUntracked, arenaVars
  <2>2. c.at = "total" /\ c.track = AlignUp(n) /\ c.bytes = n
    BY DEF CallAt
  <2> HIDE DEF c
  <2> QED
    BY <2>1, <2>2, <1>6, <1>z
<1>8. ASSUME NEW t \in Threads, NEW s \in Streams, NEW n \in Sizes, AllocateWithin(t, s, n)
      PROVE  CallsRight'
  <2> DEFINE a == tracker[s]
             k == UpstreamTracking(alloc[a] + AlignUp(n), AlignUp(n), size[a])
             c == CallAt("total", a, n, 0, 0, k)
  <2>1. call' = [call EXCEPT ![t] = c] /\ size' = size /\ a # NoArena
    BY <1>8 DEF AllocateWithin
  <2>2. k <= AlignUp(n)
    BY <1>0, <1>z, <2>1 DEF UpstreamTracking
  <2>3. c.at = "total" /\ c.track = k /\ c.bytes = n /\ c.arena = a
    BY DEF CallAt
  <2> HIDE DEF c, k
  <2> QED
    BY <2>1, <2>2, <2>3, <1>6
<1>9. ASSUME NEW t \in Threads, NEW s \in Streams, NEW n \in Sizes, AllocateBeyond(t, s, n)
      PROVE  CallsRight'
  <2> DEFINE a == tracker[s]
             w == IF policy[s] = "increase" THEN "policy" ELSE "charge"
             c == CallAt(w, a, n, size[a], alloc[a], 0)
  <2>1. call' = [call EXCEPT ![t] = c] /\ size' = size /\ a # NoArena
    BY <1>9 DEF AllocateBeyond, arenaVars
  <2>2. c.at \in {"policy", "charge"} /\ c.limit = size[a] /\ c.arena = a
    BY DEF CallAt
  <2>3. size[a] \in Nat
    BY <1>0, <2>1
  <2> HIDE DEF c
  <2> QED
    BY <2>1, <2>2, <2>3, <1>6
<1>10. ASSUME NEW t \in Threads, HandleOverReservation(t) PROVE CallsRight'
  <2> DEFINE a == call[t].arena
             extra == Wrap(call[t].current + AlignUp(call[t].bytes) - size[a])
             padded == (extra * PadQuarters) \div 4
  <2>1. a \in Arenas /\ call[t].current \in Int
    BY <1>0, <1>10 DEF HandleOverReservation, At, BeyondAllowed, Call
  <2>2. extra \in Nat
    BY <1>0, <1>c, <2>1, WrapType, AdaptorAssumption
  <2>3. padded \in Nat
    <3> HIDE DEF extra
    <3> QED BY <2>2, PaddedType
  <2>4. /\ call[t].at = "policy"
        /\ \/ size' = size /\ call' = [call EXCEPT ![t] = NoCall]
           \/ /\ \E n \in {padded, extra} : size' = [size EXCEPT ![a] = @ + n]
              /\ call' = [call EXCEPT ![t].at = "charge"]
    BY <1>10 DEF HandleOverReservation, At
  <2> HIDE DEF extra, padded
  <2>5. CASE size' = size /\ call' = [call EXCEPT ![t] = NoCall]
    <3>1. NoCall.at = "idle"
      BY DEF NoCall, CallAt
    <3> QED
      BY <2>5, <3>1, <1>6
  <2>6. CASE /\ \E n \in {padded, extra} : size' = [size EXCEPT ![a] = @ + n]
             /\ call' = [call EXCEPT ![t].at = "charge"]
    <3>1. \A b \in Arenas : size[b] \in Nat /\ size'[b] \in Nat /\ size[b] <= size'[b]
      BY <1>0, <2>1, <2>2, <2>3, <2>6
    <3>2. \A u \in Threads :
            /\ call'[u].limit = call[u].limit /\ call'[u].arena = call[u].arena
            /\ call'[u].track = call[u].track /\ call'[u].bytes = call[u].bytes
            /\ call'[u].at = call[u].at \/ (call'[u].at = "charge" /\ call[u].at = "policy")
      BY <1>0, <2>4, <2>6 DEF Call
    <3>3. TrackRight'
      BY <1>0, <3>2
    <3>4. LimitRight'
      <4> SUFFICES ASSUME NEW u \in Threads, call'[u].at \in {"policy", "charge"}
                   PROVE  call'[u].limit <= size'[call'[u].arena]
        OBVIOUS
      <4>1. call[u].at \in {"policy", "charge"}
        BY <3>2
      <4>2. call[u].limit <= size[call[u].arena] /\ call[u].arena \in Arenas
        BY <4>1, <1>0, <1>b
      <4> QED
        BY <4>2, <3>1, <3>2, <1>c
    <3> QED
      BY <3>3, <3>4
  <2> QED
    BY <2>4, <2>5, <2>6
<1>11. ASSUME NEW t \in Threads, ChargeBeyond(t) PROVE CallsRight'
  <2> DEFINE a == call[t].arena
             n == call[t].bytes
             k == UpstreamTracking(alloc[a] + AlignUp(n), AlignUp(n), call[t].limit)
             c == CallAt("total", a, n, 0, 0, k)
  <2>1. call' = [call EXCEPT ![t] = c] /\ size' = size /\ a \in Arenas
    BY <1>11, <1>b DEF ChargeBeyond, At
  <2>2. k <= AlignUp(n)
    BY <1>0, <1>c, <2>1 DEF UpstreamTracking
  <2>3. c.at = "total" /\ c.track = k /\ c.bytes = n /\ c.arena = a
    BY DEF CallAt
  <2>4. a # NoArena
    BY <2>1, <1>n
  <2> HIDE DEF c, k
  <2> QED
    BY <2>1, <2>2, <2>3, <2>4, <1>6
<1>12. ASSUME NEW t \in Threads, ChargeTotal(t) \/ UpstreamThrows(t) PROVE CallsRight'
  <2>1. /\ size' = size
        /\ call[t].at \in {"total", "upstream"}
        /\ \E w \in {"upstream", "undo"} : call' = [call EXCEPT ![t].at = w]
    BY <1>12 DEF ChargeTotal, UpstreamThrows, arenaVars, At
  <2> QED
    BY <1>0, <2>1 DEF Call
<1>13. ASSUME NEW t \in Threads, call' = [call EXCEPT ![t] = NoCall], size' = size
       PROVE  CallsRight'
  <2>1. NoCall.at = "idle"
    BY DEF NoCall, CallAt
  <2> QED
    BY <1>13, <2>1, <1>6
<1>14. ASSUME NEW t \in Threads,
              \/ \E p \in Ptrs : UpstreamAllocates(t, p)
              \/ UndoCharge(t)
              \/ DischargeTotal(t)
       PROVE  CallsRight'
  BY <1>13, <1>14 DEF UpstreamAllocates, UndoCharge, DischargeTotal, arenaVars
<1>15. ASSUME NEW t \in Threads, NEW p \in Ptrs, NEW s \in Streams, Deallocate(t, p, s)
       PROVE  CallsRight'
  <2>1. \E m : call' = [call EXCEPT ![t] = CallAt("free", NoArena, 0, 0, 0, m)]
    BY <1>15 DEF Deallocate
  <2>2. PICK m : call' = [call EXCEPT ![t] = CallAt("free", NoArena, 0, 0, 0, m)]
    BY <2>1
  <2>3. CallAt("free", NoArena, 0, 0, 0, m).at = "free" /\ size' = size
    BY <1>15 DEF CallAt, Deallocate
  <2> QED
    BY <2>2, <2>3, <1>6
<1>16. CASE UNCHANGED vars
  BY <1>1, <1>16 DEF vars
<1> HIDE DEF TypeOK, CallsRight, TrackRight, LimitRight
<1> QED
  BY <1>4, <1>5, <1>7, <1>8, <1>9, <1>10, <1>11, <1>12, <1>14, <1>15, <1>16
  DEF Next, Allocation, Deallocation

-----------------------------------------------------------------------------
(* What is owed, step by step.                                             *)

OwedType ==
  /\ Room \in [Arenas -> Nat] /\ RoomSum \in Nat
  /\ Live \in [Ptrs -> Nat] /\ LiveSum \in Nat
  /\ Flight \in [Threads -> Nat] /\ FlightSum \in Nat
  /\ OwedSum \in Nat

\* The weights are natural numbers, and so are their sums.
LEMMA OwedTyped == TypeOK /\ TrackRight => OwedType
<1> SUFFICES ASSUME TypeOK, TrackRight PROVE OwedType
  OBVIOUS
<1>0. IsFiniteSet(Ptrs) /\ IsFiniteSet(Threads) /\ IsFiniteSet(Arenas)
  BY AdaptorAssumption
<1>1. Room \in [Arenas -> Nat]
  BY DEF TypeOK, Room, Unused, Larger
<1>2. Live \in [Ptrs -> Nat]
  BY AlignUpType DEF TypeOK, Live
<1>3. Flight \in [Threads -> Nat]
  <2>1. \A t \in Threads : AlignUp(call[t].bytes) \in Nat /\ call[t].track \in Nat
    BY AlignUpType DEF TypeOK, Call
  <2> QED
    BY <2>1 DEF Flight, TrackRight
<1>4. RoomSum \in Nat /\ LiveSum \in Nat /\ FlightSum \in Nat
  BY <1>0, <1>1, <1>2, <1>3, TallyType DEF RoomSum, LiveSum, FlightSum
<1> QED
  BY <1>1, <1>2, <1>3, <1>4 DEF OwedType, OwedSum

\* The same in the next state.
LEMMA OwedTypedNext == TypeOK' /\ TrackRight' => OwedType'
  BY OwedTyped, PTL

\* One arena, one allocation or one call at a time.
LEMMA OwedMoves ==
  ASSUME OwedType, OwedType'
  PROVE  /\ \A a \in Arenas :
              (\A b \in Arenas : b # a => Room[b] = Room'[b]) =>
                RoomSum' = RoomSum + (Room'[a] - Room[a])
         /\ \A p \in Ptrs :
              (\A q \in Ptrs : q # p => bytes'[q] = bytes[q]) =>
                LiveSum' = LiveSum + (Live'[p] - Live[p])
         /\ \A t \in Threads :
              (\A u \in Threads : u # t => call'[u] = call[u]) =>
                FlightSum' = FlightSum + (Flight'[t] - Flight[t])
<1>0. IsFiniteSet(Ptrs) /\ IsFiniteSet(Threads) /\ IsFiniteSet(Arenas)
  BY AdaptorAssumption
<1>1. ASSUME NEW a \in Arenas, \A b \in Arenas : b # a => Room[b] = Room'[b]
      PROVE  RoomSum' = RoomSum + (Room'[a] - Room[a])
  <2>1. RoomSum' - Room'[a] = RoomSum - Room[a]
    BY <1>0, <1>1, TallyChange DEF OwedType, RoomSum
  <2> QED
    BY <2>1 DEF OwedType
<1>2. ASSUME NEW p \in Ptrs, \A q \in Ptrs : q # p => bytes'[q] = bytes[q]
      PROVE  LiveSum' = LiveSum + (Live'[p] - Live[p])
  <2>1. \A q \in Ptrs : q # p => Live[q] = Live'[q]
    BY <1>2 DEF Live
  <2>2. LiveSum' - Live'[p] = LiveSum - Live[p]
    BY <1>0, <2>1, TallyChange DEF OwedType, LiveSum
  <2> QED
    BY <2>2 DEF OwedType
<1>3. ASSUME NEW t \in Threads, \A u \in Threads : u # t => call'[u] = call[u]
      PROVE  FlightSum' = FlightSum + (Flight'[t] - Flight[t])
  <2>1. \A u \in Threads : u # t => Flight[u] = Flight'[u]
    BY <1>3 DEF Flight
  <2>2. FlightSum' - Flight'[t] = FlightSum - Flight[t]
    BY <1>0, <2>1, TallyChange DEF OwedType, FlightSum
  <2> QED
    BY <2>2 DEF OwedType
<1> QED
  BY <1>1, <1>2, <1>3

\* What a step leaves alone.
LEMMA OwedStays ==
  /\ UNCHANGED <<arenas, size, alloc>> => RoomSum' = RoomSum
  /\ UNCHANGED bytes => LiveSum' = LiveSum
  /\ UNCHANGED call => FlightSum' = FlightSum
  BY DEF RoomSum, LiveSum, FlightSum, Room, Unused, Live, Flight

Covered ==
  /\ ~Torn => OwedSum <= total /\ total <= Capacity
  /\ events = {} => total = OwedSum

\* The change of the total, against the change of what is owed.  Nothing is
\* said about wrapping: an amount that is covered does not wrap.
LEMMA CoveredNext ==
  ASSUME TypeOK, OwedType, OwedType', Covered, events \subseteq events',
         NEW m \in Int, total' = Wrap(total + m), m <= 0 \/ total + m <= Capacity,
         ~Torn' => OwedSum' - OwedSum <= m,
         events' = {} => OwedSum' - OwedSum = m
  PROVE  Covered'
<1>0. /\ OwedSum \in Nat /\ OwedSum' \in Nat /\ total \in Nat
      /\ Capacity \in Nat /\ SizeMod \in Nat /\ Capacity < SizeMod
  BY AdaptorAssumption DEF OwedType, TypeOK
<1>1. ASSUME ~Torn' PROVE total' = total + m /\ OwedSum' <= total' /\ total' <= Capacity
  <2>1. ~Torn
    BY <1>1 DEF Torn
  <2>2. OwedSum <= total /\ total <= Capacity
    BY <2>1 DEF Covered
  <2>3. OwedSum' - OwedSum <= m
    BY <1>1
  <2>4. \A x, c, y, z, k \in Nat :
          /\ y <= x /\ x <= c /\ c < k /\ z - y <= m /\ (m <= 0 \/ x + m <= c)
          => x + m \in Nat /\ x + m < k /\ x + m <= c /\ z <= x + m
    OBVIOUS
  <2>5. /\ total + m \in Nat /\ total + m < SizeMod /\ total + m <= Capacity
        /\ OwedSum' <= total + m
    BY <1>0, <2>2, <2>3, <2>4
  <2>6. total' = total + m
    BY <2>5, WrapSame
  <2> QED
    BY <2>5, <2>6
<1>2. ASSUME events' = {} PROVE total' = OwedSum'
  <2>1. events = {} /\ ~Torn'
    BY <1>2 DEF Torn
  <2>2. total = OwedSum
    BY <2>1 DEF Covered
  <2>3. total' = total + m /\ OwedSum' - OwedSum = m
    BY <1>1, <1>2, <2>1
  <2>4. \A y, z \in Nat : z - y = m => z = y + m
    OBVIOUS
  <2>5. OwedSum' = OwedSum + m
    BY <1>0, <2>3, <2>4
  <2> QED
    BY <2>2, <2>3, <2>5
<1> QED
  BY <1>1, <1>2 DEF Covered

\* The five events are recorded.
LEMMA EventsNoted ==
  ASSUME DriftNext
  PROVE  /\ events \subseteq events'
         /\ ~Torn' => ~StraddlingFree /\ ~LateUndo
         /\ events' = {} => ~StaleCharge /\ ~OverrunGrows /\ ~ExtraLost /\ ~Torn'
  BY DEF DriftNext, Happening, Torn

\* What an arena that dies gives back: what it has left, unless stray frees
\* gave it more than it had reserved.
LEMMA ReleaseCovers ==
  ASSUME TypeOK, OwedType, OwedType', Covered, DriftNext,
         NEW a \in arenas, DoReleaseReservation(a)
  PROVE  Covered'
<1>0. a \in Arenas /\ alloc[a] \in Int /\ size[a] \in Nat /\ total \in Nat
  BY AdaptorAssumption DEF TypeOK
<1>1. \A b \in Arenas : b # a => Room[b] = Room'[b]
  BY <1>0 DEF DoReleaseReservation, TypeOK, Room, Unused
<1>2. Room[a] = Unused(a) /\ Room'[a] = 0
  BY <1>0 DEF DoReleaseReservation, Room
<1>3. RoomSum' = RoomSum + (Room'[a] - Room[a])
  BY <1>0, <1>1, OwedMoves
<1>4. LiveSum' = LiveSum /\ FlightSum' = FlightSum
  BY OwedStays DEF DoReleaseReservation
<1> DEFINE m == -ReleasedBytes(a)
<1>5. m \in Int /\ m <= 0 /\ -Unused(a) <= m /\ (alloc[a] >= 0 => -Unused(a) = m)
  BY <1>0 DEF ReleasedBytes, Unused, Larger
<1>6. total' = Wrap(total + m)
  <2>1. ReleasedBytes(a) \in Int
    BY <1>0 DEF ReleasedBytes, Larger
  <2>2. total - ReleasedBytes(a) = total + m
    BY <1>0, <2>1
  <2> QED
    BY <2>2 DEF DoReleaseReservation
<1>7. events' = {} => alloc[a] >= 0
  <2>1. a \in arenas \ arenas'
    BY DEF DoReleaseReservation
  <2> QED
    BY <1>0, <2>1, EventsNoted DEF ExtraLost
<1> HIDE DEF m
<1>8. OwedSum' - OwedSum = -Unused(a)
  <2>1. Unused(a) \in Nat
    BY <1>0 DEF Unused, Larger
  <2>2. RoomSum \in Nat /\ LiveSum \in Nat /\ FlightSum \in Nat
    BY DEF OwedType
  <2>3. OwedSum' = RoomSum + (0 - Unused(a)) + LiveSum + FlightSum
    BY <1>2, <1>3, <1>4 DEF OwedSum
  <2> QED
    BY <2>1, <2>2, <2>3 DEF OwedSum
<1> QED
  BY <1>5, <1>6, <1>7, <1>8, CoveredNext, EventsNoted

\* Every step keeps the total in step with what is owed.
LEMMA CoversStep ==
  ASSUME AdaptorInv, CallsRight, Covered, DriftNext
  PROVE  Covered'
<1>0. /\ TypeOK /\ TypeOK' /\ Placed /\ LooseEmpty /\ CallsPlaced /\ BeyondAllowed
      /\ TrackRight /\ LimitRight
  BY AdaptorStep DEF AdaptorInv, CallsRight, DriftNext
<1>w. OwedType /\ OwedType'
  <2>1. CallsRight'
    BY CallsStep DEF DriftNext
  <2> QED
    BY <1>0, <2>1, OwedTyped, OwedTypedNext DEF CallsRight
<1>s. /\ RoomSum \in Nat /\ RoomSum' \in Nat /\ LiveSum \in Nat /\ LiveSum' \in Nat
      /\ FlightSum \in Nat /\ FlightSum' \in Nat
  BY <1>w DEF OwedType
<1>k. /\ SizeMod \in Nat /\ MemoryLimit \in Nat /\ Capacity \in Nat
      /\ MemoryLimit <= Capacity /\ Capacity < SizeMod
      /\ NoArena \notin Arenas /\ total \in Nat /\ total < SizeMod
  BY <1>0, AdaptorAssumption DEF TypeOK
<1>z. \A n \in Sizes : n \in Nat /\ AlignUp(n) \in Nat
  BY AdaptorAssumption, AlignUpType
<1>c. \A t \in Threads : /\ AlignUp(call[t].bytes) \in Nat /\ call[t].track \in Nat
                         /\ call[t].limit \in Nat /\ call[t].current \in Int
                         /\ call[t].arena \in Arenas \cup {NoArena}
                         /\ call[t].arena # NoArena => call[t].arena \in arenas
  BY <1>0, AlignUpType DEF Call, TypeOK, CallsPlaced, Placed
<1>a. \A a \in Arenas : alloc[a] \in Int /\ alloc'[a] \in Int /\ size[a] \in Nat /\ size'[a] \in Nat
  BY <1>0 DEF TypeOK
<1>e. /\ events \subseteq events'
      /\ ~Torn' => ~StraddlingFree /\ ~LateUndo
      /\ events' = {} => ~StaleCharge /\ ~OverrunGrows /\ ~ExtraLost /\ ~Torn'
  BY EventsNoted
<1>0w. total = Wrap(total + 0)
  BY <1>k, WrapSame
\* A step that changes one arena and the total by the same amount.
<1>1. ASSUME NEW a \in Arenas, NEW m \in Int, total' = Wrap(total + m),
             m <= 0 \/ total + m <= Capacity, UNCHANGED <<bytes, call>>,
             \A b \in Arenas : b # a => Room[b] = Room'[b], Room'[a] - Room[a] = m
      PROVE  Covered'
  <2>1. RoomSum' = RoomSum + (Room'[a] - Room[a])
    BY <1>w, <1>1, OwedMoves
  <2>2. RoomSum' = RoomSum + m
    BY <2>1, <1>1
  <2>3. LiveSum' = LiveSum /\ FlightSum' = FlightSum
    BY <1>1, OwedStays
  <2>4. OwedSum' - OwedSum = m
    BY <2>2, <2>3, <1>s, <1>1 DEF OwedSum
  <2>5. m <= m
    BY <1>1
  <2> QED
    BY <2>4, <2>5, <1>0, <1>w, <1>e, <1>1, CoveredNext
\* A step of one call: d is the change of the arenas' room, l of the memory that is allocated.
<1>2. ASSUME NEW t \in Threads, NEW c, call' = [call EXCEPT ![t] = c],
             NEW d \in Int, RoomSum' = RoomSum + d,
             NEW l \in Int, LiveSum' = LiveSum + l,
             NEW f \in Int, Flight'[t] = Flight[t] + f,
             NEW m \in Int, total' = Wrap(total + m), m <= 0 \/ total + m <= Capacity,
             ~Torn' => d + l + f <= m,
             events' = {} => d + l + f = m
      PROVE  Covered'
  <2>1. \A u \in Threads : u # t => call'[u] = call[u]
    BY <1>0, <1>2 DEF TypeOK
  <2>2. FlightSum' = FlightSum + (Flight'[t] - Flight[t])
    BY <1>w, <2>1, OwedMoves
  <2>3. Flight[t] \in Nat
    BY <1>w DEF OwedType
  <2>4. FlightSum' = FlightSum + f
    BY <2>2, <2>3, <1>2, <1>s
  <2>5. OwedSum' - OwedSum = d + l + f
    BY <2>4, <1>s, <1>2 DEF OwedSum
  <2> QED
    BY <2>5, <1>0, <1>w, <1>e, <1>2, CoveredNext
<1>r. ASSUME UNCHANGED arenaVars PROVE RoomSum' = RoomSum + 0
  BY <1>r, <1>s, OwedStays DEF arenaVars
<1>l. ASSUME UNCHANGED bytes PROVE LiveSum' = LiveSum + 0
  BY <1>l, <1>s, OwedStays
\* The room of one arena, when only its charge or its size changes.
<1>v. ASSUME NEW a \in arenas, arenas' = arenas,
             \A b \in Arenas : b # a => alloc'[b] = alloc[b] /\ size'[b] = size[b]
      PROVE  /\ RoomSum' = RoomSum + (Larger(0, size'[a] - alloc'[a]) - Larger(0, size[a] - alloc[a]))
             /\ Larger(0, size'[a] - alloc'[a]) \in Nat /\ Larger(0, size[a] - alloc[a]) \in Nat
  <2>1. a \in Arenas
    BY <1>0 DEF TypeOK
  <2>2. \A b \in Arenas : b # a => Room[b] = Room'[b]
    BY <1>v DEF Room, Unused
  <2>3. Room[a] = Larger(0, size[a] - alloc[a]) /\ Room'[a] = Larger(0, size'[a] - alloc'[a])
    BY <1>v, <2>1 DEF Room, Unused
  <2>4. RoomSum' = RoomSum + (Room'[a] - Room[a])
    BY <1>w, <2>1, <2>2, OwedMoves
  <2> QED
    BY <2>1, <2>3, <2>4, <1>a DEF Larger
<1>3. ASSUME NEW a \in Arenas, NEW n \in Nat, NewArena(a, n), total + n <= Capacity PROVE Covered'
  <2>1. alloc[a] = 0 /\ alloc' = alloc
    BY <1>0, <1>3, <1>k DEF NewArena, LooseEmpty, Placed
  <2>2. Room[a] = 0 /\ Room'[a] = n
    BY <1>0, <1>3, <2>1 DEF NewArena, Room, Unused, Larger, TypeOK
  <2>3. \A b \in Arenas : b # a => Room[b] = Room'[b]
    BY <1>0, <1>3 DEF NewArena, TypeOK, Room, Unused
  <2>4. total' = Wrap(total + n) /\ UNCHANGED <<bytes, call>>
    BY <1>3 DEF NewArena, ptrVars
  <2>5. Room'[a] - Room[a] = n /\ n \in Int
    BY <2>2
  <2> QED
    BY <1>1, <1>3, <2>3, <2>4, <2>5
<1>4. ASSUME NEW a \in Arenas, Loose(a) PROVE a \in arenas /\ alloc[a] = 0
  BY <1>0, <1>4 DEF Loose, LooseEmpty
<1>5. CASE Reservation
  <2>1. ASSUME NEW a \in Arenas, NEW n \in Sizes, Reserve(a, n) PROVE Covered'
    BY <2>1, <1>3, <1>z, <1>k DEF Reserve, Fits
  <2>2. ASSUME NEW a \in Arenas, NEW n \in Sizes, ReserveUpto(a, n) PROVE Covered'
    <3>1. BoundedBy(n, MemoryLimit) \in Nat
      BY <1>z, <1>k DEF BoundedBy, Smaller
    <3>2. CASE total + BoundedBy(n, MemoryLimit) <= Capacity
      BY <2>2, <3>1, <3>2, <1>3 DEF ReserveUpto
    <3>3. CASE ~(total + BoundedBy(n, MemoryLimit) <= Capacity)
      <4>1. total > Capacity
        BY <3>3, <1>z, <1>k DEF BoundedBy, Smaller
      <4>2. Torn /\ events # {}
        BY <4>1, <1>k DEF Covered, Torn
      <4> QED
        BY <4>2, <1>e DEF Covered, Torn
    <3> QED
      BY <3>2, <3>3
  <2>3. ASSUME NEW a \in Arenas, NEW n \in Sizes, GrowReservationBy(a, n) PROVE Covered'
    <3>1. a \in arenas /\ alloc[a] = 0
      BY <2>3, <1>4 DEF GrowReservationBy
    <3>2. \A b \in Arenas : b # a => Room[b] = Room'[b]
      BY <2>3, <1>0 DEF GrowReservationBy, TypeOK, Room, Unused
    <3>3. Room[a] = size[a] /\ Room'[a] = size[a] + n
      BY <2>3, <3>1, <1>0, <1>a, <1>z DEF GrowReservationBy, Room, Unused, Larger, TypeOK
    <3>4. /\ total' = Wrap(total + n) /\ UNCHANGED <<bytes, call>>
          /\ total <= MemoryLimit /\ n <= MemoryLimit - total
      BY <2>3 DEF GrowReservationBy, Fits, ptrVars
    <3>5. n \in Int /\ total + n <= Capacity /\ Room'[a] - Room[a] = n
      BY <3>3, <3>4, <1>z, <1>a, <1>k
    <3> QED
      BY <1>1, <3>2, <3>4, <3>5
  <2>4. ASSUME NEW a \in Arenas, ShrinkReservationToFit(a) PROVE Covered'
    <3> DEFINE m == -size[a]
    <3>1. a \in arenas /\ alloc[a] = 0 /\ size[a] \in Nat /\ Larger(0, alloc[a]) = 0
      BY <2>4, <1>4, <1>a DEF ShrinkReservationToFit, Larger
    <3>2. \A b \in Arenas : b # a => Room[b] = Room'[b]
      BY <2>4, <1>0 DEF ShrinkReservationToFit, TypeOK, Room, Unused
    <3>3. Room[a] = size[a] /\ Room'[a] = 0
      BY <2>4, <3>1, <1>0 DEF ShrinkReservationToFit, Room, Unused, Larger, TypeOK
    <3>4. /\ total' = Wrap(total - (size[a] - Larger(0, alloc[a])))
          /\ UNCHANGED <<bytes, call>>
      BY <2>4 DEF ShrinkReservationToFit, ptrVars
    <3>5. m \in Int /\ m <= 0 /\ Room'[a] - Room[a] = m
          /\ total - (size[a] - Larger(0, alloc[a])) = total + m
      BY <3>1, <3>3, <1>k
    <3>6. total' = Wrap(total + m)
      BY <3>4, <3>5
    <3> HIDE DEF m
    <3> QED
      BY <1>1, <3>2, <3>4, <3>5, <3>6
  <2>5. ASSUME NEW a \in Arenas, DropReservation(a) PROVE Covered'
    BY <2>5, <1>0, <1>4, <1>w, ReleaseCovers DEF DropReservation
  <2>6. ASSUME NEW a \in Arenas, NEW s \in Streams, NEW p \in Policies,
               AttachReservationToTracker(s, a, p)
        PROVE  Covered'
    <3>1. CASE UNCHANGED <<totals, arenaVars, ptrVars, call>>
      <4>1. /\ \A b \in Arenas : b # a => Room[b] = Room'[b]
            /\ Room'[a] = Room[a] /\ Room[a] \in Nat
        BY <3>1, <1>w DEF arenaVars, Room, Unused, OwedType
      <4>2. total' = total /\ UNCHANGED <<bytes, call>> /\ Room'[a] - Room[a] = 0
        BY <3>1, <4>1 DEF totals, ptrVars
      <4> QED
        BY <4>1, <4>2, <1>0w, <1>1
    <3>2. CASE DoReleaseReservation(a)
      BY <2>6, <3>2, <1>0, <1>4, <1>w, ReleaseCovers DEF AttachReservationToTracker
    <3> QED
      BY <2>6, <3>1, <3>2 DEF AttachReservationToTracker
  <2> QED
    BY <1>5, <2>1, <2>2, <2>3, <2>4, <2>5, <2>6 DEF Reservation
<1>6. ASSUME NEW s \in Streams, ResetStreamReservation(s) PROVE Covered'
  BY <1>0, <1>6, <1>w, ReleaseCovers DEF ResetStreamReservation, Placed
<1> USE DEF At, CallAt
\* A step of one call that leaves arenas, allocations and the total alone.
<1>7. ASSUME NEW t \in Threads, NEW c, call' = [call EXCEPT ![t] = c],
             UNCHANGED <<totals, arenaVars, ptrVars>>, Flight'[t] = Flight[t]
      PROVE  Covered'
  <2>1. Flight'[t] = Flight[t] + 0
    BY <1>7, <1>w DEF OwedType
  <2>2. total' = Wrap(total + 0) /\ RoomSum' = RoomSum + 0 /\ LiveSum' = LiveSum + 0
    BY <1>7, <1>r, <1>l, <1>0w DEF totals, ptrVars
  <2>3. 0 + 0 + 0 = 0 /\ 0 <= 0 /\ 0 \in Int
    OBVIOUS
  <2> QED
    BY <1>2, <1>7, <2>1, <2>2, <2>3
<1>8. ASSUME NEW t \in Threads, NEW s \in Streams, NEW n \in Sizes,
             AllocateUntracked(t, s, n) \/ AllocateBeyond(t, s, n)
      PROVE  Covered'
  <2>1. UNCHANGED <<totals, arenaVars, ptrVars>>
    BY <1>8 DEF AllocateUntracked, AllocateBeyond
  <2>2. PICK c : call' = [call EXCEPT ![t] = c]
    BY <1>8 DEF AllocateUntracked, AllocateBeyond
  <2>3. Flight[t] = 0 /\ Flight'[t] = 0
    BY <1>8, <1>0, <1>z DEF AllocateUntracked, AllocateBeyond, Flight, TypeOK
  <2> QED
    BY <2>1, <2>2, <2>3, <1>7
<1>9. ASSUME NEW t \in Threads, NEW s \in Streams, NEW n \in Sizes, AllocateWithin(t, s, n)
      PROVE  Covered'
  <2> DEFINE a == tracker[s]
             k == AlignUp(n)
             d == Larger(0, size'[a] - alloc'[a]) - Larger(0, size[a] - alloc[a])
  <2>1. /\ a \in arenas /\ a \in Arenas /\ k \in Nat /\ alloc[a] + k <= size[a]
        /\ arenas' = arenas /\ size' = size /\ alloc' = [alloc EXCEPT ![a] = alloc[a] + k]
        /\ UNCHANGED <<totals, ptrVars>> /\ call[t].at = "idle"
    BY <1>9, <1>0, <1>z DEF AllocateWithin, Placed, TypeOK
  <2>2. PICK c : call' = [call EXCEPT ![t] = c]
    BY <1>9 DEF AllocateWithin
  <2>3. UpstreamTracking(alloc[a] + k, k, size[a]) = 0
    BY <2>1, <1>a DEF UpstreamTracking
  <2>4. Flight[t] = 0 /\ Flight'[t] = k
    <3>1. call'[t] = CallAt("total", a, n, 0, 0, 0)
      BY <1>9, <1>0, <2>3 DEF AllocateWithin, TypeOK
    <3> QED
      BY <3>1, <2>1 DEF Flight
  <2>5. RoomSum' = RoomSum + d
    BY <2>1, <1>0, <1>v DEF TypeOK
  <2>6. d = -k
    <3>1. alloc'[a] = alloc[a] + k /\ size'[a] = size[a]
      BY <2>1, <1>0 DEF TypeOK
    <3> QED
      BY <3>1, <2>1, <1>a DEF Larger
  <2> HIDE DEF d, k
  <2>7. d \in Int /\ k \in Int /\ 0 \in Int /\ d + 0 + k = 0 /\ d + 0 + k <= 0 /\ Flight'[t] = Flight[t] + k
    BY <2>1, <2>4, <2>6
  <2>8. LiveSum' = LiveSum + 0 /\ total' = Wrap(total + 0)
    BY <2>1, <1>l, <1>0w DEF ptrVars, totals
  <2> QED
    BY <2>2, <2>5, <2>7, <2>8, <1>2
<1>10. ASSUME NEW t \in Threads, HandleOverReservation(t) PROVE Covered'
  <2> DEFINE a == call[t].arena
             extra == Wrap(call[t].current + AlignUp(call[t].bytes) - size[a])
             padded == (extra * PadQuarters) \div 4
  <2>1. /\ UNCHANGED <<arenas, alloc, ptrVars>> /\ call[t].at = "policy"
        /\ \/ /\ \E n \in {padded, extra} : /\ total <= MemoryLimit /\ n <= MemoryLimit - total
                                            /\ total' = Wrap(total + n)
                                            /\ size' = [size EXCEPT ![a] = @ + n]
              /\ call' = [call EXCEPT ![t].at = "charge"]
           \/ call' = [call EXCEPT ![t] = NoCall] /\ UNCHANGED <<total, size>>
    BY <1>10 DEF HandleOverReservation, Fits
  <2>2. a \in Arenas /\ a \in arenas
    BY <1>0, <1>k, <2>1 DEF BeyondAllowed, Placed
  <2>3. extra \in Nat
    BY <1>a, <1>c, <1>k, <2>2, WrapType
  <2>4. padded \in Nat
    <3> HIDE DEF extra
    <3> QED BY <2>3, PaddedType
  <2> HIDE DEF extra, padded
  <2>5. CASE call' = [call EXCEPT ![t] = NoCall] /\ UNCHANGED <<total, size>>
    <3>1. Flight[t] = 0 /\ Flight'[t] = 0
      BY <1>0, <2>1, <2>5 DEF NoCall, Flight, TypeOK
    <3>2. RoomSum' = RoomSum + 0 /\ LiveSum' = LiveSum + 0 /\ total' = Wrap(total + 0)
      BY <2>1, <2>5, <1>r, <1>l, <1>0w DEF arenaVars, ptrVars
    <3>3. 0 + 0 + 0 = 0 /\ 0 <= 0 /\ 0 \in Int /\ Flight'[t] = Flight[t] + 0
      BY <3>1
    <3> QED
      BY <2>5, <3>2, <3>3, <1>2
  <2>6. ASSUME NEW n \in {padded, extra},
               total <= MemoryLimit, n <= MemoryLimit - total, total' = Wrap(total + n),
               size' = [size EXCEPT ![a] = @ + n],
               call' = [call EXCEPT ![t].at = "charge"]
        PROVE  Covered'
    <3> DEFINE d == Larger(0, size'[a] - alloc'[a]) - Larger(0, size[a] - alloc[a])
    <3>1. n \in Nat /\ n \in Int /\ total + n <= Capacity
      BY <2>3, <2>4, <2>6, <1>k
    <3>2. PICK c : call' = [call EXCEPT ![t] = c]
      BY <2>6
    <3>3. Flight[t] = 0 /\ Flight'[t] = 0
      BY <1>0, <2>1, <2>6 DEF Call, Flight, TypeOK
    <3>4. alloc'[a] = alloc[a] /\ size'[a] = size[a] + n
      BY <2>1, <2>2, <2>6, <1>0 DEF TypeOK
    <3>5. RoomSum' = RoomSum + d
      BY <2>1, <2>2, <2>6, <1>0, <1>v DEF TypeOK
    <3>6. d \in Int /\ d <= n /\ ((size[a] < alloc[a] /\ size[a] < size'[a]) \/ d = n)
      BY <3>1, <3>4, <2>2, <1>a DEF Larger
    <3>7. events' = {} => d = n
      BY <3>6, <2>2, <1>e DEF OverrunGrows
    <3> HIDE DEF d
    <3>8. d + 0 + 0 = d /\ 0 \in Int /\ Flight'[t] = Flight[t] + 0
      BY <3>3, <3>6
    <3>9. LiveSum' = LiveSum + 0
      BY <2>1, <1>l DEF ptrVars
    <3> QED
      BY <2>6, <3>1, <3>2, <3>5, <3>6, <3>7, <3>8, <3>9, <1>2, ZenonT(30)
  <2> QED
    BY <2>1, <2>5, <2>6
\* The split of n bytes that are charged to an arena, against the change of its room.
<1>u. ASSUME NEW x \in Int, NEW n \in Nat, NEW z \in Nat
      PROVE  /\ UpstreamTracking(x, n, z) \in Nat
             /\ Larger(0, z - x) - Larger(0, z - (x - n)) = UpstreamTracking(x, n, z) - n
             /\ \A y \in Nat : y <= z => UpstreamTracking(x, n, z) <= UpstreamTracking(x, n, y)
  BY DEF UpstreamTracking, Larger
<1>11. ASSUME NEW t \in Threads, ChargeBeyond(t) PROVE Covered'
  <2> DEFINE a == call[t].arena
             n == AlignUp(call[t].bytes)
             x == alloc[a] + n
             k == UpstreamTracking(x, n, call[t].limit)
             h == UpstreamTracking(x, n, size[a])
             d == Larger(0, size'[a] - alloc'[a]) - Larger(0, size[a] - alloc[a])
             c == CallAt("total", a, call[t].bytes, 0, 0, k)
             f == n - k
  <2>1. /\ UNCHANGED <<totals, arenas, size, ptrVars>> /\ call[t].at = "charge"
        /\ alloc' = [alloc EXCEPT ![a] = x]
        /\ call' = [call EXCEPT ![t] = c]
    BY <1>11 DEF ChargeBeyond
  <2>2. a \in Arenas /\ a \in arenas /\ call[t].limit <= size[a] /\ call[t].limit \in Nat
    BY <1>0, <1>c, <1>k, <2>1 DEF BeyondAllowed, Placed, LimitRight
  <2>3. n \in Nat /\ x \in Int /\ size[a] \in Nat /\ x - n = alloc[a]
    BY <2>2, <1>a, <1>c
  <2>4. alloc'[a] = x /\ size'[a] = size[a]
    BY <2>1, <2>2, <1>0 DEF TypeOK
  <2>5. RoomSum' = RoomSum + d
    BY <2>1, <2>2, <1>0, <1>v DEF TypeOK
  <2> HIDE DEF n
  <2>6. Flight[t] = 0 /\ Flight'[t] = n - k
    <3>1. c.at = "total" /\ c.bytes = call[t].bytes /\ c.track = k
      BY DEF CallAt
    <3>2. call'[t] = c
      BY <2>1, <1>0 DEF TypeOK
    <3> HIDE DEF c, k
    <3> QED
      BY <2>1, <3>1, <3>2 DEF Flight, n
  <2> HIDE DEF x
  <2>7. h \in Nat /\ k \in Nat /\ h <= k /\ d = h - n
    <3>1. /\ h \in Nat /\ h <= k
          /\ Larger(0, size[a] - x) - Larger(0, size[a] - (x - n)) = h - n
      BY <2>2, <2>3, <1>u
    <3>2. k \in Nat
      BY <2>2, <2>3, <1>u
    <3> QED
      BY <2>3, <2>4, <3>1, <3>2
  <2>8. events' = {} => k = h
    <3>1. call'[t].at = "total"
      BY <2>1, <1>0 DEF TypeOK
    <3>2. events' = {} => call[t].limit = size[a]
      BY <2>1, <3>1, <1>e DEF StaleCharge
    <3> QED
      BY <3>2
  <2> HIDE DEF c, h, k, d
  <2>9. /\ d \in Int /\ f \in Int /\ 0 \in Int /\ 0 <= 0
        /\ d + 0 + f <= 0 /\ (k = h => d + 0 + f = 0)
    BY <2>3, <2>7
  <2>10. Flight'[t] = Flight[t] + f
    BY <2>6, <2>3, <2>7
  <2>11. LiveSum' = LiveSum + 0 /\ total' = Wrap(total + 0)
    BY <2>1, <1>l, <1>0w DEF ptrVars, totals
  <2> HIDE DEF f
  <2> QED
    BY <2>1, <2>5, <2>8, <2>9, <2>10, <2>11, <1>2
<1>12. ASSUME NEW t \in Threads, ChargeTotal(t) PROVE Covered'
  <2> DEFINE m == call[t].track
  <2>1. /\ UNCHANGED <<reserved, active, arenaVars, ptrVars>> /\ call[t].at = "total" /\ m \in Nat
    BY <1>12, <1>c DEF ChargeTotal
  <2>2. CASE total' = total /\ call' = [call EXCEPT ![t].at = "undo"]
    <3>1. Flight'[t] = Flight[t]
      BY <2>1, <2>2, <1>0 DEF Flight, TypeOK, Call
    <3> QED
      BY <2>1, <2>2, <3>1, <1>7 DEF totals
  <2>3. CASE /\ Fits(m, Capacity)
             /\ total' = Wrap(total + m)
             /\ call' = [call EXCEPT ![t].at = "upstream"]
    <3>1. Flight'[t] = AlignUp(call[t].bytes) /\ Flight[t] = AlignUp(call[t].bytes) - m
      BY <2>1, <2>3, <1>0 DEF Flight, TypeOK, Call
    <3>2. Flight'[t] = Flight[t] + m
      BY <3>1, <2>1, <1>c
    <3>3. total + m <= Capacity /\ m \in Int /\ 0 \in Int /\ 0 + 0 + m = m /\ m <= m
      BY <2>1, <2>3, <1>k DEF Fits
    <3>4. RoomSum' = RoomSum + 0 /\ LiveSum' = LiveSum + 0
      BY <2>1, <1>r, <1>l DEF ptrVars
    <3> HIDE DEF m
    <3>5. PICK c : call' = [call EXCEPT ![t] = c]
      BY <2>3
    <3> QED
      BY <2>3, <3>2, <3>3, <3>4, <3>5, <1>2
  <2> QED
    BY <1>12, <2>2, <2>3 DEF ChargeTotal
<1>13. ASSUME NEW t \in Threads, NEW p \in Ptrs, UpstreamAllocates(t, p) PROVE Covered'
  <2> DEFINE n == AlignUp(call[t].bytes)
  <2>1. /\ UNCHANGED <<totals, arenaVars>> /\ call[t].at = "upstream" /\ n \in Nat
        /\ call' = [call EXCEPT ![t] = NoCall]
        /\ bytes[p] = 0 /\ bytes' = [bytes EXCEPT ![p] = call[t].bytes]
    BY <1>13, <1>c DEF UpstreamAllocates
  <2>2. Flight[t] = n /\ Flight'[t] = 0
    BY <2>1, <1>0 DEF Flight, TypeOK, NoCall
  <2>3. Live[p] = 0 /\ Live'[p] = n
    BY <2>1, <1>0, AlignUpZero DEF Live, TypeOK
  <2>4. \A q \in Ptrs : q # p => bytes'[q] = bytes[q]
    BY <2>1, <1>0 DEF TypeOK
  <2>5. LiveSum' = LiveSum + (Live'[p] - Live[p])
    BY <2>4, <1>w, OwedMoves
  <2>6. RoomSum' = RoomSum + 0 /\ total' = Wrap(total + 0)
    BY <2>1, <1>r, <1>0w DEF totals
  <2> HIDE DEF n
  <2> DEFINE f == -n
  <2>7. LiveSum' = LiveSum + n /\ Flight'[t] = Flight[t] + f
    BY <2>1, <2>2, <2>3, <2>5
  <2>8. n \in Int /\ f \in Int /\ 0 \in Int /\ 0 + n + f = 0 /\ 0 <= 0
    BY <2>1
  <2> HIDE DEF f
  <2> QED
    BY <2>1, <2>6, <2>7, <2>8, <1>2
<1>14. ASSUME NEW t \in Threads, UpstreamThrows(t) PROVE Covered'
  <2> DEFINE k == call[t].track
             m == -k
  <2>1. /\ UNCHANGED <<arenaVars, ptrVars>> /\ call[t].at = "upstream" /\ k \in Nat
        /\ call' = [call EXCEPT ![t].at = "undo"]
        /\ total' = Wrap(total - k)
    BY <1>14, <1>c DEF UpstreamThrows
  <2>2. Flight[t] = AlignUp(call[t].bytes) /\ Flight'[t] = AlignUp(call[t].bytes) - k
    BY <2>1, <1>0 DEF Flight, TypeOK, Call
  <2> HIDE DEF k
  <2>3. Flight'[t] = Flight[t] + m /\ total - k = total + m
    BY <2>1, <2>2, <1>c, <1>k
  <2>4. m \in Int /\ m <= 0 /\ 0 \in Int /\ 0 + 0 + m = m /\ m <= m
    BY <2>1
  <2>5. RoomSum' = RoomSum + 0 /\ LiveSum' = LiveSum + 0 /\ total' = Wrap(total + m)
    BY <2>1, <2>3, <1>r, <1>l DEF ptrVars
  <2>6. PICK c : call' = [call EXCEPT ![t] = c]
    BY <2>1
  <2> HIDE DEF m
  <2> QED
    BY <2>3, <2>4, <2>5, <2>6, <1>2
<1>15. ASSUME NEW t \in Threads, UndoCharge(t) PROVE Covered'
  <2> DEFINE a == call[t].arena
             n == AlignUp(call[t].bytes)
             k == call[t].track
             f == k - n
  <2>1. /\ UNCHANGED <<totals, arenas, size, ptrVars>> /\ call[t].at = "undo"
        /\ n \in Nat /\ k \in Nat
        /\ alloc' = IF a = NoArena THEN alloc ELSE [alloc EXCEPT ![a] = @ - n]
        /\ call' = [call EXCEPT ![t] = NoCall]
    BY <1>15, <1>c DEF UndoCharge
  <2>2. Flight[t] = n - k /\ Flight'[t] = 0
    BY <2>1, <1>0 DEF Flight, TypeOK, NoCall
  <2>3. Flight'[t] = Flight[t] + f /\ f \in Int
    BY <2>1, <2>2
  <2>4. LiveSum' = LiveSum + 0 /\ total' = Wrap(total + 0)
    BY <2>1, <1>l, <1>0w DEF ptrVars, totals
  <2>5. CASE a = NoArena
    <3>1. k = n
      BY <2>1, <2>5, <1>0 DEF TrackRight
    <3>2. RoomSum' = RoomSum + 0
      BY <2>1, <2>5, <1>r DEF arenaVars
    <3> HIDE DEF n, k
    <3>3. 0 + 0 + f = 0 /\ 0 <= 0 /\ 0 \in Int
      BY <2>1, <3>1
    <3> HIDE DEF f
    <3> QED
      BY <2>1, <2>3, <2>4, <3>2, <3>3, <1>2
  <2>6. CASE a # NoArena
    <3> DEFINE h == UpstreamTracking(alloc[a], n, size[a])
               d == Larger(0, size'[a] - alloc'[a]) - Larger(0, size[a] - alloc[a])
    <3>1. a \in Arenas /\ a \in arenas /\ alloc[a] \in Int /\ size[a] \in Nat
      BY <2>6, <1>a, <1>c
    <3>2. RoomSum' = RoomSum + d
      BY <2>1, <2>6, <3>1, <1>0, <1>v DEF TypeOK
    <3>3. alloc'[a] = alloc[a] - n /\ size'[a] = size[a]
      BY <2>1, <2>6, <3>1, <1>0 DEF TypeOK
    <3>4. ~Torn' => k = h
      <4>1. call'[t].at = "idle"
        BY <2>1, <1>0 DEF TypeOK, NoCall
      <4> QED
        BY <2>1, <2>6, <4>1, <1>e DEF LateUndo
    <3> HIDE DEF n, k
    <3>5. d = n - h /\ h \in Nat
      <4>1. /\ h \in Nat
            /\ Larger(0, size[a] - alloc[a]) - Larger(0, size[a] - (alloc[a] - n)) = h - n
        BY <2>1, <3>1, <1>u
      <4>2. \A x, y \in Int : x - y = h - n => y - x = n - h
        BY <2>1, <4>1
      <4>3. /\ Larger(0, size[a] - alloc[a]) \in Int
            /\ Larger(0, size[a] - (alloc[a] - n)) \in Int
        BY <2>1, <3>1 DEF Larger
      <4> QED
        BY <3>3, <4>1, <4>2, <4>3
    <3> HIDE DEF h, d
    <3>6. d \in Int /\ (k = h => d + 0 + f = 0 /\ d + 0 + f <= 0) /\ 0 <= 0 /\ 0 \in Int
      BY <2>1, <3>5
    <3>7. events' = {} => ~Torn'
      BY <1>e
    <3> HIDE DEF f
    <3> QED
      BY <2>1, <2>3, <2>4, <3>2, <3>4, <3>6, <3>7, <1>2
  <2> QED
    BY <2>5, <2>6
<1>16. ASSUME NEW t \in Threads, NEW p \in Ptrs, NEW s \in Streams, Deallocate(t, p, s)
       PROVE  Covered'
  <2> DEFINE a == tracker[s]
             n == AlignUp(bytes[p])
             k == IF a = NoArena THEN n ELSE ReclaimedBytes(alloc[a] - n, n, size[a])
             l == -n
  <2>1. /\ UNCHANGED <<totals, arenas, size>> /\ call[t].at = "idle"
        /\ alloc' = IF a = NoArena THEN alloc ELSE [alloc EXCEPT ![a] = @ - n]
        /\ call' = [call EXCEPT ![t] = CallAt("free", NoArena, 0, 0, 0, k)]
        /\ bytes' = [bytes EXCEPT ![p] = 0]
    BY <1>16 DEF Deallocate
  <2>2. n \in Nat /\ l \in Int
    BY <1>0, AlignUpType DEF TypeOK
  <2>3. LiveSum' = LiveSum + l
    <3>1. \A q \in Ptrs : q # p => bytes'[q] = bytes[q]
      BY <2>1, <1>0 DEF TypeOK
    <3>2. Live[p] = n /\ Live'[p] = 0
      BY <2>1, <1>0, AlignUpZero DEF Live, TypeOK
    <3>3. LiveSum' = LiveSum + (Live'[p] - Live[p])
      BY <3>1, <1>w, OwedMoves
    <3> QED
      BY <2>2, <3>2, <3>3
  <2>4. total' = Wrap(total + 0)
    BY <2>1, <1>0w DEF totals
  <2> HIDE DEF n
  <2>5. Flight[t] = 0 /\ Flight'[t] = k
    <3> HIDE DEF k
    <3>1. call'[t] = CallAt("free", NoArena, 0, 0, 0, k)
      BY <2>1, <1>0 DEF TypeOK
    <3> QED
      BY <2>1, <3>1 DEF Flight
  <2>6. CASE a = NoArena
    <3>1. k = n
      BY <2>6
    <3>2. RoomSum' = RoomSum + 0
      BY <2>1, <2>6, <1>r DEF arenaVars
    <3>3. 0 + l + n = 0 /\ 0 <= 0 /\ 0 \in Int /\ n \in Int
      BY <2>2
    <3>4. Flight'[t] = Flight[t] + n
      BY <2>2, <2>5, <3>1
    <3> HIDE DEF l, k
    <3> QED
      BY <2>1, <2>2, <2>3, <2>4, <3>2, <3>3, <3>4, <1>2
  <2>7. CASE a # NoArena
    <3> DEFINE h == UpstreamTracking(alloc[a], n, size[a])
               d == Larger(0, size'[a] - alloc'[a]) - Larger(0, size[a] - alloc[a])
    <3>1. a \in Arenas /\ a \in arenas /\ alloc[a] \in Int /\ size[a] \in Nat
      BY <2>7, <1>a, <1>0 DEF Placed, TypeOK
    <3>2. RoomSum' = RoomSum + d
      BY <2>1, <2>7, <3>1, <1>0, <1>v DEF TypeOK
    <3>3. alloc'[a] = alloc[a] - n /\ size'[a] = size[a]
      BY <2>1, <2>7, <3>1, <1>0 DEF TypeOK
    <3>4. ~Torn' => ~(alloc[a] - n < size[a] /\ size[a] < alloc[a])
      <4>1. call'[t].at = "free"
        BY <2>1, <1>0 DEF TypeOK
      <4> QED
        BY <2>1, <3>1, <3>3, <4>1, <1>e DEF StraddlingFree
    <3>5. k \in Nat /\ ((alloc[a] - n < size[a] /\ size[a] < alloc[a]) \/ k = h)
      BY <2>2, <2>7, <3>1 DEF ReclaimedBytes, UpstreamTracking
    <3>6. d = n - h /\ h \in Nat
      <4>1. /\ h \in Nat
            /\ Larger(0, size[a] - alloc[a]) - Larger(0, size[a] - (alloc[a] - n)) = h - n
        BY <2>2, <3>1, <1>u
      <4>2. \A x, y \in Int : x - y = h - n => y - x = n - h
        BY <2>2, <4>1
      <4>3. /\ Larger(0, size[a] - alloc[a]) \in Int
            /\ Larger(0, size[a] - (alloc[a] - n)) \in Int
        BY <2>2, <3>1 DEF Larger
      <4> QED
        BY <3>3, <4>1, <4>2, <4>3
    <3> HIDE DEF h, d, k
    <3>7. /\ d \in Int /\ k \in Int /\ (k = h => d + l + k = 0 /\ d + l + k <= 0)
          /\ 0 <= 0 /\ 0 \in Int
      BY <2>2, <3>5, <3>6
    <3>8. Flight'[t] = Flight[t] + k
      BY <2>5, <3>5
    <3>9. (~Torn' => k = h) /\ (events' = {} => k = h)
      BY <3>4, <3>5, <1>e
    <3> HIDE DEF l
    <3>10. PICK c : call' = [call EXCEPT ![t] = c]
      BY <2>1
    <3> QED
      BY <2>2, <2>3, <2>4, <3>2, <3>7, <3>8, <3>9, <3>10, <1>2
  <2> QED
    BY <2>6, <2>7
<1>17. ASSUME NEW t \in Threads, DischargeTotal(t) PROVE Covered'
  <2> DEFINE k == call[t].track
             m == -k
  <2>1. /\ UNCHANGED <<arenaVars, ptrVars>> /\ call[t].at = "free" /\ k \in Nat
        /\ call' = [call EXCEPT ![t] = NoCall]
        /\ total' = Wrap(total - k)
    BY <1>17, <1>c DEF DischargeTotal
  <2>2. Flight[t] = k /\ Flight'[t] = 0
    BY <2>1, <1>0 DEF Flight, TypeOK, NoCall
  <2> HIDE DEF k
  <2>3. Flight'[t] = Flight[t] + m /\ total - k = total + m
    BY <2>1, <2>2, <1>k
  <2>4. m \in Int /\ m <= 0 /\ 0 \in Int /\ 0 + 0 + m = m /\ m <= m
    BY <2>1
  <2>5. RoomSum' = RoomSum + 0 /\ LiveSum' = LiveSum + 0 /\ total' = Wrap(total + m)
    BY <2>1, <2>3, <1>r, <1>l DEF ptrVars
  <2> HIDE DEF m
  <2> QED
    BY <2>1, <2>3, <2>4, <2>5, <1>2
<1> QED
  BY <1>5, <1>6, <1>8, <1>9, <1>10, <1>11, <1>12, <1>13, <1>14, <1>15, <1>16, <1>17
  DEF DriftNext, Next, Allocation, Deallocation

-----------------------------------------------------------------------------
DriftInv ==
  /\ AdaptorInv
  /\ AllExact
  /\ CallsRight
  /\ Covered

\* Every step preserves the invariant.
LEMMA DriftStep == DriftInv /\ [DriftNext]_driftVars => DriftInv'
<1> SUFFICES ASSUME DriftInv, [DriftNext]_driftVars PROVE DriftInv'
  OBVIOUS
<1>0. AdaptorInv /\ AllExact /\ CallsRight /\ Covered
  BY DEF DriftInv
<1>1. [Next]_vars
  BY DEF DriftNext, driftVars
<1>2. AdaptorInv' /\ AllExact' /\ CallsRight'
  BY <1>0, <1>1, AdaptorStep, ExactStep, CallsStep
<1>3. CASE DriftNext
  BY <1>0, <1>2, <1>3, CoversStep DEF DriftInv
<1>4. CASE UNCHANGED driftVars
  <2>1. UNCHANGED <<total, arenas, size, alloc, bytes, call, events>>
    BY <1>4 DEF driftVars, vars
  <2>2. OwedSum' = OwedSum
    BY <2>1, OwedStays DEF OwedSum
  <2>3. Covered'
    BY <1>0, <2>1, <2>2 DEF Covered, Torn
  <2> QED
    BY <1>2, <2>3 DEF DriftInv
<1> QED
  BY <1>3, <1>4

\* The initial state: nothing is reserved, allocated or under way.
LEMMA DriftInitial == DriftInit => DriftInv
<1> SUFFICES ASSUME DriftInit PROVE DriftInv
  OBVIOUS
<1>1. Init /\ events = {}
  BY DEF DriftInit
<1>2. AdaptorInv /\ AllExact
  BY <1>1, AdaptorInitial, ExactInit
<1>3. CallsRight
  BY <1>1 DEF Init, CallsRight, TrackRight, LimitRight, NoCall, CallAt
<1>4. Covered
  <2>1. \A a \in Arenas : Room[a] = 0
    BY <1>1 DEF Init, Room
  <2>2. \A p \in Ptrs : Live[p] = 0
    BY <1>1, AlignUpZero DEF Init, Live
  <2>3. \A t \in Threads : Flight[t] = 0
    BY <1>1 DEF Init, Flight, NoCall, CallAt
  <2>4. RoomSum = 0 /\ LiveSum = 0 /\ FlightSum = 0
    BY <2>1, <2>2, <2>3, TallyZero DEF RoomSum, LiveSum, FlightSum
  <2>5. OwedSum = 0 /\ total = 0
    BY <1>1, <2>4 DEF Init, OwedSum
  <2> QED
    BY <2>5, AdaptorAssumption DEF Covered
<1> QED
  BY <1>2, <1>3, <1>4 DEF DriftInv

\* The inductive invariant of the adaptor: wherever memory is freed, the total
\* is tied to the room of arenas, the memory that is allocated and the calls
\* under way.
THEOREM DriftInvariant == DriftSpec => []DriftInv
<1>1. DriftInv /\ [DriftNext]_driftVars => DriftInv'
  BY DriftStep
<1> QED
  BY DriftInitial, <1>1, PTL DEF DriftSpec

\* What is owed, as the properties state it.
LEMMA OwedIsOwedSum == DriftInv => Owed = OwedSum
  BY SumsAreTallies DEF DriftInv, AdaptorInv, TypeOK, AsTallies

\* _total_allocated_bytes is never lower than the memory that is allocated
\* plus the room left in reservations, through overruns, growth of overrun
\* reservations, failures, stray frees and reservations that die in use, until
\* a free straddles the end of a reservation or an allocation fails late.
THEOREM TotalCovers == DriftSpec => []CoversUntilTorn
<1>1. DriftInv => CoversUntilTorn
  BY OwedIsOwedSum DEF DriftInv, Covered, CoversUntilTorn
<1> QED
  BY <1>1, DriftInvariant, PTL

\* It is exactly that until the first of the five events: memory that is freed
\* on the stream of another reservation becomes room of that reservation.
THEOREM TotalIsExact == DriftSpec => []TotalExactUntilDrift
<1>1. DriftInv => TotalExactUntilDrift
  BY OwedIsOwedSum DEF DriftInv, Covered, TotalExactUntilDrift
<1> QED
  BY <1>1, DriftInvariant, PTL

\* The device is never promised more memory than it has, although
\* reservations and allocations are checked against two different bounds.
THEOREM CapacityIsKept == DriftSpec => []CapacityUntilTorn
<1>1. DriftInv => CapacityUntilTorn
  BY DEF DriftInv, Covered, CapacityUntilTorn
<1> QED
  BY <1>1, DriftInvariant, PTL

=============================================================================
