---------------------------- MODULE AdaptorDrift ----------------------------
(***************************************************************************)
(* ReservationAdaptor, and what its total has to cover.  A reservation is  *)
(* charged to the total in advance, so the total should be what the arenas *)
(* have left, plus the memory that is allocated, wherever it was charged:  *)
(* a free on the stream of another arena gives that arena the room, "as    *)
(* extra reservation" (test_memory_reservation_manager.cpp, line 243).     *)
(* Five events make the total drift away from this; the history variable   *)
(* "events" holds the ones that happened.                                  *)
(***************************************************************************)
EXTENDS ReservationAdaptor

CONSTANTS
  \* Bounds on the states in which calls begin:
  MaxCharge,  \* what an arena is charged, either way
  MaxEvents   \* the kinds of events that happened

ASSUME DriftAssumption == MaxCharge \in Nat /\ MaxEvents \in Nat

VARIABLE events

driftVars == <<vars, events>>

\* A free brings an arena from above its size to below it.
StraddlingFree ==
  \E t \in Threads, a \in Arenas :
    At(t, "idle") /\ call'[t].at = "free" /\ alloc'[a] < size[a] /\ size[a] < alloc[a]

\* An allocation fails, and what it charged to the total is not the part of it
\* that is beyond the reservation by then.
LateUndo ==
  \E t \in Threads :
    /\ At(t, "undo") /\ call'[t].at = "idle" /\ call[t].arena # NoArena
    /\ call[t].track # UpstreamTracking(alloc[call[t].arena], AlignUp(call[t].bytes),
                                        size[call[t].arena])

\* The arena grew after the call had read its size.
StaleCharge ==
  \E t \in Threads :
    At(t, "charge") /\ call'[t].at = "total" /\ call[t].limit # size[call[t].arena]

\* Reserved bytes for what was charged to the total already.
OverrunGrows == \E a \in Arenas : size[a] < alloc[a] /\ size[a] < size'[a]

\* An arena dies with the room that stray frees gave it.
ExtraLost == \E a \in arenas \ arenas' : alloc[a] < 0

Happening ==
  (IF StraddlingFree THEN {"straddle"} ELSE {}) \cup (IF LateUndo THEN {"undo"} ELSE {})
    \cup (IF StaleCharge THEN {"stale"} ELSE {}) \cup (IF OverrunGrows THEN {"grow"} ELSE {})
    \cup (IF ExtraLost THEN {"lost"} ELSE {})

DriftInit == Init /\ events = {}

DriftNext ==
  /\ Next
  /\ events' = events \cup Happening
  /\ (\E t \in Threads : At(t, "idle") /\ call'[t].at # "idle") =>
       /\ \A a \in Arenas : alloc[a] \in -MaxCharge..MaxCharge
       /\ Cardinality(events) <= MaxEvents

DriftSpec == DriftInit /\ [][DriftNext]_driftVars

-----------------------------------------------------------------------------
(* Properties.                                                             *)

\* The room that an arena has left.
Unused(a) == Larger(0, size[a] - alloc[a])

\* The part of a call that the total has to cover: the bytes taken out of the
\* arena's room, the whole allocation once the total is charged with the rest,
\* and what a free has yet to give back.
InFlight(t) ==
  CASE At(t, "total") \/ At(t, "undo") -> AlignUp(call[t].bytes) - call[t].track
    [] At(t, "upstream")               -> AlignUp(call[t].bytes)
    [] At(t, "free")                   -> call[t].track
    [] OTHER                           -> 0

Owed ==
  SumOver(arenas, Unused) + SumOver(Ptrs, LAMBDA p : AlignUp(bytes[p]))
    + SumOver(Threads, InFlight)

\* The two events that give back to the total more than there is to give.
Torn == "straddle" \in events \/ "undo" \in events

\* _total_allocated_bytes covers all memory that is allocated and all that is
\* still promised to reservations: overruns, growth of overrun reservations,
\* failures, memory freed on other streams than it was allocated on and
\* reservations that die with memory in use included, it is never too low
\* before a free straddles the end of a reservation or an allocation that went
\* beyond one fails late.
CoversUntilTorn == ~Torn => Owed <= total

\* The total is exact until the first of the five events.
TotalExactUntilDrift == events = {} => total = Owed

\* The device is not promised more memory than it has: the limit of
\* reservations and the capacity of allocations are two bounds on the same
\* counter, which threads raise and lower one step at a time.
CapacityUntilTorn == ~Torn => total <= Capacity

\* test_memory_reservation_manager.cpp, lines 316 and 317: once reservations
\* and allocations are gone, the total is back at 0.  Nothing out of the
\* ordinary happened, apart from frees that straddle the end of a reservation.
AllFreedIsZero ==
  /\ events \subseteq {"straddle"}
  /\ arenas = {} /\ (\A p \in Ptrs : bytes[p] = 0) /\ (\A t \in Threads : At(t, "idle"))
  => total = 0

=============================================================================
