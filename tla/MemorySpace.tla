----------------------------- MODULE MemorySpace -----------------------------
(***************************************************************************)
(* memory_space and memory_reservation_manager                             *)
(* (src/memory/memory_space.cpp, memory_reservation_manager.cpp) over the  *)
(* lock-free counters of include/utils/atomics.hpp: threads ask for        *)
(* reservations through a strategy or on a space, and release them.        *)
(*                                                                         *)
(* The resource behind a space counts reservations as disk_access_limiter  *)
(* does (the GPU and host resources use the same calls; what they allocate *)
(* is in ReservationAdaptor and HostResource).  Every atomic operation is  *)
(* a step; a local decision belongs to the load it follows.  A weak        *)
(* compare-and-exchange that fails for no reason changes nothing and is no *)
(* step.  grow_by and shrink_to_fit of a disk arena do nothing.            *)
(***************************************************************************)
EXTENDS Strategies, FiniteSets, Sums

CONSTANTS
  Threads, Slots,  \* callers, and the reservations they can hold
  Configs,         \* the memory spaces: tier, id, capacity, limit
  Requests,        \* the requests that clients make
  Sizes,           \* bytes they ask for
  SizeMod          \* 2^64 in the code

\* Counters are size_t: neither a capacity nor the number of reservations and
\* threads there can be is out of its range.  What a strategy returns are
\* spaces of the manager.
ASSUME SpaceAssumption ==
  /\ IsFiniteSet(Threads) /\ IsFiniteSet(Slots) /\ Threads \cap Slots = {}
  /\ Sizes \subseteq Nat \ {0}
  /\ SizeMod \in Nat /\ Cardinality(Threads) + Cardinality(Slots) < SizeMod
  /\ \A i \in DOMAIN Configs :
       /\ i # NoSpace
       /\ Configs[i].capacity \in 0..(SizeMod - 1) /\ Configs[i].limit \in 0..Configs[i].capacity
  /\ \A request \in Requests : GetCandidates(Configs, request) \in Seq(DOMAIN Configs)

VARIABLES
  total,  \* _total_allocated_bytes of every space
  peak,   \* _peak_total_allocated_bytes
  count,  \* _total_reservation_count
  res,    \* the reservation objects: space, size, and whether there is an arena
  call,   \* the call a thread is in
  top     \* history: the highest total there ever was

spaceVars == <<total, peak, count, res, call, top>>

Spaces == DOMAIN Configs
Limit(s) == Configs[s].limit

NoRes == [space |-> NoSpace, size |-> 0, arena |-> FALSE]
NewRes(s, n) == [space |-> s, size |-> n, arena |-> TRUE]

\* asked: the size given; bytes: what is left of it; current: the value a loop
\* has loaded; post: what the addition brought the total to.
NoCall == [at |-> "idle", space |-> NoSpace, upto |-> FALSE, asked |-> 0, bytes |-> 0,
           current |-> 0, post |-> 0]

Init ==
  /\ total = [s \in Spaces |-> 0]
  /\ peak = [s \in Spaces |-> 0]
  /\ count = [s \in Spaces |-> 0]
  /\ res = [r \in Slots |-> NoRes]
  /\ call = [t \in Threads |-> NoCall]
  /\ top = [s \in Spaces |-> 0]

-----------------------------------------------------------------------------
Wrap(n) == n % SizeMod

At(t, where) == call[t].at = where

Goes(t, where) == call' = [call EXCEPT ![t].at = where]

Least(m, n) == IF m < n THEN m ELSE n

GetActiveReservationCount(s) == count[s]

\* reserve(n): the loop of try_add.
TryAddSees(c, value) ==
  LET bound == Limit(c.space)
  IN  [c EXCEPT !.current = value,
                !.at = IF bound < value \/ bound - value < c.bytes THEN "null" ELSE "cas"]

\* reserve_upto(n): the loop of add_bounded; the amount only ever shrinks.
AddBoundedSees(c, value) ==
  IF value < Limit(c.space)
  THEN [c EXCEPT !.current = value, !.at = "cas", !.bytes = Least(@, Limit(c.space) - value)]
  ELSE [c EXCEPT !.current = value, !.at = "count", !.bytes = 0]

Sees(c, value) == IF c.upto THEN AddBoundedSees(c, value) ELSE TryAddSees(c, value)

-----------------------------------------------------------------------------
Begin(t, s, n, upto) ==
  call' = [call EXCEPT ![t] = [NoCall EXCEPT !.at = "load", !.space = s, !.upto = upto,
                                             !.asked = n, !.bytes = n]]

\* select_memory_space_and_make_reservation: make_reservation_or_null and
\* make_reservation always return an object, so the first candidate answers
\* and no other is tried.
SelectMemorySpace(request) ==
  LET candidates == GetCandidates(Configs, request)
  IN  IF candidates = <<>> THEN NoSpace ELSE Head(candidates)

\* request_reservation: without a candidate the thread waits for _wait_cv,
\* which nobody notifies.
RequestReservation(t, request, n) ==
  LET s == SelectMemorySpace(request)
  IN  /\ At(t, "idle")
      /\ \/ s = NoSpace /\ Goes(t, "wait")
         \/ s # NoSpace /\ Begin(t, s, n, FALSE)
      /\ UNCHANGED <<total, peak, count, res, top>>

MakeReservationUpto(t, s, n) ==
  /\ At(t, "idle")
  /\ Begin(t, s, n, TRUE)
  /\ UNCHANGED <<total, peak, count, res, top>>

Load(t) ==
  /\ At(t, "load")
  /\ call' = [call EXCEPT ![t] = Sees(call[t], total[call[t].space])]
  /\ UNCHANGED <<total, peak, count, res, top>>

\* compare_exchange_weak: the failure loads the value for the next turn.
CompareExchange_Blind(t) ==
  LET c == call[t]
      post == Wrap(c.current + c.bytes)
  IN  /\ At(t, "cas")
      /\ total' = [total EXCEPT ![c.space] = post]
      /\ top' = [top EXCEPT ![c.space] = IF post > @ THEN post ELSE @]
      /\ call' = [call EXCEPT ![t].at = "peak", ![t].post = post]
      /\ UNCHANGED <<peak, count, res>>

CompareExchange_NoReload(t) ==
  LET c == call[t]
      post == Wrap(c.current + c.bytes)
  IN  /\ At(t, "cas")
      /\ total[c.space] = c.current
      /\ total' = [total EXCEPT ![c.space] = post]
      /\ top' = [top EXCEPT ![c.space] = IF post > @ THEN post ELSE @]
      /\ call' = [call EXCEPT ![t].at = "peak", ![t].post = post]
      /\ UNCHANGED <<peak, count, res>>

CompareExchange(t) ==
  LET c == call[t]
      post == Wrap(c.current + c.bytes)
  IN  /\ At(t, "cas")
      /\ \/ /\ total[c.space] = c.current
            /\ total' = [total EXCEPT ![c.space] = post]
            /\ top' = [top EXCEPT ![c.space] = IF post > @ THEN post ELSE @]
            /\ call' = [call EXCEPT ![t].at = "peak", ![t].post = post]
         \/ /\ total[c.space] # c.current
            /\ call' = [call EXCEPT ![t] = Sees(c, total[c.space])]
            /\ UNCHANGED <<total, top>>
      /\ UNCHANGED <<peak, count, res>>

\* update_peak: a load, and exchanges as long as the peak is lower.
PeakSees(t, value) ==
  call' = [call EXCEPT ![t].current = value,
                       ![t].at = IF call[t].post > value THEN "raise" ELSE "count"]

LoadPeak(t) ==
  /\ At(t, "peak")
  /\ PeakSees(t, peak[call[t].space])
  /\ UNCHANGED <<total, peak, count, res, top>>

RaisePeak_Store(t) ==
  /\ At(t, "raise")
  /\ peak' = [peak EXCEPT ![call[t].space] = call[t].post]
  /\ Goes(t, "count")
  /\ UNCHANGED <<total, count, res, top>>

RaisePeak(t) ==
  LET c == call[t]
  IN  /\ At(t, "raise")
      /\ \/ /\ peak[c.space] = c.current
            /\ peak' = [peak EXCEPT ![c.space] = c.post]
            /\ Goes(t, "count")
         \/ /\ peak[c.space] # c.current
            /\ PeakSees(t, peak[c.space])
            /\ UNCHANGED peak
      /\ UNCHANGED <<total, count, res, top>>

\* The arena exists, is counted, and is returned in a reservation.
CountArena_SkipEmpty(t, r) ==
  LET c == call[t]
  IN  /\ At(t, "count")
      /\ res[r] = NoRes
      /\ count' = IF c.bytes = 0 THEN count ELSE [count EXCEPT ![c.space] = Wrap(@ + 1)]
      /\ res' = [res EXCEPT ![r] = NewRes(c.space, c.bytes)]
      /\ call' = [call EXCEPT ![t] = NoCall]
      /\ UNCHANGED <<total, peak, top>>

CountArena(t, r) ==
  LET c == call[t]
  IN  /\ At(t, "count")
      /\ res[r] = NoRes
      /\ count' = [count EXCEPT ![c.space] = Wrap(@ + 1)]
      /\ res' = [res EXCEPT ![r] = NewRes(c.space, c.bytes)]
      /\ call' = [call EXCEPT ![t] = NoCall]
      /\ UNCHANGED <<total, peak, top>>

\* A refused reservation is returned all the same, around a null arena; the
\* client finds out and drops it.  (The only check is an assert, which a release
\* build does not have.)
ReturnNull(t) ==
  /\ At(t, "null")
  /\ call' = [call EXCEPT ![t] = NoCall]
  /\ UNCHANGED <<total, peak, count, res, top>>

\* The destructor of an arena gives the bytes back, and then leaves the count.
ReleaseBytes(t, r) ==
  /\ At(t, "idle")
  /\ res[r].arena
  /\ total' = [total EXCEPT ![res[r].space] = Wrap(@ - res[r].size)]
  /\ call' = [call EXCEPT ![t] = [NoCall EXCEPT !.at = "release", !.space = res[r].space]]
  /\ res' = [res EXCEPT ![r] = NoRes]
  /\ UNCHANGED <<peak, count, top>>

ReleaseCount(t) ==
  /\ At(t, "release")
  /\ count' = [count EXCEPT ![call[t].space] = Wrap(@ - 1)]
  /\ call' = [call EXCEPT ![t] = NoCall]
  /\ UNCHANGED <<total, peak, res, top>>

\* Bound: a call starts only when there is a slot for its reservation.
HasSlot == Cardinality({t \in Threads : ~At(t, "idle")}) < Cardinality({r \in Slots : res[r] = NoRes})

Client(t) ==
  \/ \E n \in Sizes :
       /\ HasSlot
       /\ \/ \E request \in Requests : RequestReservation(t, request, n)
          \/ \E s \in Spaces : MakeReservationUpto(t, s, n)
  \/ \E r \in Slots : ReleaseBytes(t, r)

Progress(t) ==
  \/ Load(t) \/ CompareExchange(t) \/ LoadPeak(t) \/ RaisePeak(t)
  \/ \E r \in Slots : CountArena(t, r)
  \/ ReturnNull(t) \/ ReleaseCount(t)

Next == \E t \in Threads : Client(t) \/ Progress(t)

\* A thread inside a call goes on running.
Spec == Init /\ [][Next]_spaceVars /\ \A t \in Threads : WF_spaceVars(Progress(t))

-----------------------------------------------------------------------------
(* Properties.                                                             *)

Added(t) == call[t].at \in {"peak", "raise", "count"}

\* What a thread asks the ledger for, its answer, and what it or a reservation
\* claims.
Asked ==
  [t \in Threads |->
     IF call[t].at \in {"idle", "release", "wait"}
     THEN [space |-> NoSpace, size |-> 0, upto |-> FALSE]
     ELSE [space |-> call[t].space, size |-> call[t].asked, upto |-> call[t].upto]]

Answer ==
  [t \in Threads |-> IF Added(t) THEN "granted" ELSE IF At(t, "null") THEN "refused" ELSE "none"]

Claim ==
  [h \in Threads \cup Slots |->
     IF h \in Slots THEN [space |-> res[h].space, size |-> res[h].size]
     ELSE IF Added(h) THEN [space |-> call[h].space, size |-> call[h].bytes]
     ELSE [space |-> NoSpace, size |-> 0]]

Claims == INSTANCE Ledger WITH asked <- Asked, answer <- Answer, claim <- Claim

\* The counters implement a ledger: however the loads and exchanges of several
\* threads interleave, a reservation is granted or refused as if the claims of
\* all reservations had been added up in one step, and the limit is kept.
ImplementsLedger == Claims!LedgerSpec

\* The peak is the highest total there ever was, as soon as no thread is
\* between its addition and the update of the peak; it never overstates it.
PeakExact ==
  \A s \in Spaces :
    /\ peak[s] <= top[s]
    /\ (\A t \in Threads : call[t].space = s => call[t].at \notin {"peak", "raise"}) => peak[s] = top[s]

\* get_active_reservation_count never misses a reservation that a client
\* holds, and counts beyond those only the ones that are being destroyed.
CountExact ==
  \A s \in Spaces :
    GetActiveReservationCount(s) = Cardinality({r \in Slots : res[r].arena /\ res[r].space = s})
                 + Cardinality({t \in Threads : At(t, "release") /\ call[t].space = s})

\* The loops are lock-free: once the totals stop changing, every thread that
\* reserves or releases gets out of its call.  (A request without candidates
\* is not among them: it waits for ever.)
EndsUnlessContended ==
  <>[][total' = total]_spaceVars
    => \A t \in Threads : call[t].at \notin {"idle", "wait"} ~> At(t, "idle")

\* test/memory/test_memory_reservation_manager.cpp, lines 496 to 510: a
\* request for a tier that does not fit on the first space of the tier is made
\* on another one where it fits.
RefusedOnlyWhenNoneFits ==
  \A t \in Threads : At(t, "null") =>
    \A s \in Spaces : Configs[s].tier = Configs[call[t].space].tier =>
      Limit(s) - total[s] < call[t].asked

=============================================================================
