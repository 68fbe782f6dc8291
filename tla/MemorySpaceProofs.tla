-------------------------- MODULE MemorySpaceProofs --------------------------
(***************************************************************************)
(* The lock-free counters of a memory space, for any number of threads,    *)
(* reservations and spaces.                                                *)
(*                                                                         *)
(* A thread between two atomic operations carries values it has loaded;    *)
(* the invariant (CallOK) says which of them it may still rely on: the     *)
(* amount of a compare-and-exchange fits below the limit if the exchange   *)
(* succeeds, and a total that is not in the peak yet is in the hands of a  *)
(* thread that is about to raise it.  That the total is the sum of what    *)
(* threads and reservations claim (TotalIsClaims) ties the counter to the  *)
(* ledger it implements.                                                   *)
(***************************************************************************)
EXTENDS MemorySpace, SumTheorems, SequenceTheorems, TLAPS

Holders == Threads \cup Slots

Sites == {"idle", "wait", "load", "cas", "null", "peak", "raise", "count", "release"}

CallRec == [at : Sites, space : Spaces \cup {NoSpace}, upto : BOOLEAN, asked : Nat, bytes : Nat,
            current : Nat, post : Nat]

SpaceTypeOK ==
  /\ total \in [Spaces -> Nat]
  /\ peak \in [Spaces -> Nat]
  /\ count \in [Spaces -> Nat]
  /\ top \in [Spaces -> Nat]
  /\ call \in [Threads -> CallRec]
  /\ res = [r \in Slots |-> res[r]]
  /\ \A r \in Slots : res[r] = NoRes \/ \E s \in Spaces, n \in Nat : res[r] = NewRes(s, n)

\* What a thread knows between two atomic operations.
CallOK(t) ==
  LET c == call[t]
  IN  /\ c.at \notin {"idle", "wait"} => c.space \in Spaces
      /\ c.at \in {"load", "cas", "null", "peak", "raise", "count"} =>
           c.asked \in Sizes /\ c.bytes <= c.asked /\ (c.upto \/ c.bytes = c.asked)
      /\ c.at \in {"load", "cas"} => c.bytes > 0
      /\ c.at = "cas" => c.current + c.bytes <= Limit(c.space)
      /\ c.at = "null" => ~c.upto
      /\ c.at \in {"peak", "raise"} => c.post <= top[c.space]
      /\ c.at = "raise" => c.post > c.current

CallsOK == \A t \in Threads : CallOK(t)

\* The claims on a space.
Weight(s) == [h \in Holders |-> IF Claim[h].space = s THEN Claim[h].size ELSE 0]

TotalIsClaims == \A s \in Spaces : total[s] = Tally(Holders, Weight(s)) /\ total[s] <= Limit(s)

\* A highest total that is not in the peak is on its way there.
PeakComing ==
  \A s \in Spaces :
    /\ peak[s] <= top[s]
    /\ \/ peak[s] = top[s]
       \/ \E t \in Threads : /\ call[t].at \in {"peak", "raise"} /\ call[t].space = s
                             /\ call[t].post = top[s]

SpaceInv == SpaceTypeOK /\ CallsOK /\ TotalIsClaims /\ PeakComing /\ CountExact

-----------------------------------------------------------------------------
(* The ledger's view of a thread, by the call it is in.                    *)

NothingClaimed == [space |-> NoSpace, size |-> 0]

Mine(c) ==
  IF c.at \in {"peak", "raise", "count"} THEN [space |-> c.space, size |-> c.bytes] ELSE NothingClaimed

Wanted(c) ==
  IF c.at \in {"idle", "release", "wait"} THEN [space |-> NoSpace, size |-> 0, upto |-> FALSE]
  ELSE [space |-> c.space, size |-> c.asked, upto |-> c.upto]

Told(c) ==
  IF c.at \in {"peak", "raise", "count"} THEN "granted" ELSE IF c.at = "null" THEN "refused" ELSE "none"

Kept(x) == [space |-> x.space, size |-> x.size]

\* The view is that of the calls and of the reservations.
Views ==
  /\ Asked = [u \in Threads |-> Wanted(call[u])]
  /\ Answer = [u \in Threads |-> Told(call[u])]
  /\ Claim = [h \in Holders |-> IF h \in Slots THEN Kept(res[h]) ELSE Mine(call[h])]

\* It is so in every state.
LEMMA ViewsHold == Views
<1>1. Asked = [u \in Threads |-> Wanted(call[u])]
  BY DEF Asked, Wanted
<1>2. Answer = [u \in Threads |-> Told(call[u])]
  BY DEF Answer, Told, Added, At
<1>3. ASSUME NEW h \in Holders
      PROVE  Claim[h] = IF h \in Slots THEN Kept(res[h]) ELSE Mine(call[h])
  BY DEF Claim, Holders, Kept, Mine, NothingClaimed, Added
<1>4. Claim = [h \in Holders |-> IF h \in Slots THEN Kept(res[h]) ELSE Mine(call[h])]
  BY <1>3 DEF Claim, Holders
<1> QED
  BY <1>1, <1>2, <1>4 DEF Views

\* A step of one thread that leaves the reservations alone.
LEMMA ThreadView ==
  ASSUME SpaceTypeOK, NEW t \in Threads, NEW d, call' = [call EXCEPT ![t] = d], res' = res
  PROVE  /\ Asked' = [Asked EXCEPT ![t] = Wanted(d)]
         /\ Answer' = [Answer EXCEPT ![t] = Told(d)]
         /\ Claim' = [Claim EXCEPT ![t] = Mine(d)]
         /\ call'[t] = d /\ \A u \in Threads : u # t => call'[u] = call[u]
<1>1. Views /\ Views'
  BY ViewsHold, PTL
<1>2. call'[t] = d /\ \A u \in Threads : u # t => call'[u] = call[u]
  BY DEF SpaceTypeOK
<1>3. t \in Holders /\ t \notin Slots
  BY SpaceAssumption DEF Holders
<1>4. Asked' = [Asked EXCEPT ![t] = Wanted(d)]
  BY <1>1, <1>2 DEF Views
<1>5. Answer' = [Answer EXCEPT ![t] = Told(d)]
  BY <1>1, <1>2 DEF Views
<1>6. Claim' = [Claim EXCEPT ![t] = Mine(d)]
  <2>1. \A h \in Holders : h \notin Slots => h \in Threads
    BY DEF Holders
  <2> QED
    BY <1>1, <1>2, <1>3, <2>1 DEF Views
<1> QED
  BY <1>2, <1>4, <1>5, <1>6

\* What a claim weighs on a space.
Amount(k, s) == IF k.space = s THEN k.size ELSE 0

\* The weights of a space are natural numbers, of a finite set of holders.
LEMMA WeightType ==
  ASSUME SpaceTypeOK, NEW s
  PROVE  /\ Weight(s) \in [Holders -> Nat] /\ IsFiniteSet(Holders)
         /\ \A h \in Holders : Weight(s)[h] = Amount(Claim[h], s)
<1>1. IsFiniteSet(Holders)
  BY SpaceAssumption, FS_Union DEF Holders
<1>2. ASSUME NEW h \in Holders PROVE Amount(Claim[h], s) \in Nat
  <2>1. Views
    BY ViewsHold
  <2>2. CASE h \in Slots
    <3>1. Claim[h] = Kept(res[h])
      BY <2>1, <2>2 DEF Views
    <3>2. Kept(res[h]).size \in Nat
      BY <2>2 DEF SpaceTypeOK, NoRes, NewRes, Kept
    <3> QED
      BY <3>1, <3>2 DEF Amount
  <2>3. CASE h \notin Slots
    <3>1. Claim[h] = Mine(call[h]) /\ call[h] \in CallRec
      BY <2>1, <2>3 DEF Views, Holders, SpaceTypeOK
    <3>2. Mine(call[h]).size \in Nat
      BY <3>1 DEF Mine, NothingClaimed, CallRec
    <3> QED
      BY <3>1, <3>2 DEF Amount
  <2> QED
    BY <2>2, <2>3
<1> QED
  BY <1>1, <1>2 DEF Weight, Amount

\* The same as a property of every state.
WeightsTyped ==
  SpaceTypeOK => \A s \in Spaces : /\ Weight(s) \in [Holders -> Nat]
                                  /\ \A h \in Holders : Weight(s)[h] = Amount(Claim[h], s)

LEMMA WeightsAreTyped == WeightsTyped
  BY WeightType DEF WeightsTyped

\* Threads that do not move know what they knew: the highest total only grows.
LEMMA OthersOK ==
  ASSUME SpaceTypeOK, CallsOK, NEW u \in Threads, call'[u] = call[u],
         \A s \in Spaces : top'[s] \in Nat /\ top[s] <= top'[s]
  PROVE  CallOK(u)'
<1>1. CallOK(u) /\ call[u] \in CallRec
  BY DEF CallsOK, SpaceTypeOK
<1>2. call[u].at \in {"peak", "raise"} => call[u].post <= top'[call[u].space]
  BY <1>1 DEF CallOK, CallRec, SpaceTypeOK
<1> QED
  BY <1>1, <1>2 DEF CallOK

\* A claim that changes by what the total changes by.
LEMMA TotalFollows ==
  ASSUME SpaceTypeOK, SpaceTypeOK', TotalIsClaims, NEW h \in Holders,
         \A g \in Holders : g # h => Claim'[g] = Claim[g],
         \A s \in Spaces :
           /\ total'[s] - Amount(Claim'[h], s) = total[s] - Amount(Claim[h], s)
           /\ total'[s] <= Limit(s)
  PROVE  TotalIsClaims'
<1>2. ASSUME NEW s \in Spaces PROVE total'[s] = Tally(Holders, Weight(s)')
  <2>1. PICK v, w : v = Weight(s) /\ w = Weight(s)'
    OBVIOUS
  <2>2. v \in [Holders -> Nat] /\ IsFiniteSet(Holders) /\ \A g \in Holders : v[g] = Amount(Claim[g], s)
    BY <2>1, WeightType
  <2>3. w \in [Holders -> Nat] /\ \A g \in Holders : w[g] = Amount(Claim'[g], s)
    <3>1. WeightsTyped'
      BY WeightsAreTyped, PTL
    <3> QED
      BY <2>1, <3>1 DEF WeightsTyped, Amount
  <2>4. w[h] = Amount(Claim'[h], s) /\ \A g \in Holders : g # h => v[g] = w[g]
    BY <2>2, <2>3
  <2>5. Tally(Holders, w) - w[h] = Tally(Holders, v) - v[h]
    BY <2>2, <2>3, <2>4, TallyChange
  <2>6. Tally(Holders, w) \in Nat /\ total[s] = Tally(Holders, v) /\ total[s] \in Nat /\ total'[s] \in Nat
    BY <2>1, <2>2, <2>3, TallyType DEF TotalIsClaims, SpaceTypeOK
  <2>7. v[h] \in Nat /\ w[h] \in Nat /\ v[h] = Amount(Claim[h], s)
    BY <2>2, <2>3
  <2> QED
    BY <2>1, <2>4, <2>5, <2>6, <2>7
<1> QED
  BY <1>2 DEF TotalIsClaims, Limit

\* A step that changes no counter and no reservation.
LEMMA QuietKeeps ==
  ASSUME SpaceInv, NEW t \in Threads, NEW d \in CallRec, call' = [call EXCEPT ![t] = d],
         UNCHANGED <<total, peak, count, res, top>>,
         \A s \in Spaces : Amount(Mine(d), s) = Amount(Mine(call[t]), s),
         call[t].at \in {"peak", "raise"} =>
           /\ d.space = call[t].space /\ d.post = call[t].post
           /\ d.at \in {"peak", "raise"} \/ call[t].post <= peak[call[t].space],
         call[t].at # "release", d.at # "release", CallOK(t)'
  PROVE  SpaceInv'
<1>0. SpaceTypeOK /\ CallsOK /\ TotalIsClaims /\ PeakComing /\ CountExact
  BY DEF SpaceInv
<1>1. /\ Claim' = [Claim EXCEPT ![t] = Mine(d)]
      /\ call'[t] = d /\ \A u \in Threads : u # t => call'[u] = call[u]
  BY <1>0, ThreadView
<1>2. SpaceTypeOK'
  BY <1>0 DEF SpaceTypeOK
<1>3. CallsOK'
  <2>1. \A s \in Spaces : top'[s] \in Nat /\ top[s] <= top'[s]
    BY <1>0 DEF SpaceTypeOK
  <2>2. ASSUME NEW u \in Threads PROVE CallOK(u)'
    BY <1>0, <1>1, <2>1, OthersOK
  <2> QED
    BY <2>2 DEF CallsOK
<1>4. TotalIsClaims'
  <2>1. t \in Holders /\ t \notin Slots
    BY SpaceAssumption DEF Holders
  <2>2. Claim[t] = Mine(call[t])
    BY <2>1, ViewsHold DEF Views
  <2>3. Claim'[t] = Mine(d) /\ \A h \in Holders : h # t => Claim'[h] = Claim[h]
    BY <1>1, <2>1, ViewsHold DEF Views
  <2>4. \A s \in Spaces : /\ total'[s] - Amount(Claim'[t], s) = total[s] - Amount(Claim[t], s)
                          /\ total'[s] <= Limit(s)
    BY <1>0, <2>2, <2>3 DEF TotalIsClaims
  <2> QED
    BY <1>0, <1>2, <2>1, <2>3, <2>4, TotalFollows
<1>5. PeakComing'
  <2> SUFFICES ASSUME NEW s \in Spaces, peak[s] # top[s]
               PROVE  \E u \in Threads : /\ call'[u].at \in {"peak", "raise"} /\ call'[u].space = s
                                         /\ call'[u].post = top[s]
    BY <1>0 DEF PeakComing
  <2>1. PICK u \in Threads : /\ call[u].at \in {"peak", "raise"} /\ call[u].space = s
                             /\ call[u].post = top[s]
    BY <1>0 DEF PeakComing
  <2>2. peak[s] < top[s]
    BY <1>0 DEF PeakComing, SpaceTypeOK
  <2>3. CASE u = t
    <3>1. ~(call[t].post <= peak[s])
      BY <1>0, <2>1, <2>2, <2>3 DEF SpaceTypeOK
    <3> QED
      BY <1>1, <2>1, <2>3, <3>1
  <2> QED
    BY <1>1, <2>1, <2>3
<1>6. CountExact'
  <2>1. \A u \in Threads : At(u, "release")' <=> At(u, "release")
    BY <1>1 DEF At
  <2>2. \A u \in Threads : At(u, "release") => call'[u] = call[u]
    BY <1>1 DEF At
  <2>3. \A s \in Spaces : {u \in Threads : At(u, "release") /\ call[u].space = s}'
                           = {u \in Threads : At(u, "release") /\ call[u].space = s}
    BY <2>1, <2>2
  <2> QED
    BY <1>0, <2>3 DEF CountExact, GetActiveReservationCount
<1> QED
  BY <1>2, <1>3, <1>4, <1>5, <1>6 DEF SpaceInv

-----------------------------------------------------------------------------
(* The loops of try_add and add_bounded.                                   *)

\* What a turn of the loop makes of the total it sees.
LEMMA SeesGives ==
  ASSUME NEW c \in CallRec, c.space \in Spaces, c.bytes > 0, NEW value \in Nat,
         value <= Limit(c.space), NEW d, d = Sees(c, value)
  PROVE  /\ d \in CallRec /\ d.space = c.space /\ d.asked = c.asked /\ d.upto = c.upto
         /\ \/ /\ d.at = "cas" /\ d.bytes > 0 /\ d.bytes <= c.bytes /\ (c.upto \/ d.bytes = c.bytes)
               /\ d.current = value /\ value + d.bytes <= Limit(c.space)
            \/ d.at = "null" /\ ~c.upto /\ d.bytes = c.bytes /\ value + c.bytes > Limit(c.space)
            \/ d.at = "count" /\ c.upto /\ d.bytes = 0 /\ value = Limit(c.space)
<1>1. Limit(c.space) \in Nat /\ c.bytes \in Nat
  BY SpaceAssumption DEF Limit, Spaces, CallRec
<1> DEFINE bound == Limit(c.space)
           left == bound - value
           where == IF bound < value \/ bound - value < c.bytes THEN "null" ELSE "cas"
           some == Least(c.bytes, left)
<1>2. CASE ~c.upto
  <2>1. d = [c EXCEPT !.current = value, !.at = where]
    BY <1>2 DEF Sees, TryAddSees
  <2>2. where \in {"null", "cas"} /\ (where = "cas" => value + c.bytes <= bound)
        /\ (where = "null" => value + c.bytes > bound)
    BY <1>1
  <2> HIDE DEF where, bound
  <2>3. d \in CallRec /\ d.space = c.space /\ d.asked = c.asked /\ d.upto = c.upto
        /\ d.at = where /\ d.bytes = c.bytes /\ d.current = value
    BY <2>1, <2>2 DEF CallRec, Sites
  <2>4. c.bytes <= c.bytes
    BY <1>1
  <2> QED
    BY <1>2, <2>2, <2>3, <2>4 DEF bound
<1>3. CASE c.upto /\ value < bound
  <2>1. d = [c EXCEPT !.current = value, !.at = "cas", !.bytes = some]
    BY <1>3 DEF Sees, AddBoundedSees
  <2>2. some \in Nat /\ some > 0 /\ some <= c.bytes /\ value + some <= bound
    BY <1>1, <1>3 DEF Least
  <2> HIDE DEF some, bound
  <2>3. d \in CallRec /\ d.space = c.space /\ d.asked = c.asked /\ d.upto = c.upto
        /\ d.at = "cas" /\ d.bytes = some /\ d.current = value
    BY <2>1, <2>2 DEF CallRec, Sites
  <2> QED
    BY <1>3, <2>2, <2>3 DEF bound
<1>4. CASE c.upto /\ ~(value < bound)
  <2>1. d = [c EXCEPT !.current = value, !.at = "count", !.bytes = 0]
    BY <1>4 DEF Sees, AddBoundedSees
  <2>2. value = bound
    BY <1>1, <1>4
  <2> HIDE DEF bound
  <2>3. PICK n \in Nat : n = 0
    OBVIOUS
  <2>4. d = [c EXCEPT !.current = value, !.at = "count", !.bytes = n]
    BY <2>1, <2>3
  <2>5. d \in CallRec /\ d.space = c.space /\ d.asked = c.asked /\ d.upto = c.upto
        /\ d.at = "count" /\ d.bytes = n /\ d.current = value
    BY <2>4 DEF CallRec, Sites
  <2> QED
    BY <1>4, <2>2, <2>3, <2>5 DEF bound
<1> QED
  BY <1>2, <1>3, <1>4

-----------------------------------------------------------------------------
(* The steps that change no counter.                                       *)

\* A thread enters a call.
LEMMA BeginKeeps ==
  ASSUME SpaceInv, NEW t \in Threads, At(t, "idle"), NEW s \in Spaces, NEW n \in Sizes,
         NEW upto \in BOOLEAN, Begin(t, s, n, upto), UNCHANGED <<total, peak, count, res, top>>
  PROVE  SpaceInv'
<1>1. PICK d : d = [NoCall EXCEPT !.at = "load", !.space = s, !.upto = upto, !.asked = n, !.bytes = n]
  OBVIOUS
<1>2. n \in Nat /\ n > 0
  BY SpaceAssumption
<1>3. /\ d \in CallRec /\ d.at = "load" /\ d.space = s /\ d.asked = n /\ d.bytes = n
      /\ call' = [call EXCEPT ![t] = d]
  BY <1>1, <1>2 DEF NoCall, CallRec, Sites, Begin
<1>4. call'[t] = d
  BY <1>3 DEF SpaceInv, SpaceTypeOK
<1>5. CallOK(t)'
  BY <1>2, <1>3, <1>4 DEF CallOK
<1>6. Mine(d) = Mine(call[t])
  BY <1>3 DEF At, Mine
<1> QED
  BY <1>3, <1>5, <1>6, QuietKeeps DEF At

\* The first candidate of a request is a space of the manager.
LEMMA SelectedSpace ==
  ASSUME NEW request \in Requests
  PROVE  SelectMemorySpace(request) \in Spaces \cup {NoSpace}
<1>1. PICK q : q = GetCandidates(Configs, request)
  OBVIOUS
<1>2. q \in Seq(Spaces)
  BY <1>1, SpaceAssumption DEF Spaces
<1>3. q # <<>> => Head(q) \in Spaces
  BY <1>2, HeadTailProperties
<1> QED
  BY <1>1, <1>3 DEF SelectMemorySpace

\* A request without candidates waits.
LEMMA RequestKeeps ==
  ASSUME SpaceInv, NEW t \in Threads, NEW request \in Requests, NEW n \in Sizes,
         RequestReservation(t, request, n)
  PROVE  SpaceInv'
<1>0. At(t, "idle") /\ UNCHANGED <<total, peak, count, res, top>>
  BY DEF RequestReservation
<1>1. CASE Goes(t, "wait")
  <2>1. PICK d : d = [call[t] EXCEPT !.at = "wait"]
    OBVIOUS
  <2>2. d \in CallRec /\ d.at = "wait" /\ call' = [call EXCEPT ![t] = d] /\ call'[t] = d
    BY <1>1, <2>1 DEF Goes, SpaceInv, SpaceTypeOK, CallRec, Sites
  <2>3. CallOK(t)' /\ Mine(d) = Mine(call[t])
    BY <1>0, <2>2 DEF CallOK, Mine, At
  <2> QED
    BY <1>0, <2>2, <2>3, QuietKeeps DEF At
<1>2. CASE SelectMemorySpace(request) # NoSpace /\ Begin(t, SelectMemorySpace(request), n, FALSE)
  <2>1. PICK s : s = SelectMemorySpace(request)
    OBVIOUS
  <2>2. s \in Spaces /\ FALSE \in BOOLEAN /\ Begin(t, s, n, FALSE)
    BY <1>2, <2>1, SelectedSpace
  <2> QED
    BY <1>0, <2>2, BeginKeeps
<1> QED
  BY <1>1, <1>2 DEF RequestReservation

\* A turn of the loop that loads, or reloads, the total.
LEMMA LoopKeeps ==
  ASSUME SpaceInv, NEW t \in Threads, call[t].at \in {"load", "cas"},
         call' = [call EXCEPT ![t] = Sees(call[t], total[call[t].space])],
         UNCHANGED <<total, peak, count, res, top>>
  PROVE  SpaceInv'
<1>1. PICK c, d : c = call[t] /\ d = Sees(c, total[c.space])
  OBVIOUS
<1>2. /\ c \in CallRec /\ c.space \in Spaces /\ c.bytes > 0 /\ c.asked \in Sizes /\ c.bytes <= c.asked
      /\ (c.upto \/ c.bytes = c.asked)
      /\ total[c.space] \in Nat /\ total[c.space] <= Limit(c.space)
  BY <1>1 DEF SpaceInv, SpaceTypeOK, CallsOK, CallOK, TotalIsClaims
<1>3. /\ d \in CallRec /\ d.space = c.space /\ d.asked = c.asked /\ d.upto = c.upto
      /\ \/ /\ d.at = "cas" /\ d.bytes > 0 /\ d.bytes <= c.bytes /\ (c.upto \/ d.bytes = c.bytes)
            /\ d.current = total[c.space] /\ total[c.space] + d.bytes <= Limit(c.space)
         \/ d.at = "null" /\ ~c.upto /\ d.bytes = c.bytes /\ total[c.space] + c.bytes > Limit(c.space)
         \/ d.at = "count" /\ c.upto /\ d.bytes = 0 /\ total[c.space] = Limit(c.space)
  <2>1. PICK v : v = total[c.space]
    OBVIOUS
  <2> QED
    BY <1>1, <1>2, <2>1, SeesGives
<1>4. call' = [call EXCEPT ![t] = d] /\ call'[t] = d
  BY <1>1 DEF SpaceInv, SpaceTypeOK
<1>5. d.bytes <= d.asked /\ (d.upto \/ d.bytes = d.asked) /\ d.asked \in Sizes
  <2>1. c.asked \in Nat /\ c.bytes \in Nat /\ d.bytes \in Nat
    BY <1>2, <1>3 DEF CallRec
  <2> QED
    BY <1>2, <1>3, <2>1
<1>6. CallOK(t)'
  BY <1>2, <1>3, <1>4, <1>5 DEF CallOK, Limit
<1>7. \A s \in Spaces : Amount(Mine(d), s) = Amount(Mine(call[t]), s)
  <2>1. Mine(call[t]) = NothingClaimed
    BY DEF Mine
  <2>2. Mine(d).size = 0
    BY <1>3 DEF Mine, NothingClaimed
  <2> QED
    BY <2>1, <2>2 DEF Amount, NothingClaimed
<1> QED
  BY <1>3, <1>4, <1>6, <1>7, QuietKeeps

\* update_peak looks at the peak, once or once more.
LEMMA LookKeeps ==
  ASSUME SpaceInv, NEW t \in Threads, call[t].at \in {"peak", "raise"},
         PeakSees(t, peak[call[t].space]), UNCHANGED <<total, peak, count, res, top>>
  PROVE  SpaceInv'
<1>1. PICK c, v : c = call[t] /\ v = peak[c.space]
  OBVIOUS
<1>2. PICK w : w = IF c.post > v THEN "raise" ELSE "count"
  OBVIOUS
<1>3. PICK d : d = [c EXCEPT !.current = v, !.at = w]
  OBVIOUS
<1>4. /\ c \in CallRec /\ CallOK(t) /\ c.space \in Spaces /\ v \in Nat
      /\ c.at \in {"peak", "raise"} /\ c.post \in Nat
  BY <1>1 DEF SpaceInv, SpaceTypeOK, CallsOK, CallOK, CallRec
<1>5. w \in {"raise", "count"} /\ (w = "raise" => c.post > v) /\ (w = "count" => c.post <= v)
  BY <1>2, <1>4
<1>6. call' = [call EXCEPT ![t] = d]
  BY <1>1, <1>2, <1>3 DEF PeakSees, SpaceInv, SpaceTypeOK, CallRec
<1>7. /\ d \in CallRec /\ d.space = c.space /\ d.asked = c.asked /\ d.upto = c.upto /\ d.bytes = c.bytes
      /\ d.post = c.post /\ d.current = v /\ d.at = w
  BY <1>3, <1>4, <1>5 DEF CallRec, Sites
<1>8. call'[t] = d
  BY <1>6 DEF SpaceInv, SpaceTypeOK
<1>9. CallOK(t)'
  BY <1>1, <1>4, <1>5, <1>7, <1>8 DEF CallOK
<1>10. Mine(d) = Mine(call[t])
  BY <1>1, <1>4, <1>5, <1>7 DEF Mine
<1>11. /\ d.space = call[t].space /\ d.post = call[t].post
       /\ d.at \in {"peak", "raise"} \/ call[t].post <= peak[call[t].space]
  BY <1>1, <1>5, <1>7
<1> QED
  BY <1>1, <1>4, <1>5, <1>6, <1>7, <1>9, <1>10, <1>11, QuietKeeps

\* The call of a refused reservation returns.
LEMMA NullKeeps ==
  ASSUME SpaceInv, NEW t \in Threads, ReturnNull(t)
  PROVE  SpaceInv'
<1>1. NoCall \in CallRec /\ NoCall.at = "idle"
  BY DEF NoCall, CallRec, Sites
<1>2. /\ call[t].at = "null" /\ call' = [call EXCEPT ![t] = NoCall] /\ call'[t] = NoCall
      /\ UNCHANGED <<total, peak, count, res, top>>
  BY DEF ReturnNull, At, SpaceInv, SpaceTypeOK
<1>3. CallOK(t)' /\ Mine(NoCall) = Mine(call[t])
  BY <1>1, <1>2 DEF CallOK, Mine
<1> QED
  BY <1>1, <1>2, <1>3, QuietKeeps

-----------------------------------------------------------------------------
(* The steps that change a counter.                                        *)

\* No wrapping within the range of size_t.
LEMMA WrapSmall ==
  ASSUME NEW n \in Nat, n < SizeMod
  PROVE  Wrap(n) = n
<1>1. SizeMod \in Nat
  BY SpaceAssumption
<1> QED
  BY <1>1 DEF Wrap

Active(s) == {r \in Slots : res[r].arena /\ res[r].space = s}

Leaving(s) == {t \in Threads : At(t, "release") /\ call[t].space = s}

\* The sets that are counted are finite, and small enough for the counter.
LEMMA CountedSets ==
  ASSUME NEW A \in SUBSET Slots, NEW B \in SUBSET Threads
  PROVE  /\ IsFiniteSet(A) /\ IsFiniteSet(B) /\ Cardinality(A) \in Nat /\ Cardinality(B) \in Nat
         /\ Cardinality(A) + Cardinality(B) < SizeMod
<1>1. IsFiniteSet(Slots) /\ IsFiniteSet(Threads) /\ SizeMod \in Nat
      /\ Cardinality(Threads) + Cardinality(Slots) < SizeMod
  BY SpaceAssumption
<1>2. IsFiniteSet(A) /\ IsFiniteSet(B) /\ Cardinality(A) <= Cardinality(Slots)
      /\ Cardinality(B) <= Cardinality(Threads)
  BY <1>1, FS_Subset
<1>3. Cardinality(A) \in Nat /\ Cardinality(B) \in Nat /\ Cardinality(Slots) \in Nat
      /\ Cardinality(Threads) \in Nat
  BY <1>1, <1>2, FS_CardinalityType
<1> QED
  BY <1>1, <1>2, <1>3

\* The count of a space is that of its reservations and of the threads that
\* are destroying one.
LEMMA CountIs ==
  CountExact <=> \A s \in Spaces : count[s] = Cardinality(Active(s)) + Cardinality(Leaving(s))
  BY DEF CountExact, GetActiveReservationCount, Active, Leaving

\* A compare-and-exchange that succeeds.
LEMMA ExchangeKeeps ==
  ASSUME SpaceInv, NEW t \in Threads, NEW c, c = call[t], c.at = "cas", total[c.space] = c.current,
         NEW post, post = Wrap(c.current + c.bytes),
         total' = [total EXCEPT ![c.space] = post],
         top' = [top EXCEPT ![c.space] = IF post > @ THEN post ELSE @],
         call' = [call EXCEPT ![t].at = "peak", ![t].post = post],
         UNCHANGED <<peak, count, res>>
  PROVE  SpaceInv'
<1>0. SpaceTypeOK /\ CallsOK /\ TotalIsClaims /\ PeakComing /\ CountExact
  BY DEF SpaceInv
<1>1. /\ c \in CallRec /\ c.space \in Spaces /\ c.asked \in Sizes /\ c.bytes <= c.asked
      /\ (c.upto \/ c.bytes = c.asked) /\ c.current + c.bytes <= Limit(c.space)
  BY <1>0 DEF SpaceTypeOK, CallsOK, CallOK
<1>2. post \in Nat /\ post = total[c.space] + c.bytes /\ post <= Limit(c.space)
  <2>1. c.current \in Nat /\ c.bytes \in Nat
    BY <1>1 DEF CallRec
  <2>2. Limit(c.space) \in Nat /\ Limit(c.space) < SizeMod /\ SizeMod \in Nat
    BY <1>1, SpaceAssumption DEF Limit, Spaces
  <2>3. c.current + c.bytes \in Nat /\ c.current + c.bytes < SizeMod
    BY <1>1, <2>1, <2>2
  <2> QED
    BY <1>1, <2>1, <2>3, WrapSmall
<1>3. PICK d : d = [c EXCEPT !.at = "peak", !.post = post]
  OBVIOUS
<1>4. /\ d \in CallRec /\ d.at = "peak" /\ d.post = post /\ d.space = c.space /\ d.asked = c.asked
      /\ d.bytes = c.bytes /\ d.upto = c.upto
  BY <1>1, <1>2, <1>3 DEF CallRec, Sites
<1>5. call' = [call EXCEPT ![t] = d]
  BY <1>0, <1>3 DEF SpaceTypeOK, CallRec
<1>6. /\ Claim' = [Claim EXCEPT ![t] = Mine(d)]
      /\ call'[t] = d /\ \A u \in Threads : u # t => call'[u] = call[u]
  BY <1>0, <1>5, ThreadView
<1>7. PICK high : high = IF post > top[c.space] THEN post ELSE top[c.space]
  OBVIOUS
<1>8. high \in Nat /\ top[c.space] <= high /\ post <= high /\ (high = post \/ high = top[c.space])
      /\ top[c.space] \in Nat
  BY <1>0, <1>1, <1>2, <1>7 DEF SpaceTypeOK
<1>9. /\ top' \in [Spaces -> Nat] /\ top'[c.space] = high
      /\ \A s \in Spaces : s # c.space => top'[s] = top[s]
  BY <1>0, <1>1, <1>7, <1>8 DEF SpaceTypeOK
<1>10. /\ total' \in [Spaces -> Nat] /\ total'[c.space] = post
       /\ \A s \in Spaces : s # c.space => total'[s] = total[s]
  BY <1>0, <1>1, <1>2 DEF SpaceTypeOK
<1>11. SpaceTypeOK'
  <2>1. call' \in [Threads -> CallRec]
    BY <1>0, <1>4, <1>5 DEF SpaceTypeOK
  <2>2. peak' \in [Spaces -> Nat] /\ count' \in [Spaces -> Nat]
    BY <1>0 DEF SpaceTypeOK
  <2>3. /\ res' = [r \in Slots |-> res'[r]]
        /\ \A r \in Slots : res'[r] = NoRes \/ \E s \in Spaces, n \in Nat : res'[r] = NewRes(s, n)
    BY <1>0 DEF SpaceTypeOK
  <2> QED
    BY <1>9, <1>10, <2>1, <2>2, <2>3 DEF SpaceTypeOK
<1>12. CallsOK'
  <2>1. \A s \in Spaces : top'[s] \in Nat /\ top[s] <= top'[s]
    BY <1>0, <1>8, <1>9 DEF SpaceTypeOK
  <2>2. CallOK(t)'
    BY <1>1, <1>4, <1>6, <1>8, <1>9 DEF CallOK
  <2>3. ASSUME NEW u \in Threads PROVE CallOK(u)'
    BY <1>0, <1>6, <2>1, <2>2, OthersOK
  <2> QED
    BY <2>3 DEF CallsOK
<1>13. TotalIsClaims'
  <2>1. t \in Holders /\ t \notin Slots
    BY SpaceAssumption DEF Holders
  <2>2. Claim[t] = NothingClaimed
    BY <2>1, ViewsHold DEF Views, Mine
  <2>3. Claim'[t] = Mine(d) /\ \A h \in Holders : h # t => Claim'[h] = Claim[h]
    BY <1>6, <2>1, ViewsHold DEF Views
  <2>4. Claim'[t].space = c.space /\ Claim'[t].size = c.bytes
    BY <1>4, <2>3 DEF Mine
  <2>5. ASSUME NEW s \in Spaces
        PROVE  /\ total'[s] - Amount(Claim'[t], s) = total[s] - Amount(Claim[t], s)
               /\ total'[s] <= Limit(s)
    <3>1. s # NoSpace /\ total[s] \in Nat /\ c.bytes \in Nat /\ total[s] <= Limit(s)
      BY <1>0, <1>1, SpaceAssumption DEF Spaces, SpaceTypeOK, CallRec, TotalIsClaims
    <3>2. Amount(Claim[t], s) = 0
      BY <2>2, <3>1 DEF Amount, NothingClaimed
    <3>3. CASE s = c.space
      BY <1>2, <1>10, <2>4, <3>1, <3>2, <3>3 DEF Amount
    <3>4. CASE s # c.space
      BY <1>10, <2>4, <3>1, <3>2, <3>4 DEF Amount
    <3> QED
      BY <3>3, <3>4
  <2> QED
    BY <1>0, <1>11, <2>1, <2>3, <2>5, TotalFollows
<1>14. PeakComing'
  <2> SUFFICES ASSUME NEW s \in Spaces
               PROVE  /\ peak[s] <= top'[s]
                      /\ \/ peak[s] = top'[s]
                         \/ \E u \in Threads : /\ call'[u].at \in {"peak", "raise"} /\ call'[u].space = s
                                               /\ call'[u].post = top'[s]
    BY DEF PeakComing
  <2>1. peak[s] <= top[s] /\ peak[s] \in Nat /\ top[s] \in Nat
    BY <1>0 DEF PeakComing, SpaceTypeOK
  <2>2. CASE top'[s] = top[s]
    <3>1. CASE peak[s] = top[s]
      BY <2>1, <2>2, <3>1
    <3>2. CASE peak[s] # top[s]
      <4>1. PICK u \in Threads : /\ call[u].at \in {"peak", "raise"} /\ call[u].space = s
                                 /\ call[u].post = top[s]
        BY <1>0, <3>2 DEF PeakComing
      <4>2. u # t
        BY <4>1
      <4> QED
        BY <1>6, <2>1, <2>2, <4>1, <4>2
    <3> QED
      BY <3>1, <3>2
  <2>3. CASE s = c.space /\ top'[s] = post
    <3>1. peak[s] <= top'[s]
      BY <1>8, <1>9, <2>1, <2>3
    <3>2. call'[t].at \in {"peak", "raise"} /\ call'[t].space = s /\ call'[t].post = top'[s]
      BY <1>4, <1>6, <2>3
    <3> QED
      BY <3>1, <3>2
  <2> QED
    BY <1>8, <1>9, <2>2, <2>3
<1>15. CountExact'
  <2>1. \A u \in Threads : At(u, "release")' <=> At(u, "release")
    BY <1>4, <1>6 DEF At
  <2>2. \A u \in Threads : At(u, "release") => call'[u] = call[u]
    BY <1>6 DEF At
  <2>3. \A s \in Spaces : {u \in Threads : At(u, "release") /\ call[u].space = s}'
                           = {u \in Threads : At(u, "release") /\ call[u].space = s}
    BY <2>1, <2>2
  <2> QED
    BY <1>0, <2>3 DEF CountExact, GetActiveReservationCount
<1> QED
  BY <1>11, <1>12, <1>13, <1>14, <1>15 DEF SpaceInv

\* The peak is raised to the total of the thread.
LEMMA RaiseKeeps ==
  ASSUME SpaceInv, NEW t \in Threads, NEW c, c = call[t], c.at = "raise", peak[c.space] = c.current,
         peak' = [peak EXCEPT ![c.space] = c.post], Goes(t, "count"),
         UNCHANGED <<total, count, res, top>>
  PROVE  SpaceInv'
<1>0. SpaceTypeOK /\ CallsOK /\ TotalIsClaims /\ PeakComing /\ CountExact
  BY DEF SpaceInv
<1>1. /\ c \in CallRec /\ c.space \in Spaces /\ c.asked \in Sizes /\ c.bytes <= c.asked
      /\ (c.upto \/ c.bytes = c.asked) /\ c.post <= top[c.space] /\ c.post > c.current
      /\ c.post \in Nat
  BY <1>0 DEF SpaceTypeOK, CallsOK, CallOK, CallRec
<1>2. PICK d : d = [c EXCEPT !.at = "count"]
  OBVIOUS
<1>3. /\ d \in CallRec /\ d.at = "count" /\ d.space = c.space /\ d.asked = c.asked
      /\ d.bytes = c.bytes /\ d.upto = c.upto
  BY <1>1, <1>2 DEF CallRec, Sites
<1>4. call' = [call EXCEPT ![t] = d]
  BY <1>0, <1>2 DEF Goes, SpaceTypeOK, CallRec
<1>5. /\ Claim' = [Claim EXCEPT ![t] = Mine(d)]
      /\ call'[t] = d /\ \A u \in Threads : u # t => call'[u] = call[u]
  BY <1>0, <1>4, ThreadView
<1>6. /\ peak' \in [Spaces -> Nat] /\ peak'[c.space] = c.post
      /\ \A s \in Spaces : s # c.space => peak'[s] = peak[s]
  BY <1>0, <1>1 DEF SpaceTypeOK
<1>7. SpaceTypeOK'
  BY <1>0, <1>3, <1>4, <1>6 DEF SpaceTypeOK
<1>8. CallsOK'
  <2>1. \A s \in Spaces : top'[s] \in Nat /\ top[s] <= top'[s]
    BY <1>0 DEF SpaceTypeOK
  <2>2. CallOK(t)'
    BY <1>1, <1>3, <1>5 DEF CallOK
  <2>3. ASSUME NEW u \in Threads PROVE CallOK(u)'
    BY <1>0, <1>5, <2>1, <2>2, OthersOK
  <2> QED
    BY <2>3 DEF CallsOK
<1>9. TotalIsClaims'
  <2>1. t \in Holders /\ t \notin Slots
    BY SpaceAssumption DEF Holders
  <2>2. Claim[t] = Mine(c) /\ Mine(c) = Mine(d)
    BY <1>3, <2>1, ViewsHold DEF Views, Mine
  <2>3. Claim'[t] = Mine(d) /\ \A h \in Holders : h # t => Claim'[h] = Claim[h]
    BY <1>5, <2>1, ViewsHold DEF Views
  <2>4. \A s \in Spaces : /\ total'[s] - Amount(Claim'[t], s) = total[s] - Amount(Claim[t], s)
                          /\ total'[s] <= Limit(s)
    BY <1>0, <2>2, <2>3 DEF TotalIsClaims
  <2> QED
    BY <1>0, <1>7, <2>1, <2>3, <2>4, TotalFollows
<1>10. PeakComing'
  <2> SUFFICES ASSUME NEW s \in Spaces
               PROVE  /\ peak'[s] <= top[s]
                      /\ \/ peak'[s] = top[s]
                         \/ \E u \in Threads : /\ call'[u].at \in {"peak", "raise"} /\ call'[u].space = s
                                               /\ call'[u].post = top[s]
    BY DEF PeakComing
  <2>1. peak[s] <= top[s] /\ peak[s] \in Nat /\ top[s] \in Nat
    BY <1>0 DEF PeakComing, SpaceTypeOK
  <2>2. peak'[s] <= top[s]
    BY <1>1, <1>6, <2>1
  <2>3. CASE peak[s] = top[s]
    <3>1. s # c.space
      BY <1>1, <2>1, <2>3
    <3> QED
      BY <1>6, <2>2, <2>3, <3>1
  <2>4. CASE peak[s] # top[s]
    <3>1. PICK u \in Threads : /\ call[u].at \in {"peak", "raise"} /\ call[u].space = s
                               /\ call[u].post = top[s]
      BY <1>0, <2>4 DEF PeakComing
    <3>2. CASE u = t
      BY <1>6, <2>2, <3>1, <3>2
    <3>3. CASE u # t
      BY <1>5, <2>2, <3>1, <3>3
    <3> QED
      BY <3>2, <3>3
  <2> QED
    BY <2>3, <2>4
<1>11. CountExact'
  <2>1. \A u \in Threads : At(u, "release")' <=> At(u, "release")
    BY <1>3, <1>5 DEF At
  <2>2. \A u \in Threads : At(u, "release") => call'[u] = call[u]
    BY <1>5 DEF At
  <2>3. \A s \in Spaces : {u \in Threads : At(u, "release") /\ call[u].space = s}'
                           = {u \in Threads : At(u, "release") /\ call[u].space = s}
    BY <2>1, <2>2
  <2> QED
    BY <1>0, <2>3 DEF CountExact, GetActiveReservationCount
<1> QED
  BY <1>7, <1>8, <1>9, <1>10, <1>11 DEF SpaceInv

\* A claim that passes from a thread to a reservation.
LEMMA TotalStays ==
  ASSUME SpaceTypeOK, SpaceTypeOK', TotalIsClaims, NEW h \in Holders, NEW g \in Holders, h # g,
         \A x \in Holders : x # h /\ x # g => Claim'[x] = Claim[x],
         Claim'[g] = Claim[h], Claim[g] = NothingClaimed, Claim'[h] = NothingClaimed, total' = total
  PROVE  TotalIsClaims'
<1>2. ASSUME NEW s \in Spaces PROVE total[s] = Tally(Holders, Weight(s)')
  <2>1. PICK v, w : v = Weight(s) /\ w = Weight(s)'
    OBVIOUS
  <2>2. v \in [Holders -> Nat] /\ IsFiniteSet(Holders) /\ \A x \in Holders : v[x] = Amount(Claim[x], s)
    BY <2>1, WeightType
  <2>3. w \in [Holders -> Nat] /\ \A x \in Holders : w[x] = Amount(Claim'[x], s)
    <3>1. WeightsTyped'
      BY WeightsAreTyped, PTL
    <3> QED
      BY <2>1, <3>1 DEF WeightsTyped, Amount
  <2>4. s # NoSpace
    BY SpaceAssumption DEF Spaces
  <2>5. v[g] = 0 /\ w[h] = 0 /\ w[g] = v[h] /\ \A x \in Holders : x # h /\ x # g => v[x] = w[x]
    BY <2>2, <2>3, <2>4 DEF Amount, NothingClaimed
  <2>6. Tally(Holders, w) = Tally(Holders, v)
    BY <2>2, <2>3, <2>5, TallyPass
  <2> QED
    BY <2>1, <2>6 DEF TotalIsClaims
<1> QED
  BY <1>2 DEF TotalIsClaims, Limit

\* The arena is counted and becomes the client's reservation.
LEMMA CountKeeps ==
  ASSUME SpaceInv, NEW t \in Threads, NEW r \in Slots, CountArena(t, r)
  PROVE  SpaceInv'
<1>0. SpaceTypeOK /\ CallsOK /\ TotalIsClaims /\ PeakComing /\ CountExact
  BY DEF SpaceInv
<1>1. PICK c : c = call[t]
  OBVIOUS
<1>2. /\ c.at = "count" /\ res[r] = NoRes
      /\ count' = [count EXCEPT ![c.space] = Wrap(@ + 1)]
      /\ res' = [res EXCEPT ![r] = NewRes(c.space, c.bytes)]
      /\ call' = [call EXCEPT ![t] = NoCall] /\ UNCHANGED <<total, peak, top>>
  BY <1>1 DEF CountArena, At
<1>3. c \in CallRec /\ c.space \in Spaces /\ c.bytes \in Nat /\ c.space # NoSpace
  BY <1>0, <1>1, <1>2, SpaceAssumption DEF SpaceTypeOK, CallsOK, CallOK, CallRec, Spaces
<1>4. NoCall \in CallRec /\ NoCall.at = "idle"
  BY DEF NoCall, CallRec, Sites
<1>5. /\ call' \in [Threads -> CallRec] /\ call'[t] = NoCall
      /\ \A u \in Threads : u # t => call'[u] = call[u]
  BY <1>0, <1>2, <1>4 DEF SpaceTypeOK
<1>6. /\ res'[r] = NewRes(c.space, c.bytes) /\ \A q \in Slots : q # r => res'[q] = res[q]
      /\ res' = [q \in Slots |-> res'[q]]
  BY <1>0, <1>2 DEF SpaceTypeOK
<1>7. /\ res'[r].arena /\ res'[r].space = c.space /\ ~res[r].arena
      /\ Kept(res'[r]) = Mine(c) /\ Kept(res[r]) = NothingClaimed /\ Mine(NoCall) = NothingClaimed
  BY <1>2, <1>4, <1>6 DEF NewRes, NoRes, Kept, Mine, NothingClaimed
<1>8. \A s \in Spaces : Active(s)' = IF s = c.space THEN Active(s) \cup {r} ELSE Active(s)
  BY <1>6, <1>7 DEF Active
<1>9. \A s \in Spaces : Leaving(s)' = Leaving(s)
  BY <1>1, <1>2, <1>4, <1>5 DEF Leaving, At
<1>10. r \notin Active(c.space)
  BY <1>7 DEF Active
<1>11. /\ count'[c.space] = count[c.space] + 1 /\ count' \in [Spaces -> Nat]
       /\ Cardinality(Active(c.space) \cup {r}) = Cardinality(Active(c.space)) + 1
       /\ \A s \in Spaces : s # c.space => count'[s] = count[s]
  <2>1. PICK A, B : A = Active(c.space) /\ B = Leaving(c.space)
    OBVIOUS
  <2>2. A \in SUBSET Slots /\ A \cup {r} \in SUBSET Slots /\ B \in SUBSET Threads /\ r \notin A
    BY <1>10, <2>1 DEF Active, Leaving
  <2>3. IsFiniteSet(A) /\ Cardinality(A) \in Nat /\ Cardinality(B) \in Nat
        /\ Cardinality(A \cup {r}) + Cardinality(B) < SizeMod
    BY <2>2, CountedSets
  <2>4. Cardinality(A \cup {r}) = Cardinality(A) + 1
    BY <2>2, <2>3, FS_AddElement
  <2>5. count[c.space] = Cardinality(A) + Cardinality(B)
    BY <1>0, <1>3, <2>1, CountIs
  <2>6. count[c.space] + 1 \in Nat /\ count[c.space] + 1 < SizeMod
    BY <2>3, <2>4, <2>5
  <2>7. PICK n \in Nat : n = count[c.space] + 1
    BY <2>6
  <2>8. Wrap(n) = n
    BY <2>6, <2>7, WrapSmall
  <2>9. count' = [count EXCEPT ![c.space] = n]
    BY <1>2, <2>7, <2>8
  <2> QED
    BY <1>0, <1>3, <2>1, <2>4, <2>7, <2>9 DEF SpaceTypeOK
<1>12. CountExact'
  <2>1. \A s \in Spaces : count'[s] = Cardinality(Active(s)') + Cardinality(Leaving(s)')
    <3> SUFFICES ASSUME NEW s \in Spaces
                 PROVE  count'[s] = Cardinality(Active(s)') + Cardinality(Leaving(s)')
      OBVIOUS
    <3>1. count[s] = Cardinality(Active(s)) + Cardinality(Leaving(s)) /\ Leaving(s)' = Leaving(s)
      BY <1>0, <1>9, CountIs
    <3>2. Cardinality(Active(s)) \in Nat /\ Cardinality(Leaving(s)) \in Nat
      <4>1. Active(s) \in SUBSET Slots /\ Leaving(s) \in SUBSET Threads
        BY DEF Active, Leaving
      <4> QED
        BY <4>1, CountedSets
    <3>3. CASE s = c.space
      <4>1. count'[s] = count[s] + 1 /\ Cardinality(Active(s)') = Cardinality(Active(s)) + 1
        BY <1>8, <1>11, <3>3
      <4> QED
        BY ONLY <4>1, <3>1, <3>2
    <3>4. CASE s # c.space
      BY <1>8, <1>11, <3>1, <3>4
    <3> QED
      BY <3>3, <3>4
  <2>2. (CountExact <=> \A s \in Spaces : count[s] = Cardinality(Active(s)) + Cardinality(Leaving(s)))'
    BY CountIs, PTL
  <2> QED
    BY <2>1, <2>2
<1>13. SpaceTypeOK'
  <2>1. \A q \in Slots : res'[q] = NoRes \/ \E s \in Spaces, n \in Nat : res'[q] = NewRes(s, n)
    BY <1>0, <1>3, <1>6 DEF SpaceTypeOK
  <2> QED
    BY <1>0, <1>2, <1>5, <1>6, <1>11, <2>1 DEF SpaceTypeOK
<1>14. CallsOK'
  <2>1. \A s \in Spaces : top'[s] \in Nat /\ top[s] <= top'[s]
    BY <1>0, <1>2 DEF SpaceTypeOK
  <2>2. CallOK(t)'
    BY <1>4, <1>5 DEF CallOK
  <2>3. ASSUME NEW u \in Threads PROVE CallOK(u)'
    BY <1>0, <1>5, <2>1, <2>2, OthersOK
  <2> QED
    BY <2>3 DEF CallsOK
<1>15. TotalIsClaims'
  <2>1. t \in Holders /\ r \in Holders /\ t \notin Slots /\ r # t
    BY SpaceAssumption DEF Holders
  <2>2. Views /\ Views'
    BY ViewsHold, PTL
  <2>3. Claim[t] = Mine(c) /\ Claim[r] = NothingClaimed
    BY <1>1, <1>7, <2>1, <2>2 DEF Views
  <2>4. Claim'[t] = NothingClaimed /\ Claim'[r] = Mine(c)
    BY <1>5, <1>7, <2>1, <2>2 DEF Views
  <2>5. \A h \in Holders : h # t /\ h # r => Claim'[h] = Claim[h]
    <3>1. \A h \in Holders : h \notin Slots => h \in Threads
      BY DEF Holders
    <3> QED
      BY <1>5, <1>6, <2>2, <3>1 DEF Views
  <2>6. total' = total
    BY <1>2
  <2> QED
    BY <1>0, <1>13, <2>1, <2>3, <2>4, <2>5, <2>6, TotalStays
<1>16. PeakComing'
  BY <1>0, <1>1, <1>2, <1>5 DEF PeakComing
<1> QED
  BY <1>12, <1>13, <1>14, <1>15, <1>16 DEF SpaceInv

\* The destructor of an arena gives its bytes back.
LEMMA ReleaseBytesKeeps ==
  ASSUME SpaceInv, NEW t \in Threads, NEW r \in Slots, ReleaseBytes(t, r)
  PROVE  SpaceInv'
<1>0. SpaceTypeOK /\ CallsOK /\ TotalIsClaims /\ PeakComing /\ CountExact
  BY DEF SpaceInv
<1>1. res[r].arena
  BY DEF ReleaseBytes
<1>2. res[r] # NoRes
  BY <1>1 DEF NoRes
<1>3. PICK a \in Spaces, n \in Nat : res[r] = NewRes(a, n)
  BY <1>0, <1>2 DEF SpaceTypeOK
<1>4. res[r].space = a /\ res[r].size = n
  BY <1>3 DEF NewRes
<1>5. PICK d : d = [NoCall EXCEPT !.at = "release", !.space = a]
  OBVIOUS
<1>6. /\ call[t].at = "idle" /\ total' = [total EXCEPT ![a] = Wrap(@ - n)]
      /\ call' = [call EXCEPT ![t] = d] /\ res' = [res EXCEPT ![r] = NoRes]
      /\ UNCHANGED <<peak, count, top>>
  BY <1>4, <1>5 DEF ReleaseBytes, At
<1>7. d \in CallRec /\ d.at = "release" /\ d.space = a
  BY <1>5 DEF NoCall, CallRec, Sites
<1>8. /\ call' \in [Threads -> CallRec] /\ call'[t] = d
      /\ \A u \in Threads : u # t => call'[u] = call[u]
  BY <1>0, <1>6, <1>7 DEF SpaceTypeOK
<1>9. /\ res'[r] = NoRes /\ \A q \in Slots : q # r => res'[q] = res[q]
      /\ res' = [q \in Slots |-> res'[q]]
  BY <1>0, <1>6 DEF SpaceTypeOK
<1>10. t \in Holders /\ r \in Holders /\ t \notin Slots
  BY SpaceAssumption DEF Holders
<1>11. Views /\ Views'
  BY ViewsHold, PTL
<1>12. Claim[r].space = a /\ Claim[r].size = n /\ Claim'[r] = NothingClaimed
  <2>1. Claim[r] = Kept(res[r]) /\ Claim'[r] = Kept(res'[r])
    BY <1>10, <1>11 DEF Views
  <2> QED
    BY <1>3, <1>9, <2>1 DEF Kept, NewRes, NoRes, NothingClaimed
<1>13. \A h \in Holders : h # r => Claim'[h] = Claim[h]
  <2>1. Mine(d) = NothingClaimed /\ Mine(call[t]) = NothingClaimed
    BY <1>6, <1>7 DEF Mine
  <2>2. \A h \in Holders : h \notin Slots => h \in Threads
    BY DEF Holders
  <2> QED
    BY <1>8, <1>9, <1>11, <2>1, <2>2 DEF Views
<1>14. n <= total[a]
  <2>1. PICK w : w = Weight(a)
    OBVIOUS
  <2>2. w \in [Holders -> Nat] /\ IsFiniteSet(Holders) /\ w[r] = Amount(Claim[r], a)
    BY <1>0, <1>10, <2>1, WeightType
  <2>3. w[r] <= Tally(Holders, w)
    BY <1>10, <2>2, TallyBound
  <2> QED
    BY <1>0, <1>12, <2>1, <2>2, <2>3 DEF Amount, TotalIsClaims
<1>15. total' = [total EXCEPT ![a] = total[a] - n] /\ total[a] - n \in Nat
  <2>0. total[a] \in Nat /\ total[a] <= Limit(a)
    BY <1>0 DEF SpaceTypeOK, TotalIsClaims
  <2>4. Limit(a) \in Nat /\ Limit(a) < SizeMod /\ SizeMod \in Nat
    BY SpaceAssumption DEF Limit, Spaces
  <2>1. total[a] \in Nat /\ total[a] < SizeMod
    BY <2>0, <2>4
  <2>2. PICK m \in Nat : m = total[a] - n
    BY <1>14, <2>1
  <2>3. Wrap(m) = m
    BY <2>1, <2>2, <2>4, WrapSmall
  <2> QED
    BY <1>6, <2>2, <2>3
<1>16. /\ total' \in [Spaces -> Nat] /\ total'[a] = total[a] - n
       /\ \A s \in Spaces : s # a => total'[s] = total[s]
  BY <1>0, <1>15 DEF SpaceTypeOK
<1>17. SpaceTypeOK'
  <2>1. \A q \in Slots : res'[q] = NoRes \/ \E s \in Spaces, m \in Nat : res'[q] = NewRes(s, m)
    BY <1>0, <1>9 DEF SpaceTypeOK
  <2> QED
    BY <1>0, <1>6, <1>8, <1>9, <1>16, <2>1 DEF SpaceTypeOK
<1>18. CallsOK'
  <2>1. \A s \in Spaces : top'[s] \in Nat /\ top[s] <= top'[s]
    BY <1>0, <1>6 DEF SpaceTypeOK
  <2>2. CallOK(t)'
    BY <1>7, <1>8 DEF CallOK
  <2>3. ASSUME NEW u \in Threads PROVE CallOK(u)'
    BY <1>0, <1>8, <2>1, <2>2, OthersOK
  <2> QED
    BY <2>3 DEF CallsOK
<1>19. TotalIsClaims'
  <2>1. ASSUME NEW s \in Spaces
        PROVE  /\ total'[s] - Amount(Claim'[r], s) = total[s] - Amount(Claim[r], s)
               /\ total'[s] <= Limit(s)
    <3>1. s # NoSpace /\ total[s] \in Nat /\ total[s] <= Limit(s) /\ Limit(s) \in Nat
      BY <1>0, SpaceAssumption DEF Spaces, SpaceTypeOK, TotalIsClaims, Limit
    <3>2. Amount(Claim'[r], s) = 0
      BY <1>12, <3>1 DEF Amount, NothingClaimed
    <3>3. CASE s = a
      BY <1>12, <1>16, <3>1, <3>2, <3>3 DEF Amount
    <3>4. CASE s # a
      BY <1>12, <1>16, <3>1, <3>2, <3>4 DEF Amount
    <3> QED
      BY <3>3, <3>4
  <2> QED
    BY <1>0, <1>10, <1>13, <1>17, <2>1, TotalFollows
<1>20. PeakComing'
  BY <1>0, <1>6, <1>8 DEF PeakComing
<1>21. CountExact'
  <2>1. ~res'[r].arena
    BY <1>9 DEF NoRes
  <2>2. \A s \in Spaces : Active(s)' = IF s = a THEN Active(s) \ {r} ELSE Active(s)
    BY <1>4, <1>9, <2>1 DEF Active
  <2>3. \A s \in Spaces : Leaving(s)' = IF s = a THEN Leaving(s) \cup {t} ELSE Leaving(s)
    BY <1>6, <1>7, <1>8 DEF Leaving, At
  <2>4. r \in Active(a) /\ t \notin Leaving(a)
    BY <1>1, <1>4, <1>6 DEF Active, Leaving, At
  <2>5. ASSUME NEW s \in Spaces PROVE count[s] = Cardinality(Active(s)') + Cardinality(Leaving(s)')
    <3>1. PICK A, B : A = Active(s) /\ B = Leaving(s)
      OBVIOUS
    <3>2. A \in SUBSET Slots /\ B \in SUBSET Threads
      BY <3>1 DEF Active, Leaving
    <3>3. IsFiniteSet(A) /\ IsFiniteSet(B) /\ Cardinality(A) \in Nat /\ Cardinality(B) \in Nat
      BY <3>2, CountedSets
    <3>4. count[s] = Cardinality(A) + Cardinality(B)
      BY <1>0, <3>1, CountIs
    <3>5. CASE s = a
      <4>1. Cardinality(A \ {r}) = Cardinality(A) - 1
        BY <2>4, <3>1, <3>3, <3>5, FS_RemoveElement
      <4>2. Cardinality(B \cup {t}) = Cardinality(B) + 1
        BY <2>4, <3>1, <3>3, <3>5, FS_AddElement
      <4>3. Active(s)' = A \ {r} /\ Leaving(s)' = B \cup {t}
        BY <2>2, <2>3, <3>1, <3>5
      <4>4. Cardinality(A \ {r}) + Cardinality(B \cup {t}) = count[s]
        BY <3>3, <3>4, <4>1, <4>2
      <4> QED
        BY <4>3, <4>4
    <3>6. CASE s # a
      BY <2>2, <2>3, <3>1, <3>4, <3>6
    <3> QED
      BY <3>5, <3>6
  <2>6. (CountExact <=> \A s \in Spaces : count[s] = Cardinality(Active(s)) + Cardinality(Leaving(s)))'
    BY CountIs, PTL
  <2> QED
    BY <1>6, <2>5, <2>6
<1> QED
  BY <1>17, <1>18, <1>19, <1>20, <1>21 DEF SpaceInv

\* It then leaves the count.
LEMMA ReleaseCountKeeps ==
  ASSUME SpaceInv, NEW t \in Threads, ReleaseCount(t)
  PROVE  SpaceInv'
<1>0. SpaceTypeOK /\ CallsOK /\ TotalIsClaims /\ PeakComing /\ CountExact
  BY DEF SpaceInv
<1>1. PICK a : a = call[t].space
  OBVIOUS
<1>2. /\ call[t].at = "release" /\ count' = [count EXCEPT ![a] = Wrap(@ - 1)]
      /\ call' = [call EXCEPT ![t] = NoCall] /\ UNCHANGED <<total, peak, res, top>>
  BY <1>1 DEF ReleaseCount, At
<1>3. a \in Spaces
  BY <1>0, <1>1, <1>2 DEF CallsOK, CallOK
<1>4. NoCall \in CallRec /\ NoCall.at = "idle"
  BY DEF NoCall, CallRec, Sites
<1>5. /\ Claim' = [Claim EXCEPT ![t] = Mine(NoCall)]
      /\ call'[t] = NoCall /\ \A u \in Threads : u # t => call'[u] = call[u]
  BY <1>0, <1>2, ThreadView
<1>6. \A s \in Spaces : Active(s)' = Active(s)
  BY <1>2 DEF Active
<1>7. \A s \in Spaces : Leaving(s)' = IF s = a THEN Leaving(s) \ {t} ELSE Leaving(s)
  BY <1>1, <1>2, <1>4, <1>5 DEF Leaving, At
<1>8. /\ count'[a] = count[a] - 1 /\ count' \in [Spaces -> Nat]
      /\ Cardinality(Leaving(a) \ {t}) = Cardinality(Leaving(a)) - 1
      /\ \A s \in Spaces : s # a => count'[s] = count[s]
  <2>1. PICK A, B : A = Active(a) /\ B = Leaving(a)
    OBVIOUS
  <2>2. A \in SUBSET Slots /\ B \in SUBSET Threads /\ t \in B
    BY <1>1, <1>2, <2>1 DEF Active, Leaving, At
  <2>3. IsFiniteSet(B) /\ Cardinality(A) \in Nat /\ Cardinality(B) \in Nat
        /\ Cardinality(A) + Cardinality(B) < SizeMod /\ Cardinality(B \ {t}) \in Nat
    BY <2>2, CountedSets
  <2>4. Cardinality(B \ {t}) = Cardinality(B) - 1
    BY <2>2, <2>3, FS_RemoveElement
  <2>5. count[a] = Cardinality(A) + Cardinality(B)
    BY <1>0, <1>3, <2>1, CountIs
  <2>6. SizeMod \in Nat
    BY SpaceAssumption
  <2>7. PICK n \in Nat : n = count[a] - 1 /\ n < SizeMod
    BY <2>3, <2>4, <2>5, <2>6
  <2>8. Wrap(n) = n
    BY <2>7, WrapSmall
  <2>9. count' = [count EXCEPT ![a] = n]
    BY <1>2, <2>7, <2>8
  <2> QED
    BY <1>0, <1>3, <2>1, <2>4, <2>7, <2>9 DEF SpaceTypeOK
<1>9. CountExact'
  <2>1. ASSUME NEW s \in Spaces PROVE count'[s] = Cardinality(Active(s)') + Cardinality(Leaving(s)')
    <3>1. count[s] = Cardinality(Active(s)) + Cardinality(Leaving(s)) /\ Active(s)' = Active(s)
      BY <1>0, <1>6, CountIs
    <3>2. Cardinality(Active(s)) \in Nat /\ Cardinality(Leaving(s)) \in Nat
      <4>1. Active(s) \in SUBSET Slots /\ Leaving(s) \in SUBSET Threads
        BY DEF Active, Leaving
      <4> QED
        BY <4>1, CountedSets
    <3>3. CASE s = a
      <4>1. Cardinality(Leaving(s)') = Cardinality(Leaving(s)) - 1 /\ count'[s] = count[s] - 1
        BY <1>7, <1>8, <3>3
      <4> QED
        BY <3>1, <3>2, <4>1
    <3>4. CASE s # a
      BY <1>7, <1>8, <3>1, <3>4
    <3> QED
      BY <3>3, <3>4
  <2>2. (CountExact <=> \A s \in Spaces : count[s] = Cardinality(Active(s)) + Cardinality(Leaving(s)))'
    BY CountIs, PTL
  <2> QED
    BY <2>1, <2>2
<1>10. SpaceTypeOK'
  <2>1. call' \in [Threads -> CallRec]
    BY <1>0, <1>2, <1>4 DEF SpaceTypeOK
  <2> QED
    BY <1>0, <1>2, <1>8, <2>1 DEF SpaceTypeOK
<1>11. CallsOK'
  <2>1. \A s \in Spaces : top'[s] \in Nat /\ top[s] <= top'[s]
    BY <1>0, <1>2 DEF SpaceTypeOK
  <2>2. CallOK(t)'
    BY <1>4, <1>5 DEF CallOK
  <2>3. ASSUME NEW u \in Threads PROVE CallOK(u)'
    BY <1>0, <1>5, <2>1, <2>2, OthersOK
  <2> QED
    BY <2>3 DEF CallsOK
<1>12. TotalIsClaims'
  <2>1. t \in Holders /\ t \notin Slots
    BY SpaceAssumption DEF Holders
  <2>2. Claim[t] = NothingClaimed /\ Mine(NoCall) = NothingClaimed
    BY <1>2, <1>4, <2>1, ViewsHold DEF Views, Mine
  <2>3. Claim'[t] = Claim[t] /\ \A h \in Holders : h # t => Claim'[h] = Claim[h]
    BY <1>5, <2>1, <2>2, ViewsHold DEF Views
  <2>4. \A s \in Spaces : /\ total'[s] - Amount(Claim'[t], s) = total[s] - Amount(Claim[t], s)
                          /\ total'[s] <= Limit(s)
    BY <1>0, <1>2, <2>3 DEF TotalIsClaims
  <2> QED
    BY <1>0, <1>10, <2>1, <2>3, <2>4, TotalFollows
<1>13. PeakComing'
  BY <1>0, <1>2, <1>5 DEF PeakComing
<1> QED
  BY <1>9, <1>10, <1>11, <1>12, <1>13 DEF SpaceInv

-----------------------------------------------------------------------------
(* The invariant and what follows from it.                                 *)

\* Nothing is reserved at first.
LEMMA SpaceInitially == Init => SpaceInv
<1> SUFFICES ASSUME Init PROVE SpaceInv
  OBVIOUS
<1>1. NoCall \in CallRec /\ NoCall.at = "idle"
  BY DEF NoCall, CallRec, Sites
<1>2. SpaceTypeOK
  BY <1>1 DEF Init, SpaceTypeOK
<1>3. CallsOK
  BY <1>1 DEF Init, CallsOK, CallOK
<1>4. TotalIsClaims
  <2> SUFFICES ASSUME NEW s \in Spaces PROVE total[s] = Tally(Holders, Weight(s)) /\ total[s] <= Limit(s)
    BY DEF TotalIsClaims
  <2>1. s # NoSpace /\ Limit(s) \in Nat
    BY SpaceAssumption DEF Spaces, Limit
  <2>2. \A h \in Holders : Claim[h] = NothingClaimed
    <3>1. Mine(NoCall) = NothingClaimed /\ Kept(NoRes) = NothingClaimed
      BY <1>1 DEF Mine, Kept, NoRes, NothingClaimed
    <3>2. \A h \in Holders : h \notin Slots => h \in Threads
      BY DEF Holders
    <3> QED
      BY <3>1, <3>2, ViewsHold DEF Views, Init
  <2>3. \A h \in Holders : Weight(s)[h] = 0
    BY <2>1, <2>2 DEF Weight, NothingClaimed
  <2>4. Tally(Holders, Weight(s)) = 0
    <3>1. PICK w : w = Weight(s)
      OBVIOUS
    <3> QED
      BY <2>3, <3>1, TallyZero
  <2> QED
    BY <2>1, <2>4 DEF Init
<1>5. PeakComing
  BY DEF Init, PeakComing
<1>6. CountExact
  <2>1. \A s \in Spaces : Active(s) = {} /\ Leaving(s) = {}
    BY <1>1 DEF Init, Active, Leaving, At, NoRes
  <2>2. Cardinality({}) = 0
    BY FS_EmptySet
  <2> QED
    BY <2>1, <2>2, CountIs DEF Init
<1> QED
  BY <1>2, <1>3, <1>4, <1>5, <1>6 DEF SpaceInv

\* Every step of every thread.
LEMMA SpaceStep == SpaceInv /\ [Next]_spaceVars => SpaceInv'
<1> SUFFICES ASSUME SpaceInv, [Next]_spaceVars PROVE SpaceInv'
  OBVIOUS
<1>1. ASSUME NEW t \in Threads, Client(t) PROVE SpaceInv'
  <2>1. ASSUME NEW n \in Sizes, NEW s \in Spaces, MakeReservationUpto(t, s, n) PROVE SpaceInv'
    <3>1. At(t, "idle") /\ Begin(t, s, n, TRUE) /\ UNCHANGED <<total, peak, count, res, top>>
      BY <2>1 DEF MakeReservationUpto
    <3>2. TRUE \in BOOLEAN
      OBVIOUS
    <3> QED
      BY <3>1, <3>2, BeginKeeps
  <2> QED
    BY <1>1, <2>1, RequestKeeps, ReleaseBytesKeeps DEF Client
<1>2. ASSUME NEW t \in Threads, Load(t) PROVE SpaceInv'
  BY <1>2, LoopKeeps DEF Load, At
<1>3. ASSUME NEW t \in Threads, CompareExchange(t) PROVE SpaceInv'
  <2>1. PICK c, post : c = call[t] /\ post = Wrap(c.current + c.bytes)
    OBVIOUS
  <2>2. c.at = "cas" /\ UNCHANGED <<peak, count, res>>
    BY <1>3, <2>1 DEF CompareExchange, At
  <2>3. CASE /\ total[c.space] = c.current
             /\ total' = [total EXCEPT ![c.space] = post]
             /\ top' = [top EXCEPT ![c.space] = IF post > @ THEN post ELSE @]
             /\ call' = [call EXCEPT ![t].at = "peak", ![t].post = post]
    BY <2>1, <2>2, <2>3, ExchangeKeeps
  <2>4. CASE call' = [call EXCEPT ![t] = Sees(c, total[c.space])] /\ UNCHANGED <<total, top>>
    BY <2>1, <2>2, <2>4, LoopKeeps
  <2> QED
    BY <1>3, <2>1, <2>3, <2>4 DEF CompareExchange
<1>4. ASSUME NEW t \in Threads, LoadPeak(t) PROVE SpaceInv'
  BY <1>4, LookKeeps DEF LoadPeak, At
<1>5. ASSUME NEW t \in Threads, RaisePeak(t) PROVE SpaceInv'
  <2>1. PICK c : c = call[t]
    OBVIOUS
  <2>2. c.at = "raise" /\ UNCHANGED <<total, count, res, top>>
    BY <1>5, <2>1 DEF RaisePeak, At
  <2>3. CASE /\ peak[c.space] = c.current
             /\ peak' = [peak EXCEPT ![c.space] = c.post] /\ Goes(t, "count")
    BY <2>1, <2>2, <2>3, RaiseKeeps
  <2>4. CASE PeakSees(t, peak[c.space]) /\ UNCHANGED peak
    BY <2>1, <2>2, <2>4, LookKeeps
  <2> QED
    BY <1>5, <2>1, <2>3, <2>4 DEF RaisePeak
<1>6. CASE UNCHANGED spaceVars
  <2>1. UNCHANGED <<total, peak, count, res, call, top>>
    BY <1>6 DEF spaceVars
  <2>2. Claim' = Claim
    BY <2>1 DEF Claim, Added
  <2>3. SpaceTypeOK' /\ CallsOK' /\ PeakComing'
    BY <2>1 DEF SpaceInv, SpaceTypeOK, CallsOK, CallOK, PeakComing
  <2>4. TotalIsClaims'
    BY <2>1, <2>2 DEF SpaceInv, TotalIsClaims, Weight, Limit
  <2>5. CountExact'
    BY <2>1 DEF SpaceInv, CountExact, GetActiveReservationCount, At
  <2> QED
    BY <2>3, <2>4, <2>5 DEF SpaceInv
<1> QED
  BY <1>1, <1>2, <1>3, <1>4, <1>5, <1>6, CountKeeps, NullKeeps, ReleaseCountKeeps DEF Next, Progress

\* The invariant holds however the atomic operations of the threads interleave.
THEOREM SpaceInvariant == Spec => []SpaceInv
  BY SpaceInitially, SpaceStep, PTL DEF Spec

\* The peak never overstates the highest total, and is the highest total once no
\* thread is between its addition and the update of the peak.
THEOREM PeakIsExact == Spec => []PeakExact
<1>1. SpaceInv => PeakExact
  BY DEF SpaceInv, PeakComing, PeakExact
<1> QED
  BY <1>1, SpaceInvariant, PTL

\* get_active_reservation_count counts the reservations there are and the ones
\* whose destructor is between its two steps.
THEOREM CountIsExact == Spec => []CountExact
<1>1. SpaceInv => CountExact
  BY DEF SpaceInv
<1> QED
  BY <1>1, SpaceInvariant, PTL

-----------------------------------------------------------------------------
(* MemorySpace implements Ledger.                                          *)

\* The counter of a space is what its ledger has claimed.
LEMMA ClaimedIsTotal ==
  ASSUME TotalIsClaims, NEW s \in Spaces
  PROVE  Claims!Claimed(s) = total[s]
<1> DEFINE w == Weight(s)
           S == {h \in Holders : Claim[h].space = s}
<1>1. \A h \in Holders : \A k : k \in 1..w[h] <=> h \in S /\ k \in 1..Claim[h].size
  BY DEF Weight
<1>2. S \subseteq Holders
  OBVIOUS
<1> HIDE DEF S, w
<1>3. Units(Holders, w) = UNION {{h} \X (1..Claim[h].size) : h \in S}
  BY <1>1, <1>2, UnitsMember
<1>4. Claims!Claimed(s) = Cardinality(UNION {{h} \X (1..Claim[h].size) : h \in S})
  <2>1. ASSUME NEW T PROVE Claims!Cardinality(T) = Cardinality(T)
    BY DEF Claims!Cardinality, Cardinality
  <2> QED
    BY <2>1 DEF Claims!Claimed, Claims!SumOver, Claims!Holders, S, Holders
<1> QED
  BY <1>3, <1>4 DEF TotalIsClaims, Tally, w

\* A step of one thread after which the ledger sees of it what it saw before.
LEMMA Unseen ==
  ASSUME SpaceTypeOK, NEW t \in Threads, NEW d, call' = [call EXCEPT ![t] = d], res' = res,
         Wanted(d) = Wanted(call[t]), Told(d) = Told(call[t]), Mine(d) = Mine(call[t])
  PROVE  UNCHANGED Claims!ledgerVars
<1>1. /\ Asked' = [Asked EXCEPT ![t] = Wanted(d)]
      /\ Answer' = [Answer EXCEPT ![t] = Told(d)]
      /\ Claim' = [Claim EXCEPT ![t] = Mine(d)]
  BY ThreadView
<1>2. Views /\ t \in Holders /\ t \notin Slots
  BY ViewsHold, SpaceAssumption DEF Holders
<1>3. Asked' = Asked /\ Answer' = Answer /\ Claim' = Claim
  BY <1>1, <1>2 DEF Views
<1> QED
  BY <1>3 DEF Claims!ledgerVars

\* Entering a call asks the ledger.
LEMMA BeginAsks ==
  ASSUME SpaceInv, NEW t \in Threads, At(t, "idle"), NEW s \in Spaces, NEW n \in Sizes,
         NEW upto \in BOOLEAN, Begin(t, s, n, upto), UNCHANGED <<total, peak, count, res, top>>
  PROVE  Claims!Ask(t)
<1>0. SpaceTypeOK /\ Views /\ t \in Holders /\ t \notin Slots
  BY ViewsHold, SpaceAssumption DEF SpaceInv, Holders
<1>1. PICK d : d = [NoCall EXCEPT !.at = "load", !.space = s, !.upto = upto, !.asked = n, !.bytes = n]
  OBVIOUS
<1>2. /\ d.at = "load" /\ d.space = s /\ d.asked = n /\ d.upto = upto
      /\ call' = [call EXCEPT ![t] = d]
  BY <1>1 DEF NoCall, Begin
<1>3. /\ Asked' = [Asked EXCEPT ![t] = Wanted(d)]
      /\ Answer' = [Answer EXCEPT ![t] = Told(d)]
      /\ Claim' = [Claim EXCEPT ![t] = Mine(d)]
  BY <1>0, <1>2, ThreadView
<1>4. Wanted(d) = [space |-> s, size |-> n, upto |-> upto]
  BY <1>2 DEF Wanted
<1>5. Told(d) = Told(call[t]) /\ Mine(d) = Mine(call[t])
  BY <1>2 DEF At, Told, Mine
<1>6. Answer' = Answer /\ Claim' = Claim
  BY <1>0, <1>3, <1>5 DEF Views
<1>7. Asked[t] = Claims!NoAsk
  BY <1>0 DEF Views, At, Wanted, Claims!NoAsk
<1> QED
  BY <1>3, <1>4, <1>6, <1>7 DEF Claims!Ask

\* A turn of a loop is not seen, or refuses, or grants nothing on a full space.
LEMMA LoopAnswers ==
  ASSUME SpaceInv, NEW t \in Threads, call[t].at \in {"load", "cas"},
         call' = [call EXCEPT ![t] = Sees(call[t], total[call[t].space])],
         UNCHANGED <<total, peak, count, res, top>>
  PROVE  UNCHANGED Claims!ledgerVars \/ Claims!Refuse(t) \/ Claims!Grant(t)
<1>0. SpaceTypeOK /\ Views /\ t \in Holders /\ t \notin Slots
  BY ViewsHold, SpaceAssumption DEF SpaceInv, Holders
<1>1. PICK c, d : c = call[t] /\ d = Sees(c, total[c.space])
  OBVIOUS
<1>2. /\ c \in CallRec /\ c.space \in Spaces /\ c.bytes > 0 /\ c.asked \in Sizes /\ c.bytes <= c.asked
      /\ (c.upto \/ c.bytes = c.asked)
      /\ total[c.space] \in Nat /\ total[c.space] <= Limit(c.space)
  BY <1>1 DEF SpaceInv, SpaceTypeOK, CallsOK, CallOK, TotalIsClaims
<1>3. /\ d \in CallRec /\ d.space = c.space /\ d.asked = c.asked /\ d.upto = c.upto
      /\ \/ d.at = "cas"
         \/ d.at = "null" /\ ~c.upto /\ d.bytes = c.bytes /\ total[c.space] + c.bytes > Limit(c.space)
         \/ d.at = "count" /\ c.upto /\ d.bytes = 0 /\ total[c.space] = Limit(c.space)
  <2>1. PICK v : v = total[c.space]
    OBVIOUS
  <2> QED
    BY <1>1, <1>2, <2>1, SeesGives
<1>4. call' = [call EXCEPT ![t] = d]
  BY <1>1
<1>5. /\ Asked' = [Asked EXCEPT ![t] = Wanted(d)]
      /\ Answer' = [Answer EXCEPT ![t] = Told(d)]
      /\ Claim' = [Claim EXCEPT ![t] = Mine(d)]
  BY <1>0, <1>4, ThreadView
<1>6. /\ Wanted(c) = [space |-> c.space, size |-> c.asked, upto |-> c.upto] /\ Wanted(d) = Wanted(c)
      /\ Told(c) = "none" /\ Mine(c) = NothingClaimed
  BY <1>1, <1>3 DEF Wanted, Told, Mine
<1>7. Asked[t] = Wanted(c) /\ Answer[t] = "none" /\ Claim[t] = NothingClaimed /\ Asked' = Asked
  BY <1>0, <1>1, <1>5, <1>6 DEF Views
<1>8. /\ Asked[t].space = c.space /\ Asked[t].size = c.asked /\ (Asked[t].upto <=> c.upto)
  BY <1>6, <1>7
<1>9. Asked[t] # Claims!NoAsk
  BY <1>2, <1>8, SpaceAssumption DEF Claims!NoAsk, Spaces
<1>10. Claims!Claimed(Asked[t].space) = total[c.space]
  BY <1>2, <1>8, ClaimedIsTotal DEF SpaceInv
<1>11. CASE d.at = "cas"
  <2>1. Wanted(d) = Wanted(call[t]) /\ Told(d) = Told(call[t]) /\ Mine(d) = Mine(call[t])
    BY <1>1, <1>6, <1>11 DEF Told, Mine
  <2> QED
    BY <1>0, <1>4, <2>1, Unseen
<1>12. CASE d.at = "null" /\ ~c.upto /\ total[c.space] + c.bytes > Limit(c.space)
  <2>1. Told(d) = "refused" /\ Mine(d) = NothingClaimed
    BY <1>12 DEF Told, Mine
  <2>2. Answer' = [Answer EXCEPT ![t] = "refused"] /\ Claim' = Claim
    BY <1>0, <1>5, <1>7, <2>1 DEF Views
  <2>3. Claims!Claimed(Asked[t].space) + Asked[t].size > Limit(Asked[t].space)
    BY <1>2, <1>8, <1>10, <1>12
  <2>4. ~Asked[t].upto
    BY <1>8, <1>12
  <2> QED
    BY <1>7, <1>9, <2>2, <2>3, <2>4 DEF Claims!Refuse
<1>13. CASE d.at = "count" /\ c.upto /\ d.bytes = 0 /\ total[c.space] = Limit(c.space)
  <2>1. Told(d) = "granted" /\ Mine(d) = [space |-> Asked[t].space, size |-> 0]
    BY <1>3, <1>8, <1>13 DEF Told, Mine
  <2>2. /\ Answer' = [Answer EXCEPT ![t] = "granted"]
        /\ Claim' = [Claim EXCEPT ![t] = [space |-> Asked[t].space, size |-> 0]]
    BY <1>5, <2>1
  <2>3. 0 \in 0..Asked[t].size
    <3>1. c.asked \in Nat
      BY <1>2 DEF CallRec
    <3> QED
      BY <1>8, <3>1
  <2>4. Asked[t].upto
    BY <1>8, <1>13
  <2>5. Claims!Enough(t, 0)
    BY <1>8, <1>10, <1>13, <2>3, <2>4 DEF Claims!Enough
  <2>6. Claims!Claimed(Asked[t].space) + 0 <= Limit(Asked[t].space)
    BY <1>2, <1>8, <1>10
  <2> QED
    BY <1>7, <1>9, <2>2, <2>3, <2>5, <2>6 DEF Claims!Grant
<1> QED
  BY <1>3, <1>11, <1>12, <1>13

\* A compare-and-exchange that succeeds grants the amount.
LEMMA ExchangeGrants ==
  ASSUME SpaceInv, NEW t \in Threads, NEW c, c = call[t], c.at = "cas", total[c.space] = c.current,
         NEW post, call' = [call EXCEPT ![t].at = "peak", ![t].post = post], res' = res
  PROVE  Claims!Grant(t)
<1>0. SpaceTypeOK /\ Views /\ t \in Holders /\ t \notin Slots
  BY ViewsHold, SpaceAssumption DEF SpaceInv, Holders
<1>1. /\ c \in CallRec /\ c.space \in Spaces /\ c.bytes > 0 /\ c.bytes <= c.asked
      /\ (c.upto \/ c.bytes = c.asked) /\ c.current + c.bytes <= Limit(c.space)
      /\ c.bytes \in Nat /\ c.asked \in Nat
  BY DEF SpaceInv, SpaceTypeOK, CallsOK, CallOK, CallRec
<1>2. PICK d : d = [c EXCEPT !.at = "peak", !.post = post]
  OBVIOUS
<1>3. /\ d.at = "peak" /\ d.space = c.space /\ d.asked = c.asked /\ d.bytes = c.bytes /\ d.upto = c.upto
      /\ call' = [call EXCEPT ![t] = d]
  BY <1>0, <1>1, <1>2 DEF CallRec, SpaceTypeOK
<1>4. /\ Asked' = [Asked EXCEPT ![t] = Wanted(d)]
      /\ Answer' = [Answer EXCEPT ![t] = Told(d)]
      /\ Claim' = [Claim EXCEPT ![t] = Mine(d)]
  <2>1. SpaceTypeOK /\ t \in Threads /\ call' = [call EXCEPT ![t] = d] /\ res' = res
    BY <1>0, <1>3
  <2> QED
    BY ONLY <2>1, ThreadView
<1>5. /\ Wanted(c) = [space |-> c.space, size |-> c.asked, upto |-> c.upto] /\ Wanted(d) = Wanted(c)
      /\ Told(c) = "none" /\ Told(d) = "granted" /\ Mine(d) = [space |-> c.space, size |-> c.bytes]
  BY <1>3 DEF Wanted, Told, Mine
<1>6. Asked[t] = Wanted(c) /\ Answer[t] = "none" /\ Asked' = Asked
  BY <1>0, <1>4, <1>5 DEF Views
<1>7. Asked[t].space = c.space /\ Asked[t].size = c.asked /\ (Asked[t].upto <=> c.upto)
  BY <1>5, <1>6
<1>8. Asked[t] # Claims!NoAsk
  BY <1>1, <1>7, SpaceAssumption DEF Claims!NoAsk, Spaces
<1>9. Claims!Claimed(Asked[t].space) = total[c.space]
  BY <1>1, <1>7, ClaimedIsTotal DEF SpaceInv
<1>10. PICK n \in Nat : n = c.bytes
  BY <1>1
<1>11. n \in 0..Asked[t].size /\ n # 0
  BY <1>1, <1>7, <1>10
<1>12. Claims!Enough(t, n)
  BY <1>1, <1>7, <1>10, <1>11 DEF Claims!Enough
<1>13. Claims!Claimed(Asked[t].space) + n <= Limit(Asked[t].space)
  BY <1>1, <1>7, <1>9, <1>10
<1>14. /\ Answer' = [Answer EXCEPT ![t] = "granted"]
       /\ Claim' = [Claim EXCEPT ![t] = [space |-> Asked[t].space, size |-> n]]
  BY <1>4, <1>5, <1>7, <1>10
<1> QED
  BY <1>6, <1>8, <1>11, <1>12, <1>13, <1>14 DEF Claims!Grant

\* update_peak is not seen.
LEMMA PeakUnseen ==
  ASSUME SpaceInv, NEW t \in Threads, call[t].at \in {"peak", "raise"}, res' = res,
         \/ PeakSees(t, peak[call[t].space])
         \/ Goes(t, "count")
  PROVE  UNCHANGED Claims!ledgerVars
<1>0. SpaceTypeOK /\ call[t] \in CallRec
  BY DEF SpaceInv, SpaceTypeOK
<1>1. PICK d : /\ call' = [call EXCEPT ![t] = d] /\ d.at \in {"raise", "count"}
               /\ d.space = call[t].space /\ d.asked = call[t].asked /\ d.upto = call[t].upto
               /\ d.bytes = call[t].bytes
  <2>1. CASE PeakSees(t, peak[call[t].space])
    <3>1. PICK c, v : c = call[t] /\ v = peak[c.space]
      OBVIOUS
    <3>2. PICK w : w = IF c.post > v THEN "raise" ELSE "count"
      OBVIOUS
    <3>3. PICK d : d = [c EXCEPT !.current = v, !.at = w]
      OBVIOUS
    <3>4. call' = [call EXCEPT ![t] = d]
      BY <1>0, <2>1, <3>1, <3>2, <3>3 DEF PeakSees, SpaceTypeOK, CallRec
    <3>5. /\ d.at = w /\ d.space = c.space /\ d.asked = c.asked /\ d.upto = c.upto /\ d.bytes = c.bytes
      BY <1>0, <3>1, <3>3 DEF CallRec
    <3>6. w \in {"raise", "count"}
      BY <3>2
    <3> QED
      BY <3>1, <3>4, <3>5, <3>6
  <2>2. CASE Goes(t, "count")
    <3>1. PICK d : d = [call[t] EXCEPT !.at = "count"]
      OBVIOUS
    <3>2. /\ call' = [call EXCEPT ![t] = d] /\ d.at = "count" /\ d.space = call[t].space
          /\ d.asked = call[t].asked /\ d.upto = call[t].upto /\ d.bytes = call[t].bytes
      BY <1>0, <2>2, <3>1 DEF Goes, CallRec
    <3> QED
      BY <3>2
  <2> QED
    BY <2>1, <2>2
<1>2. Wanted(d) = Wanted(call[t]) /\ Told(d) = Told(call[t]) /\ Mine(d) = Mine(call[t])
  BY <1>1 DEF Wanted, Told, Mine
<1> QED
  BY <1>0, <1>1, <1>2, Unseen

\* The claim of the thread becomes the reservation's.
LEMMA CountTakes ==
  ASSUME SpaceInv, NEW t \in Threads, NEW r \in Slots, CountArena(t, r)
  PROVE  Claims!Take(t)
<1>0. SpaceTypeOK /\ t \in Holders /\ r \in Holders /\ t \notin Slots /\ r # t /\ Views /\ Views'
  <2>1. Views /\ Views'
    BY ViewsHold, PTL
  <2> QED
    BY <2>1, SpaceAssumption DEF SpaceInv, Holders
<1>1. PICK c : c = call[t]
  OBVIOUS
<1>2. /\ c.at = "count" /\ res[r] = NoRes /\ res' = [res EXCEPT ![r] = NewRes(c.space, c.bytes)]
      /\ call' = [call EXCEPT ![t] = NoCall]
  BY <1>1 DEF CountArena, At
<1>3. /\ call'[t] = NoCall /\ \A u \in Threads : u # t => call'[u] = call[u]
      /\ res'[r] = NewRes(c.space, c.bytes) /\ \A q \in Slots : q # r => res'[q] = res[q]
  BY <1>0, <1>2 DEF SpaceTypeOK
<1>4. /\ Kept(res'[r]) = Mine(c) /\ Kept(res[r]) = NothingClaimed /\ Mine(NoCall) = NothingClaimed
      /\ Wanted(NoCall) = Claims!NoAsk /\ Told(NoCall) = "none" /\ Told(c) = "granted"
      /\ NothingClaimed = Claims!NoClaim
  BY <1>2, <1>3 DEF NewRes, NoRes, NoCall, Kept, Mine, Wanted, Told, NothingClaimed, Claims!NoAsk,
     Claims!NoClaim
<1>5. Asked' = [Asked EXCEPT ![t] = Claims!NoAsk] /\ Answer' = [Answer EXCEPT ![t] = "none"]
  BY <1>0, <1>3, <1>4 DEF Views
<1>6. Answer[t] = "granted" /\ Claim[r] = Claims!NoClaim /\ Claim[t] = Mine(c)
  BY <1>0, <1>1, <1>4 DEF Views
<1>7. Claim' = [Claim EXCEPT ![r] = Claim[t], ![t] = Claims!NoClaim]
  <2>1. \A h \in Holders : h \notin Slots => h \in Threads
    BY DEF Holders
  <2>2. /\ Claim'[r] = Claim[t] /\ Claim'[t] = Claims!NoClaim
        /\ \A h \in Holders : h # t /\ h # r => Claim'[h] = Claim[h]
    BY <1>0, <1>3, <1>4, <1>6, <2>1 DEF Views
  <2> QED
    BY <1>0, <2>2 DEF Views
<1> QED
  BY <1>5, <1>6, <1>7 DEF Claims!Take

\* A refusal is taken.
LEMMA NullTakes ==
  ASSUME SpaceInv, NEW t \in Threads, ReturnNull(t)
  PROVE  Claims!Take(t)
<1>0. SpaceTypeOK /\ Views /\ t \in Holders /\ t \notin Slots
  BY ViewsHold, SpaceAssumption DEF SpaceInv, Holders
<1>1. call[t].at = "null" /\ call' = [call EXCEPT ![t] = NoCall] /\ res' = res
  BY DEF ReturnNull, At
<1>2. /\ Asked' = [Asked EXCEPT ![t] = Wanted(NoCall)]
      /\ Answer' = [Answer EXCEPT ![t] = Told(NoCall)]
      /\ Claim' = [Claim EXCEPT ![t] = Mine(NoCall)]
  BY <1>0, <1>1, ThreadView
<1>3. /\ Wanted(NoCall) = Claims!NoAsk /\ Told(NoCall) = "none" /\ Told(call[t]) = "refused"
      /\ Mine(NoCall) = Mine(call[t])
  BY <1>1 DEF NoCall, Wanted, Told, Mine, Claims!NoAsk
<1>4. Answer[t] = "refused" /\ Claim' = Claim
  BY <1>0, <1>2, <1>3 DEF Views
<1> QED
  BY <1>2, <1>3, <1>4 DEF Claims!Take

\* Giving the bytes back drops the claim.
LEMMA ReleaseDrops ==
  ASSUME SpaceInv, NEW t \in Threads, NEW r \in Slots, ReleaseBytes(t, r)
  PROVE  Claims!Drop(r)
<1>0. SpaceTypeOK /\ t \in Holders /\ r \in Holders /\ t \notin Slots /\ Views /\ Views'
  <2>1. Views /\ Views'
    BY ViewsHold, PTL
  <2> QED
    BY <2>1, SpaceAssumption DEF SpaceInv, Holders
<1>1. res[r].arena
  BY DEF ReleaseBytes
<1>2. res[r] # NoRes
  BY <1>1 DEF NoRes
<1>3. PICK a \in Spaces, n \in Nat : res[r] = NewRes(a, n)
  BY <1>0, <1>2 DEF SpaceTypeOK
<1>4. PICK d : d = [NoCall EXCEPT !.at = "release", !.space = a]
  OBVIOUS
<1>5. res[r].space = a /\ d.at = "release"
  BY <1>3, <1>4 DEF NewRes, NoCall
<1>6. call[t].at = "idle" /\ call' = [call EXCEPT ![t] = d] /\ res' = [res EXCEPT ![r] = NoRes]
  BY <1>4, <1>5 DEF ReleaseBytes, At
<1>7. /\ call'[t] = d /\ \A u \in Threads : u # t => call'[u] = call[u]
      /\ res'[r] = NoRes /\ \A q \in Slots : q # r => res'[q] = res[q]
  BY <1>0, <1>6 DEF SpaceTypeOK
<1>8. /\ Wanted(d) = Wanted(call[t]) /\ Told(d) = Told(call[t]) /\ Mine(d) = Mine(call[t])
      /\ Kept(NoRes) = Claims!NoClaim
  BY <1>5, <1>6 DEF Wanted, Told, Mine, Kept, NoRes, Claims!NoClaim
<1>9. Asked' = Asked /\ Answer' = Answer
  BY <1>0, <1>7, <1>8 DEF Views
<1>10. Claim' = [Claim EXCEPT ![r] = Claims!NoClaim]
  <2>1. \A h \in Holders : h \notin Slots => h \in Threads
    BY DEF Holders
  <2>2. Claim'[r] = Claims!NoClaim /\ \A h \in Holders : h # r => Claim'[h] = Claim[h]
    BY <1>0, <1>7, <1>8, <2>1 DEF Views
  <2> QED
    BY <1>0, <2>2 DEF Views
<1>11. Claim[r] # Claims!NoClaim
  <2>1. Claim[r] = Kept(res[r]) /\ Kept(res[r]).space = a
    BY <1>0, <1>5 DEF Views, Kept
  <2>2. a # NoSpace
    BY SpaceAssumption DEF Spaces
  <2> QED
    BY <2>1, <2>2 DEF Claims!NoClaim
<1> QED
  BY <1>9, <1>10, <1>11 DEF Claims!Drop

\* Every step of a thread is a step of the ledger, or not seen by it.
LEMMA LedgerStep == SpaceInv /\ [Next]_spaceVars => [Claims!LedgerNext]_(Claims!ledgerVars)
<1> SUFFICES ASSUME SpaceInv, [Next]_spaceVars
             PROVE  Claims!LedgerNext \/ UNCHANGED Claims!ledgerVars
  OBVIOUS
<1>0. SpaceTypeOK
  BY DEF SpaceInv
<1>1. ASSUME NEW t \in Threads, NEW request \in Requests, NEW n \in Sizes,
             RequestReservation(t, request, n)
      PROVE  Claims!LedgerNext \/ UNCHANGED Claims!ledgerVars
  <2>0. At(t, "idle") /\ UNCHANGED <<total, peak, count, res, top>>
    BY <1>1 DEF RequestReservation
  <2>1. CASE Goes(t, "wait")
    <3>1. PICK d : d = [call[t] EXCEPT !.at = "wait"]
      OBVIOUS
    <3>2. call' = [call EXCEPT ![t] = d] /\ d.at = "wait"
      BY <1>0, <2>1, <3>1 DEF Goes, SpaceTypeOK, CallRec
    <3>3. Wanted(d) = Wanted(call[t]) /\ Told(d) = Told(call[t]) /\ Mine(d) = Mine(call[t])
      BY <2>0, <3>2 DEF At, Wanted, Told, Mine
    <3> QED
      BY <1>0, <2>0, <3>2, <3>3, Unseen
  <2>2. CASE SelectMemorySpace(request) # NoSpace /\ Begin(t, SelectMemorySpace(request), n, FALSE)
    <3>1. PICK s : s = SelectMemorySpace(request)
      OBVIOUS
    <3>2. s \in Spaces /\ FALSE \in BOOLEAN /\ Begin(t, s, n, FALSE)
      BY <2>2, <3>1, SelectedSpace
    <3>3. Claims!Ask(t)
      BY <2>0, <3>2, BeginAsks
    <3> QED
      BY <3>3 DEF Claims!LedgerNext
  <2> QED
    BY <1>1, <2>1, <2>2 DEF RequestReservation
<1>2. ASSUME NEW t \in Threads, NEW n \in Sizes, NEW s \in Spaces, MakeReservationUpto(t, s, n)
      PROVE  Claims!LedgerNext
  <2>1. At(t, "idle") /\ Begin(t, s, n, TRUE) /\ UNCHANGED <<total, peak, count, res, top>>
    BY <1>2 DEF MakeReservationUpto
  <2>2. TRUE \in BOOLEAN
    OBVIOUS
  <2>3. Claims!Ask(t)
    BY <2>1, <2>2, BeginAsks
  <2> QED
    BY <2>3 DEF Claims!LedgerNext
<1>3. ASSUME NEW t \in Threads, Client(t) PROVE Claims!LedgerNext \/ UNCHANGED Claims!ledgerVars
  BY <1>1, <1>2, <1>3, ReleaseDrops DEF Client, Claims!LedgerNext
<1>4. ASSUME NEW t \in Threads, Load(t) PROVE Claims!LedgerNext \/ UNCHANGED Claims!ledgerVars
  <2>1. UNCHANGED Claims!ledgerVars \/ Claims!Refuse(t) \/ Claims!Grant(t)
    BY <1>4, LoopAnswers DEF Load, At
  <2> QED
    BY <2>1 DEF Claims!LedgerNext
<1>5. ASSUME NEW t \in Threads, CompareExchange(t)
      PROVE  Claims!LedgerNext \/ UNCHANGED Claims!ledgerVars
  <2>1. PICK c, post : c = call[t] /\ post = Wrap(c.current + c.bytes)
    OBVIOUS
  <2>2. c.at = "cas" /\ UNCHANGED <<peak, count, res>>
    BY <1>5, <2>1 DEF CompareExchange, At
  <2>3. CASE total[c.space] = c.current /\ call' = [call EXCEPT ![t].at = "peak", ![t].post = post]
    <3>1. Claims!Grant(t)
      BY <2>1, <2>2, <2>3, ExchangeGrants
    <3> QED
      BY <3>1 DEF Claims!LedgerNext
  <2>4. CASE call' = [call EXCEPT ![t] = Sees(c, total[c.space])] /\ UNCHANGED <<total, top>>
    <3>1. UNCHANGED Claims!ledgerVars \/ Claims!Refuse(t) \/ Claims!Grant(t)
      BY <2>1, <2>2, <2>4, LoopAnswers
    <3> QED
      BY <3>1 DEF Claims!LedgerNext
  <2> QED
    BY <1>5, <2>1, <2>3, <2>4 DEF CompareExchange
<1>6. ASSUME NEW t \in Threads, LoadPeak(t) \/ RaisePeak(t) PROVE UNCHANGED Claims!ledgerVars
  <2>1. call[t].at \in {"peak", "raise"} /\ res' = res
    BY <1>6 DEF LoadPeak, RaisePeak, At
  <2>2. PeakSees(t, peak[call[t].space]) \/ Goes(t, "count")
    BY <1>6 DEF LoadPeak, RaisePeak
  <2> QED
    BY <2>1, <2>2, PeakUnseen
<1>7. ASSUME NEW t \in Threads, ReleaseCount(t) PROVE UNCHANGED Claims!ledgerVars
  <2>1. call[t].at = "release" /\ call' = [call EXCEPT ![t] = NoCall] /\ res' = res
    BY <1>7 DEF ReleaseCount, At
  <2>2. Wanted(NoCall) = Wanted(call[t]) /\ Told(NoCall) = Told(call[t]) /\ Mine(NoCall) = Mine(call[t])
    BY <2>1 DEF NoCall, Wanted, Told, Mine
  <2> QED
    BY <1>0, <2>1, <2>2, Unseen
<1>8. ASSUME NEW t \in Threads, \/ \E r \in Slots : CountArena(t, r)
                                \/ ReturnNull(t)
      PROVE  Claims!LedgerNext
  <2>1. Claims!Take(t)
    BY <1>8, CountTakes, NullTakes
  <2> QED
    BY <2>1 DEF Claims!LedgerNext
<1>9. CASE UNCHANGED spaceVars
  <2>1. UNCHANGED <<call, res>>
    BY <1>9 DEF spaceVars
  <2>2. Asked' = Asked /\ Answer' = Answer /\ Claim' = Claim
    BY <2>1 DEF Asked, Answer, Claim, Added, At
  <2> QED
    BY <2>2 DEF Claims!ledgerVars
<1> QED
  BY <1>3, <1>4, <1>5, <1>6, <1>7, <1>8, <1>9 DEF Next, Progress

\* The compare-and-exchange loops implement a ledger that looks at all claims and
\* answers in one step: the limit of a space is kept, a reservation is refused
\* only when it does not fit, and reserve_upto gets nothing only from a full
\* space.
THEOREM CountersImplementLedger == Spec => ImplementsLedger
<1>1. Init => Claims!LedgerInit
  <2> SUFFICES ASSUME Init PROVE Claims!LedgerInit
    OBVIOUS
  <2>1. /\ Mine(NoCall) = Claims!NoClaim /\ Kept(NoRes) = Claims!NoClaim
        /\ Wanted(NoCall) = Claims!NoAsk /\ Told(NoCall) = "none"
    BY DEF NoCall, NoRes, Mine, Kept, Wanted, Told, NothingClaimed, Claims!NoAsk, Claims!NoClaim
  <2>2. \A h \in Holders : h \notin Slots => h \in Threads
    BY DEF Holders
  <2>3. Claim = [h \in Holders |-> Claims!NoClaim]
    BY <2>1, <2>2, ViewsHold DEF Views, Init
  <2>4. Asked = [t \in Threads |-> Claims!NoAsk] /\ Answer = [t \in Threads |-> "none"]
    BY <2>1, ViewsHold DEF Views, Init
  <2> QED
    BY <2>3, <2>4 DEF Claims!LedgerInit, Claims!Holders, Holders
<1>2. SpaceInv /\ [Next]_spaceVars => [Claims!LedgerNext]_(Claims!ledgerVars)
  BY LedgerStep
<1> QED
  BY <1>1, <1>2, SpaceInvariant, PTL DEF Spec, ImplementsLedger, Claims!LedgerSpec

=============================================================================
