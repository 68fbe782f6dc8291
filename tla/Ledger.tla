------------------------------- MODULE Ledger -------------------------------
(***************************************************************************)
(* What the reservation counter of a memory space promises: a ledger of    *)
(* claims, each granted or refused in one step on the strength of all the  *)
(* claims there are at that moment.                                        *)
(***************************************************************************)
EXTENDS Integers, FiniteSets, Sums

CONSTANTS
  Threads, Slots,
  Spaces,
  Limit(_),  \* what the claims on a space may add up to
  Sizes,     \* what is asked for
  NoSpace

Holders == Threads \cup Slots

VARIABLES
  asked,   \* what a thread asks for: [space, size, upto]
  answer,  \* "none", "granted" or "refused"
  claim    \* what a thread or a reservation holds: [space, size]

ledgerVars == <<asked, answer, claim>>

NoAsk == [space |-> NoSpace, size |-> 0, upto |-> FALSE]
NoClaim == [space |-> NoSpace, size |-> 0]

Claimed(s) == SumOver({h \in Holders : claim[h].space = s}, LAMBDA h : claim[h].size)

LedgerInit ==
  /\ asked = [t \in Threads |-> NoAsk]
  /\ answer = [t \in Threads |-> "none"]
  /\ claim = [h \in Holders |-> NoClaim]

Ask(t) ==
  /\ asked[t] = NoAsk
  /\ \E s \in Spaces, n \in Sizes, u \in BOOLEAN :
       asked' = [asked EXCEPT ![t] = [space |-> s, size |-> n, upto |-> u]]
  /\ UNCHANGED <<answer, claim>>

\* All that was asked for; or, where less will do, at least something unless
\* the space is full.
Enough(t, n) ==
  LET a == asked[t]
  IN  IF a.upto THEN n \in 0..a.size /\ (n = 0 => Claimed(a.space) = Limit(a.space))
      ELSE n = a.size

Grant(t) ==
  /\ asked[t] # NoAsk /\ answer[t] = "none"
  /\ \E n \in 0..asked[t].size :
       /\ Enough(t, n)
       /\ Claimed(asked[t].space) + n <= Limit(asked[t].space)
       /\ claim' = [claim EXCEPT ![t] = [space |-> asked[t].space, size |-> n]]
  /\ answer' = [answer EXCEPT ![t] = "granted"]
  /\ UNCHANGED asked

Refuse(t) ==
  /\ asked[t] # NoAsk /\ ~asked[t].upto /\ answer[t] = "none"
  /\ Claimed(asked[t].space) + asked[t].size > Limit(asked[t].space)
  /\ answer' = [answer EXCEPT ![t] = "refused"]
  /\ UNCHANGED <<asked, claim>>

\* The thread takes its answer; a granted claim becomes a reservation's.
Take(t) ==
  /\ answer[t] # "none"
  /\ asked' = [asked EXCEPT ![t] = NoAsk]
  /\ answer' = [answer EXCEPT ![t] = "none"]
  /\ \/ answer[t] = "refused" /\ UNCHANGED claim
     \/ /\ answer[t] = "granted"
        /\ \E r \in Slots : claim[r] = NoClaim /\ claim' = [claim EXCEPT ![r] = claim[t], ![t] = NoClaim]

Drop(r) ==
  /\ claim[r] # NoClaim
  /\ claim' = [claim EXCEPT ![r] = NoClaim]
  /\ UNCHANGED <<asked, answer>>

LedgerNext ==
  \/ \E t \in Threads : Ask(t) \/ Grant(t) \/ Refuse(t) \/ Take(t)
  \/ \E r \in Slots : Drop(r)

LedgerSpec == LedgerInit /\ [][LedgerNext]_ledgerVars

=============================================================================
