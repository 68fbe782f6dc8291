---------------------- MODULE NotificationChannelProofs ----------------------
(***************************************************************************)
(* The notification channel for any number of waiters and notifiers, any   *)
(* number of posts and any width of the notifier count: no wakeup is lost  *)
(* between a look at the predicate and the sleep that follows it, and no   *)
(* post releases two waiters.                                              *)
(***************************************************************************)
EXTENDS NotificationChannel, TLAPS

ChannelInv == TypeOK /\ PostIsSeen /\ PostTakenOnce /\ ShutdownWakes

-----------------------------------------------------------------------------
(* What the two kinds of notification do to the sleeping threads.          *)

Awake == {w \in Waiters : waiter[w] = "awake"}

\* notify_one puts nobody to sleep, and leaves somebody awake if anybody slept.
LEMMA NotifyOneWakes ==
  ASSUME TypeOK, NotifyOne
  PROVE  /\ waiter' \in [Waiters -> {"ready", "asleep", "awake"}]
         /\ Asleep' \subseteq Asleep
         /\ Awake \subseteq Awake'
         /\ Asleep' = {} \/ Awake' # {}
         /\ Asleep = {} \/ Asleep' # Asleep
<1>1. CASE Asleep = {} /\ UNCHANGED waiter
  BY <1>1 DEF TypeOK, Asleep, Awake
<1>2. ASSUME NEW w \in Asleep, waiter' = [waiter EXCEPT ![w] = "awake"]
      PROVE  /\ waiter' \in [Waiters -> {"ready", "asleep", "awake"}]
             /\ Asleep' \subseteq Asleep
             /\ Awake \subseteq Awake'
             /\ w \in Awake' /\ w \notin Asleep'
  BY <1>2 DEF TypeOK, Asleep, Awake
<1> QED
  BY <1>1, <1>2 DEF NotifyOne

\* notify_all leaves nobody asleep.
LEMMA NotifyAllWakes ==
  ASSUME TypeOK, NotifyAll
  PROVE  /\ waiter' \in [Waiters -> {"ready", "asleep", "awake"}]
         /\ Asleep' = {}
  BY DEF TypeOK, NotifyAll, Asleep

-----------------------------------------------------------------------------
\* The initial state: nobody waits and nothing has been posted.
LEMMA ChannelInit == Init => ChannelInv
<1> SUFFICES ASSUME Init PROVE ChannelInv
  OBVIOUS
<1>1. TypeOK
  <2>1. running \in BOOLEAN /\ notified \in BOOLEAN
    BY DEF Init
  <2> QED
    BY <2>1, ChannelAssumption DEF Init, TypeOK
<1>2. PostIsSeen /\ ShutdownWakes
  BY DEF Init, PostIsSeen, ShutdownWakes
<1>3. PostTakenOnce
  BY DEF Init, PostTakenOnce
<1> QED
  BY <1>1, <1>2, <1>3 DEF ChannelInv

\* Every step keeps the types, and the count of notifiers wraps within a size_t.
LEMMA TypeStep == TypeOK /\ [Next]_vars => TypeOK'
<1> SUFFICES ASSUME TypeOK, [Next]_vars PROVE TypeOK'
  OBVIOUS
<1> USE DEF TypeOK
<1>1. ASSUME NEW n \in Notifiers, GetNotifier(n) PROVE TypeOK'
  BY <1>1 DEF GetNotifier
<1>2. ASSUME NEW n \in Notifiers, Post(n) PROVE TypeOK'
  <2>1. waiter' \in [Waiters -> {"ready", "asleep", "awake"}]
    BY <1>2, NotifyOneWakes DEF Post
  <2> QED
    BY <1>2, <2>1 DEF Post
<1>3. ASSUME NEW n \in Notifiers, ReleaseNotifier(n) PROVE TypeOK'
  <2>1. count' \in 0..(SizeMod - 1)
    BY <1>3, ChannelAssumption DEF ReleaseNotifier
  <2>2. waiter' \in [Waiters -> {"ready", "asleep", "awake"}]
    BY <1>3, NotifyAllWakes DEF ReleaseNotifier
  <2> QED
    BY <1>3, <2>1, <2>2 DEF ReleaseNotifier
<1>4. ASSUME NEW w \in Waiters, LookAtPredicate(w) PROVE TypeOK'
  <2>1. WaitStatus \in {"IDLE", "NOTIFIED", "SHUTDOWN"}
    BY DEF WaitStatus
  <2>2. running' \in BOOLEAN /\ notified' \in BOOLEAN
    BY <1>4 DEF LookAtPredicate
  <2>3. /\ waiter' \in [Waiters -> {"ready", "asleep", "awake"}]
        /\ result' \in [Waiters -> {"none", "IDLE", "NOTIFIED", "SHUTDOWN"}]
        /\ taken' \in Nat
    BY <1>4, <2>1 DEF LookAtPredicate
  <2> QED
    BY <1>4, <2>2, <2>3 DEF LookAtPredicate
<1>5. ASSUME NEW w \in Waiters, SpuriousWakeup(w) PROVE TypeOK'
  BY <1>5 DEF SpuriousWakeup
<1>6. ASSUME Shutdown PROVE TypeOK'
  <2>1. waiter' \in [Waiters -> {"ready", "asleep", "awake"}]
    BY <1>6, NotifyOneWakes DEF Shutdown
  <2> QED
    BY <1>6, <2>1 DEF Shutdown
<1>7. CASE UNCHANGED vars
  BY <1>7 DEF vars
<1> QED
  BY <1>1, <1>2, <1>3, <1>4, <1>5, <1>6, <1>7 DEF Next, Wait, WakeUp

\* Every step keeps the invariant.
LEMMA ChannelStep == ChannelInv /\ [Next]_vars => ChannelInv'
<1> SUFFICES ASSUME ChannelInv, [Next]_vars
             PROVE  PostIsSeen' /\ PostTakenOnce' /\ ShutdownWakes'
  BY TypeStep DEF ChannelInv
<1>0. /\ TypeOK /\ PostTakenOnce
      /\ notified => Asleep = {} \/ Awake # {}
      /\ ~running => Asleep # Waiters
      /\ Asleep \subseteq Waiters
  BY DEF ChannelInv, PostIsSeen, ShutdownWakes, Awake, Asleep
<1>a. /\ (notified' => Asleep' = {} \/ Awake' # {}) => PostIsSeen'
      /\ (~running' => Asleep' # Waiters) => ShutdownWakes'
  BY DEF PostIsSeen, ShutdownWakes, Awake
<1>1. ASSUME NEW n \in Notifiers, GetNotifier(n)
      PROVE  PostIsSeen' /\ PostTakenOnce' /\ ShutdownWakes'
  BY <1>0, <1>a, <1>1 DEF GetNotifier, PostTakenOnce, Asleep, Awake
<1>2. ASSUME NEW n \in Notifiers, Post(n)
      PROVE  PostIsSeen' /\ PostTakenOnce' /\ ShutdownWakes'
  <2>1. /\ Asleep' \subseteq Asleep
        /\ Asleep' = {} \/ Awake' # {}
    BY <1>0, <1>2, NotifyOneWakes DEF Post
  <2>2. PostTakenOnce'
    BY <1>0, <1>2 DEF Post, PostTakenOnce, TypeOK
  <2>3. running' = running
    BY <1>2 DEF Post
  <2> QED
    BY <1>0, <1>a, <2>1, <2>2, <2>3
<1>3. ASSUME NEW n \in Notifiers, ReleaseNotifier(n)
      PROVE  PostIsSeen' /\ PostTakenOnce' /\ ShutdownWakes'
  <2>1. /\ notified' = notified /\ running' = running /\ taken' = taken /\ posts' = posts
        /\ NotifyAll \/ UNCHANGED waiter
    BY <1>3 DEF ReleaseNotifier
  <2>2. \/ Asleep' = {}
        \/ Asleep' = Asleep /\ Awake' = Awake
    BY <1>0, <2>1, NotifyAllWakes DEF Asleep, Awake
  <2> QED
    BY <1>0, <1>a, <2>1, <2>2, ChannelAssumption DEF PostTakenOnce
<1>4. ASSUME NEW w \in Waiters, LookAtPredicate(w)
      PROVE  PostIsSeen' /\ PostTakenOnce' /\ ShutdownWakes'
  <2>1. ~notified' /\ running' = running /\ posts' = posts
    BY <1>4 DEF LookAtPredicate
  <2>2. PostTakenOnce'
    BY <1>0, <1>4 DEF LookAtPredicate, PostTakenOnce, TypeOK, WaitStatus
  <2>3. ASSUME ~running PROVE w \notin Asleep'
    BY <1>0, <1>4, <2>3 DEF LookAtPredicate, WaitOver, TypeOK, Asleep
  <2> QED
    BY <1>a, <2>1, <2>2, <2>3
<1>5. ASSUME NEW w \in Waiters, SpuriousWakeup(w)
      PROVE  PostIsSeen' /\ PostTakenOnce' /\ ShutdownWakes'
  <2>1. w \in Awake' /\ w \notin Asleep'
    BY <1>0, <1>5 DEF SpuriousWakeup, TypeOK, Asleep, Awake
  <2>2. PostTakenOnce'
    BY <1>0, <1>5 DEF SpuriousWakeup, PostTakenOnce
  <2> QED
    BY <1>a, <2>1, <2>2
<1>6. ASSUME Shutdown PROVE PostIsSeen' /\ PostTakenOnce' /\ ShutdownWakes'
  <2>1. /\ Asleep' \subseteq Asleep
        /\ Awake \subseteq Awake'
        /\ Asleep = {} \/ Asleep' # Asleep
    BY <1>0, <1>6, NotifyOneWakes DEF Shutdown
  <2>2. PostTakenOnce' /\ notified' = notified
    BY <1>0, <1>6 DEF Shutdown, PostTakenOnce
  <2> QED
    BY <1>0, <1>a, <2>1, <2>2, ChannelAssumption
<1>7. CASE UNCHANGED vars
  BY <1>0, <1>a, <1>7 DEF vars, PostTakenOnce, Asleep, Awake
<1> QED
  BY <1>1, <1>2, <1>3, <1>4, <1>5, <1>6, <1>7 DEF Next, Wait, WakeUp

\* The invariant holds in every reachable state.
THEOREM ChannelInvariant == Spec => []ChannelInv
<1>1. ChannelInv /\ [Next]_vars => ChannelInv'
  BY ChannelStep
<1> QED
  BY ChannelInit, <1>1, PTL DEF Spec

\* No post is lost between a waiter's look at the predicate and its sleep,
\* however many threads wait, post, release and wake up for no reason.
THEOREM PostsAreSeen == Spec => []PostIsSeen
<1>1. ChannelInv => PostIsSeen
  BY DEF ChannelInv
<1> QED
  BY <1>1, ChannelInvariant, PTL

\* NOTIFIED is returned at most once per post.
THEOREM PostsAreTakenOnce == Spec => []PostTakenOnce
<1>1. ChannelInv => PostTakenOnce
  BY DEF ChannelInv
<1> QED
  BY <1>1, ChannelInvariant, PTL

\* After a shutdown there is always a waiter that is not asleep, so a lone
\* waiter is never left behind although shutdown wakes only one.
THEOREM ShutdownsWake == Spec => []ShutdownWakes
<1>1. ChannelInv => ShutdownWakes
  BY DEF ChannelInv
<1> QED
  BY <1>1, ChannelInvariant, PTL
=============================================================================
