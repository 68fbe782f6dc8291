------------------------ MODULE NotificationChannel ------------------------
(***************************************************************************)
(* notification_channel (src/memory/notification_channel.cpp): how the     *)
(* end of a reservation wakes a thread that waits for memory.  Every       *)
(* member runs under _mutex, so it is one step; the condition variable     *)
(* adds the threads that sleep in it and those that were woken and have    *)
(* not looked at the predicate again yet.                                  *)
(*                                                                         *)
(* A notifier travels with a reservation: notify_on_exit posts and then    *)
(* destroys it.  A reservation that could not be made destroys it without  *)
(* a post.                                                                 *)
(***************************************************************************)
EXTENDS Integers, FiniteSets

CONSTANTS
  Waiters,    \* threads that call wait
  Notifiers,  \* event_notifier objects
  SizeMod,    \* where the size_t _n_active_notifiers wraps
  MaxPosts    \* bound on the history counters

ASSUME ChannelAssumption ==
  Waiters # {} /\ SizeMod \in Nat \ {0} /\ MaxPosts \in Nat

VARIABLES
  running,   \* _is_running
  notified,  \* _has_been_notified
  count,     \* _n_active_notifiers
  notifier,  \* "none", "held" or "posted", for every notifier
  waiter,    \* "ready", "asleep" or "awake", for every waiter
  result,    \* history: the last wait_status a waiter was given
  posts,     \* history: number of posts
  taken      \* history: number of waits that returned NOTIFIED

vars == <<running, notified, count, notifier, waiter, result, posts, taken>>

Init ==
  /\ running = TRUE
  /\ notified = FALSE
  /\ count = 0
  /\ notifier = [n \in Notifiers |-> "none"]
  /\ waiter = [w \in Waiters |-> "ready"]
  /\ result = [w \in Waiters |-> "none"]
  /\ posts = 0
  /\ taken = 0

-----------------------------------------------------------------------------
Asleep == {w \in Waiters : waiter[w] = "asleep"}

\* notify_one wakes one sleeping thread, if there is one.
NotifyOne ==
  \/ Asleep = {} /\ UNCHANGED waiter
  \/ \E w \in Asleep : waiter' = [waiter EXCEPT ![w] = "awake"]

NotifyAll == waiter' = [w \in Waiters |-> IF waiter[w] = "asleep" THEN "awake" ELSE waiter[w]]

\* The predicate of wait, after it has taken the flag.
WaitOver == notified \/ count = 0 \/ ~running

WaitStatus ==
  CASE ~running             -> "SHUTDOWN"
    [] running /\ notified  -> "NOTIFIED"
    [] running /\ ~notified -> "IDLE"

\* get_notifier: the constructor does not count the new notifier.
GetNotifier(n) ==
  /\ notifier[n] = "none"
  /\ notifier' = [notifier EXCEPT ![n] = "held"]
  /\ UNCHANGED <<running, notified, count, waiter, result, posts, taken>>

\* ~notify_on_exit: post.
Post_Quiet(n) ==
  /\ notifier[n] = "held"
  /\ posts < MaxPosts
  /\ notifier' = [notifier EXCEPT ![n] = "posted"]
  /\ notified' = TRUE
  /\ posts' = posts + 1
  /\ UNCHANGED <<running, count, waiter, result, taken>>

Post(n) ==
  /\ notifier[n] = "held"
  /\ posts < MaxPosts
  /\ notifier' = [notifier EXCEPT ![n] = "posted"]
  /\ notified' = TRUE
  /\ NotifyOne
  /\ posts' = posts + 1
  /\ UNCHANGED <<running, count, result, taken>>

\* ~event_notifier: after a post, or at once when the reservation failed.
ReleaseNotifier(n) ==
  /\ notifier[n] # "none"
  /\ notifier' = [notifier EXCEPT ![n] = "none"]
  /\ count' = (count - 1) % SizeMod
  /\ \/ count' = 0 /\ NotifyAll
     \/ count' # 0 /\ UNCHANGED waiter
  /\ UNCHANGED <<running, notified, result, posts, taken>>

Shutdown_Quiet ==
  /\ running' = FALSE
  /\ UNCHANGED <<notified, count, notifier, waiter, result, posts, taken>>

Shutdown ==
  /\ running' = FALSE
  /\ NotifyOne
  /\ UNCHANGED <<notified, count, notifier, result, posts, taken>>

\* Looking at the predicate, on entry and after every wakeup: it takes the
\* flag whatever the answer, and the thread returns or goes to sleep.
LookAtPredicate_KeepFlag(w) ==
  /\ \/ /\ WaitOver
        /\ waiter' = [waiter EXCEPT ![w] = "ready"]
        /\ result' = [result EXCEPT ![w] = WaitStatus]
        /\ taken' = IF WaitStatus = "NOTIFIED" THEN taken + 1 ELSE taken
     \/ /\ ~WaitOver
        /\ waiter' = [waiter EXCEPT ![w] = "asleep"]
        /\ UNCHANGED <<result, taken>>
  /\ taken <= MaxPosts
  /\ UNCHANGED <<running, notified, count, notifier, posts>>

LookAtPredicate(w) ==
  /\ notified' = FALSE
  /\ \/ /\ WaitOver
        /\ waiter' = [waiter EXCEPT ![w] = "ready"]
        /\ result' = [result EXCEPT ![w] = WaitStatus]
        /\ taken' = IF WaitStatus = "NOTIFIED" THEN taken + 1 ELSE taken
     \/ /\ ~WaitOver
        /\ waiter' = [waiter EXCEPT ![w] = "asleep"]
        /\ UNCHANGED <<result, taken>>
  /\ UNCHANGED <<running, count, notifier, posts>>

Wait(w) == waiter[w] = "ready" /\ LookAtPredicate(w)

WakeUp(w) == waiter[w] = "awake" /\ LookAtPredicate(w)

\* A condition variable may wake a thread for no reason.
SpuriousWakeup(w) ==
  /\ waiter[w] = "asleep"
  /\ waiter' = [waiter EXCEPT ![w] = "awake"]
  /\ UNCHANGED <<running, notified, count, notifier, result, posts, taken>>

Next ==
  \/ \E n \in Notifiers : GetNotifier(n) \/ Post(n) \/ ReleaseNotifier(n)
  \/ \E w \in Waiters : Wait(w) \/ WakeUp(w) \/ SpuriousWakeup(w)
  \/ Shutdown

Spec == Init /\ [][Next]_vars

\* A woken thread gets the mutex sooner or later.
FairSpec == Spec /\ \A w \in Waiters : WF_vars(WakeUp(w))

-----------------------------------------------------------------------------
(* Properties.                                                             *)

\* Types.
TypeOK ==
  /\ running \in BOOLEAN /\ notified \in BOOLEAN
  /\ count \in 0..(SizeMod - 1)
  /\ notifier \in [Notifiers -> {"none", "held", "posted"}]
  /\ waiter \in [Waiters -> {"ready", "asleep", "awake"}]
  /\ result \in [Waiters -> {"none", "IDLE", "NOTIFIED", "SHUTDOWN"}]
  /\ posts \in Nat /\ taken \in Nat

\* A post is never lost between a waiter's look at the predicate and its
\* sleep: while the flag is set, either nobody sleeps or somebody has been
\* woken and is going to look.
PostIsSeen ==
  notified => Asleep = {} \/ \E w \in Waiters : waiter[w] = "awake"

\* A post releases one waiter: NOTIFIED is returned at most once per post.
PostTakenOnce == taken + (IF notified THEN 1 ELSE 0) <= posts

\* A shutdown never leaves everybody asleep.  It calls notify_one, so that a
\* second thread asleep at that moment may be left behind, but a lone waiter
\* never is.
ShutdownWakes == ~running => Asleep # Waiters

\* A post that finds threads in wait is taken: by the one it wakes, or by
\* another one that gets the mutex first.
PostIsTaken ==
  (notified /\ \E w \in Waiters : waiter[w] # "ready") ~> ~notified

=============================================================================
