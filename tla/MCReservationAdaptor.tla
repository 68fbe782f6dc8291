------------------------ MODULE MCReservationAdaptor ------------------------
(* Small instances of ReservationAdaptor for TLC. *)
EXTENDS AdaptorDrift, TLC

CONSTANTS s1, s2, a1, a2, p1, p2, t1, t2

Perms == Permutations({s1, s2}) \cup Permutations({a1, a2}) \cup
         Permutations({p1, p2}) \cup Permutations({t1, t2})
=============================================================================
