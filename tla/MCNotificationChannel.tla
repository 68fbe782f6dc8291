----------------------- MODULE MCNotificationChannel -----------------------
(* Small instances of NotificationChannel for TLC. *)
EXTENDS NotificationChannel

CONSTANTS w1, w2, n1, n2
=============================================================================
