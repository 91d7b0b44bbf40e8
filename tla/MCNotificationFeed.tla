------------------------ MODULE MCNotificationFeed ------------------------
(* Constants for model-checking NotificationFeed. *)
EXTENDS NotificationFeed

CONSTANTS payments, ws1, ws2

MCCategory == {payments}
MCSocket == {ws1, ws2}
MCCallbacks == [preferences : SUBSET {payments}, isClient : BOOLEAN]
MCNoCallbacks == [preferences |-> {}, isClient |-> FALSE]
=============================================================================
