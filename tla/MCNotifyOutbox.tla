---------------------------- MODULE MCNotifyOutbox ----------------------------
(* Instances of NotifyOutbox: channels a and b of one rule, a fallback f. *)
EXTENDS NotifyOutbox, TLC

CONSTANTS a, b, f, e1, e2

NoRecoveries == <<>>
Recovers == e2 :> e1

HandsToF == [c \in Channels |-> IF c = a THEN f ELSE None]
NoHandOff == [c \in Channels |-> None]
===============================================================================
