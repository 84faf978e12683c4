-------------------------------- MODULE Common --------------------------------
(* What the component modules share. *)

(* The zero value of an id: no such thing. *)
CONSTANT None

Maybe(S) == S \cup {None}
===============================================================================
