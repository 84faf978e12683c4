---------------------------- MODULE LineGraph ----------------------------
(***************************************************************************)
(* What line chaining promises: every line forwards to at most one other   *)
(* line, one line changes at a time, each change gives the line a new      *)
(* generation, and no sequence of changes ever closes a loop of lines.     *)
(* LineChain is the protocol of plans, approvals, leases and results that  *)
(* implements it.                                                          *)
(***************************************************************************)
EXTENDS Common, Naturals

CONSTANT Lines

VARIABLES
    downstream,   \* line -> the line it forwards to, or None
    generation    \* line -> how often its forwarding was changed

(* A set of lines each of which hops to a line of the set: with finitely   *)
(* many lines, some line is reached from itself.                           *)
Loops(hops) == \E S \in (SUBSET Lines) \ {{}} : \A l \in S : \E t \in S : <<l, t>> \in hops

GraphInit == downstream = [l \in Lines |-> None] /\ generation = [l \in Lines |-> 0]

(* One line is pointed at another line, or at none. *)
Change(l, to) ==
    /\ downstream' = [downstream EXCEPT ![l] = to]
    /\ generation' = [generation EXCEPT ![l] = @ + 1]
    /\ ~Loops({<<x, downstream'[x]>> : x \in {y \in Lines : downstream'[y] # None}})

(* The lines of a deleted node are forgotten together. *)
Forget(gone) ==
    /\ downstream' = [l \in Lines |-> IF l \in gone THEN None ELSE downstream[l]]
    /\ generation' = [l \in Lines |-> IF l \in gone THEN 0 ELSE generation[l]]

GraphNext == \/ \E gone \in SUBSET Lines : Forget(gone)
             \/ \E l \in Lines, to \in Maybe(Lines) : Change(l, to)

GraphSpec == GraphInit /\ [][GraphNext]_<<downstream, generation>>
=============================================================================
