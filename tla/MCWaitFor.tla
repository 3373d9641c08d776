----------------------------- MODULE MCWaitFor -----------------------------
(* Three tasks, two of them servers, and two locks that two of the tasks   *)
(* take in any order; the third nests one of them.                         *)
EXTENDS WaitFor, TLC

CONSTANTS a, b, c, l, m

SomeNests == [t \in Tasks |-> IF t = c THEN l :> 2 @@ m :> 0 ELSE l :> 1 @@ m :> 1]

(* waitfor_reaches() as the code computes it: at most MAX_TASKS steps along *)
(* the edges.                                                               *)
Count == 3
Walk(g, me, target) ==
    LET cur[n \in 0..Count] == IF n = 0 THEN target
                               ELSE IF cur[n - 1] = None THEN None ELSE g[cur[n - 1]]
    IN \E n \in 0..Count - 1 : cur[n] = me

(* The walk finds what can be reached, in every graph. *)
ASSUME WalkExact ==
    \A g \in [Tasks -> Tasks \cup {None}], me, target \in Tasks :
        Walk(g, me, target) <=> waitfor_reaches(g, me, target)
=============================================================================
