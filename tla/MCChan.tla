------------------------------- MODULE MCChan -------------------------------
(* Instances of Chan for TLC: callers are tasks 1.., task 0 owns the endpoint. *)
EXTENDS ChanInv

ThreeCallers == {1, 2, 3}
OnlyOwner    == {0}
Nobody       == {}
Owned        == [inline |-> FALSE, callers |-> {1, 2}, exits |-> OnlyOwner]
Handled      == [inline |-> TRUE, callers |-> ThreeCallers, exits |-> {1, 2}]
Both         == {Owned, Handled}
Crowded      == {[inline |-> FALSE, callers |-> ThreeCallers, exits |-> Nobody]}
=============================================================================
