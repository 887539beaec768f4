---------------------------- MODULE MCSolverPool ----------------------------
(* Instances of SolverPool for TLC: four calls of three priorities on two   *)
(* enabled instances and a disabled one, or three calls and settings that   *)
(* shrink, empty and restore the pool while leases are out.                 *)
EXTENDS SolverPool

CONSTANTS urgent, first, second, late

On(p) == [prio |-> p, enabled |-> TRUE]
Off(p) == [prio |-> p, enabled |-> FALSE]

FourCalls == {urgent, first, second, late}
FourPriorities == [c \in FourCalls |-> CASE c = urgent -> -1000
                                         [] c = late -> 100
                                         [] OTHER -> 1]

ThreeCalls == {urgent, first, second}
ThreePriorities == [c \in ThreeCalls |-> IF c = urgent THEN -1000 ELSE 1]

OneSetting == {[instances |-> <<On(2), Off(0), On(1)>>, cooldown |-> 3]}

SwappedSettings == {[instances |-> <<On(1), On(1)>>, cooldown |-> 0],
                    [instances |-> <<On(1)>>, cooldown |-> 0],
                    [instances |-> <<>>, cooldown |-> 0]}

NoCall == {}
=============================================================================
