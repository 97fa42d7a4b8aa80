------------------------------ MODULE MCTrading ------------------------------
(***************************************************************************)
(* Values for the constants of Trading that a configuration file cannot    *)
(* write down.                                                             *)
(***************************************************************************)
EXTENDS Trading, TLC

CONSTANTS m1, m2, t1, t2, t3

TaskSymmetry == Permutations(Tasks)

OneMint == [t \in Tasks |-> m1]

TwoMints == [t \in Tasks |-> IF t = t1 THEN m1 ELSE m2]

TwoAndOne == [t \in Tasks |-> IF t = t3 THEN m2 ELSE m1]

NoLevels == << >>

TakeHalves == <<50, 50>>      \* two take-profit levels

TakeHalf == <<50>>            \* one level

StopAll == <<100>>            \* one stop-loss level
=============================================================================
