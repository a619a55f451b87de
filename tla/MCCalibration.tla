--------------------------- MODULE MCCalibration ---------------------------
(* Two instances and two updates, of a row with two editable columns and *)
(* one that is not, which two cache keys are loaded from (the default     *)
(* action of an area, and an action without a row of its own).            *)
EXTENDS Calibration, TLC

CONSTANTS row, default, other, a, b, fixed, x, y

BothKeys == [k \in {default, other} |-> row]

Whole(v) == [c \in {a, b} |-> IF c = a THEN v ELSE y]
Single(v) == [c \in {a} |-> v]

\* Columns hold x at first: a request may write it back, or restore it.
SomePayloads == {Single(x), Single(y), Whole(x), Whole(y), [c \in {b, fixed} |-> y], [c \in {fixed} |-> y]}

Symmetry == Permutations(Instances) \cup Permutations(Updates) \cup Permutations(Keys)
=============================================================================
