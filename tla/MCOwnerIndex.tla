----------------------------- MODULE MCOwnerIndex -----------------------------
(* Instances of OwnerIndex for TLC.                                        *)
EXTENDS OwnerIndex, TLC

CONSTANTS Alice, Bob, R1, R2

Old(o) == [owner |-> o, born |-> 0]

\* Objects from before the index was enabled: a link, or none, or an object
\* that Refresh refuses.
OnlyOld == {Old(Alice)}
OldOrNone == {Absent, Old(Alice)}
OldOrBroken == {Broken, Old(Alice)}

\* An index that was never filled, and one that an earlier deployment left.
NoRows == {Absent}
StaleRows == {Old(Bob)}
EarlierRows == {Old(Alice)}

\* Processes are interchangeable: safety runs only.
ReplicaSymmetry == Permutations(Replicas)
===============================================================================
