----------------------------- MODULE MCLinkService -----------------------------
(* Instances of LinkService for TLC.                                       *)
EXTENDS LinkService, TLC

CONSTANTS Alice, Bob, D1, D2

Link(o, e) == [owner |-> o, dest |-> D1, expires |-> e, disabled |-> FALSE, visits |-> 0]

\* One stored link of Alice, of nobody, with an end, or none.  Requests create
\* the other links.
AliceLink == {Link(Alice, Never)}
AnyLink == {Absent, Link(Alice, Never), Link(NoOwner, 0)}
EndingOrNone == {Absent, Link(Alice, 0)}

RequestSymmetry == Permutations(Requests)
===============================================================================
