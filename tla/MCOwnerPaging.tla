----------------------------- MODULE MCOwnerPaging -----------------------------
(* Instances of OwnerPaging for TLC.                                       *)
EXTENDS OwnerPaging

Link(o, born) == [owner |-> o, born |-> born, expired |-> FALSE]

\* Links of one age, with their rows, or one of them newer than its row.
SomeLinks == {[c \in Codes |-> Link(User, 1)],
              [c \in Codes |-> Link(User, IF c = 2 THEN 2 ELSE 1)]}

OlderRows == {RefOf(Link(User, 1))}
AllPointed == {Codes}
===============================================================================
