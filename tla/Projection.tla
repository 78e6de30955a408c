------------------------------ MODULE Projection ------------------------------
(***************************************************************************)
(* What internal/relations promises of the owner index, with no queue, no  *)
(* worker and no lock: objects change, and now and then the row of one     *)
(* code is recomputed from a value of its object that is no older than the *)
(* one it was last computed from.                                          *)
(***************************************************************************)
EXTENDS Integers, Sequences

CONSTANTS
    Codes,
    RefOf(_)       \* the row of an object's value

VARIABLES
    log,           \* log[c]: every value object c has had
    row,           \* row[c]: the index row of c
    seen           \* seen[c]: which of them the row was last computed from

vars == <<log, row, seen>>

Init ==
    /\ \A c \in Codes : Len(log[c]) = 1
    /\ seen = [c \in Codes |-> 0]

Change(c) ==
    /\ Len(log'[c]) = Len(log[c]) + 1
    /\ log' = [log EXCEPT ![c] = Append(@, log'[c][Len(log[c]) + 1])]
    /\ UNCHANGED <<row, seen>>

Recompute(c) ==
    \E v \in 1 .. Len(log[c]) :
        /\ v >= seen[c]
        /\ row' = [row EXCEPT ![c] = RefOf(log[c][v])]
        /\ seen' = [seen EXCEPT ![c] = v]
        /\ UNCHANGED log

Next == \E c \in Codes : Change(c) \/ Recompute(c)

Spec == Init /\ [][Next]_vars
===============================================================================
