----------------------------- MODULE Alternation -----------------------------
(* What linux-futex/futex_demo.c says of its two processes (lines 7-12): each *)
(* of them writes NLoops messages to the terminal, and they alternate; the   *)
(* parent, whose futex is available first, begins.                            *)
EXTENDS Integers

CONSTANT NLoops

VARIABLES
    parentLines,    \* the messages the parent has written
    childLines      \* the messages the child has written

vars == <<parentLines, childLines>>

Init == parentLines = 0 /\ childLines = 0

ParentWrites ==
    /\ parentLines = childLines
    /\ parentLines < NLoops
    /\ parentLines' = parentLines + 1
    /\ UNCHANGED childLines

ChildWrites ==
    /\ childLines < parentLines
    /\ childLines' = childLines + 1
    /\ UNCHANGED parentLines

Next == ParentWrites \/ ChildWrites

Spec == Init /\ [][Next]_vars
=============================================================================
