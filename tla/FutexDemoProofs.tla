--------------------------- MODULE FutexDemoProofs ---------------------------
(* Proofs about futex_demo.c for every number of loops and of interruptions:  *)
(* the turn is neither lost nor doubled, no wake-up is lost, and the lines    *)
(* alternate.  That both processes come to their end is left to TLC.          *)
EXTENDS FutexDemo, TLAPS

\* The loop counter follows the lines; a process in the body of its loop has
\* not written its last line yet.
CountersInv ==
    \A p \in Procs :
        /\ lines[p] = IF pc[p] \in {"post", "wake"} THEN j[p] + 1 ELSE j[p]
        /\ pc[p] \in {"try", "wait", "asleep", "print", "post", "wake"} => j[p] < NLoops

\* It is the parent's turn when the lines are level.
TurnInv ==
    /\ futex["parent"] = 1 \/ pc["parent"] = "print" \/ pc["child"] = "post"
         => lines["parent"] = lines["child"]
    /\ futex["child"] = 1 \/ pc["child"] = "print" \/ pc["parent"] = "post"
         => lines["parent"] = lines["child"] + 1

Inv ==
    /\ TypeOK
    /\ OneTurn
    /\ NoLostWakeup
    /\ CountersInv
    /\ TurnInv

LEMMA InvInit == Init => Inv
  <1> SUFFICES ASSUME Init PROVE Inv
    OBVIOUS
  <1> USE FutexAssumption DEF Init, Procs
  <1>1. TypeOK
    BY DEF TypeOK, Locations
  <1>2. OneTurn
    BY DEF OneTurn, HasTurn, Peer
  <1>3. NoLostWakeup
    BY DEF NoLostWakeup, Sleeping
  <1>4. CountersInv /\ TurnInv
    BY DEF CountersInv, TurnInv
  <1> QED BY <1>1, <1>2, <1>3, <1>4 DEF Inv

\* One lemma per part of the invariant, each with a step per action.

LEMMA TypeStep == Inv /\ [Next]_vars => TypeOK'
  <1> SUFFICES ASSUME Inv, [Next]_vars PROVE TypeOK'
    OBVIOUS
  <1> USE FutexAssumption DEF Inv, TypeOK, Procs, Locations, Goto
  <1>1. ASSUME NEW p \in Procs, EnterLoop(p) \/ Take(p) \/ TakeFails(p) \/ FutexWait(p)
        PROVE  TypeOK'
    BY <1>1 DEF EnterLoop, Take, TakeFails, FutexWait
  <1>2. ASSUME NEW p \in Procs, Write(p) PROVE TypeOK'
    BY <1>2 DEF Write, CountersInv
  <1>3. ASSUME NEW p \in Procs, Post(p) PROVE TypeOK'
    BY <1>3 DEF Post, CountersInv, Peer
  <1>4. ASSUME NEW p \in Procs, Wake(p) PROVE TypeOK'
    BY <1>4 DEF Wake, CountersInv, Peer
  <1>5. ASSUME NEW p \in Procs, Interrupted(p) \/ SpuriousWake(p) PROVE TypeOK'
    BY <1>5 DEF Interrupted, SpuriousWake
  <1>6. ASSUME Reap \/ AllGone \/ UNCHANGED vars PROVE TypeOK'
    BY <1>6 DEF Reap, AllGone, vars
  <1> QED BY <1>1, <1>2, <1>3, <1>4, <1>5, <1>6 DEF Next, Step

LEMMA OneTurnStep == Inv /\ [Next]_vars => OneTurn'
  <1> SUFFICES ASSUME Inv, [Next]_vars PROVE OneTurn'
    OBVIOUS
  <1> USE DEF Inv, OneTurn, TypeOK, Procs, HasTurn, Goto, Peer
  <1>1. ASSUME NEW p \in Procs, EnterLoop(p) \/ TakeFails(p) \/ FutexWait(p) PROVE OneTurn'
    BY <1>1 DEF EnterLoop, TakeFails, FutexWait
  <1>2. ASSUME NEW p \in Procs, Take(p) PROVE OneTurn'
    BY <1>2 DEF Take
  <1>3. ASSUME NEW p \in Procs, Write(p) PROVE OneTurn'
    BY <1>3 DEF Write
  <1>4. ASSUME NEW p \in Procs, Post(p) PROVE OneTurn'
    BY <1>4 DEF Post
  <1>5. ASSUME NEW p \in Procs, Wake(p) PROVE OneTurn'
    BY <1>5 DEF Wake, Sleeping
  <1>6. ASSUME NEW p \in Procs, Interrupted(p) \/ SpuriousWake(p) PROVE OneTurn'
    BY <1>6 DEF Interrupted, SpuriousWake, Sleeping
  <1>7. ASSUME Reap \/ AllGone \/ UNCHANGED vars PROVE OneTurn'
    BY <1>7 DEF Reap, AllGone, vars
  <1> QED BY <1>1, <1>2, <1>3, <1>4, <1>5, <1>6, <1>7 DEF Next, Step

LEMMA NoLostWakeupStep == Inv /\ [Next]_vars => NoLostWakeup'
  <1> SUFFICES ASSUME Inv, [Next]_vars PROVE NoLostWakeup'
    OBVIOUS
  <1> USE DEF Inv, NoLostWakeup, TypeOK, Procs, Sleeping, Goto, Peer
  <1>1. ASSUME NEW p \in Procs, EnterLoop(p) \/ Take(p) \/ TakeFails(p) PROVE NoLostWakeup'
    BY <1>1 DEF EnterLoop, Take, TakeFails
  <1>2. ASSUME NEW p \in Procs, FutexWait(p) PROVE NoLostWakeup'
    BY <1>2 DEF FutexWait
  <1>3. ASSUME NEW p \in Procs, Write(p) PROVE NoLostWakeup'
    BY <1>3 DEF Write
  <1>4. ASSUME NEW p \in Procs, Post(p) PROVE NoLostWakeup'
    BY <1>4 DEF Post, OneTurn, HasTurn
  <1>5. ASSUME NEW p \in Procs, Wake(p) PROVE NoLostWakeup'
    BY <1>5 DEF Wake
  <1>6. ASSUME NEW p \in Procs, Interrupted(p) \/ SpuriousWake(p) PROVE NoLostWakeup'
    BY <1>6 DEF Interrupted, SpuriousWake
  <1>7. ASSUME Reap \/ AllGone \/ UNCHANGED vars PROVE NoLostWakeup'
    BY <1>7 DEF Reap, AllGone, vars
  <1> QED BY <1>1, <1>2, <1>3, <1>4, <1>5, <1>6, <1>7 DEF Next, Step

LEMMA CountersStep == Inv /\ [Next]_vars => CountersInv'
  <1> SUFFICES ASSUME Inv, [Next]_vars PROVE CountersInv'
    OBVIOUS
  <1> USE DEF Inv, CountersInv, TypeOK, Procs, Goto, Peer
  <1>1. ASSUME NEW p \in Procs, EnterLoop(p) PROVE CountersInv'
    BY <1>1 DEF EnterLoop
  <1>2. ASSUME NEW p \in Procs, Take(p) \/ TakeFails(p) \/ FutexWait(p) PROVE CountersInv'
    BY <1>2 DEF Take, TakeFails, FutexWait
  <1>3. ASSUME NEW p \in Procs, Write(p) PROVE CountersInv'
    BY <1>3 DEF Write
  <1>4. ASSUME NEW p \in Procs, Post(p) PROVE CountersInv'
    BY <1>4 DEF Post
  <1>5. ASSUME NEW p \in Procs, Wake(p) PROVE CountersInv'
    BY <1>5 DEF Wake, Sleeping
  <1>6. ASSUME NEW p \in Procs, Interrupted(p) \/ SpuriousWake(p) PROVE CountersInv'
    BY <1>6 DEF Interrupted, SpuriousWake, Sleeping
  <1>7. ASSUME Reap \/ AllGone \/ UNCHANGED vars PROVE CountersInv'
    BY <1>7 DEF Reap, AllGone, vars
  <1> QED BY <1>1, <1>2, <1>3, <1>4, <1>5, <1>6, <1>7 DEF Next, Step

LEMMA TurnStep == Inv /\ [Next]_vars => TurnInv'
  <1> SUFFICES ASSUME Inv, [Next]_vars PROVE TurnInv'
    OBVIOUS
  <1> USE DEF Inv, TurnInv, TypeOK, Procs, Goto, Peer
  <1>1. ASSUME NEW p \in Procs, EnterLoop(p) \/ TakeFails(p) \/ FutexWait(p) PROVE TurnInv'
    BY <1>1 DEF EnterLoop, TakeFails, FutexWait
  <1>2. ASSUME NEW p \in Procs, Take(p) PROVE TurnInv'
    BY <1>2 DEF Take
  <1>3. ASSUME NEW p \in Procs, Write(p) PROVE TurnInv'
    BY <1>3 DEF Write, OneTurn, HasTurn
  <1>4. ASSUME NEW p \in Procs, Post(p) PROVE TurnInv'
    BY <1>4 DEF Post, OneTurn, HasTurn
  <1>5. ASSUME NEW p \in Procs, Wake(p) PROVE TurnInv'
    BY <1>5 DEF Wake, Sleeping
  <1>6. ASSUME NEW p \in Procs, Interrupted(p) \/ SpuriousWake(p) PROVE TurnInv'
    BY <1>6 DEF Interrupted, SpuriousWake, Sleeping
  <1>7. ASSUME Reap \/ AllGone \/ UNCHANGED vars PROVE TurnInv'
    BY <1>7 DEF Reap, AllGone, vars
  <1> QED BY <1>1, <1>2, <1>3, <1>4, <1>5, <1>6, <1>7 DEF Next, Step

LEMMA InvStep == Inv /\ [Next]_vars => Inv'
  BY TypeStep, OneTurnStep, NoLostWakeupStep, CountersStep, TurnStep DEF Inv

THEOREM Invariance == Spec => []Inv
  BY InvInit, InvStep, PTL DEF Spec

\* The state keeps its type; in particular the counters stay within nloops.
THEOREM TypeCorrect == Spec => []TypeOK
  <1>1. Inv => TypeOK
    BY DEF Inv
  <1> QED BY <1>1, Invariance, PTL

\* There is always exactly one turn.
THEOREM TurnIsUnique == Spec => []OneTurn
  <1>1. Inv => OneTurn
    BY DEF Inv
  <1> QED BY <1>1, Invariance, PTL

\* A sleeper whose futex is available is about to be woken.
THEOREM WakeupsArrive == Spec => []NoLostWakeup
  <1>1. Inv => NoLostWakeup
    BY DEF Inv
  <1> QED BY <1>1, Invariance, PTL

-----------------------------------------------------------------------------

LEMMA InitAlternates == Init => Turns!Init
  BY DEF Init, Turns!Init, Procs

LEMMA StepAlternates == Inv /\ [Next]_vars => [Turns!Next]_(Turns!vars)
  <1> SUFFICES ASSUME Inv, [Next]_vars PROVE [Turns!Next]_(Turns!vars)
    OBVIOUS
  <1> USE DEF Inv, Procs
  <1>1. ASSUME Write("parent") PROVE Turns!ParentWrites
    <2>1. lines' = [lines EXCEPT !["parent"] = @ + 1] /\ pc["parent"] = "print"
      BY <1>1 DEF Write
    <2>2. lines["parent"] = lines["child"] /\ lines["parent"] < NLoops
      BY <2>1, FutexAssumption DEF TurnInv, CountersInv, TypeOK
    <2> QED BY <2>1, <2>2 DEF Turns!ParentWrites, TypeOK
  <1>2. ASSUME Write("child") PROVE Turns!ChildWrites
    <2>1. lines' = [lines EXCEPT !["child"] = @ + 1] /\ pc["child"] = "print"
      BY <1>2 DEF Write
    <2>2. lines["child"] < lines["parent"]
      BY <2>1, FutexAssumption DEF TurnInv, TypeOK
    <2> QED BY <2>1, <2>2 DEF Turns!ChildWrites, TypeOK
  <1>3. ASSUME NEW p \in Procs,
               \/ EnterLoop(p) \/ Take(p) \/ TakeFails(p) \/ FutexWait(p) \/ Post(p) \/ Wake(p)
               \/ Interrupted(p) \/ SpuriousWake(p) \/ Reap \/ AllGone
        PROVE  UNCHANGED Turns!vars
    BY <1>3 DEF EnterLoop, Take, TakeFails, FutexWait, Post, Wake, Interrupted, SpuriousWake,
                Reap, AllGone, vars, Turns!vars
  <1>4. ASSUME UNCHANGED vars PROVE UNCHANGED Turns!vars
    BY <1>4 DEF vars, Turns!vars
  <1> QED BY <1>1, <1>2, <1>3, <1>4 DEF Next, Step, Turns!Next

\* The messages alternate, the parent's first, also when a process dies.
THEOREM Alternate == Spec => ImplementsAlternation
  BY InitAlternates, StepAlternates, Invariance, PTL DEF Spec, Turns!Spec, ImplementsAlternation
=============================================================================
