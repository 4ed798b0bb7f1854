------------------------------ MODULE FutexDemo ------------------------------
(* linux-futex/futex_demo.c: a parent and a child take turns at the terminal  *)
(* with two futexes in memory they share.  Each waits for its own futex to    *)
(* become 1 and sets it to 0 (fwait), writes a line, and sets the other's to  *)
(* 1 and wakes a waiter (fpost).                                              *)
(*                                                                           *)
(* The kernel's side is modelled as futex(2) describes it: FUTEX_WAIT looks   *)
(* at the word and goes to sleep in one atomic step, or returns EAGAIN if the *)
(* word is not the expected 0; FUTEX_WAKE(1) wakes one sleeper if there is    *)
(* one; a sleeper may also return without a reason, as after a signal.  The   *)
(* program's error exits happen if a signal interrupts the wait (EINTR).      *)
EXTENDS Integers

CONSTANTS
    NLoops,         \* the argument nloops
    Interrupts      \* how many signals may interrupt the sleeps (a bound)

ASSUME FutexAssumption == NLoops \in Nat /\ Interrupts \in Nat

Procs == {"parent", "child"}

Peer(p) == IF p = "parent" THEN "child" ELSE "parent"

VARIABLES
    futex,          \* the futex each process waits for: futex2 is the parent's
    pc,             \* where each process is
    j,              \* its loop counter
    lines,          \* how many lines it has written
    interrupts      \* the signals that have arrived

vars == <<futex, pc, j, lines, interrupts>>

Sleeping(p) == pc[p] = "asleep"

Goto(p, where) == pc' = [pc EXCEPT ![p] = where]

Init ==
    /\ futex = [p \in Procs |-> IF p = "parent" THEN 1 ELSE 0]
    /\ pc = [p \in Procs |-> "loop"]
    /\ j = [p \in Procs |-> 0]
    /\ lines = [p \in Procs |-> 0]
    /\ interrupts = 0

-----------------------------------------------------------------------------

\* The for statement's test.  The parent then waits for its child.
EnterLoop(p) ==
    /\ pc[p] = "loop"
    /\ Goto(p, IF j[p] < NLoops THEN "try" ELSE IF p = "parent" THEN "reap" ELSE "exited")
    /\ UNCHANGED <<futex, j, lines, interrupts>>

\* Mutant: the word is tested but not taken.
TakeWithoutExchange(p) ==
    /\ pc[p] = "try"
    /\ futex[p] = 1
    /\ Goto(p, "print")
    /\ UNCHANGED <<futex, j, lines, interrupts>>

\* fwait's compare-and-exchange succeeds ...
Take(p) ==
    /\ pc[p] = "try"
    /\ futex[p] = 1
    /\ futex' = [futex EXCEPT ![p] = 0]
    /\ Goto(p, "print")
    /\ UNCHANGED <<j, lines, interrupts>>

\* ... or fails: the process is about to call FUTEX_WAIT.
TakeFails(p) ==
    /\ pc[p] = "try"
    /\ futex[p] # 1
    /\ Goto(p, "wait")
    /\ UNCHANGED <<futex, j, lines, interrupts>>

\* Mutant: the process goes to sleep without a second look at the word.
SleepUnconditionally(p) ==
    /\ pc[p] = "wait"
    /\ Goto(p, "asleep")
    /\ UNCHANGED <<futex, j, lines, interrupts>>

\* FUTEX_WAIT with the expected value 0; EAGAIN sends fwait round its loop.
FutexWait(p) ==
    /\ pc[p] = "wait"
    /\ Goto(p, IF futex[p] = 0 THEN "asleep" ELSE "try")
    /\ UNCHANGED <<futex, j, lines, interrupts>>

\* Mutant: a return with EINTR passes for success.
InterruptedIsSuccess(p) ==
    /\ Sleeping(p)
    /\ interrupts < Interrupts
    /\ interrupts' = interrupts + 1
    /\ Goto(p, "print")
    /\ UNCHANGED <<futex, j, lines>>

\* A signal: FUTEX_WAIT returns EINTR, which fwait does not retry (errExit).
Interrupted(p) ==
    /\ Sleeping(p)
    /\ interrupts < Interrupts
    /\ interrupts' = interrupts + 1
    /\ Goto(p, "failed")
    /\ UNCHANGED <<futex, j, lines>>

\* A wake-up that is none (man 2 futex: callers must check the word again).
SpuriousWake(p) ==
    /\ Sleeping(p)
    /\ Goto(p, "try")
    /\ UNCHANGED <<futex, j, lines, interrupts>>

Write(p) ==
    /\ pc[p] = "print"
    /\ lines' = [lines EXCEPT ![p] = @ + 1]
    /\ Goto(p, "post")
    /\ UNCHANGED <<futex, j, interrupts>>

\* fpost's compare-and-exchange; if the word is not 0 nobody is woken.
Post(p) ==
    /\ pc[p] = "post"
    /\ IF futex[Peer(p)] = 0
       THEN futex' = [futex EXCEPT ![Peer(p)] = 1] /\ Goto(p, "wake") /\ UNCHANGED j
       ELSE j' = [j EXCEPT ![p] = @ + 1] /\ Goto(p, "loop") /\ UNCHANGED futex
    /\ UNCHANGED <<lines, interrupts>>

\* Mutant: the word is set and nobody is woken.
WakeNobody(p) ==
    /\ pc[p] = "wake"
    /\ Goto(p, "loop")
    /\ j' = [j EXCEPT ![p] = @ + 1]
    /\ UNCHANGED <<futex, lines, interrupts>>

\* FUTEX_WAKE of one waiter.
Wake(p) ==
    /\ pc[p] = "wake"
    /\ pc' = [pc EXCEPT ![p] = "loop", ![Peer(p)] = IF Sleeping(Peer(p)) THEN "try" ELSE @]
    /\ j' = [j EXCEPT ![p] = @ + 1]
    /\ UNCHANGED <<futex, lines, interrupts>>

\* The parent's wait(NULL) returns when the child has gone, however it went.
Reap ==
    /\ pc["parent"] = "reap"
    /\ pc["child"] \in {"exited", "failed"}
    /\ Goto("parent", "exited")
    /\ UNCHANGED <<futex, j, lines, interrupts>>

Step(p) ==
    \/ EnterLoop(p) \/ Take(p) \/ TakeFails(p) \/ FutexWait(p)
    \/ Write(p) \/ Post(p) \/ Wake(p)
    \/ p = "parent" /\ Reap

AllGone ==
    /\ \A p \in Procs : pc[p] \in {"exited", "failed"}
    /\ UNCHANGED vars

Next == (\E p \in Procs : Step(p) \/ Interrupted(p) \/ SpuriousWake(p)) \/ AllGone

Spec == Init /\ [][Next]_vars

\* The scheduler runs both processes; signals and idle wake-ups are not owed.
FairSpec == Spec /\ \A p \in Procs : WF_vars(Step(p))

-----------------------------------------------------------------------------

Locations == {"loop", "try", "wait", "asleep", "print", "post", "wake",
              "reap", "exited", "failed"}

TypeOK ==
    /\ futex \in [Procs -> {0, 1}]
    /\ pc \in [Procs -> Locations]
    /\ j \in [Procs -> 0 .. NLoops]
    /\ lines \in [Procs -> 0 .. NLoops]
    /\ interrupts \in 0 .. Interrupts

\* The process has the turn: it is between its fwait and its fpost.
HasTurn(p) == pc[p] \in {"print", "post"}

\* There is one turn and it is never lost or doubled: either one of the two
\* futexes is available, or one of the processes is between fwait and fpost.
\* In particular fpost's compare-and-exchange cannot fail.
OneTurn ==
    /\ \A p \in Procs : futex[p] = 1 => futex[Peer(p)] = 0 /\ \A q \in Procs : ~HasTurn(q)
    /\ \A p \in Procs : HasTurn(p) => ~HasTurn(Peer(p))
    /\ \E p \in Procs : futex[p] = 1 \/ HasTurn(p)

\* No wake-up is lost: a process that sleeps although its futex is available
\* is about to be woken, the peer being between fpost's exchange and its
\* FUTEX_WAKE.
NoLostWakeup ==
    \A p \in Procs : Sleeping(p) /\ futex[p] = 1 => pc[Peer(p)] = "wake"

\* The two processes alternate in writing messages, the parent first
\* (futex_demo.c:10-12), also if one of them dies of an error on the way.
Turns == INSTANCE Alternation
         WITH parentLines <- lines["parent"], childLines <- lines["child"]

ImplementsAlternation == Turns!Spec

\* Unless a signal kills one of them, both processes write all their messages
\* and come to their end.
BothExit ==
    [](interrupts = 0) => <>(\A p \in Procs : pc[p] = "exited" /\ lines[p] = NLoops)
=============================================================================
