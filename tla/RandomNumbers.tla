---------------------------- MODULE RandomNumbers ----------------------------
(* debug/src/rng.cpp: threads that fill one vector with random numbers.  Their   *)
(* counter is atomic, but is tested and incremented in two operations, and        *)
(* push_back takes no lock.  Two that store at a time may overwrite each other's   *)
(* number.  If one of them replaces the memory of the vector, or the other stores   *)
(* behind its end, the vector's three pointers may be into different blocks, one of  *)
(* which has been freed: then its size is a difference of unrelated addresses, and   *)
(* the program may end whenever it uses the memory.                             *)
EXTENDS Integers

CONSTANTS
    ThreadCounts,   \* the values of thread_count
    TotalNumbers,   \* the values of total_number
    WildSizes       \* the values that a difference of unrelated addresses may have

ASSUME RngAssumption ==
    ThreadCounts \subseteq Nat \ {0} /\ TotalNumbers \subseteq Nat /\ WildSizes \subseteq Nat

VARIABLES
    threadCount,    \* thread_count
    total,          \* total_number
    counter,        \* i
    size,           \* data.size(), the difference of the vector's end and beginning
    capacity,       \* data.capacity(), that of the end of its memory and its beginning
    wild,           \* whether a push_back has had another's memory in its hands
    threadAt,       \* per thread, its next operation
    end             \* per thread, the size that its push_back is going to add one to

rngVars == <<threadCount, total, counter, size, capacity, wild, threadAt, end>>

rngVector == <<size, capacity, wild, end>>

Threads == 1 .. threadCount

RngInit ==
    /\ threadCount \in ThreadCounts
    /\ total \in TotalNumbers
    /\ counter = 0
    /\ size = 0 /\ capacity = 0 /\ wild = FALSE
    /\ threadAt = [t \in Threads |-> "test"]
    /\ end = [t \in Threads |-> 0]

\* Mutant: one number more.
TestOneMore(t) ==
    /\ threadAt[t] = "test"
    /\ threadAt' = [threadAt EXCEPT ![t] = IF counter <= total THEN "push" ELSE "joined"]
    /\ UNCHANGED <<threadCount, total, counter, rngVector>>

Test(t) ==
    /\ threadAt[t] = "test"
    /\ threadAt' = [threadAt EXCEPT ![t] = IF counter < total THEN "push" ELSE "joined"]
    /\ UNCHANGED <<threadCount, total, counter, rngVector>>

PushesWith(u) == threadAt[u] \in {"storing", "adding", "growing"}

\* push_back finds room for one more, or that it must take a larger block.  Nobody
\* else may use the vector while it is replaced.
BeginPush(t) ==
    LET grows == size = capacity
        place == IF grows THEN "growing" ELSE "storing"
    IN  /\ threadAt[t] = "push"
        /\ threadAt' = [threadAt EXCEPT ![t] = place]
        /\ end' = [end EXCEPT ![t] = size]
        /\ wild' = (wild \/ \E u \in Threads \ {t} : threadAt[u] = "growing" \/ (grows /\ PushesWith(u)))
        /\ UNCHANGED <<threadCount, total, counter, size, capacity>>

\* The number is stored at the end of the vector, which somebody else may have moved
\* to the end of the memory meanwhile.
Store(t) ==
    /\ threadAt[t] = "storing"
    /\ threadAt' = [threadAt EXCEPT ![t] = "adding"]
    /\ end' = [end EXCEPT ![t] = size]
    /\ wild' = (wild \/ size = capacity)
    /\ UNCHANGED <<threadCount, total, counter, size, capacity>>

\* The end of the vector moves by one from where it was found.
EndPush(t) ==
    /\ threadAt[t] = "adding"
    /\ threadAt' = [threadAt EXCEPT ![t] = "increment"]
    /\ IF wild THEN size' \in WildSizes ELSE size' = end[t] + 1
    /\ UNCHANGED <<threadCount, total, counter, capacity, wild, end>>

\* Twice as much memory, the numbers moved there and the old memory freed.
Grow(t) ==
    /\ threadAt[t] = "growing"
    /\ threadAt' = [threadAt EXCEPT ![t] = "increment"]
    /\ IF wild
       THEN size' \in WildSizes /\ capacity' \in WildSizes
       ELSE size' = end[t] + 1 /\ capacity' = end[t] + (IF end[t] = 0 THEN 1 ELSE end[t])
    /\ UNCHANGED <<threadCount, total, counter, wild, end>>

\* Memory that was freed, or lies behind the block, is used by a push_back, or by
\* main, which reads the vector when all threads have been joined.
Crash ==
    /\ wild
    /\ (\E t \in Threads : PushesWith(t)) \/ (\A t \in Threads : threadAt[t] = "joined")
    /\ threadAt' = [t \in Threads |-> "crashed"]
    /\ UNCHANGED <<threadCount, total, counter, rngVector>>

Increment(t) ==
    /\ threadAt[t] = "increment"
    /\ counter' = counter + 1
    /\ threadAt' = [threadAt EXCEPT ![t] = "test"]
    /\ UNCHANGED <<threadCount, total, rngVector>>

RngStep(t) == Test(t) \/ BeginPush(t) \/ Store(t) \/ EndPush(t) \/ Grow(t) \/ Increment(t)

\* All threads have been joined: main prints n = data.size().
RngOver ==
    /\ \A t \in Threads : threadAt[t] \in {"joined", "crashed"}
    /\ UNCHANGED rngVars

RngNext == (\E t \in Threads : RngStep(t)) \/ Crash \/ RngOver

RngSpec == RngInit /\ [][RngNext]_rngVars

-----------------------------------------------------------------------------

\* The n that main prints.  Each thread but the last to test may add a number to
\* those asked for.  Threads that get in each other's way lose numbers, but never
\* the last one, as long as none has replaced the memory under another's hands or
\* stored behind it; if one has, n may be anything.  A thread alone makes exactly
\* the numbers asked for, and always in its own memory.
NumbersPrinted ==
    (\A t \in Threads : threadAt[t] = "joined") =>
        /\ counter \in total .. (total + threadCount - 1)
        /\ ~wild => size <= counter /\ (size = 0 <=> total = 0)
        /\ threadCount = 1 \/ total = 0 => ~wild /\ size = total
=============================================================================
