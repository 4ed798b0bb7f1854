------------------------- MODULE DistributedHashTable -------------------------
(* sgd-comm/distributedhash.c: an open-addressing hash table spread over the  *)
(* MPI ranks by one-sided communication.  Each rank has N / Size objects of    *)
(* its own, looks each of them up once per round for k rounds, and counts the *)
(* look-ups that do not return the number of the round.                       *)
(*                                                                           *)
(* An object is known by its first word, which is all the table stores.  A    *)
(* lock epoch on a window (lock, access, unlock) is one step: it is exclusive *)
(* on its target.                                                            *)
EXTENDS Integers, FiniteSets

CONSTANTS
    Size,           \* the number of ranks
    N,              \* the number of objects
    K,              \* k: how often every object is looked up
    Objects,        \* Objects[r]: the sequence of objects of rank r, as a function
    HashFunctions,  \* the functions f may be, as far as these objects show it
    Empty,          \* the zero word of a slot nobody has used
    EagerGet,       \* whether an MPI_Get has its result before the unlock
    RangeChecks     \* whether MPI may reject an access outside of a window, or not

Ranks == 0 .. (Size - 1)

\* N / size: how many objects a rank has.
Share == N \div Size

Nobj == (2 * N) \div Size + 1

Hashlen == 2 * N + 1

TableSlots == 0 .. (Nobj * Size - 1)

AllObjects == {Objects[r][n] : r \in Ranks, n \in 0 .. (Share - 1)}

ASSUME TableAssumption ==
    /\ Size \in Nat \ {0} /\ N \in Nat /\ K \in Nat
    /\ HashFunctions \subseteq [AllObjects -> 0 .. (Hashlen - 1)]
    /\ Empty \notin AllObjects
    /\ \A r, s \in Ranks, n, m \in 0 .. (Share - 1) :     \* next_rand does not repeat
          Objects[r][n] = Objects[s][m] => r = s /\ n = m
    /\ EagerGet \in BOOLEAN /\ RangeChecks \subseteq BOOLEAN

VARIABLES
    hash,           \* f, unchanged during an execution
    rangeChecked,   \* what this MPI does with such an access
    hashtab,        \* the object of each slot of the whole table
    hashcount,      \* the count of each slot
    pc,             \* per rank, where it is
    round,          \* per rank, i of main
    nth,            \* per rank, j of main: the object it looks up
    v,              \* per rank, the slot hashlookup is at
    repeats         \* per rank, repeatObj

vars == <<hash, rangeChecked, hashtab, hashcount, pc, round, nth, v, repeats>>

ConstantsOfRun == <<hash, rangeChecked>>

Object(r) == Objects[r][nth[r]]

\* destPos of a slot, and whether the window made with nobj * sizeof(int)
\* bytes and a displacement unit of sizeof(numb) has an int there.
Position(slot) == slot % Nobj

InWindow(slot) == rangeChecked => Position(slot) * 8 + 4 <= Nobj * 4

Init ==
    /\ hash \in HashFunctions
    /\ rangeChecked \in RangeChecks
    /\ hashtab = [s \in TableSlots |-> Empty]
    /\ hashcount = [s \in TableSlots |-> 0]
    /\ pc = [r \in Ranks |-> IF Share = 0 \/ K = 0 THEN "reduce" ELSE "get"]
    /\ round = [r \in Ranks |-> 1]
    /\ nth = [r \in Ranks |-> 0]
    /\ v = [r \in Ranks |-> IF Share = 0 \/ K = 0 THEN 0 ELSE hash[Objects[r][0]]]
    /\ repeats = [r \in Ranks |-> 0]

-----------------------------------------------------------------------------
(* main: what a rank does with the count that hashlookup returns.             *)

\* The next look-up of rank r: object n of round i.
LookUp(r, n, i) ==
    /\ nth' = [nth EXCEPT ![r] = n]
    /\ round' = [round EXCEPT ![r] = i]
    /\ v' = [v EXCEPT ![r] = hash[Objects[r][n]]]
    /\ pc' = [pc EXCEPT ![r] = "get"]

Return(r, c) ==
    /\ repeats' = [repeats EXCEPT ![r] = IF c # round[r] THEN @ + 1 ELSE @]
    /\ IF nth[r] + 1 < Share
       THEN LookUp(r, nth[r] + 1, round[r])
       ELSE IF round[r] < K
            THEN LookUp(r, 0, round[r] + 1)
            ELSE pc' = [pc EXCEPT ![r] = "reduce"] /\ UNCHANGED <<nth, round, v>>

-----------------------------------------------------------------------------
(* hashlookup                                                                 *)

Goto(r, where) ==
    /\ pc' = [pc EXCEPT ![r] = where]
    /\ UNCHANGED <<round, nth, repeats>>

\* An access outside of the window: MPI's error handler ends the job.
RangeError(r) ==
    /\ pc[r] = "get"
    /\ ~InWindow(v[r])
    /\ Goto(r, "aborted")
    /\ UNCHANGED <<ConstantsOfRun, hashtab, hashcount, v>>

\* Mutants of Probe: the comparison with the object is forgotten, every second
\* slot is tried, and none is.
ProbeAnyway(r) ==
    /\ pc[r] = "get"
    /\ InWindow(v[r])
    /\ hashtab[v[r]] # Empty
    /\ v' = [v EXCEPT ![r] = IF @ + 1 >= Hashlen THEN 0 ELSE @ + 1]
    /\ UNCHANGED <<ConstantsOfRun, hashtab, hashcount, pc, round, nth, repeats>>

ProbeEverySecond(r) ==
    /\ pc[r] = "get"
    /\ InWindow(v[r])
    /\ hashtab[v[r]] \notin {Empty, Object(r)}
    /\ v' = [v EXCEPT ![r] = (@ + 2) % Hashlen]
    /\ UNCHANGED <<ConstantsOfRun, hashtab, hashcount, pc, round, nth, repeats>>

ProbeSameSlot(r) ==
    /\ pc[r] = "get"
    /\ InWindow(v[r])
    /\ hashtab[v[r]] \notin {Empty, Object(r)}
    /\ v' = [v EXCEPT ![r] = IF @ + 1 >= Hashlen THEN 0 ELSE @]
    /\ UNCHANGED <<ConstantsOfRun, hashtab, hashcount, pc, round, nth, repeats>>

\* The slot has another object: try the next one.
Probe(r) ==
    /\ pc[r] = "get"
    /\ InWindow(v[r])
    /\ hashtab[v[r]] \notin {Empty, Object(r)}
    /\ v' = [v EXCEPT ![r] = IF @ + 1 >= Hashlen THEN 0 ELSE @ + 1]
    /\ UNCHANGED <<ConstantsOfRun, hashtab, hashcount, pc, round, nth, repeats>>

\* The slot has the object, or nothing: what to do about it is another epoch.
Find(r) ==
    /\ pc[r] = "get"
    /\ InWindow(v[r])
    /\ hashtab[v[r]] = Object(r)
    /\ Goto(r, "found")
    /\ UNCHANGED <<ConstantsOfRun, hashtab, hashcount, v>>

FindEmpty(r) ==
    /\ pc[r] = "get"
    /\ InWindow(v[r])
    /\ hashtab[v[r]] = Empty
    /\ Goto(r, "insert")
    /\ UNCHANGED <<ConstantsOfRun, hashtab, hashcount, v>>

\* localCount is incremented after MPI_Get has been called and before the
\* unlock that completes it: unless MPI_Get is eager, localCount may still be
\* 0 then, and be overwritten with the old count afterwards.
PossibleCounts(old) == IF EagerGet THEN {old + 1} ELSE {1, old, old + 1}

Increment(r) ==
    /\ pc[r] = "found"
    /\ \E put, returned \in PossibleCounts(hashcount[v[r]]) :
          /\ hashcount' = [hashcount EXCEPT ![v[r]] = put]
          /\ Return(r, returned)
    /\ UNCHANGED <<ConstantsOfRun, hashtab>>

Insert(r) ==
    /\ pc[r] = "insert"
    /\ hashtab' = [hashtab EXCEPT ![v[r]] = Object(r)]
    /\ Goto(r, "first")
    /\ UNCHANGED <<ConstantsOfRun, hashcount, v>>

CountFirst(r) ==
    /\ pc[r] = "first"
    /\ hashcount' = [hashcount EXCEPT ![v[r]] = 1]
    /\ Return(r, 1)
    /\ UNCHANGED <<ConstantsOfRun, hashtab>>

\* MPI_Reduce and MPI_Win_free, which no rank leaves before all have come.
Finish(r) ==
    /\ pc[r] = "reduce"
    /\ \A s \in Ranks : pc[s] \in {"reduce", "done"}
    /\ Goto(r, "done")
    /\ UNCHANGED <<ConstantsOfRun, hashtab, hashcount, v>>

Hashlookup(r) ==
    \/ RangeError(r) \/ Probe(r) \/ Find(r) \/ FindEmpty(r)
    \/ Increment(r) \/ Insert(r) \/ CountFirst(r)

Step(r) ==
    /\ \A s \in Ranks : pc[s] # "aborted"
    /\ Hashlookup(r) \/ Finish(r)

JobOver ==
    /\ (\A r \in Ranks : pc[r] = "done") \/ (\E r \in Ranks : pc[r] = "aborted")
    /\ UNCHANGED vars

Next == (\E r \in Ranks : Step(r)) \/ JobOver

Spec == Init /\ [][Next]_vars

\* Every rank keeps running and MPI grants a lock that is free.
FairSpec == Spec /\ \A r \in Ranks : WF_vars(Step(r))

-----------------------------------------------------------------------------

TypeOK ==
    /\ hash \in HashFunctions
    /\ rangeChecked \in RangeChecks
    /\ hashtab \in [TableSlots -> AllObjects \cup {Empty}]
    /\ hashcount \in [TableSlots -> Nat]
    /\ pc \in [Ranks -> {"get", "found", "insert", "first", "reduce", "done", "aborted"}]
    /\ round \in [Ranks -> 1 .. (IF K = 0 THEN 1 ELSE K)]
    /\ nth \in [Ranks -> {n \in 0 .. Share : n < Share \/ Share = 0}]
    /\ v \in [Ranks -> 0 .. (Hashlen - 1)]
    /\ repeats \in [Ranks -> Nat]

\* An object never takes a second slot, whatever the ranks overwrite of each
\* other's insertions: so the 2 * N + 1 slots never fill up and every probe
\* sequence comes to an end.
OneSlotEach ==
    \A s, t \in TableSlots : hashtab[s] = hashtab[t] /\ hashtab[s] # Empty => s = t

\* The slots from the one f gives to the one an object is in are all used, so
\* that a look-up does not stop short of it.
ProbeChain ==
    \A s \in TableSlots :
        hashtab[s] # Empty =>
            \A d \in 0 .. (Hashlen - 1) :
                LET start == hash[hashtab[s]]
                IN  d < (s - start) % Hashlen => hashtab[(start + d) % Hashlen] # Empty

\* hashlookup "returns the number of times a value was seen so far"
\* (distributedhash.c:121), which is the number of the round; main counts the
\* times it does not.
NoRepetitions == \A r \in Ranks : repeats[r] = 0

\* Every rank finishes its look-ups and the program ends, unless MPI rejects
\* an access and ends it: no probe sequence goes round for ever and no rank is
\* left alone in the final reduction.
AllDone == <>(\A r \in Ranks : pc[r] = "done") \/ <>[](\E r \in Ranks : pc[r] = "aborted")
=============================================================================
