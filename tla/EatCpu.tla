-------------------------------- MODULE EatCpu --------------------------------
(* effective-modern-c++/eat-cpu.cpp: threads that work for a given share of the    *)
(* time and sleep for the rest, each with a thread that prints a line about it.    *)
(*                                                                           *)
(* The duty cycle is followed for one worker: times are multiples of a nanosecond,  *)
(* the share is the fraction rate[1] / rate[2], below 1.  The printing threads share  *)
(* a stream that knows whether its line is empty, under one lock; the values that     *)
(* they read from the workers without one are left out.                         *)
EXTENDS Integers, Sequences

CONSTANTS
    Rates,          \* the shares, pairs of numbers
    SleepNs,        \* sleep_ns
    Late,           \* how much longer a sleep or the work may be
    Gaps,           \* the times the worker may be kept from running in between
    IntLimit,       \* an int is from -IntLimit to IntLimit - 1
    Cycles,         \* the worker is followed for so many
    Printers,       \* the printing threads
    Lines           \* lines followed

ASSUME EatAssumption ==
    /\ \A r \in Rates : r[1] \in Nat \ {0} /\ r[2] \in Nat /\ r[1] < r[2]
    /\ SleepNs \in Nat /\ Late \subseteq Nat /\ Gaps \subseteq Nat
    /\ IntLimit \in Nat \ {0} /\ Cycles \in Nat /\ Lines \in Nat
    /\ 0 \notin Printers

VARIABLES
    rate,
    workerAt,       \* "start" of a cycle, or "work"
    cycle,          \* the cycles begun
    gap,            \* t0 - last_t
    sleepActual,    \* sleep_actual
    workedLast,     \* worked_ns_last
    idle, worked,   \* the times of all cycles: sleeping or kept from running, and working
    kept,           \* "none", "briefly" or "long", longer than an int holds
    lock,           \* who has lo_lock, or 0
    field,          \* per printer, the fields of its line that are written
    empty,          \* empty of lo
    out             \* what lo has written: fields <<printer, field, separated>> and "eol"

workerVars == <<rate, workerAt, cycle, gap, sleepActual, workedLast, idle, worked, kept>>

eatVars == <<workerVars, lock, field, empty, out>>

Fields == 6

EatInit ==
    /\ rate \in Rates
    /\ workerAt = "start" /\ cycle = 0 /\ gap = 0 /\ sleepActual = 0 /\ workedLast = 0
    /\ idle = 0 /\ worked = 0 /\ kept = "none"
    /\ lock = 0
    /\ field = [p \in Printers |-> 0]
    /\ empty = TRUE
    /\ out = <<>>

-----------------------------------------------------------------------------
(* The worker.                                                               *)

\* worked_ns_last is declared with auto and 0, an int, which the time that is
\* assigned to it need not fit into.
Narrow(ns) == ((ns + IntLimit) % (2 * IntLimit)) - IntLimit

\* Mutant of RunNs: as if the whole cycle had been slept.
RunNsOfSleep(sleep) == (sleep * rate[1]) \div rate[2]

\* run_ns_total: the work that goes with a sleep.
RunNs(sleep) == (sleep * rate[1]) \div (rate[2] - rate[1])

\* From t0 to t1.  last_t - t0 is a negative number.
Sleep ==
    /\ workerAt = "start" /\ cycle < Cycles
    /\ \E g \in Gaps, late \in Late :
          /\ gap' = IF cycle = 0 THEN 0 ELSE g
          /\ sleepActual' = SleepNs + late
    /\ workedLast' = IF cycle = 0 THEN 0 ELSE Narrow(-gap')
    /\ idle' = idle + gap' + sleepActual'
    /\ kept' = IF gap' > IntLimit THEN "long" ELSE IF gap' > 0 /\ kept = "none" THEN "briefly" ELSE kept
    /\ cycle' = cycle + 1
    /\ workerAt' = "work"
    /\ UNCHANGED <<rate, worked, lock, field, empty, out>>

\* The inner loop: until worked_ns, which is the time since t1 and
\* worked_ns_last, has reached run_ns_total; the clock is read once at least.
Work ==
    /\ workerAt = "work"
    /\ \E late \in Late :
          LET owed == RunNs(sleepActual) - workedLast
          IN  worked' = worked + (IF owed > 0 THEN owed ELSE 0) + late
    /\ workerAt' = "start"
    /\ UNCHANGED <<rate, cycle, gap, sleepActual, workedLast, idle, kept, lock, field, empty, out>>

-----------------------------------------------------------------------------
(* The printing threads.                                                     *)

\* Mutant of Lock: without it.
NoLock(p) ==
    /\ field[p] = 0 /\ Len(out) < Lines * (Fields + 1)
    /\ lock' = p
    /\ field' = [field EXCEPT ![p] = 1]
    /\ UNCHANGED <<workerVars, empty, out>>

Lock(p) ==
    /\ lock = 0 /\ field[p] = 0 /\ Len(out) < Lines * (Fields + 1)
    /\ lock' = p
    /\ field' = [field EXCEPT ![p] = 1]
    /\ UNCHANGED <<workerVars, empty, out>>

\* operator<< of a field.
WriteField(p) ==
    /\ field[p] \in 1 .. Fields
    /\ out' = Append(out, <<p, field[p], ~empty>>)
    /\ empty' = FALSE
    /\ field' = [field EXCEPT ![p] = @ + 1]
    /\ UNCHANGED <<workerVars, lock>>

\* operator<< of eol, and the end of the lock.
WriteEol(p) ==
    /\ field[p] = Fields + 1
    /\ out' = Append(out, "eol")
    /\ empty' = TRUE
    /\ field' = [field EXCEPT ![p] = 0]
    /\ lock' = 0
    /\ UNCHANGED workerVars

EatOver ==
    /\ workerAt = "start" /\ cycle = Cycles
    /\ lock = 0 /\ Len(out) >= Lines * (Fields + 1)
    /\ UNCHANGED eatVars

EatNext ==
    \/ Sleep \/ Work
    \/ \E p \in Printers : Lock(p) \/ WriteField(p) \/ WriteEol(p)
    \/ EatOver

EatSpec == EatInit /\ [][EatNext]_eatVars

-----------------------------------------------------------------------------

\* After each cycle the worker has had its share of all the time, but for the
\* nanosecond that each cycle rounds off.  The time it was kept from running counts as
\* idle and is made up for by as much work, which is enough up to a share of a half;
\* a time that no int holds is counted as work already done instead.
KeepsItsShare ==
    workerAt = "start" /\ (kept = "none" \/ (kept = "briefly" /\ 2 * rate[1] <= rate[2])) =>
        (worked + cycle) * (rate[2] - rate[1]) >= idle * rate[1]

\* A line has the fields of one worker, all and in order, with separators in
\* between but not before the first.
LinesAreWhole ==
    \A k \in 1 .. Len(out) :
        LET place == ((k - 1) % (Fields + 1)) + 1
        IN  IF place = Fields + 1
            THEN out[k] = "eol"
            ELSE out[k] = <<out[k - place + 1][1], place, place # 1>>
=============================================================================
