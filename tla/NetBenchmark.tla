----------------------------- MODULE NetBenchmark -----------------------------
(* The timing of the trainer: sgd-comm/src/utils/benchmark.h and benchmark.cpp, *)
(* the ticks that Net::forward, backward and applyUpdate make around the work   *)
(* of the layers, and Net::print, in which the processes print in turn.         *)
(*                                                                           *)
(* All processes make the same ticks; the durations are those of one of them.   *)
(* The clock is not a steady one (high_resolution_clock may be the system's),   *)
(* so that a duration may be negative.                                        *)
EXTENDS Integers, Sequences, FiniteSets, SequencesExt

CONSTANTS
    Metrics,        \* the names in the order of one iteration, a sequence
    Durations,      \* how much the clock may move in between two ticks of a pair
    Rounds,         \* iterations before print
    NetSizes,       \* the values of world_size, 0 for a program without MPI
    CountModulus    \* 2^64, the values of an unsigned long

\* The names of the layers differ (asgd.cpp:71-78), and the sums of durations are far
\* below the 292 years that a count of nanoseconds holds.
ASSUME BenchmarkAssumption ==
    /\ Len(Metrics) \in Nat \ {0} /\ Rounds \in Nat \ {0} /\ NetSizes \subseteq Nat
    /\ \A j, k \in 1 .. Len(Metrics) : Metrics[j] = Metrics[k] => j = k
    /\ CountModulus \in Nat /\ 4 * Rounds <= CountModulus
    /\ \A d \in Durations : d \in Int /\ 4 * Rounds * d \in -CountModulus .. CountModulus

VARIABLES
    netSize,
    timePoints,     \* time_points: per metric, Starts and Ends with their times
    clock,
    ticks,          \* the pairs of ticks made
    printing,       \* per process, i of Net::print's loop, or world_size after it
    inBarrier,      \* per process, the barriers entered
    lines           \* who printed, the beginning and the end of each report

benchmarkVars == <<netSize, timePoints, clock, ticks, printing, inBarrier, lines>>

Names == {Metrics[k] : k \in 1 .. Len(Metrics)}

NetRanks == 0 .. (IF netSize = 0 THEN 0 ELSE netSize - 1)

BenchmarkInit ==
    /\ netSize \in NetSizes
    /\ timePoints = [m \in Names |-> <<>>]
    /\ clock = 0
    /\ ticks = 0
    /\ printing = [r \in NetRanks |-> 0]
    /\ inBarrier = [r \in NetRanks |-> 0]
    /\ lines = <<>>

-----------------------------------------------------------------------------

Pair(start, end) == <<start, end>>

\* tick(name, Start), the work of a layer and tick(name, End), or both with the
\* work as a function.
Tick ==
    /\ ticks < Rounds * Len(Metrics)
    /\ \E d \in Durations :
          /\ clock' = clock + d
          /\ timePoints' = [timePoints EXCEPT ![Metrics[(ticks % Len(Metrics)) + 1]] =
                  @ \o Pair([attr |-> "Start", tp |-> clock], [attr |-> "End", tp |-> clock + d])]
    /\ ticks' = ticks + 1
    /\ UNCHANGED <<netSize, printing, inBarrier, lines>>

\* sum / n, where n is a size_t: the count is divided as an unsigned number, and
\* average is signed again.
Signed(count) == IF 2 * count >= CountModulus THEN count - CountModulus ELSE count

Quotient(sum, n) == Signed((sum % CountModulus) \div n)

\* pprint's assertion and its check of every pair.
WellPaired(points) ==
    /\ Len(points) % 2 = 0
    /\ \A k \in 1 .. Len(points) : points[k].attr = IF k % 2 = 1 THEN "Start" ELSE "End"

MeasuredDurations(points) ==
    [k \in 1 .. (Len(points) \div 2) |-> points[2 * k].tp - points[2 * k - 1].tp]

FirstMin(d) == d[1]

\* pprint's loop over the pairs: the maximum starts with zero.
Statistics(d) ==
    LET after[k \in 0 .. Len(d)] ==
            IF k = 0
            THEN [sum |-> 0, max |-> 0, min |-> FirstMin(d)]
            ELSE LET before == after[k - 1]
                 IN  [sum |-> before.sum + d[k],
                      max |-> IF d[k] > before.max THEN d[k] ELSE before.max,
                      min |-> IF d[k] < before.min THEN d[k] ELSE before.min]
    IN  after[Len(d)]

\* What pprint prints of a metric.
Report(points) ==
    LET d          == MeasuredDurations(points)
        statistics == Statistics(d)
    IN  [average |-> Quotient(statistics.sum, Len(d)), max |-> statistics.max, min |-> statistics.min]

Printing == ticks = Rounds * Len(Metrics)

\* Mutant of Barrier: a process that has not printed does not wait for the one that has.
BarrierOfPrinter(r) == printing[r] # r \/ \A s \in NetRanks : inBarrier[s] >= inBarrier[r]

\* A process leaves MPI_Barrier when all are in it.
Barrier(r) == \A s \in NetRanks : inBarrier[s] >= inBarrier[r]

\* Net::print, one round of its loop: print if it is this process's turn, then the
\* barrier.  A report is many writes to cout, of which the first and the last stand
\* for all.
BeginReport(r) ==
    /\ Printing /\ inBarrier[r] = printing[r]
    /\ printing[r] = r /\ <<r, "begin">> \notin ToSet(lines)
    /\ lines' = Append(lines, <<r, "begin">>)
    /\ UNCHANGED <<netSize, timePoints, clock, ticks, printing, inBarrier>>

EndReport(r) ==
    /\ <<r, "begin">> \in ToSet(lines) /\ <<r, "end">> \notin ToSet(lines)
    /\ lines' = Append(lines, <<r, "end">>)
    /\ UNCHANGED <<netSize, timePoints, clock, ticks, printing, inBarrier>>

EnterBarrier(r) ==
    /\ Printing /\ printing[r] < netSize /\ inBarrier[r] = printing[r]
    /\ printing[r] = r => <<r, "end">> \in ToSet(lines)
    /\ inBarrier' = [inBarrier EXCEPT ![r] = @ + 1]
    /\ UNCHANGED <<netSize, timePoints, clock, ticks, printing, lines>>

LeaveBarrier(r) ==
    /\ inBarrier[r] = printing[r] + 1 /\ Barrier(r)
    /\ printing' = [printing EXCEPT ![r] = @ + 1]
    /\ UNCHANGED <<netSize, timePoints, clock, ticks, inBarrier, lines>>

NetPrint(r) == BeginReport(r) \/ EndReport(r) \/ EnterBarrier(r) \/ LeaveBarrier(r)

BenchmarkOver ==
    /\ Printing /\ \A r \in NetRanks : <<r, "end">> \in ToSet(lines) /\ printing[r] = netSize
    /\ UNCHANGED benchmarkVars

BenchmarkNext == Tick \/ (\E r \in NetRanks : NetPrint(r)) \/ BenchmarkOver

BenchmarkSpec == BenchmarkInit /\ [][BenchmarkNext]_benchmarkVars

-----------------------------------------------------------------------------

\* Every report is complete and makes sense: all metrics' ticks are in pairs of a
\* Start and an End when print is called, so that its assertion holds and it does
\* not return early; the minimum is a duration that was measured, the maximum too
\* unless the clock went back each time, and the average lies between them.  If the
\* clock went back by more than it went forward, the sum is negative and is divided as
\* though it were positive: the average is then greater than every duration, unless
\* there is only one.
MeasuredAndWhole(m) ==
    LET d      == MeasuredDurations(timePoints[m])
        report == Report(timePoints[m])
    IN  /\ WellPaired(timePoints[m]) /\ Len(d) = Rounds
        /\ \E k \in 1 .. Len(d) : report.min = d[k]
        /\ \/ \E k \in 1 .. Len(d) : report.max = d[k]
           \/ report.max = 0 /\ \A k \in 1 .. Len(d) : d[k] < 0
        /\ \A k \in 1 .. Len(d) : report.min <= d[k] /\ d[k] <= report.max
        /\ report.min <= report.average
        /\ report.average <= report.max <=> Statistics(d).sum >= 0 \/ Rounds = 1

\* The processes' reports are printed one after the other in the order of their
\* ranks, although all of them write to one terminal, and what each prints was
\* measured.
ReportsInOrder ==
    /\ \A k \in 1 .. Len(lines) :
          lines[k] = <<(k - 1) \div 2, IF k % 2 = 1 THEN "begin" ELSE "end">>
    /\ lines # <<>> => \A m \in Names : MeasuredAndWhole(m)
=============================================================================
