----------------------------- MODULE HttpBenchmark -----------------------------
(* The HTTP benchmark in Go: the workers of golang-http/client/client.go make    *)
(* one request after the other and Tick its duration into the buffer of           *)
(* golang-http/stats/stats.go; main empties the buffer, sleeps, and prints what is *)
(* in it then.  Every section under stat.mu is one step.                        *)
(*                                                                           *)
(* Durations are numbers; bytes and the rates derived from them, which are sums   *)
(* divided by the time, are left out.                                          *)
EXTENDS Integers, Sequences, FiniteSets, Orders

CONSTANTS
    Workers,        \* 0 .. concurrency - 1
    Requests,       \* a worker is followed for so many requests
    DurationsOf,    \* the durations that Tick may measure
    CutPoints,      \* a sequence of fractions <<numerator, denominator>>
    Reports         \* main is followed for so many reports

ASSUME HttpAssumption ==
    /\ Requests \in Nat /\ Reports \in Nat /\ DurationsOf \subseteq Int
    /\ \A k \in 1 .. Len(CutPoints) :
          CutPoints[k][1] \in Nat /\ CutPoints[k][2] \in Nat \ {0} /\ CutPoints[k][1] <= CutPoints[k][2]

VARIABLES
    process,        \* "running", or "panicked" with every goroutine
    working,        \* per worker, "request" or "tick", the place of its p
    requested,      \* per worker, the requests before this one (j)
    buffer,         \* data[currentBuffer]: points with their request
    mainAt,         \* the next step of main's loop
    data,           \* the copy that Print has made
    reports,        \* what has been printed
    tickedIn        \* of each request, the round and the place of main at its Tick

httpVars == <<process, working, requested, buffer, mainAt, data, reports, tickedIn>>

HttpInit ==
    /\ process = "running"
    /\ working = [w \in Workers |-> "request"]
    /\ requested = [w \in Workers |-> 0]
    /\ buffer = <<>>
    /\ mainAt = "reset"
    /\ data = <<>>
    /\ reports = <<>>
    /\ tickedIn = {}

-----------------------------------------------------------------------------
(* quantile                                                                  *)

\* Mutant of Index: the share of the last offset.
IndexOfLast(c, n) == (c[1] * (n - 1)) \div c[2]

\* int64(cp*float64(len(values1))), an offset from the beginning.
Index(c, n) == (c[1] * n) \div c[2]

\* The value at the index after sort.Float64s; the share of a whole is the last one.
Quantile(values, c) ==
    values[Order(values)[IF c[1] = c[2] THEN Len(values) ELSE Index(c, Len(values)) + 1]]

DurationsIn(points) == [k \in 1 .. Len(points) |-> points[k].duration]

\* Print: "No Requests" is a report without quantiles.
Report(points) ==
    [points |-> points,
     quantiles |-> IF points = <<>> THEN <<>>
                   ELSE [k \in 1 .. Len(CutPoints) |-> Quantile(DurationsIn(points), CutPoints[k])]]

-----------------------------------------------------------------------------
(* The workers.                                                              *)

Answered(w) ==
    /\ working[w] = "request" /\ requested[w] < Requests
    /\ working' = [working EXCEPT ![w] = "tick"]
    /\ UNCHANGED <<process, requested, buffer, mainAt, data, reports, tickedIn>>

\* panic ends the process, whatever main is doing.
Panic(w) ==
    /\ working[w] = "request" /\ requested[w] < Requests
    /\ process' = "panicked"
    /\ UNCHANGED <<working, requested, buffer, mainAt, data, reports, tickedIn>>

Tick(w) ==
    /\ working[w] = "tick"
    /\ \E d \in DurationsOf :
          buffer' = Append(buffer, [request |-> <<w, requested[w]>>, duration |-> d])
    /\ working' = [working EXCEPT ![w] = "request"]
    /\ requested' = [requested EXCEPT ![w] = @ + 1]
    /\ tickedIn' = tickedIn \cup
          {[request |-> <<w, requested[w]>>, round |-> Len(reports) + 1, main |-> mainAt]}
    /\ UNCHANGED <<process, mainAt, data, reports>>

-----------------------------------------------------------------------------
(* The loop of main.                                                         *)

\* Mutant: the buffer is made only once.
ResetOnce ==
    /\ mainAt = "reset" /\ Len(reports) < Reports
    /\ buffer' = IF reports = <<>> THEN <<>> ELSE buffer
    /\ mainAt' = "sleep"
    /\ UNCHANGED <<process, working, requested, data, reports, tickedIn>>

Reset ==
    /\ mainAt = "reset" /\ Len(reports) < Reports
    /\ buffer' = <<>>
    /\ mainAt' = "sleep"
    /\ UNCHANGED <<process, working, requested, data, reports, tickedIn>>

\* The end of the sleep and End, which takes the time without the lock.
End ==
    /\ mainAt = "sleep"
    /\ mainAt' = "copy"
    /\ UNCHANGED <<process, working, requested, buffer, data, reports, tickedIn>>

PrintCopies ==
    /\ mainAt = "copy"
    /\ data' = buffer
    /\ mainAt' = "write"
    /\ UNCHANGED <<process, working, requested, buffer, reports, tickedIn>>

PrintWrites ==
    /\ mainAt = "write"
    /\ reports' = Append(reports, Report(data))
    /\ mainAt' = "reset"
    /\ UNCHANGED <<process, working, requested, buffer, data, tickedIn>>

HttpStep ==
    \/ \E w \in Workers : Answered(w) \/ Panic(w) \/ Tick(w)
    \/ Reset \/ End \/ PrintCopies \/ PrintWrites

HttpOver ==
    /\ \/ process = "panicked"
       \/ mainAt = "reset" /\ Len(reports) = Reports /\ \A w \in Workers : requested[w] = Requests
    /\ UNCHANGED httpVars

HttpNext == (process = "running" /\ HttpStep) \/ HttpOver

HttpSpec == HttpInit /\ [][HttpNext]_httpVars

-----------------------------------------------------------------------------

\* A request is in the report of the round in which it ended, once, and in no
\* other: except for those that end after Print has copied the buffer and before
\* the next Reset, which are in none.
RequestsReportedOnce ==
    \A t \in tickedIn, k \in 1 .. Len(reports) :
        Cardinality({p \in 1 .. Len(reports[k].points) : reports[k].points[p].request = t.request})
            = IF t.round = k /\ t.main \in {"sleep", "copy"} THEN 1 ELSE 0

\* A quantile is the smallest duration that more than its share of the requests
\* does not exceed, and the largest one for the whole.
QuantilesOfDurations ==
    \A k \in 1 .. Len(reports) :
        LET d == DurationsIn(reports[k].points)
            atMost(v) == Cardinality({p \in 1 .. Len(d) : d[p] <= v})
        IN  \A c \in 1 .. Len(reports[k].quantiles) :
                LET q == reports[k].quantiles[c]
                    reached(v) == \/ atMost(v) = Len(d)
                                  \/ CutPoints[c][2] * atMost(v) > CutPoints[c][1] * Len(d)
                IN  /\ \E p \in 1 .. Len(d) : d[p] = q
                    /\ reached(q)
                    /\ \A p \in 1 .. Len(d) : reached(d[p]) => q <= d[p]
=============================================================================
