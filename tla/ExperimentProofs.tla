--------------------------- MODULE ExperimentProofs ---------------------------
(* Proofs about the small programs: the NCCL processes, the threads that fill   *)
(* one vector, the duty cycle and its printing threads, the rounds and the      *)
(* quantiles of the HTTP benchmark, the price search, the clock in the frame     *)
(* buffer, and the filter that factors numbers.  Each program has a section of  *)
(* its own; they share nothing but facts about numbers and sorting.             *)
EXTENDS NcclAllReduce, RandomNumbers, EatCpu, HttpBenchmark, PriceSearch, FrameBuffer,
        NumberFilter, SequenceTheorems, WellFoundedInduction, FiniteSetTheorems, TLAPS

-----------------------------------------------------------------------------
(* NCCL.                                                                     *)

\* The calls behind the barrier, and those of ncclInit.
Behind == {"allReduce", "sync", "finalize", "done", "crashed"}

InNcclInit == {"stream", "bcast", "commInit"}

NcclTypeOK ==
    /\ procSize \in Nat \ {0}
    /\ streams \subseteq NcclRanks
    /\ at \in [NcclRanks -> InNcclInit \cup {"alloc", "barrier"} \cup Behind]
    /\ commId \in [NcclRanks -> Int]
    /\ comm \in [NcclRanks -> Int]
    /\ buf \in [NcclRanks -> BOOLEAN]
    /\ enqueued \subseteq NcclRanks

\* A process without a stream takes no part in the broadcast.
WithoutStream == \A r \in NcclRanks : r \notin streams => at[r] \notin {"bcast", "commInit"}

\* Rank 0's identifier is its own from the start, and everybody's afterwards, who
\* would else have waited for the broadcast.
OneIdentifier ==
    /\ 0 \in streams /\ at[0] # "stream" => commId[0] = 0
    /\ \A r \in streams : at[r] \notin {"stream", "bcast"} => 0 \in streams /\ commId[r] = 0

\* A communicator needs all processes.
Initialised ==
    \A r \in NcclRanks : comm[r] # -1 =>
        /\ comm[r] = 0 /\ streams = NcclRanks
        /\ \A s \in NcclRanks : at[s] \notin {"stream", "bcast"}

BarrierHolds ==
    \A r \in NcclRanks : at[r] \in Behind => \A s \in NcclRanks : at[s] \in Behind \cup {"barrier"}

\* A stream is done with its reduction when all have enqueued theirs.
ReducedTogether ==
    /\ \A r \in enqueued :
          /\ at[r] \in {"sync", "finalize", "done"}
          /\ at[r] # "sync" => enqueued = NcclRanks
          /\ comm[r] # -1 /\ buf[r]
    /\ \A r \in NcclRanks :
          at[r] = "done" => \A s \in NcclRanks : at[s] \in {"finalize", "done"}

NcclInv ==
    /\ NcclTypeOK /\ WithoutStream /\ OneIdentifier /\ Initialised /\ BarrierHolds
    /\ ReducedTogether

LEMMA NcclInvInit == NcclInit => NcclInv
  <1> SUFFICES ASSUME NcclInit PROVE NcclInv
    OBVIOUS
  <1>1. procSize \in Nat \ {0} /\ streams \subseteq NcclRanks
    BY NcclAssumption DEF NcclInit
  <1>2. \A r \in NcclRanks : at[r] = "stream" /\ comm[r] = -1
    BY DEF NcclInit
  <1>3. NcclTypeOK
    BY <1>1 DEF NcclInit, NcclTypeOK, InNcclInit
  <1> QED BY <1>1, <1>2, <1>3
          DEF NcclInit, NcclInv, WithoutStream, OneIdentifier, Initialised, BarrierHolds,
              ReducedTogether, Behind, InNcclInit, NcclRanks

\* A step of rank r changes the place of no other.
LEMMA OneGoes ==
    ASSUME NcclTypeOK, NEW r \in NcclRanks, NEW place, NextCall(r, place)
    PROVE  at'[r] = place /\ \A s \in NcclRanks \ {r} : at'[s] = at[s]
  BY DEF NcclTypeOK, NextCall

LEMMA NcclTypeStep == NcclTypeOK /\ [NcclNext]_ncclVars => NcclTypeOK'
  <1> SUFFICES ASSUME NcclTypeOK, [NcclNext]_ncclVars PROVE NcclTypeOK'
    OBVIOUS
  <1> DEFINE Places == InNcclInit \cup {"alloc", "barrier"} \cup Behind
  <1>1. ASSUME NEW r \in NcclRanks, NcclStep(r) PROVE NcclTypeOK'
    <2>1. 0 \in NcclRanks
      BY DEF NcclTypeOK, NcclRanks
    <2>2. UNCHANGED <<procSize, streams>>
      BY <1>1 DEF NcclStep, CreateStream, Bcast, CommInit, Alloc, LeaveBarrier, AllReduce, Sync,
                  LeaveFinalize
    <2>3. at' \in [NcclRanks -> Places]
      <3>1. \E place \in Places : NextCall(r, place)
        BY <1>1 DEF NcclStep, CreateStream, Bcast, CommInit, Alloc, LeaveBarrier, AllReduce, Sync,
                    LeaveFinalize, InNcclInit, Behind
      <3> QED BY <3>1 DEF NextCall, NcclTypeOK
    <2>4. commId' \in [NcclRanks -> Int]
      BY <1>1, <2>1 DEF NcclStep, CreateStream, Bcast, CommInit, Alloc, LeaveBarrier, AllReduce, Sync,
                  LeaveFinalize, NcclTypeOK, NcclRanks
    <2>5. comm' \in [NcclRanks -> Int]
      BY <1>1 DEF NcclStep, CreateStream, Bcast, CommInit, Alloc, LeaveBarrier, AllReduce, Sync,
                  LeaveFinalize, NcclTypeOK
    <2>6. buf' \in [NcclRanks -> BOOLEAN]
      BY <1>1 DEF NcclStep, CreateStream, Bcast, CommInit, Alloc, LeaveBarrier, AllReduce, Sync,
                  LeaveFinalize, NcclTypeOK
    <2>7. enqueued' \subseteq NcclRanks
      BY <1>1 DEF NcclStep, CreateStream, Bcast, CommInit, Alloc, LeaveBarrier, AllReduce, Sync,
                  LeaveFinalize, NcclTypeOK
    <2> QED BY <2>2, <2>3, <2>4, <2>5, <2>6, <2>7 DEF NcclTypeOK, NcclRanks
  <1>2. ASSUME UNCHANGED ncclVars PROVE NcclTypeOK'
    BY <1>2 DEF ncclVars, NcclTypeOK, NcclRanks
  <1> QED BY <1>1, <1>2 DEF NcclNext, NcclOver

LEMMA NcclInvStep == NcclInv /\ [NcclNext]_ncclVars => NcclInv'
  <1> SUFFICES ASSUME NcclInv, [NcclNext]_ncclVars PROVE NcclInv'
    OBVIOUS
  <1>1. NcclTypeOK /\ NcclTypeOK'
    BY NcclTypeStep DEF NcclInv
  <1>2. ASSUME NEW r \in NcclRanks, NcclStep(r) PROVE NcclInv'
    <2>1. 0 \in NcclRanks /\ UNCHANGED <<procSize, streams>> /\ NcclRanks' = NcclRanks
      BY <1>1, <1>2 DEF NcclTypeOK, NcclRanks, NcclStep, CreateStream, Bcast, CommInit, Alloc,
                        LeaveBarrier, AllReduce, Sync, LeaveFinalize
    <2> USE <1>1, <2>1
    <2>2. CASE CreateStream(r)
      <3>1. /\ at[r] = "stream" /\ UNCHANGED <<comm, buf, enqueued>>
            /\ \A s \in NcclRanks \ {r} : at'[s] = at[s] /\ commId'[s] = commId[s]
            /\ r \in streams => at'[r] = "bcast" /\ commId'[r] = r
            /\ r \notin streams => at'[r] = "alloc"
        BY <2>2, OneGoes DEF CreateStream, NcclTypeOK
      <3> QED BY <3>1 DEF NcclInv, NcclTypeOK, WithoutStream, OneIdentifier, Initialised, BarrierHolds,
                          ReducedTogether, Behind, InNcclInit
    <2>3. CASE Bcast(r)
      <3>1. /\ at[r] = "bcast" /\ UNCHANGED <<comm, buf, enqueued>>
            /\ r = 0 \/ (0 \in streams /\ at[0] \notin {"stream", "bcast"})
            /\ at'[r] = "commInit" /\ commId'[r] = commId[0]
            /\ \A s \in NcclRanks \ {r} : at'[s] = at[s] /\ commId'[s] = commId[s]
        BY <2>3, OneGoes DEF Bcast, NcclTypeOK
      <3> QED BY <3>1 DEF NcclInv, NcclTypeOK, WithoutStream, OneIdentifier, Initialised, BarrierHolds,
                          ReducedTogether, Behind, InNcclInit
    <2>4. CASE CommInit(r)
      <3>1. /\ at[r] = "commInit" /\ UNCHANGED <<commId, enqueued>>
            /\ at'[r] = "alloc" /\ buf' = buf
            /\ \/ comm'[r] = comm[r]
               \/ /\ comm'[r] = commId[r]
                  /\ \A s \in NcclRanks : s \in streams /\ at[s] \notin {"stream", "bcast"}
            /\ \A s \in NcclRanks \ {r} : at'[s] = at[s] /\ comm'[s] = comm[s]
        BY <2>4, OneGoes DEF CommInit, NcclTypeOK
      <3> QED BY <3>1 DEF NcclInv, NcclTypeOK, WithoutStream, OneIdentifier, Initialised, BarrierHolds,
                          ReducedTogether, Behind, InNcclInit
    <2>5. CASE Alloc(r)
      <3>1. /\ at[r] = "alloc" /\ UNCHANGED <<commId, comm, enqueued>> /\ at'[r] = "barrier"
            /\ \A s \in NcclRanks \ {r} : at'[s] = at[s] /\ buf'[s] = buf[s]
        BY <2>5, OneGoes DEF Alloc, NcclTypeOK
      <3> QED BY <3>1 DEF NcclInv, NcclTypeOK, WithoutStream, OneIdentifier, Initialised, BarrierHolds,
                          ReducedTogether, Behind, InNcclInit
    <2>6. CASE LeaveBarrier(r)
      <3>1. /\ at[r] = "barrier" /\ UNCHANGED <<commId, comm, buf, enqueued>> /\ at'[r] = "allReduce"
            /\ \A s \in NcclRanks : at[s] \notin InNcclInit \cup {"alloc"}
            /\ \A s \in NcclRanks \ {r} : at'[s] = at[s]
        BY <2>6, OneGoes DEF LeaveBarrier, InNcclInit
      <3> QED BY <3>1 DEF NcclInv, NcclTypeOK, WithoutStream, OneIdentifier, Initialised, BarrierHolds,
                          ReducedTogether, Behind, InNcclInit
    <2>7. CASE AllReduce(r)
      <3>1. /\ at[r] = "allReduce" /\ UNCHANGED <<commId, comm, buf>>
            /\ at'[r] \in {"sync", "crashed"}
            /\ \/ enqueued' = enqueued
               \/ /\ enqueued' = enqueued \cup {r} /\ at'[r] = "sync"
                  /\ comm[r] # -1 /\ buf[r]
            /\ \A s \in NcclRanks \ {r} : at'[s] = at[s]
        BY <2>7, OneGoes DEF AllReduce
      <3> QED BY <3>1 DEF NcclInv, NcclTypeOK, WithoutStream, OneIdentifier, Initialised, BarrierHolds,
                          ReducedTogether, Behind, InNcclInit
    <2>8. CASE Sync(r)
      <3>1. /\ at[r] = "sync" /\ UNCHANGED <<commId, comm, buf, enqueued>> /\ at'[r] = "finalize"
            /\ r \in enqueued => enqueued = NcclRanks
            /\ \A s \in NcclRanks \ {r} : at'[s] = at[s]
        BY <2>8, OneGoes DEF Sync
      <3> QED BY <3>1 DEF NcclInv, NcclTypeOK, WithoutStream, OneIdentifier, Initialised, BarrierHolds,
                          ReducedTogether, Behind, InNcclInit
    <2>9. CASE LeaveFinalize(r)
      <3>1. /\ at[r] = "finalize" /\ UNCHANGED <<commId, comm, buf, enqueued>> /\ at'[r] = "done"
            /\ \A s \in NcclRanks : at[s] \in {"finalize", "done"}
            /\ \A s \in NcclRanks \ {r} : at'[s] = at[s]
        BY <2>9, OneGoes DEF LeaveFinalize
      <3> QED BY <3>1 DEF NcclInv, NcclTypeOK, WithoutStream, OneIdentifier, Initialised, BarrierHolds,
                          ReducedTogether, Behind, InNcclInit
    <2> QED BY <1>2, <2>2, <2>3, <2>4, <2>5, <2>6, <2>7, <2>8, <2>9 DEF NcclStep
  <1>3. ASSUME UNCHANGED ncclVars PROVE NcclInv'
    BY <1>1, <1>3 DEF ncclVars, NcclInv, WithoutStream, OneIdentifier, Initialised, BarrierHolds,
                      ReducedTogether, NcclRanks
  <1> QED BY <1>2, <1>3 DEF NcclNext, NcclOver

\* Behind the barrier (main.cpp:38) no process has a stream, or all that have one
\* have rank 0's identifier; one communicator means that no stream has failed, and
\* a job that ends has its reduction made by all processes or by none, whatever
\* fails in ncclInit or alloc (allreduce.cu:17-60), for any number of processes.
THEOREM ReducedByAllOrNone == NcclSpec => []AllOrNoneReduced
  <1>1. NcclInv => AllOrNoneReduced
    <2> SUFFICES ASSUME NcclInv, NEW r \in NcclRanks
                 PROVE  /\ at[r] \in Behind /\ streams # {} =>
                              0 \in streams /\ \A s \in streams : commId[s] = 0
                        /\ comm[r] # -1 =>
                              /\ streams = NcclRanks
                              /\ \A s \in NcclRanks : commId[s] = 0 /\ comm[s] \in {-1, 0}
                        /\ at[r] = "done" /\ enqueued # {} =>
                              \A s \in NcclRanks : s \in enqueued /\ comm[s] = 0 /\ buf[s]
      BY DEF AllOrNoneReduced, Behind
    <2>1. streams \subseteq NcclRanks /\ enqueued \subseteq NcclRanks
      BY DEF NcclInv, NcclTypeOK
    <2>2. ASSUME at[r] \in Behind, NEW s \in streams PROVE 0 \in streams /\ commId[s] = 0
      <3>1. at[s] \notin {"stream", "bcast"}
        BY <2>1, <2>2 DEF NcclInv, BarrierHolds, Behind
      <3> QED BY <3>1 DEF NcclInv, OneIdentifier
    <2>3. ASSUME comm[r] # -1, NEW s \in NcclRanks
          PROVE  streams = NcclRanks /\ commId[s] = 0 /\ comm[s] \in {-1, 0}
      BY <2>3 DEF NcclInv, Initialised, OneIdentifier
    <2>4. ASSUME at[r] = "done", NEW s \in enqueued PROVE enqueued = NcclRanks
      BY <2>1, <2>4 DEF NcclInv, ReducedTogether
    <2>5. ASSUME NEW s \in enqueued PROVE comm[s] = 0 /\ buf[s]
      BY <2>1, <2>5 DEF NcclInv, ReducedTogether, Initialised
    <2> QED BY <2>2, <2>3, <2>4, <2>5
  <1>2. NcclInv /\ [NcclNext]_ncclVars => NcclInv'
    BY NcclInvStep
  <1> QED BY <1>1, <1>2, NcclInvInit, PTL DEF NcclSpec

-----------------------------------------------------------------------------
(* Random numbers.                                                           *)

\* The threads that have passed the test and not yet counted their number, and
\* those of them that have pushed it.
Pushing == {"storing", "adding", "growing"}

Active == {t \in Threads : threadAt[t] \in {"push", "increment"} \cup Pushing}

Pushed == {t \in Threads : threadAt[t] = "increment"}

RngTypeOK ==
    /\ threadCount \in Nat \ {0} /\ total \in Nat
    /\ counter \in Nat /\ size \in Nat /\ capacity \in Nat /\ wild \in BOOLEAN
    /\ threadAt \in [Threads -> {"test", "push", "increment", "joined", "crashed"} \cup Pushing]
    /\ end \in [Threads -> Nat]

Crashed == \A t \in Threads : threadAt[t] = "crashed"

\* A thread passes the test while the counter is below total, when all the others
\* may have passed it as well.
CounterBounded ==
    /\ counter + Cardinality(Active) <= total + threadCount - 1
    /\ total = 0 => counter = 0 /\ size = 0 /\ Active = {} /\ ~wild
    /\ \A t \in Threads : threadAt[t] = "joined" => counter >= total

\* A number in the vector has been counted, or will be by the thread that pushed
\* it: numbers may be lost, but the first one leaves one at least.
SizeBounded ==
    ~wild =>
        /\ size <= counter + Cardinality(Pushed)
        /\ \A t \in Threads : threadAt[t] \in {"adding", "growing"} => end[t] <= counter + Cardinality(Pushed)
        /\ counter > 0 \/ Pushed # {} => size >= 1

AloneLosesNone ==
    threadCount = 1 =>
        /\ ~wild /\ size = counter + Cardinality(Pushed)
        /\ \A t \in Threads :
              /\ threadAt[t] \in {"adding", "growing"} => end[t] = size
              /\ threadAt[t] = "storing" => size # capacity

RngInv ==
    /\ RngTypeOK
    /\ \/ Crashed
       \/ /\ \A t \in Threads : threadAt[t] # "crashed"
          /\ CounterBounded /\ SizeBounded /\ AloneLosesNone

LEMMA ThreadSets ==
    ASSUME RngTypeOK
    PROVE  /\ IsFiniteSet(Threads) /\ Cardinality(Threads) = threadCount
           /\ Active \subseteq Threads /\ IsFiniteSet(Active) /\ Cardinality(Active) \in Nat
           /\ Pushed \subseteq Threads /\ IsFiniteSet(Pushed) /\ Cardinality(Pushed) \in Nat
  <1>1. IsFiniteSet(Threads) /\ Cardinality(Threads) = threadCount
    BY FS_Interval DEF Threads, RngTypeOK
  <1>2. Active \subseteq Threads /\ Pushed \subseteq Threads
    BY DEF Active, Pushed
  <1>3. IsFiniteSet(Active) /\ IsFiniteSet(Pushed)
    BY <1>1, <1>2, FS_Subset
  <1> QED BY <1>1, <1>2, <1>3, FS_CardinalityType

LEMMA RngInvInit == RngInit => RngInv
  <1> SUFFICES ASSUME RngInit PROVE RngInv
    OBVIOUS
  <1>1. threadCount \in Nat \ {0} /\ total \in Nat
    BY RngAssumption DEF RngInit
  <1>2. Active = {} /\ Pushed = {} /\ \A t \in Threads : threadAt[t] = "test"
    BY DEF RngInit, Active, Pushed, Pushing
  <1>3. RngTypeOK
    BY <1>1 DEF RngInit, RngTypeOK
  <1>4. Cardinality(Active) = 0 /\ Cardinality(Pushed) = 0
    BY <1>2, FS_EmptySet
  <1> QED BY <1>1, <1>2, <1>3, <1>4
          DEF RngInit, RngInv, CounterBounded, SizeBounded, AloneLosesNone

\* What the move of one thread does to the two sets.
LEMMA ThreadMoves ==
    ASSUME RngTypeOK, NEW t \in Threads, threadCount' = threadCount,
           NEW place \in {"test", "push", "increment", "joined"} \cup Pushing,
           threadAt' = [threadAt EXCEPT ![t] = place]
    PROVE  /\ Threads' = Threads
           /\ threadAt'[t] = place /\ \A u \in Threads \ {t} : threadAt'[u] = threadAt[u]
           /\ Active' = IF place \in {"push", "increment"} \cup Pushing
                        THEN Active \cup {t} ELSE Active \ {t}
           /\ Pushed' = IF place = "increment" THEN Pushed \cup {t} ELSE Pushed \ {t}
  <1>1. Threads' = Threads
    BY DEF Threads
  <1>2. threadAt'[t] = place /\ \A u \in Threads \ {t} : threadAt'[u] = threadAt[u]
    BY DEF RngTypeOK
  <1> QED BY <1>1, <1>2 DEF Active, Pushed

LEMMA RngInvStep == RngInv /\ [RngNext]_rngVars => RngInv'
  <1> SUFFICES ASSUME RngInv, [RngNext]_rngVars PROVE RngInv'
    OBVIOUS
  <1>1. RngTypeOK
    BY DEF RngInv
  <1>2. ASSUME UNCHANGED rngVars PROVE RngInv'
    BY <1>2 DEF rngVars, RngInv, RngTypeOK, Crashed, CounterBounded, SizeBounded, AloneLosesNone,
                Active, Pushed, Threads
  <1>3. ASSUME Crash PROVE RngInv'
    BY <1>1, <1>3 DEF Crash, rngVector, RngInv, Crashed, RngTypeOK, Threads
  <1>4. ASSUME NEW t \in Threads, RngStep(t) PROVE RngInv'
    <2>1. ~Crashed
      BY <1>4 DEF RngStep, Test, BeginPush, Store, EndPush, Grow, Increment, Crashed
    <2>2. /\ \A u \in Threads : threadAt[u] # "crashed"
          /\ CounterBounded /\ SizeBounded /\ AloneLosesNone
      BY <2>1 DEF RngInv
    <2>3. /\ threadCount' = threadCount /\ total' = total /\ Threads' = Threads
          /\ threadCount \in Nat \ {0} /\ total \in Nat /\ counter \in Nat /\ size \in Nat
          /\ capacity \in Nat /\ wild \in BOOLEAN /\ \A u \in Threads : end[u] \in Nat
      BY <1>1, <1>4 DEF RngStep, Test, BeginPush, Store, EndPush, Grow, Increment, Threads, RngTypeOK
    <2>4. ASSUME threadCount = 1 PROVE \A u \in Threads : u = t
      BY <2>4 DEF Threads
    <2> DEFINE Places == {"test", "push", "increment", "joined"} \cup Pushing
    <2>5. ASSUME NEW place \in Places, threadAt' = [threadAt EXCEPT ![t] = place]
          PROVE  /\ threadAt' \in [Threads -> Places \cup {"crashed"}]
                 /\ \A u \in Threads : threadAt'[u] # "crashed"
      BY <1>1, <2>2, <2>5 DEF RngTypeOK, Pushing
    <2>6. ASSUME NEW place \in Places, threadAt' = [threadAt EXCEPT ![t] = place],
                 counter' \in Nat, size' \in Nat, capacity' \in Nat, wild' \in BOOLEAN,
                 end' \in [Threads -> Nat], CounterBounded', SizeBounded', AloneLosesNone'
          PROVE  RngInv'
      <3>1. RngTypeOK'
        BY <2>3, <2>5, <2>6 DEF RngTypeOK
      <3> QED BY <2>3, <2>5, <2>6, <3>1 DEF RngInv
    <2>7. CASE Test(t) /\ counter < total
      <3>1. /\ threadAt[t] = "test" /\ threadAt' = [threadAt EXCEPT ![t] = "push"]
            /\ UNCHANGED <<counter, size, capacity, wild, end>>
        BY <2>7 DEF Test, rngVector
      <3>2. Active' = Active \cup {t} /\ Pushed' = Pushed /\ t \notin Active
        BY <1>1, <2>3, <3>1, ThreadMoves DEF Active, Pushed, Pushing
      <3>3. Cardinality(Active') <= threadCount
        <4>1. Active' \subseteq Threads
          BY <1>1, <3>2, ThreadSets
        <4> QED BY <1>1, <4>1, ThreadSets, FS_Subset
      <3>4. Cardinality(Active') \in Nat
        <4>1. IsFiniteSet(Active) /\ Cardinality(Active) \in Nat
          BY <1>1, ThreadSets
        <4>2. Cardinality(Active \cup {t}) = Cardinality(Active) + 1
          BY <3>2, <4>1, FS_AddElement
        <4> QED BY <3>2, <4>1, <4>2
      <3>5. threadAt'[t] = "push" /\ \A u \in Threads \ {t} : threadAt'[u] = threadAt[u]
        BY <1>1, <2>3, <3>1, ThreadMoves
      <3>6. CounterBounded'
        <4>1. counter < total /\ counter' = counter /\ total' = total /\ threadCount' = threadCount
          BY <2>3, <2>7, <3>1
        <4>2. counter' + Cardinality(Active') <= total' + threadCount' - 1 /\ total' # 0
          BY <2>3, <3>3, <3>4, <4>1
        <4>3. \A u \in Threads : threadAt'[u] = "joined" => counter' >= total'
          BY <2>2, <2>3, <3>5, <4>1 DEF CounterBounded
        <4> QED BY <2>3, <4>2, <4>3 DEF CounterBounded
      <3>7. SizeBounded' /\ AloneLosesNone'
        BY <2>2, <2>3, <3>1, <3>2, <3>5 DEF SizeBounded, AloneLosesNone
      <3> QED BY <1>1, <2>3, <2>6, <3>1, <3>6, <3>7 DEF RngTypeOK
    <2>8. CASE Test(t) /\ ~(counter < total)
      <3>1. /\ threadAt[t] = "test" /\ threadAt' = [threadAt EXCEPT ![t] = "joined"]
            /\ UNCHANGED <<counter, size, capacity, wild, end>>
        BY <2>8 DEF Test, rngVector
      <3>2. Active' = Active /\ Pushed' = Pushed
        BY <1>1, <2>3, <3>1, ThreadMoves DEF Active, Pushed, Pushing
      <3>3. threadAt'[t] = "joined" /\ \A u \in Threads \ {t} : threadAt'[u] = threadAt[u]
        BY <1>1, <2>3, <3>1, ThreadMoves
      <3>4. CounterBounded' /\ SizeBounded' /\ AloneLosesNone'
        BY <2>2, <2>3, <2>8, <3>1, <3>2, <3>3 DEF CounterBounded, SizeBounded, AloneLosesNone
      <3> QED BY <1>1, <2>3, <2>6, <3>1, <3>4 DEF RngTypeOK
    <2>9. CASE BeginPush(t)
      <3>1. /\ threadAt[t] = "push" /\ UNCHANGED <<counter, size, capacity>>
            /\ end' = [end EXCEPT ![t] = size] /\ wild' \in BOOLEAN /\ (wild => wild')
        BY <1>1, <2>9 DEF BeginPush, RngTypeOK
      <3>2. PICK place \in {"storing", "growing"} :
              /\ threadAt' = [threadAt EXCEPT ![t] = place]
              /\ place = "storing" => size # capacity
        BY <2>9 DEF BeginPush
      <3>3. Active' = Active /\ Pushed' = Pushed /\ t \in Active
        BY <1>1, <2>3, <3>1, <3>2, ThreadMoves DEF Active, Pushed, Pushing
      <3>4. /\ threadAt'[t] = place /\ \A u \in Threads \ {t} : threadAt'[u] = threadAt[u]
            /\ end'[t] = size /\ \A u \in Threads \ {t} : end'[u] = end[u]
            /\ end' \in [Threads -> Nat]
        BY <1>1, <2>3, <3>1, <3>2, ThreadMoves DEF RngTypeOK, Pushing
      <3>5. CounterBounded' /\ SizeBounded'
        BY <2>2, <2>3, <3>1, <3>2, <3>3, <3>4 DEF CounterBounded, SizeBounded
      <3>6. threadCount = 1 => ~wild'
        BY <2>2, <2>4, <2>9 DEF BeginPush, AloneLosesNone
      <3>7. AloneLosesNone'
        BY <2>2, <2>3, <2>4, <3>1, <3>2, <3>3, <3>4, <3>6 DEF AloneLosesNone
      <3> QED BY <2>3, <2>6, <3>1, <3>2, <3>4, <3>5, <3>7 DEF Pushing
    <2>10. CASE Store(t)
      <3>1. /\ threadAt[t] = "storing" /\ threadAt' = [threadAt EXCEPT ![t] = "adding"]
            /\ UNCHANGED <<counter, size, capacity>>
            /\ end' = [end EXCEPT ![t] = size] /\ wild' = (wild \/ size = capacity)
        BY <2>10 DEF Store
      <3>2. Active' = Active /\ Pushed' = Pushed /\ t \in Active
        BY <1>1, <2>3, <3>1, ThreadMoves DEF Active, Pushed, Pushing
      <3>3. /\ threadAt'[t] = "adding" /\ \A u \in Threads \ {t} : threadAt'[u] = threadAt[u]
            /\ end'[t] = size /\ \A u \in Threads \ {t} : end'[u] = end[u]
            /\ end' \in [Threads -> Nat]
        BY <1>1, <2>3, <3>1, ThreadMoves DEF RngTypeOK, Pushing
      <3>4. CounterBounded' /\ SizeBounded'
        BY <2>2, <2>3, <3>1, <3>2, <3>3 DEF CounterBounded, SizeBounded
      <3>5. AloneLosesNone'
        BY <2>2, <2>3, <2>4, <3>1, <3>2, <3>3 DEF AloneLosesNone
      <3> QED BY <2>3, <2>6, <3>1, <3>3, <3>4, <3>5 DEF Pushing
    <2>11. CASE EndPush(t) \/ Grow(t)
      <3>1. /\ threadAt[t] \in {"adding", "growing"} /\ wild' = wild /\ UNCHANGED <<counter, end>>
            /\ threadAt' = [threadAt EXCEPT ![t] = "increment"]
            /\ size' \in Nat /\ capacity' \in Nat /\ (~wild => size' = end[t] + 1)
        <4>1. CASE EndPush(t)
          <5>1. /\ threadAt[t] = "adding" /\ UNCHANGED <<counter, capacity, wild, end>>
                /\ threadAt' = [threadAt EXCEPT ![t] = "increment"]
                /\ IF wild THEN size' \in WildSizes ELSE size' = end[t] + 1
            BY <4>1 DEF EndPush
          <5>2. end[t] + 1 \in Nat /\ WildSizes \subseteq Nat
            BY <2>3, RngAssumption
          <5> QED BY <2>3, <5>1, <5>2
        <4>2. CASE Grow(t)
          <5>1. end[t] + (IF end[t] = 0 THEN 1 ELSE end[t]) \in Nat /\ end[t] + 1 \in Nat
            BY <2>3
          <5> QED BY <2>3, <4>2, <5>1, RngAssumption DEF Grow
        <4> QED BY <2>11, <4>1, <4>2
      <3>2. Active' = Active /\ t \in Active /\ Pushed' = Pushed \cup {t} /\ t \notin Pushed
        BY <1>1, <2>3, <3>1, ThreadMoves DEF Active, Pushed, Pushing
      <3>3. Cardinality(Pushed') = Cardinality(Pushed) + 1 /\ Cardinality(Pushed) \in Nat
        BY <1>1, <3>2, ThreadSets, FS_AddElement
      <3>4. threadAt'[t] = "increment" /\ \A u \in Threads \ {t} : threadAt'[u] = threadAt[u]
        BY <1>1, <2>3, <3>1, ThreadMoves
      <3>5. CounterBounded'
        BY <2>2, <2>3, <3>1, <3>2, <3>4 DEF CounterBounded
      <3>6. SizeBounded'
        BY <2>2, <2>3, <3>1, <3>3, <3>4 DEF SizeBounded
      <3>7. AloneLosesNone'
        BY <2>2, <2>3, <2>4, <3>1, <3>3, <3>4 DEF AloneLosesNone
      <3> QED BY <1>1, <2>3, <2>6, <3>1, <3>5, <3>6, <3>7 DEF RngTypeOK
    <2>12. CASE Increment(t)
      <3>1. /\ threadAt[t] = "increment" /\ threadAt' = [threadAt EXCEPT ![t] = "test"]
            /\ UNCHANGED <<size, capacity, wild, end>> /\ counter' = counter + 1
        BY <2>12 DEF Increment, rngVector
      <3>2. /\ Active' = Active \ {t} /\ t \in Active
            /\ Pushed' = Pushed \ {t} /\ t \in Pushed
        BY <1>1, <2>3, <3>1, ThreadMoves DEF Active, Pushed, Pushing
      <3>3. /\ Cardinality(Active') = Cardinality(Active) - 1 /\ Cardinality(Active) \in Nat
            /\ Cardinality(Pushed') = Cardinality(Pushed) - 1 /\ Cardinality(Pushed) \in Nat
        BY <1>1, <3>2, ThreadSets, FS_RemoveElement
      <3>4. threadAt'[t] = "test" /\ \A u \in Threads \ {t} : threadAt'[u] = threadAt[u]
        BY <1>1, <2>3, <3>1, ThreadMoves
      <3>5. CounterBounded'
        BY <2>2, <2>3, <3>1, <3>2, <3>3, <3>4 DEF CounterBounded
      <3>6. SizeBounded'
        <4>1. counter' + Cardinality(Pushed') = counter + Cardinality(Pushed)
          BY <2>3, <3>1, <3>3
        <4>2. \A u \in Threads : threadAt'[u] \in {"adding", "growing"} => threadAt'[u] = threadAt[u]
          BY <3>4
        <4>3. counter' > 0 /\ (~wild => size' >= 1)
          BY <2>2, <2>3, <3>1, <3>2 DEF SizeBounded
        <4> QED BY <2>2, <2>3, <3>1, <4>1, <4>2, <4>3 DEF SizeBounded
      <3>7. AloneLosesNone'
        BY <2>2, <2>3, <3>1, <3>3, <3>4 DEF AloneLosesNone
      <3>8. /\ counter' \in Nat /\ size' \in Nat /\ capacity' \in Nat /\ wild' \in BOOLEAN
            /\ end' \in [Threads -> Nat]
        BY <1>1, <2>3, <3>1 DEF RngTypeOK
      <3> QED BY <2>6, <3>1, <3>5, <3>6, <3>7, <3>8
    <2> QED BY <1>4, <2>7, <2>8, <2>9, <2>10, <2>11, <2>12 DEF RngStep
  <1> QED BY <1>2, <1>3, <1>4 DEF RngNext, RngOver

\* However the threads get in each other's way, the counter ends between the number
\* asked for and that and all but one of the threads (rng.cpp:31-34).  As long as no
\* push_back has used memory that another one had in hand, main prints at least one
\* number and no more than the counter; a thread alone makes exactly those asked for.
THEOREM NumbersAreBounded == RngSpec => []NumbersPrinted
  <1>1. RngInv => NumbersPrinted
    <2> SUFFICES ASSUME RngInv, \A t \in Threads : threadAt[t] = "joined"
                 PROVE  /\ counter \in total .. (total + threadCount - 1)
                        /\ ~wild => size <= counter /\ (size = 0 <=> total = 0)
                        /\ threadCount = 1 \/ total = 0 => ~wild /\ size = total
      BY DEF NumbersPrinted
    <2>1. 1 \in Threads /\ RngTypeOK
      BY DEF RngInv, RngTypeOK, Threads
    <2>2. Active = {} /\ Pushed = {}
      BY DEF Active, Pushed, Pushing
    <2>3. Cardinality(Active) = 0 /\ Cardinality(Pushed) = 0
      BY <2>2, FS_EmptySet
    <2>4. CounterBounded /\ SizeBounded /\ AloneLosesNone
      BY <2>1 DEF RngInv, Crashed
    <2> QED BY <2>1, <2>2, <2>3, <2>4 DEF CounterBounded, SizeBounded, AloneLosesNone, RngTypeOK
  <1> QED BY <1>1, RngInvInit, RngInvStep, PTL DEF RngSpec

-----------------------------------------------------------------------------
(* The duty cycle.                                                           *)

LEMMA Quotient ==
    ASSUME NEW a \in Nat, NEW b \in Nat \ {0}
    PROVE  a \div b \in Nat /\ a <= ((a \div b) + 1) * b
  OBVIOUS

LEMMA DivisionParts ==
    ASSUME NEW a \in Nat, NEW b \in Nat \ {0}
    PROVE  /\ a \div b \in Nat /\ a % b \in 0 .. (b - 1) /\ a = (a \div b) * b + (a % b)
           /\ a > 0 /\ a % b = 0 => a \div b >= 1
  <1> DEFINE q == a \div b
             m == a % b
  <1>1. q \in Int /\ m \in 0 .. (b - 1) /\ a = q * b + m
    OBVIOUS
  <1> HIDE DEF q, m
  <1>2. ASSUME q < 0 PROVE FALSE
    <2>1. -q - 1 \in Nat /\ (-q - 1) * b \in Nat
      BY <1>1, <1>2
    <2>2. q * b = -((-q - 1) * b) - b
      BY <1>1
    <2>3. \A k, n \in Int : k \in Nat /\ n = -k - b => n + m < 0
      BY <1>1
    <2> QED BY <1>1, <2>1, <2>2, <2>3
  <1>3. a > 0 /\ m = 0 => q # 0
    BY <1>1
  <1>4. q \in Nat /\ (a > 0 /\ m = 0 => q >= 1)
    BY <1>1, <1>2, <1>3
  <1> QED BY <1>1, <1>4, Zenon DEF q, m

LEMMA NarrowKeeps ==
    ASSUME NEW g \in Nat, g <= IntLimit
    PROVE  Narrow(-g) = -g
  <1>1. IntLimit \in Nat \ {0}
    BY EatAssumption
  <1> DEFINE n == -g + IntLimit
  <1>2. n \in 0 .. IntLimit /\ n < 2 * IntLimit
    BY <1>1
  <1>3. n % (2 * IntLimit) = n
    BY <1>1, <1>2
  <1> QED BY <1>1, <1>3 DEF Narrow

\* Work of q + g after a sleep of s and a time g in which the worker was kept.
LEMMA CycleKeepsShare ==
    ASSUME NEW a \in Nat, NEW c \in Nat, NEW i \in Nat, NEW s \in Nat, NEW g \in Nat, NEW q \in Nat,
           NEW n \in Nat, NEW m \in Nat,
           (a + c) * m >= i * n, s * n <= (q + 1) * m, g = 0 \/ n <= m
    PROVE  (a + (q + g) + (c + 1)) * m >= (i + s + g) * n
  <1>1. (a + (q + g) + (c + 1)) * m = (a + c) * m + (q + 1) * m + g * m
    OBVIOUS
  <1>2. (i + s + g) * n = i * n + s * n + g * n
    OBVIOUS
  <1>3. g * n <= g * m
    <2>1. CASE n <= m
      <3>1. m - n \in Nat /\ g * (m - n) \in Nat
        BY <2>1
      <3>2. g * m = g * n + g * (m - n)
        OBVIOUS
      <3> QED BY <3>1, <3>2
    <2> QED BY <2>1
  <1>4. /\ (a + c) * m \in Nat /\ (q + 1) * m \in Nat /\ g * m \in Nat
        /\ i * n \in Nat /\ s * n \in Nat /\ g * n \in Nat
    OBVIOUS
  <1> HIDE <1>1, <1>2
  <1> QED BY <1>1, <1>2, <1>3, <1>4

LEMMA MoreIsMore ==
    ASSUME NEW a \in Nat, NEW b \in Nat, a <= b, NEW m \in Nat
    PROVE  a * m <= b * m
  <1>1. b - a \in Nat /\ (b - a) * m \in Nat
    OBVIOUS
  <1>2. b * m = a * m + (b - a) * m
    OBVIOUS
  <1> QED BY <1>1, <1>2

WorkerTypeOK ==
    /\ rate \in Rates
    /\ workerAt \in {"start", "work"}
    /\ cycle \in Nat /\ gap \in Nat /\ sleepActual \in Nat /\ workedLast \in Int
    /\ idle \in Nat /\ worked \in Nat
    /\ kept \in {"none", "briefly", "long"}

\* The condition under which a time without the processor is made up for.
MakesUp == kept = "none" \/ (kept = "briefly" /\ 2 * rate[1] <= rate[2])

\* In the middle of a cycle the share holds for the cycles before it, and what is
\* owed is the work that goes with the sleep and the time kept.
ShareInv ==
    /\ workerAt = "start" /\ MakesUp => (worked + cycle) * (rate[2] - rate[1]) >= idle * rate[1]
    /\ workerAt = "work" =>
          /\ cycle >= 1 /\ idle >= gap + sleepActual
          /\ MakesUp =>
                /\ workedLast = -gap /\ (gap = 0 \/ rate[1] <= rate[2] - rate[1])
                /\ (worked + (cycle - 1)) * (rate[2] - rate[1]) >= (idle - gap - sleepActual) * rate[1]

WorkerInv == WorkerTypeOK /\ ShareInv

LEMMA WorkerInvInit == EatInit => WorkerInv
  <1> SUFFICES ASSUME EatInit PROVE WorkerInv
    OBVIOUS
  <1>1. rate[1] \in Nat \ {0} /\ rate[2] \in Nat /\ rate[1] < rate[2]
    BY EatAssumption DEF EatInit
  <1>2. 0 * (rate[2] - rate[1]) = 0 /\ 0 * rate[1] = 0
    BY <1>1
  <1>3. ShareInv
    BY <1>1, <1>2 DEF EatInit, ShareInv
  <1> QED BY <1>3 DEF EatInit, WorkerInv, WorkerTypeOK

LEMMA LaterByBoth ==
    ASSUME NEW i \in Nat, NEW g \in Nat, NEW s \in Nat, NEW j, j = i + g + s
    PROVE  j \in Nat /\ j - g - s = i /\ j >= g + s
  OBVIOUS

LEMMA SleepStep == ASSUME WorkerInv, Sleep PROVE WorkerInv'
  <1>1. WorkerTypeOK /\ ShareInv
    BY DEF WorkerInv
  <1>2. rate[1] \in Nat \ {0} /\ rate[2] \in Nat /\ rate[1] < rate[2]
    BY <1>1, EatAssumption DEF WorkerTypeOK
  <1>3. /\ workerAt = "start" /\ workerAt' = "work"
        /\ gap' \in Nat /\ sleepActual' \in Nat
        /\ cycle = 0 => gap' = 0
        /\ workedLast' = IF cycle = 0 THEN 0 ELSE Narrow(-gap')
        /\ kept' = IF gap' > IntLimit THEN "long" ELSE IF gap' > 0 /\ kept = "none" THEN "briefly" ELSE kept
        /\ UNCHANGED <<rate, worked>>
    BY EatAssumption DEF Sleep
  <1>12. /\ idle' = idle + gap' + sleepActual'
         /\ cycle' = cycle + 1
         /\ gap' \in Nat /\ sleepActual' \in Nat
    BY <1>3 DEF Sleep
  <1>4. /\ cycle \in Nat /\ idle \in Nat /\ worked \in Nat /\ IntLimit \in Nat \ {0}
        /\ kept \in {"none", "briefly", "long"}
    BY <1>1, EatAssumption DEF WorkerTypeOK
  <1>5. workedLast' \in Int
    <2>1. ASSUME NEW g \in Nat PROVE Narrow(-g) \in Int
      BY <1>4 DEF Narrow
    <2> QED BY <1>3, <1>12, <2>1
  <1>13. kept' \in {"none", "briefly", "long"}
    BY <1>3, <1>4
  <1>14. idle' \in Nat /\ cycle' \in Nat /\ cycle' - 1 = cycle
    <2>1. cycle \in Nat /\ cycle' = cycle + 1
      BY <1>4, <1>12
    <2>2. idle' \in Nat
      BY <1>4, <1>12, LaterByBoth
    <2> QED BY <2>1, <2>2
  <1>6. WorkerTypeOK'
    BY <1>1, <1>3, <1>5, <1>12, <1>13, <1>14 DEF WorkerTypeOK
  <1>7. ASSUME MakesUp'
        PROVE  /\ MakesUp /\ workedLast' = -gap'
               /\ gap' = 0 \/ rate[1] <= rate[2] - rate[1]
    <2>1. gap' <= IntLimit
      BY <1>3, <1>4, <1>7 DEF MakesUp
    <2>2. MakesUp /\ (gap' = 0 \/ rate[1] <= rate[2] - rate[1])
      BY <1>2, <1>3, <1>4, <1>7, <2>1 DEF MakesUp
    <2>3. workedLast' = -gap'
      BY <1>3, <2>1, NarrowKeeps
    <2> QED BY <2>2, <2>3
  <1>8. idle' - gap' - sleepActual' = idle /\ cycle' - 1 = cycle /\ idle' >= gap' + sleepActual'
    BY <1>4, <1>12, <1>14, LaterByBoth
  <1>9. MakesUp' => (worked' + (cycle' - 1)) * (rate'[2] - rate'[1])
                        >= (idle' - gap' - sleepActual') * rate'[1]
    <2>1. MakesUp => (worked + cycle) * (rate[2] - rate[1]) >= idle * rate[1]
      BY <1>1, <1>3 DEF ShareInv
    <2> QED BY <1>3, <1>7, <1>8, <2>1
  <1>10. cycle' >= 1
    BY <1>4, <1>12
  <1>11. ShareInv'
    BY <1>3, <1>7, <1>8, <1>9, <1>10 DEF ShareInv
  <1> QED BY <1>6, <1>11 DEF WorkerInv

LEMMA WorkStep == ASSUME WorkerInv, Work PROVE WorkerInv'
  <1> DEFINE q == RunNs(sleepActual)
             owed == q - workedLast
             done == IF owed > 0 THEN owed ELSE 0
  <1>1. WorkerTypeOK /\ ShareInv
    BY DEF WorkerInv
  <1>2. rate[1] \in Nat \ {0} /\ rate[2] \in Nat /\ rate[1] < rate[2]
    BY <1>1, EatAssumption DEF WorkerTypeOK
  <1>3. /\ cycle \in Nat /\ idle \in Nat /\ worked \in Nat /\ gap \in Nat /\ sleepActual \in Nat
        /\ workedLast \in Int
    BY <1>1 DEF WorkerTypeOK
  <1>4. sleepActual * rate[1] \in Nat /\ rate[2] - rate[1] \in Nat \ {0}
    BY <1>2, <1>3
  <1>5. q \in Nat /\ sleepActual * rate[1] <= (q + 1) * (rate[2] - rate[1])
    BY <1>4, Quotient DEF RunNs
  <1>6. PICK late \in Late : worked' = worked + done + late
    BY DEF Work
  <1>7. /\ workerAt = "work" /\ workerAt' = "start"
        /\ UNCHANGED <<rate, cycle, gap, sleepActual, workedLast, idle, kept>>
    BY DEF Work
  <1> HIDE DEF q
  <1>8. late \in Nat /\ done \in Nat
    BY <1>3, <1>5, EatAssumption
  <1>9. WorkerTypeOK'
    BY <1>1, <1>3, <1>6, <1>7, <1>8 DEF WorkerTypeOK
  <1>10. ASSUME MakesUp PROVE (worked' + cycle) * (rate[2] - rate[1]) >= idle * rate[1]
    <2> DEFINE m == rate[2] - rate[1]
               n == rate[1]
               c == cycle - 1
               i == idle - gap - sleepActual
    <2>1. /\ c \in Nat /\ i \in Nat /\ m \in Nat /\ n \in Nat
          /\ workedLast = -gap /\ (gap = 0 \/ n <= m)
          /\ (worked + c) * m >= i * n
      BY <1>1, <1>2, <1>3, <1>7, <1>10 DEF ShareInv
    <2>2. sleepActual * n <= (q + 1) * m
      BY <1>5
    <2>3. done = q + gap /\ cycle = c + 1 /\ idle = i + sleepActual + gap
      BY <1>3, <1>5, <2>1
    <2> HIDE DEF m, n, c, i
    <2>4. (worked + (q + gap) + (c + 1)) * m >= (i + sleepActual + gap) * n
      BY <1>3, <1>5, <2>1, <2>2, CycleKeepsShare
    <2>5. worked + (q + gap) + (c + 1) <= worked' + cycle
      BY <1>3, <1>5, <1>6, <1>8, <2>1, <2>3
    <2>6. /\ worked + (q + gap) + (c + 1) \in Nat /\ worked' + cycle \in Nat
          /\ (i + sleepActual + gap) * n \in Nat
      BY <1>3, <1>5, <1>6, <1>8, <2>1
    <2>7. (worked + (q + gap) + (c + 1)) * m <= (worked' + cycle) * m
      BY <2>1, <2>5, <2>6, MoreIsMore
    <2>8. /\ (worked + (q + gap) + (c + 1)) * m \in Nat
          /\ (worked' + cycle) * m \in Nat
      BY <2>1, <2>6
    <2>9. (worked' + cycle) * m >= (i + sleepActual + gap) * n
      BY <2>4, <2>6, <2>7, <2>8
    <2> QED BY <2>3, <2>9 DEF m, n
  <1>11. ShareInv'
    BY <1>7, <1>10 DEF ShareInv, MakesUp
  <1> QED BY <1>9, <1>11 DEF WorkerInv

LEMMA WorkerInvStep == WorkerInv /\ [EatNext]_eatVars => WorkerInv'
  <1> SUFFICES ASSUME WorkerInv, [EatNext]_eatVars PROVE WorkerInv'
    OBVIOUS
  <1>1. ASSUME UNCHANGED workerVars PROVE WorkerInv'
    BY <1>1 DEF workerVars, WorkerInv, WorkerTypeOK, ShareInv, MakesUp
  <1> QED BY <1>1, SleepStep, WorkStep DEF EatNext, EatOver, Lock, WriteField, WriteEol, eatVars

\* The worker has had its share of the time after every cycle, for any rate, length
\* of sleep and lateness, however often and long it was kept from running, as far as
\* eat-cpu.cpp:93-104 makes up for it.
THEOREM ShareIsKept == EatSpec => []KeepsItsShare
  <1>1. WorkerInv => KeepsItsShare
    BY DEF WorkerInv, ShareInv, MakesUp, KeepsItsShare
  <1> QED BY <1>1, WorkerInvInit, WorkerInvStep, PTL DEF EatSpec

-----------------------------------------------------------------------------
(* The printing threads.                                                     *)

Item == (Printers \X (1 .. Fields) \X BOOLEAN) \cup {"eol"}

LineTypeOK ==
    /\ lock \in Printers \cup {0}
    /\ field \in [Printers -> 0 .. (Fields + 1)]
    /\ empty \in BOOLEAN
    /\ out \in Seq(Item)

\* Whoever writes has the lock; the fields of its line are the last that lo has
\* written, and the first of them says whose line it is.
LockHolds ==
    /\ \A p \in Printers : p # lock => field[p] = 0
    /\ lock = 0 => empty /\ Len(out) % (Fields + 1) = 0
    /\ lock # 0 =>
          /\ Len(out) % (Fields + 1) = field[lock] - 1
          /\ empty = (field[lock] = 1)
          /\ field[lock] > 1 => out[Len(out) - field[lock] + 2][1] = lock

LineInv == LineTypeOK /\ LockHolds /\ LinesAreWhole

LEMMA LineInvInit == EatInit => LineInv
  BY DEF EatInit, LineInv, LineTypeOK, LockHolds, LinesAreWhole, Fields, Item

LEMMA LineStep == LineInv /\ [EatNext]_eatVars => LineInv'
  <1> SUFFICES ASSUME LineInv, [EatNext]_eatVars PROVE LineInv'
    OBVIOUS
  <1>0. LineTypeOK /\ LockHolds /\ LinesAreWhole /\ 0 \notin Printers /\ Len(out) \in Nat
    BY EatAssumption DEF LineInv, LineTypeOK
  <1>1. ASSUME UNCHANGED <<lock, field, empty, out>> PROVE LineInv'
    BY <1>1 DEF LineInv, LineTypeOK, LockHolds, LinesAreWhole
  <1>2. ASSUME NEW p \in Printers, Lock(p) PROVE LineInv'
    <2>1. /\ lock = 0 /\ field[p] = 0 /\ lock' = p /\ field' = [field EXCEPT ![p] = 1]
          /\ UNCHANGED <<empty, out>>
      BY <1>2 DEF Lock
    <2>8. LinesAreWhole'
      BY <1>0, <2>1 DEF LinesAreWhole
    <2>2. LineTypeOK' /\ LinesAreWhole'
      BY <1>0, <2>1, <2>8 DEF LineTypeOK, Fields
    <2>3. field'[p] = 1 /\ \A u \in Printers \ {p} : field'[u] = field[u]
      BY <1>0, <2>1 DEF LineTypeOK
    <2>5. p # 0 /\ \A u \in Printers : u # lock' => field'[u] = 0
      BY <1>0, <2>1, <2>3 DEF LockHolds
    <2>6. Len(out') % (Fields + 1) = field'[p] - 1 /\ ~(field'[p] > 1)
      BY <1>0, <2>1, <2>3 DEF LockHolds
    <2>7. empty' = (field'[p] = 1)
      <3>1. empty \in BOOLEAN /\ empty /\ empty' = empty
        BY <1>0, <2>1 DEF LockHolds, LineTypeOK
      <3>2. empty' = TRUE
        BY <3>1
      <3>3. (field'[p] = 1) = TRUE
        BY <2>3
      <3> QED BY <3>2, <3>3, Zenon
    <2>4. LockHolds'
      BY <2>1, <2>5, <2>6, <2>7 DEF LockHolds
    <2> QED BY <2>2, <2>4 DEF LineInv
  <1>3. ASSUME NEW x \in Item, out' = Append(out, x)
        PROVE  /\ out' \in Seq(Item) /\ Len(out') = Len(out) + 1 /\ out'[Len(out) + 1] = x
               /\ \A k \in 1 .. Len(out) : out'[k] = out[k]
    BY <1>0, <1>3 DEF LineTypeOK
  <1> DEFINE place(k) == ((k - 1) % (Fields + 1)) + 1
             Whole(line, k) == IF place(k) = Fields + 1
                               THEN line[k] = "eol"
                               ELSE line[k] = <<line[k - place(k) + 1][1], place(k), place(k) # 1>>
  <1>4. \A k \in Nat \ {0} : place(k) \in 1 .. (Fields + 1) /\ place(k) <= k
    BY DEF Fields
  <1>5. ASSUME NEW x \in Item, out' = Append(out, x), Whole(out', Len(out) + 1)
        PROVE  LinesAreWhole'
    <2>1. ASSUME NEW k \in 1 .. Len(out) PROVE Whole(out', k)
      <3>1. Whole(out, k)
        BY <1>0 DEF LinesAreWhole
      <3>2. k - place(k) + 1 \in 1 .. Len(out)
        <4>1. k \in Nat \ {0} /\ k <= Len(out)
          BY <1>0
        <4>2. place(k) \in 1 .. (Fields + 1) /\ place(k) <= k
          BY <1>4, <4>1
        <4> HIDE DEF place
        <4> QED BY <1>0, <4>1, <4>2 DEF Fields
      <3> HIDE DEF place
      <3> QED BY <1>3, <1>5, <3>1, <3>2
    <2>2. \A k \in 1 .. Len(out') : k \in 1 .. Len(out) \/ k = Len(out) + 1
      BY <1>0, <1>3, <1>5
    <2>3. \A k \in 1 .. Len(out') : Whole(out', k)
      BY <1>5, <2>1, <2>2
    <2> QED BY <2>3 DEF LinesAreWhole
  <1>6. ASSUME NEW p \in Printers, WriteField(p) PROVE LineInv'
    <2> DEFINE x == <<p, field[p], ~empty>>
    <2>1. /\ field[p] \in 1 .. Fields /\ out' = Append(out, x) /\ empty' = FALSE
          /\ field' = [field EXCEPT ![p] = @ + 1] /\ lock' = lock
      BY <1>6 DEF WriteField
    <2>2. /\ lock = p /\ lock # 0 /\ Len(out) % (Fields + 1) = field[p] - 1
          /\ empty = (field[p] = 1)
          /\ field[p] > 1 => out[Len(out) - field[p] + 2][1] = p
      BY <1>0, <2>1 DEF LockHolds
    <2>3. x \in Item /\ x[1] = p
      BY <1>0, <2>1 DEF Item, LineTypeOK
    <2>4. place(Len(out) + 1) = field[p]
      BY <1>0, <2>1, <2>2
    <2>5. x = <<p, field[p], field[p] # 1>>
      BY <2>2, Zenon
    <2>6. out'[Len(out) - field[p] + 2][1] = p
      <3>1. CASE field[p] = 1
        BY <1>0, <1>3, <2>1, <2>3, <3>1
      <3>2. CASE field[p] > 1
        <4>1. Len(out) - field[p] + 2 \in 1 .. Len(out)
          <5>1. field[p] <= Len(out) + 1
            BY <1>0, <1>4, <2>4
          <5> QED BY <1>0, <2>1, <3>2, <5>1 DEF Fields
        <4> QED BY <1>3, <2>1, <2>2, <2>3, <3>2, <4>1
      <3>3. field[p] = 1 \/ field[p] > 1
        BY <2>1 DEF Fields
      <3> QED BY <3>1, <3>2, <3>3
    <2>7. Whole(out', Len(out) + 1)
      <3>1. (Len(out) + 1) - field[p] + 1 = Len(out) - field[p] + 2
        BY <1>0, <2>1
      <3>2. out'[Len(out) + 1] = x
        BY <1>3, <2>1, <2>3
      <3>3. field[p] # Fields + 1
        BY <2>1 DEF Fields
      <3> HIDE DEF place, x
      <3> QED BY <2>4, <2>5, <2>6, <3>1, <3>2, <3>3
    <2>8. LinesAreWhole'
      BY <1>5, <2>1, <2>3, <2>7
    <2>9. LineTypeOK'
      <3>1. field[p] + 1 \in 0 .. (Fields + 1)
        BY <2>1 DEF Fields
      <3>2. out' \in Seq(Item)
        BY <1>3, <2>1, <2>3
      <3> QED BY <1>0, <2>1, <3>1, <3>2 DEF LineTypeOK
    <2>10. LockHolds'
      <3>1. field'[p] = field[p] + 1 /\ \A u \in Printers \ {p} : field'[u] = field[u]
        BY <1>0, <2>1 DEF LineTypeOK
      <3>2. Len(out') = Len(out) + 1
        BY <1>3, <2>1, <2>3
      <3>3. (Len(out) + 1) % (Fields + 1) = field[p]
        <4>1. field[p] \in 1 .. 6 /\ Len(out) % 7 = field[p] - 1
          BY <2>1, <2>2 DEF Fields
        <4> DEFINE k == Len(out)
        <4>2. k \in Nat
          BY <1>0
        <4> HIDE DEF k
        <4>3. \A f \in 1 .. 6 : k % 7 = f - 1 => (k + 1) % 7 = f
          BY <4>2
        <4>4. (Len(out) + 1) % 7 = field[p]
          BY <4>1, <4>3 DEF k
        <4> QED BY <4>4 DEF Fields
      <3>4. Len(out') - field'[p] + 2 = Len(out) - field[p] + 2 /\ field'[p] - 1 = field[p] /\ field'[p] # 1
        BY <1>0, <2>1, <3>1, <3>2
      <3>5. lock' = p /\ lock' # 0 /\ empty' = FALSE
        BY <2>1, <2>2
      <3>6. \A u \in Printers : u # lock' => field'[u] = 0
        BY <1>0, <2>2, <3>1, <3>5 DEF LockHolds
      <3>7. Len(out') % (Fields + 1) = field'[p] - 1
        BY <3>2, <3>3, <3>4
      <3>8. out'[Len(out') - field'[p] + 2][1] = p
        BY <2>6, <3>4
      <3> QED BY <3>4, <3>5, <3>6, <3>7, <3>8 DEF LockHolds
    <2> QED BY <2>8, <2>9, <2>10 DEF LineInv
  <1>7. ASSUME NEW p \in Printers, WriteEol(p) PROVE LineInv'
    <2>1. /\ field[p] = Fields + 1 /\ out' = Append(out, "eol") /\ empty' = TRUE
          /\ field' = [field EXCEPT ![p] = 0] /\ lock' = 0
      BY <1>7 DEF WriteEol
    <2>2. lock = p /\ Len(out) % (Fields + 1) = Fields
      BY <1>0, <2>1 DEF LockHolds, Fields
    <2>3. "eol" \in Item
      BY DEF Item
    <2>4. place(Len(out) + 1) = Fields + 1 /\ (Len(out) + 1) % (Fields + 1) = 0
      BY <1>0, <2>2 DEF Fields
    <2>5. LinesAreWhole'
      BY <1>3, <1>5, <2>1, <2>3, <2>4
    <2>6. LineTypeOK'
      BY <1>0, <1>3, <2>1, <2>3 DEF LineTypeOK, Fields
    <2>7. LockHolds'
      BY <1>0, <1>3, <2>1, <2>2, <2>3, <2>4 DEF LockHolds, LineTypeOK
    <2> QED BY <2>5, <2>6, <2>7 DEF LineInv
  <1> QED BY <1>1, <1>2, <1>6, <1>7 DEF EatNext, EatOver, Sleep, Work, eatVars, workerVars

\* A line is never mixed of two workers' fields, for any number of printing threads
\* (eat-cpu.cpp:78-82).
THEOREM LinesStayWhole == EatSpec => []LinesAreWhole
  <1>1. LineInv => LinesAreWhole
    BY DEF LineInv
  <1> QED BY <1>1, LineInvInit, LineStep, PTL DEF EatSpec

-----------------------------------------------------------------------------
(* The HTTP benchmark.                                                       *)

Timed == [request : Workers \X Nat, duration : DurationsOf]

Ticked == [request : Workers \X Nat, round : Nat, main : {"reset", "sleep", "copy", "write"}]

HttpTypeOK ==
    /\ requested \in [Workers -> Nat]
    /\ buffer \in Seq(Timed) /\ data \in Seq(Timed)
    /\ reports \in Seq({Report(points) : points \in Seq(Timed)})
    /\ mainAt \in {"reset", "sleep", "copy", "write"}
    /\ tickedIn \subseteq Ticked

\* A request that its worker has made.
Made(r) == r[2] < requested[r[1]]

AllMade(points) == \A p \in 1 .. Len(points) : Made(points[p].request)

Never(points, r) == \A p \in 1 .. Len(points) : points[p].request # r

Once(points, r) ==
    \E p \in 1 .. Len(points) :
        /\ points[p].request = r
        /\ \A q \in 1 .. Len(points) : points[q].request = r => q = p

\* What the points of round k have to do with a request.
RightlyIn(points, t, k) ==
    IF t.round = k /\ t.main \in {"sleep", "copy"} THEN Once(points, t.request) ELSE Never(points, t.request)

\* A request is in the buffer while main sleeps, in the copy while Print writes, and in
\* the report from then on; what nobody has asked for yet is nowhere.
PointsRight ==
    /\ \A t \in tickedIn :
          /\ Made(t.request) /\ t.round \in 1 .. (Len(reports) + 1)
          /\ mainAt = "reset" /\ t.round = Len(reports) + 1 => t.main = "reset"
    /\ AllMade(buffer) /\ AllMade(data)
    /\ \A k \in 1 .. Len(reports) : AllMade(reports[k].points)
    /\ mainAt \in {"sleep", "copy"} => \A t \in tickedIn : RightlyIn(buffer, t, Len(reports) + 1)
    /\ mainAt = "write" => \A t \in tickedIn : RightlyIn(data, t, Len(reports) + 1)
    /\ \A k \in 1 .. Len(reports), t \in tickedIn : RightlyIn(reports[k].points, t, k)

HttpInv == HttpTypeOK /\ PointsRight

LEMMA HttpInvInit == HttpInit => HttpInv
  BY DEF HttpInit, HttpInv, HttpTypeOK, PointsRight, AllMade

LEMMA TickStep == ASSUME HttpInv, NEW w \in Workers, Tick(w) PROVE HttpInv'
  <1> DEFINE r == <<w, requested[w]>>
             NowMade(s) == s[2] < requested'[s[1]]
             new == [request |-> r, round |-> Len(reports) + 1, main |-> mainAt]
  <1>1. HttpTypeOK /\ PointsRight
    BY DEF HttpInv
  <1>2. PICK d \in DurationsOf : buffer' = Append(buffer, [request |-> r, duration |-> d])
    BY DEF Tick
  <1>3. /\ requested' = [requested EXCEPT ![w] = @ + 1]
        /\ tickedIn' = tickedIn \cup {new}
        /\ UNCHANGED <<mainAt, data, reports>>
    BY DEF Tick
  <1>4. requested[w] \in Nat /\ r \in Workers \X Nat /\ Len(reports) \in Nat
    BY <1>1 DEF HttpTypeOK
  <1>5. /\ buffer' \in Seq(Timed) /\ Len(buffer') = Len(buffer) + 1 /\ Len(buffer) \in Nat
        /\ buffer'[Len(buffer) + 1].request = r
        /\ \A p \in 1 .. Len(buffer) : buffer'[p] = buffer[p]
    <2> DEFINE x == [request |-> r, duration |-> d]
    <2>1. x \in Timed /\ x.request = r
      BY <1>4 DEF Timed
    <2> HIDE DEF x
    <2> QED BY <1>1, <1>2, <2>1 DEF HttpTypeOK, x
  <1>6. HttpTypeOK'
    <2>1. requested' \in [Workers -> Nat]
      BY <1>1, <1>3, <1>4 DEF HttpTypeOK
    <2>2. new \in Ticked
      BY <1>1, <1>4 DEF HttpTypeOK, Ticked
    <2> HIDE DEF new
    <2>3. tickedIn' \subseteq Ticked
      BY <1>1, <1>3, <2>2 DEF HttpTypeOK
    <2> QED BY <1>1, <1>3, <1>5, <2>1, <2>3 DEF HttpTypeOK
  <1>7. ~Made(r) /\ NowMade(r) /\ \A s \in Workers \X Nat : Made(s) => NowMade(s)
    <2>1. requested'[w] = requested[w] + 1 /\ \A v \in Workers \ {w} : requested'[v] = requested[v]
      BY <1>1, <1>3 DEF HttpTypeOK
    <2>2. ASSUME NEW s \in Workers \X Nat, Made(s) PROVE NowMade(s)
      <3>1. s[1] \in Workers /\ s[2] \in Nat /\ requested[s[1]] \in Nat
        BY <1>1 DEF HttpTypeOK
      <3>2. s[2] < requested'[s[1]]
        BY <1>4, <2>1, <2>2, <3>1 DEF Made
      <3> QED BY <3>2
    <2>3. requested[w] < requested'[w] /\ ~(requested[w] < requested[w])
      BY <1>4, <2>1
    <2> QED BY <2>2, <2>3 DEF Made
  <1>8. ASSUME NEW points \in Seq(Timed), AllMade(points)
        PROVE  Never(points, r) /\ \A p \in 1 .. Len(points) : NowMade(points[p].request)
    <2>1. ASSUME NEW p \in 1 .. Len(points) PROVE Made(points[p].request) /\ points[p].request \in Workers \X Nat
      <3>1. points[p] \in Timed
        BY <1>8
      <3> QED BY <1>8, <3>1 DEF AllMade, Timed
    <2> QED BY <1>7, <2>1 DEF Never
  <1>9. ASSUME NEW t \in tickedIn PROVE t.request # r /\ NowMade(t.request) /\ t \in Ticked
    <2>1. t \in Ticked /\ t.request \in Workers \X Nat /\ Made(t.request)
      BY <1>1 DEF HttpTypeOK, PointsRight, Ticked
    <2> QED BY <1>7, <2>1
  <1>10. ASSUME NEW k \in 1 .. Len(reports) PROVE reports[k].points \in Seq(Timed)
    BY <1>1 DEF HttpTypeOK, Report
  <1>11. AllMade(buffer)'
    <2>1. ASSUME NEW p \in 1 .. Len(buffer') PROVE NowMade(buffer'[p].request)
      <3>1. p \in 1 .. Len(buffer) \/ p = Len(buffer) + 1
        BY <1>5
      <3>2. ASSUME p \in 1 .. Len(buffer) PROVE NowMade(buffer'[p].request)
        BY <1>1, <1>5, <1>8, <3>2 DEF HttpTypeOK, PointsRight
      <3> QED BY <1>5, <1>7, <3>1, <3>2
    <2> QED BY <2>1 DEF AllMade, Made
  <1>12. AllMade(data)' /\ \A k \in 1 .. Len(reports) : AllMade(reports[k].points)'
    BY <1>1, <1>3, <1>8, <1>10 DEF HttpTypeOK, PointsRight, AllMade, Made
  <1>13. Never(data, r) /\ Never(buffer, r) /\ \A k \in 1 .. Len(reports) : Never(reports[k].points, r)
    BY <1>1, <1>8, <1>10 DEF HttpTypeOK, PointsRight
  <1>14. ASSUME NEW t \in tickedIn, NEW k, RightlyIn(buffer, t, k) PROVE RightlyIn(buffer', t, k)
    <2>1. ASSUME Never(buffer, t.request) PROVE Never(buffer', t.request)
      BY <1>5, <1>9, <2>1 DEF Never
    <2>2. ASSUME Once(buffer, t.request) PROVE Once(buffer', t.request)
      <3>1. PICK p \in 1 .. Len(buffer) :
                /\ buffer[p].request = t.request
                /\ \A q \in 1 .. Len(buffer) : buffer[q].request = t.request => q = p
        BY <2>2 DEF Once
      <3>2. p \in 1 .. Len(buffer') /\ buffer'[p].request = t.request
        BY <1>5, <3>1
      <3>3. ASSUME NEW q \in 1 .. Len(buffer'), buffer'[q].request = t.request PROVE q = p
        <4>2. q \in 1 .. Len(buffer) \/ q = Len(buffer) + 1
          BY <1>5
        <4>3. q # Len(buffer) + 1
          BY <1>5, <1>9, <3>3
        <4>1. q \in 1 .. Len(buffer)
          BY <4>2, <4>3
        <4> QED BY <1>5, <3>1, <3>3, <4>1
      <3> QED BY <3>2, <3>3 DEF Once
    <2> QED BY <1>14, <2>1, <2>2 DEF RightlyIn
  <1>15. mainAt \in {"sleep", "copy"} => RightlyIn(buffer', new, Len(reports) + 1)
    <2>1. Once(buffer', r)
      <3>1. Len(buffer) + 1 \in 1 .. Len(buffer')
        BY <1>5
      <3>2. ASSUME NEW q \in 1 .. Len(buffer'), buffer'[q].request = r PROVE q = Len(buffer) + 1
        <4>1. q \in 1 .. Len(buffer) => buffer'[q].request # r
          BY <1>5, <1>13 DEF Never
        <4> QED BY <1>5, <3>2, <4>1
      <3> QED BY <1>5, <3>1, <3>2 DEF Once
    <2> QED BY <2>1 DEF RightlyIn
  <1>16. mainAt = "write" => RightlyIn(data, new, Len(reports) + 1)
    BY <1>13 DEF RightlyIn
  <1>17. ASSUME NEW k \in 1 .. Len(reports) PROVE RightlyIn(reports[k].points, new, k)
    BY <1>4, <1>13 DEF RightlyIn
  <1>18. /\ NowMade(new.request) /\ new.round \in 1 .. (Len(reports) + 1)
         /\ mainAt = "reset" /\ new.round = Len(reports) + 1 => new.main = "reset"
    BY <1>4, <1>7
  <1> HIDE DEF r, new
  <1>19. PointsRight'
    <2>1. \A t \in tickedIn' :
            /\ NowMade(t.request) /\ t.round \in 1 .. (Len(reports') + 1)
            /\ mainAt' = "reset" /\ t.round = Len(reports') + 1 => t.main = "reset"
      BY <1>1, <1>3, <1>9, <1>18 DEF PointsRight
    <2>2. mainAt' \in {"sleep", "copy"} => \A t \in tickedIn' : RightlyIn(buffer', t, Len(reports') + 1)
      BY <1>1, <1>3, <1>14, <1>15 DEF PointsRight
    <2>3. mainAt' = "write" => \A t \in tickedIn' : RightlyIn(data', t, Len(reports') + 1)
      BY <1>1, <1>3, <1>16 DEF PointsRight
    <2>4. \A k \in 1 .. Len(reports'), t \in tickedIn' : RightlyIn(reports'[k].points, t, k)
      BY <1>1, <1>3, <1>17 DEF PointsRight
    <2>5. \A k \in 1 .. Len(reports') : AllMade(reports[k].points)'
      BY <1>3, <1>12
    <2> QED BY <1>11, <1>12, <2>1, <2>2, <2>3, <2>4, <2>5 DEF PointsRight, Made
  <1> QED BY <1>6, <1>19 DEF HttpInv

LEMMA MainStep == ASSUME HttpInv, Reset \/ End \/ PrintCopies \/ PrintWrites PROVE HttpInv'
  <1>1. HttpTypeOK /\ PointsRight /\ UNCHANGED <<requested, tickedIn>> /\ Len(reports) \in Nat
    BY DEF HttpInv, HttpTypeOK, Reset, End, PrintCopies, PrintWrites
  <1>2. \A t \in tickedIn : Made(t.request)'
    BY <1>1 DEF PointsRight, Made
  <1>3. CASE Reset
    <2>1. /\ mainAt = "reset" /\ mainAt' = "sleep" /\ buffer' = <<>> /\ UNCHANGED <<data, reports>>
      BY <1>3 DEF Reset
    <2>2. \A t \in tickedIn : RightlyIn(<<>>, t, Len(reports) + 1)
      BY <1>1, <2>1 DEF PointsRight, RightlyIn, Never
    <2>3. HttpTypeOK'
      BY <1>1, <2>1 DEF HttpTypeOK
    <2>4. PointsRight'
      BY <1>1, <1>2, <2>1, <2>2 DEF PointsRight, AllMade, Made
    <2> QED BY <2>3, <2>4 DEF HttpInv
  <1>4. CASE End
    <2>1. mainAt = "sleep" /\ mainAt' = "copy" /\ UNCHANGED <<buffer, data, reports>>
      BY <1>4 DEF End
    <2>2. HttpTypeOK'
      BY <1>1, <2>1 DEF HttpTypeOK
    <2>3. PointsRight'
      BY <1>1, <1>2, <2>1 DEF PointsRight, AllMade, Made
    <2> QED BY <2>2, <2>3 DEF HttpInv
  <1>5. CASE PrintCopies
    <2>1. mainAt = "copy" /\ mainAt' = "write" /\ data' = buffer /\ UNCHANGED <<buffer, reports>>
      BY <1>5 DEF PrintCopies
    <2>2. HttpTypeOK'
      BY <1>1, <2>1 DEF HttpTypeOK
    <2>3. PointsRight'
      BY <1>1, <1>2, <2>1 DEF PointsRight, AllMade, Made
    <2> QED BY <2>2, <2>3 DEF HttpInv
  <1>6. CASE PrintWrites
    <2> DEFINE x == Report(data)
    <2>1. /\ mainAt = "write" /\ mainAt' = "reset" /\ reports' = Append(reports, x)
          /\ UNCHANGED <<buffer, data>>
      BY <1>6 DEF PrintWrites
    <2>2. x \in {Report(points) : points \in Seq(Timed)} /\ x.points = data
      BY <1>1 DEF HttpTypeOK, Report
    <2> HIDE DEF x
    <2>3. /\ Len(reports') = Len(reports) + 1 /\ reports'[Len(reports) + 1] = x
          /\ \A k \in 1 .. Len(reports) : reports'[k] = reports[k]
          /\ reports' \in Seq({Report(points) : points \in Seq(Timed)})
      BY <1>1, <2>1, <2>2 DEF HttpTypeOK
    <2>4. HttpTypeOK'
      BY <1>1, <2>1, <2>3 DEF HttpTypeOK
    <2>5. \A k \in 1 .. Len(reports') : k \in 1 .. Len(reports) \/ k = Len(reports) + 1
      BY <1>1, <2>3
    <2>6. \A t \in tickedIn : t.round \in 1 .. (Len(reports') + 1) /\ t.round # Len(reports') + 1
      BY <1>1, <2>3 DEF PointsRight
    <2>7. \A k \in 1 .. Len(reports'), t \in tickedIn : RightlyIn(reports'[k].points, t, k)
      BY <1>1, <2>1, <2>2, <2>3, <2>5 DEF PointsRight
    <2>8. \A k \in 1 .. Len(reports') : AllMade(reports'[k].points)
      BY <1>1, <2>2, <2>3, <2>5 DEF PointsRight
    <2>9. PointsRight'
      <3>1. AllMade(buffer)' /\ AllMade(data)' /\ \A k \in 1 .. Len(reports') : AllMade(reports[k].points)'
        BY <1>1, <2>1, <2>8 DEF PointsRight, AllMade, Made
      <3> QED BY <1>1, <1>2, <2>1, <2>6, <2>7, <3>1 DEF PointsRight
    <2> QED BY <2>4, <2>9 DEF HttpInv
  <1> QED BY <1>3, <1>4, <1>5, <1>6

LEMMA HttpInvStep == HttpInv /\ [HttpNext]_httpVars => HttpInv'
  <1> SUFFICES ASSUME HttpInv, [HttpNext]_httpVars PROVE HttpInv'
    OBVIOUS
  <1>1. ASSUME UNCHANGED <<requested, buffer, mainAt, data, reports, tickedIn>> PROVE HttpInv'
    BY <1>1 DEF HttpInv, HttpTypeOK, PointsRight, AllMade, Made
  <1> QED BY <1>1, TickStep, MainStep DEF HttpNext, HttpStep, HttpOver, Answered, Panic, httpVars

\* Whatever the interleaving of the workers with main's loop, a request that ends while
\* main sleeps or before Print has the lock is printed with that round, once, and no
\* request is printed otherwise (stats.go).
THEOREM EveryRequestOnce == HttpSpec => []RequestsReportedOnce
  <1>1. HttpInv => RequestsReportedOnce
    <2> SUFFICES ASSUME HttpInv, NEW t \in tickedIn, NEW k \in 1 .. Len(reports)
                 PROVE  Cardinality({p \in 1 .. Len(reports[k].points) :
                                        reports[k].points[p].request = t.request})
                            = IF t.round = k /\ t.main \in {"sleep", "copy"} THEN 1 ELSE 0
      BY DEF RequestsReportedOnce
    <2> DEFINE points == reports[k].points
               places == {p \in 1 .. Len(points) : points[p].request = t.request}
    <2>1. RightlyIn(points, t, k)
      BY DEF HttpInv, PointsRight
    <2>2. ASSUME Never(points, t.request) PROVE Cardinality(places) = 0
      <3>1. places = {}
        BY <2>2 DEF Never
      <3> QED BY <3>1, FS_EmptySet
    <2>3. ASSUME Once(points, t.request) PROVE Cardinality(places) = 1
      <3>1. PICK p \in 1 .. Len(points) :
                /\ points[p].request = t.request
                /\ \A q \in 1 .. Len(points) : points[q].request = t.request => q = p
        BY <2>3 DEF Once
      <3>2. places = {p}
        BY <3>1
      <3> HIDE DEF places
      <3> QED BY <3>2, FS_Singleton
    <2> HIDE DEF places, points
    <2>4. Cardinality(places) = IF t.round = k /\ t.main \in {"sleep", "copy"} THEN 1 ELSE 0
      BY <2>1, <2>2, <2>3 DEF RightlyIn
    <2> QED BY <2>4 DEF places, points
  <1> QED BY <1>1, HttpInvInit, HttpInvStep, PTL DEF HttpSpec

\* A part of a finite set has fewer members, unless it is all of it.
LEMMA PartCounts ==
    ASSUME NEW S, IsFiniteSet(S), NEW T, T \subseteq S
    PROVE  /\ IsFiniteSet(T) /\ Cardinality(T) \in Nat /\ Cardinality(S) \in Nat
           /\ Cardinality(T) <= Cardinality(S)
           /\ T # S => Cardinality(T) < Cardinality(S)
  <1>1. IsFiniteSet(T) /\ Cardinality(T) <= Cardinality(S) /\ (Cardinality(S) = Cardinality(T) => S = T)
    BY FS_Subset
  <1>2. Cardinality(T) \in Nat /\ Cardinality(S) \in Nat
    BY <1>1, FS_CardinalityType
  <1> QED BY <1>1, <1>2

LEMMA UpToGrows ==
    ASSUME NEW n \in Nat, NEW f \in [1 .. n -> Int], NEW i \in 1 .. n, NEW k \in 1 .. n,
           f[i] < f[k] \/ (f[i] = f[k] /\ i < k)
    PROVE  Cardinality(UpTo(f, i)) < Cardinality(UpTo(f, k))
  <1>0. DOMAIN f = 1 .. n
    OBVIOUS
  <1>1. IsFiniteSet(UpTo(f, k))
    <2>1. IsFiniteSet(1 .. n) /\ UpTo(f, k) \subseteq 1 .. n
      BY <1>0, FS_Interval DEF UpTo
    <2> QED BY <2>1, FS_Subset
  <1>2. UpTo(f, i) \subseteq UpTo(f, k)
    <2>1. ASSUME NEW j \in 1 .. n, f[j] < f[i] \/ (f[j] = f[i] /\ j <= i)
          PROVE  f[j] < f[k] \/ (f[j] = f[k] /\ j <= k)
      <3>1. f[j] \in Int /\ f[i] \in Int /\ f[k] \in Int
        OBVIOUS
      <3> QED BY <2>1, <3>1
    <2> QED BY <1>0, <2>1 DEF UpTo
  <1>3. k \in UpTo(f, k) /\ k \notin UpTo(f, i)
    <2>1. f[i] \in Int /\ f[k] \in Int
      OBVIOUS
    <2> QED BY <1>0, <2>1 DEF UpTo
  <1>4. UpTo(f, i) # UpTo(f, k)
    BY <1>3
  <1> QED BY <1>1, <1>2, <1>4, PartCounts

\* Counting the places up to each one puts all of them in order.
LEMMA OrderSorts ==
    ASSUME NEW n \in Nat, NEW f \in [1 .. n -> Int]
    PROVE  /\ Order(f) \in Bijection(1 .. n, 1 .. n)
           /\ \A i, j \in 1 .. n : i <= j => f[Order(f)[i]] <= f[Order(f)[j]]
  <1> DEFINE places == 1 .. n
             rank == [i \in places |-> Cardinality(UpTo(f, i))]
  <1>1. IsFiniteSet(places) /\ Cardinality(places) = n
    BY FS_Interval
  <1>2. ASSUME NEW i \in places PROVE rank[i] \in places
    <2>1. UpTo(f, i) \subseteq places /\ i \in UpTo(f, i)
      <3>1. DOMAIN f = places /\ f[i] \in Int
        OBVIOUS
      <3> QED BY <3>1 DEF UpTo
    <2>2. /\ IsFiniteSet(UpTo(f, i)) /\ Cardinality(UpTo(f, i)) <= n
          /\ Cardinality(UpTo(f, i)) \in Nat
      BY <1>1, <2>1, FS_Subset, FS_CardinalityType
    <2>3. Cardinality(UpTo(f, i)) # 0
      BY <2>1, <2>2, FS_EmptySet
    <2> QED BY <2>2, <2>3
  <1>3. ASSUME NEW i \in places, NEW k \in places, f[i] < f[k] \/ (f[i] = f[k] /\ i < k)
        PROVE  rank[i] < rank[k]
    BY <1>3, UpToGrows
  <1> HIDE DEF rank
  <1>4. rank \in [places -> places]
    BY <1>2 DEF rank
  <1>5. ASSUME NEW i \in places, NEW k \in places, rank[i] = rank[k] PROVE i = k
    <2>1. f[i] \in Int /\ f[k] \in Int /\ rank[i] \in Int /\ rank[k] \in Int
      BY <1>2
    <2>2. i = k \/ (f[i] < f[k] \/ (f[i] = f[k] /\ i < k)) \/ (f[k] < f[i] \/ (f[k] = f[i] /\ k < i))
      BY <2>1
    <2>3. ~(rank[i] < rank[k]) /\ ~(rank[k] < rank[i])
      BY <1>5, <2>1
    <2> QED BY <1>3, <2>2, <2>3
  <1> HIDE DEF places
  <1>6. rank \in Injection(places, places)
    BY <1>4, <1>5 DEF Injection, IsInjective
  <1>7. rank \in Surjection(places, places)
    BY <1>1, <1>6, FS_Injection
  <1> DEFINE p == Order(f)
  <1>12. p = [m \in places |-> CHOOSE i \in places : rank[i] = m]
    <2>1. DOMAIN f = places
      BY DEF places
    <2> QED BY <2>1 DEF Order, rank
  <1> HIDE DEF p
  <1>8. ASSUME NEW m \in places PROVE p[m] \in places /\ rank[p[m]] = m
    BY <1>7, <1>12 DEF Surjection
  <1>9. ASSUME NEW i \in places PROVE p[rank[i]] = i
    BY <1>4, <1>5, <1>8
  <1>10. p \in Bijection(places, places)
    <2>1. p \in [places -> places]
      BY <1>8, <1>12
    <2>2. \A m, k \in places : p[m] = p[k] => m = k
      BY <1>8
    <2>3. \A i \in places : \E m \in places : p[m] = i
      BY <1>4, <1>9
    <2> QED BY <2>1, <2>2, <2>3 DEF Bijection, Injection, Surjection, IsInjective
  <1>11. ASSUME NEW i \in places, NEW j \in places, i <= j PROVE f[p[i]] <= f[p[j]]
    <2>1. p[i] \in places /\ p[j] \in places /\ rank[p[i]] = i /\ rank[p[j]] = j
      BY <1>8
    <2>2. f[p[i]] \in Int /\ f[p[j]] \in Int /\ i \in Int /\ j \in Int
      BY <2>1 DEF places
    <2>3. ~(j < i)
      BY <1>11, <2>2
    <2>4. ~(f[p[j]] < f[p[i]])
      BY <1>3, <2>1, <2>3
    <2> QED BY <2>2, <2>4
  <1> QED BY <1>10, <1>11 DEF places, p

\* As many values are at most v before sorting as after it.
LEMMA SortedCounts ==
    ASSUME NEW n \in Nat, NEW d \in [1 .. n -> Int], NEW p \in Bijection(1 .. n, 1 .. n), NEW v \in Int
    PROVE  /\ Cardinality({k \in 1 .. n : d[k] <= v}) = Cardinality({k \in 1 .. n : d[p[k]] <= v})
           /\ IsFiniteSet({k \in 1 .. n : d[p[k]] <= v})
  <1> DEFINE places == 1 .. n
             S == {k \in places : d[p[k]] <= v}
             T == {k \in places : d[k] <= v}
             f == [k \in S |-> p[k]]
  <1>1. IsFiniteSet(S)
    <2>1. IsFiniteSet(places) /\ S \subseteq places
      BY FS_Interval
    <2> HIDE DEF S, places
    <2> QED BY <2>1, FS_Subset
  <1> HIDE DEF places
  <1>2. /\ p \in [places -> places]
        /\ \A a, b \in places : p[a] = p[b] => a = b
        /\ \A t \in places : \E s \in places : p[s] = t
    BY DEF Bijection, Injection, Surjection, IsInjective, places
  <1>3. f \in [S -> T] /\ (\A a, b \in S : f[a] = f[b] => a = b) /\ \A t \in T : \E s \in S : f[s] = t
    BY <1>2
  <1> HIDE DEF S, T, f
  <1>4. f \in Bijection(S, T)
    BY <1>3 DEF Bijection, Injection, Surjection, IsInjective
  <1>5. Cardinality(T) = Cardinality(S)
    BY <1>1, <1>4, FS_Bijection DEF ExistsBijection
  <1> QED BY <1>1, <1>5 DEF S, T, places

\* What QuantilesOfDurations says of one quantile.
ReachesShare(d, c, q) ==
    LET atMost(v) == Cardinality({p \in 1 .. Len(d) : d[p] <= v})
        reached(v) == atMost(v) = Len(d) \/ c[2] * atMost(v) > c[1] * Len(d)
    IN  /\ \E p \in 1 .. Len(d) : d[p] = q
        /\ reached(q)
        /\ \A p \in 1 .. Len(d) : reached(d[p]) => q <= d[p]

LEMMA QuantileReaches ==
    ASSUME NEW d \in Seq(Int), d # <<>>, NEW c, c[1] \in Nat, c[2] \in Nat \ {0}, c[1] <= c[2]
    PROVE  ReachesShare(d, c, Quantile(d, c))
  <1> DEFINE n == Len(d)
             q == Quantile(d, c)
             o == Order(d)
             m == IF c[1] = c[2] THEN n ELSE Index(c, n) + 1
             atMost(v) == Cardinality({p \in 1 .. n : d[p] <= v})
             reached(v) == atMost(v) = n \/ c[2] * atMost(v) > c[1] * n
  <1>1. n \in Nat \ {0} /\ d \in [1 .. n -> Int]
    OBVIOUS
  <1>2. o \in Bijection(1 .. n, 1 .. n) /\ \A i, j \in 1 .. n : i <= j => d[o[i]] <= d[o[j]]
    BY <1>1, OrderSorts
  <1>3. o \in [1 .. n -> 1 .. n]
    BY <1>2 DEF Bijection, Injection
  \* The place of the quantile, of which c[1] / c[2] is the share or just less.
  <1>4. /\ m \in 1 .. n
        /\ c[1] = c[2] \/ (c[2] * m > c[1] * n /\ c[2] * (m - 1) <= c[1] * n)
        /\ c[1] = c[2] => m = n
    <2>1. CASE c[1] = c[2]
      BY <1>1, <2>1
    <2>2. CASE c[1] # c[2]
      <3> DEFINE a == c[1] * n
                 b == a \div c[2]
                 e == a % c[2]
      <3>1. a \in Nat
        BY <1>1
      <3>2. b \in Nat /\ e \in 0 .. (c[2] - 1) /\ a = b * c[2] + e
        BY <3>1, DivisionParts
      <3>3. a < n * c[2]
        <4>1. (c[1] + 1) * n <= c[2] * n
          <5>1. c[1] + 1 \in Nat /\ c[2] \in Nat /\ n \in Nat /\ c[1] + 1 <= c[2]
            BY <1>1, <2>2
          <5> HIDE DEF n
          <5> QED BY <5>1, MoreIsMore
        <4>2. (c[1] + 1) * n = a + n /\ c[2] * n = n * c[2] /\ n * c[2] \in Nat
          BY <1>1
        <4> HIDE DEF n, a
        <4> QED BY <1>1, <3>1, <4>1, <4>2
      <3>4. m = b + 1
        BY <2>2 DEF Index
      <3> HIDE DEF a, b, e, m, n
      <3>5. b < n
        <4>1. SUFFICES ASSUME n <= b PROVE FALSE
          BY <1>1, <3>2
        <4>2. n * c[2] <= b * c[2] /\ n * c[2] \in Nat /\ b * c[2] \in Nat
          BY <1>1, <3>2, <4>1, MoreIsMore
        <4> QED BY <3>1, <3>2, <3>3, <4>2
      <3>6. c[2] * m = b * c[2] + c[2] /\ c[2] * (m - 1) = b * c[2] /\ b * c[2] \in Nat
        BY <3>2, <3>4
      <3>7. c[2] * m > a /\ c[2] * (m - 1) <= a
        BY <3>1, <3>2, <3>6
      <3> QED BY <1>1, <2>2, <3>2, <3>4, <3>5, <3>7 DEF a
    <2> QED BY <2>1, <2>2
  <1>5. q = d[o[m]]
    BY <1>4 DEF Quantile
  <1> HIDE DEF m, q, n, o
  <1>6. o[m] \in 1 .. n /\ q \in Int
    BY <1>1, <1>3, <1>4, <1>5
  <1>7. ASSUME NEW v \in Int
        PROVE  /\ atMost(v) = Cardinality({k \in 1 .. n : d[o[k]] <= v}) /\ atMost(v) \in Nat
               /\ IsFiniteSet({k \in 1 .. n : d[o[k]] <= v})
    <2> DEFINE S == {k \in 1 .. n : d[o[k]] <= v}
    <2>1. Cardinality({k \in 1 .. n : d[k] <= v}) = Cardinality(S) /\ IsFiniteSet(S)
      BY <1>1, <1>2, SortedCounts
    <2> HIDE DEF S
    <2>2. Cardinality(S) \in Nat
      BY <2>1, FS_CardinalityType
    <2> QED BY <2>1, <2>2 DEF S
  <1>8. atMost(q) >= m /\ atMost(q) <= n
    <2> DEFINE S == {k \in 1 .. n : d[o[k]] <= q}
    <2>1. ASSUME NEW k \in 1 .. m PROVE k \in S
      <3>1. k \in 1 .. n /\ m \in 1 .. n /\ k <= m
        BY <1>1, <1>4
      <3>2. d[o[k]] <= d[o[m]]
        BY <1>2, <3>1
      <3> QED BY <1>5, <3>1, <3>2
    <2>2. S \subseteq 1 .. n
      OBVIOUS
    <2>3. IsFiniteSet(1 .. n) /\ Cardinality(1 .. n) = n /\ Cardinality(1 .. m) = m
      BY <1>1, <1>4, FS_Interval
    <2>4. IsFiniteSet(S) /\ atMost(q) = Cardinality(S)
      BY <1>6, <1>7
    <2> HIDE DEF S, atMost
    <2>5. 1 .. m \subseteq S
      BY <2>1
    <2>6. Cardinality(S) <= n
      BY <2>2, <2>3, PartCounts
    <2>7. Cardinality(S) >= m
      BY <2>3, <2>4, <2>5, PartCounts
    <2> QED BY <2>4, <2>6, <2>7
  <1>9. reached(q)
    <2>0. atMost(q) \in Nat
      <3> HIDE DEF atMost
      <3> QED BY <1>6, <1>7
    <2> HIDE DEF atMost
    <2>1. CASE c[1] = c[2]
      BY <1>1, <1>4, <1>8, <2>0, <2>1
    <2>2. CASE c[1] # c[2]
      <3>1. m \in Nat /\ atMost(q) \in Nat
        BY <1>1, <1>4, <2>0
      <3>2. m * c[2] <= atMost(q) * c[2]
        BY <1>8, <3>1, MoreIsMore
      <3>3. c[2] * m = m * c[2] /\ c[2] * atMost(q) = atMost(q) * c[2] /\ m * c[2] \in Nat /\ atMost(q) * c[2] \in Nat
            /\ c[1] * n \in Nat
        BY <1>1, <3>1
      <3> DEFINE a == c[2] * m
                 b == c[2] * atMost(q)
                 e == c[1] * n
      <3>4. a \in Nat /\ b \in Nat /\ e \in Nat /\ a <= b
        BY <3>2, <3>3
      <3>5. a > e
        BY <1>4, <2>2
      <3> HIDE DEF a, b, e
      <3>6. b > e
        BY <3>4, <3>5
      <3> QED BY <3>6 DEF b, e
    <2> QED BY <2>1, <2>2
  <1>10. ASSUME NEW v \in Int, v < q PROVE ~reached(v)
    <2> DEFINE S == {k \in 1 .. n : d[o[k]] <= v}
    <2>1. S \subseteq 1 .. (m - 1)
      <3>1. ASSUME NEW k \in S PROVE k \in 1 .. (m - 1)
        <4>1. k \in 1 .. n /\ d[o[k]] <= v /\ d[o[k]] \in Int
          BY <1>1, <1>3
        <4>2. ~(m <= k)
          BY <1>2, <1>4, <1>5, <1>6, <1>10, <4>1
        <4> QED BY <1>1, <1>4, <4>1, <4>2
      <3> QED BY <3>1
    <2>2. IsFiniteSet(1 .. (m - 1)) /\ Cardinality(1 .. (m - 1)) = m - 1
      <3>1. m - 1 \in Int /\ 1 \in Int /\ m - 1 >= 0
        BY <1>1, <1>4
      <3>2. /\ IsFiniteSet(1 .. (m - 1))
            /\ Cardinality(1 .. (m - 1)) = IF 1 > m - 1 THEN 0 ELSE (m - 1) - 1 + 1
        BY <3>1, FS_Interval
      <3> QED BY <3>1, <3>2
    <2>3. atMost(v) = Cardinality(S) /\ atMost(v) \in Nat
      BY <1>7
    <2> HIDE DEF S, atMost
    <2>4. atMost(v) <= m - 1
      BY <2>1, <2>2, <2>3, PartCounts
    <2>5. m - 1 \in Nat /\ m - 1 < n
      BY <1>1, <1>4
    <2>6. atMost(v) * c[2] <= (m - 1) * c[2]
      BY <2>3, <2>4, <2>5, MoreIsMore
    <2>7. /\ c[2] * atMost(v) = atMost(v) * c[2] /\ c[2] * (m - 1) = (m - 1) * c[2]
          /\ atMost(v) * c[2] \in Nat /\ (m - 1) * c[2] \in Nat /\ c[1] * n \in Nat
      BY <1>1, <2>3, <2>5
    <2>8. c[2] * (m - 1) <= c[1] * n
      <3>1. CASE c[1] = c[2]
        <4>1. (m - 1) * c[2] <= n * c[2] /\ n * c[2] = c[1] * n
          BY <1>1, <2>5, <3>1, MoreIsMore
        <4> QED BY <2>7, <4>1
      <3> QED BY <1>4, <3>1
    <2>9. ~(atMost(v) = n) /\ ~(c[2] * atMost(v) > c[1] * n)
      <3> DEFINE a == c[2] * atMost(v)
                 b == c[2] * (m - 1)
                 e == c[1] * n
      <3>1. a \in Nat /\ b \in Nat /\ e \in Nat
        BY <2>7
      <3>2. a <= b
        BY <2>6, <2>7
      <3>3. b <= e
        BY <2>8
      <3>4. ~(atMost(v) = n)
        BY <1>1, <2>3, <2>4, <2>5
      <3> HIDE DEF a, b, e
      <3>5. ~(a > e)
        BY <3>1, <3>2, <3>3
      <3> QED BY <3>4, <3>5 DEF a, e
    <2> QED BY <2>9
  <1>11. ASSUME NEW p \in 1 .. n, reached(d[p]) PROVE q <= d[p]
    <2>1. d[p] \in Int
      BY <1>1
    <2> HIDE DEF reached
    <2>2. ~(d[p] < q)
      BY <1>10, <1>11, <2>1
    <2> QED BY <1>6, <2>1, <2>2
  <1> QED BY <1>5, <1>6, <1>9, <1>11 DEF n, q, ReachesShare

\* The cut points of every report are right, whatever the durations are, how many of
\* them there are and whether some are the same: the index of the code is that of the
\* smallest duration that more than the share does not exceed (stats.go:41-62).
THEOREM QuantilesAreRight == HttpSpec => []QuantilesOfDurations
  <1>1. HttpInv => QuantilesOfDurations
    <2> SUFFICES ASSUME HttpInv, NEW k \in 1 .. Len(reports), NEW c \in 1 .. Len(reports[k].quantiles)
                 PROVE  ReachesShare(DurationsIn(reports[k].points), CutPoints[c], reports[k].quantiles[c])
      BY DEF QuantilesOfDurations, ReachesShare
    <2>1. reports[k] \in {Report(points) : points \in Seq(Timed)}
      BY DEF HttpInv, HttpTypeOK
    <2>2. PICK points \in Seq(Timed) : reports[k] = Report(points)
      BY <2>1
    <2> DEFINE d == DurationsIn(points)
    <2>3. d \in Seq(Int) /\ (points # <<>> => d # <<>>)
      <3>1. ASSUME NEW i \in 1 .. Len(points) PROVE points[i].duration \in Int
        <4>1. points[i] \in Timed
          OBVIOUS
        <4> QED BY <4>1, HttpAssumption DEF Timed
      <3>2. Len(points) \in Nat /\ d \in [1 .. Len(points) -> Int]
        BY <3>1 DEF DurationsIn
      <3>3. d \in Seq(Int) /\ Len(d) = Len(points)
        BY <3>2
      <3> QED BY <3>3
    <2>4. reports[k].points = points
      BY <2>2 DEF Report
    <2>5. CASE points = <<>>
      <3>1. reports[k].quantiles = <<>>
        BY <2>2, <2>5 DEF Report
      <3> QED BY <3>1
    <2>6. CASE points # <<>>
      <3>1. reports[k].quantiles = [i \in 1 .. Len(CutPoints) |-> Quantile(d, CutPoints[i])]
        BY <2>2, <2>6 DEF Report
      <3>2. c \in 1 .. Len(CutPoints) /\ reports[k].quantiles[c] = Quantile(d, CutPoints[c])
        BY <3>1
      <3>3. CutPoints[c][1] \in Nat /\ CutPoints[c][2] \in Nat \ {0} /\ CutPoints[c][1] <= CutPoints[c][2]
        BY <3>2, HttpAssumption
      <3> HIDE DEF d
      <3>4. d \in Seq(Int) /\ d # <<>>
        BY <2>3, <2>6
      <3>5. ReachesShare(d, CutPoints[c], Quantile(d, CutPoints[c]))
        BY <3>3, <3>4, QuantileReaches
      <3> QED BY <2>4, <3>2, <3>5 DEF d
    <2> QED BY <2>5, <2>6
  <1> QED BY <1>1, HttpInvInit, HttpInvStep, PTL DEF HttpSpec

-----------------------------------------------------------------------------
(* The search for prices.                                                    *)

First == Combinations[1]

Chosen(m) == prices[m] # 0 /\ Fits(Machines[m], First)

\* The machines that ecs_data has given: those in front of the rows that are left.
Given == 1 .. (Len(Machines) - Len(rows))

SearchTypeOK ==
    /\ prices \in [1 .. Len(Machines) -> Nat]
    /\ tried \in 0 .. Len(Combinations)
    /\ rows \in Seq(1 .. Len(Machines)) /\ Len(rows) <= Len(Machines)
    /\ \A k \in 1 .. Len(rows) : rows[k] = Len(Machines) - Len(rows) + k
    /\ selections \in Seq([machine : 1 .. Len(Machines), combination : {First}, total_price : Int])

\* The iterator gives its rows to the first combination, and there are none afterwards.
RowsOnce ==
    /\ tried = 0 => Len(rows) = Len(Machines)
    /\ tried = 1 => combination = First
    /\ tried > 1 => rows = <<>>

SelectedOfFirst ==
    {selections[i].machine : i \in 1 .. Len(selections)} = {m \in Given : Chosen(m)}

\* Each is there once, with its price.
SelectedOnce ==
    \A i \in 1 .. Len(selections) :
        /\ selections[i].machine \in Given
        /\ selections[i].total_price = TotalPrice(selections[i].machine, First)
        /\ \A j \in 1 .. (i - 1) : selections[j].machine # selections[i].machine

SearchInv == SearchTypeOK /\ RowsOnce /\ SelectedOfFirst /\ SelectedOnce

LEMMA FirstIsWhole ==
    ASSUME Len(Combinations) > 0
    PROVE  First.nnodes \in Nat /\ First.nssd \in Nat /\ First.ssd_size \in Nat
  <1> DEFINE a == Len(Nnodes)
             b == Len(Nssds)
             c == Len(SsdSizes)
  <1>1. a \in Nat /\ b \in Nat /\ c \in Nat
    BY SearchAssumption
  <1>2. Len(Combinations) = a * b * c /\ a * b * c \in Nat
    BY <1>1 DEF Combinations
  <1>3. a > 0 /\ b > 0 /\ c > 0
    <2> HIDE DEF a, b, c
    <2>1. a # 0 /\ b # 0 /\ c # 0
      BY <1>1, <1>2
    <2> QED BY <1>1, <2>1
  <1>4. 1 \in 1 .. (a * b * c)
    BY <1>2
  <1>5. First = [nnodes   |-> Nnodes[(((1 - 1) \div c) \div b) + 1],
                 nssd     |-> Nssds[(((1 - 1) \div c) % b) + 1],
                 ssd_size |-> SsdSizes[((1 - 1) % c) + 1]]
    BY <1>4 DEF Combinations, First
  <1>6. (1 - 1) \div c = 0 /\ 0 \div b = 0 /\ 0 % b = 0 /\ (1 - 1) % c = 0
    <2> HIDE DEF a, b, c
    <2> QED BY <1>1, <1>3
  <1>7. First.nnodes = Nnodes[1] /\ First.nssd = Nssds[1] /\ First.ssd_size = SsdSizes[1]
    <2>1. /\ First.nnodes = Nnodes[(((1 - 1) \div c) \div b) + 1]
          /\ First.nssd = Nssds[(((1 - 1) \div c) % b) + 1]
          /\ First.ssd_size = SsdSizes[((1 - 1) % c) + 1]
      BY <1>5
    <2> HIDE DEF a, b, c
    <2>2. First.nnodes = Nnodes[0 + 1] /\ First.nssd = Nssds[0 + 1] /\ First.ssd_size = SsdSizes[0 + 1]
      BY <1>6, <2>1
    <2> QED BY <2>2
  <1> QED BY <1>3, <1>7, SearchAssumption

LEMMA SearchInvInit == SearchInit => SearchInv
  <1> SUFFICES ASSUME SearchInit PROVE SearchInv
    OBVIOUS
  <1> DEFINE L == Len(Machines)
  <1>1. L \in Nat /\ Len(Combinations) \in Nat
    BY SearchAssumption DEF Combinations
  <1>2. rows = [m \in 1 .. L |-> m] /\ rows \in Seq(1 .. L) /\ Len(rows) = L
    BY <1>1 DEF SearchInit
  <1>3. prices \in [1 .. L -> Nat] /\ tried = 0 /\ selections = <<>>
    BY SearchAssumption DEF SearchInit
  <1>4. SearchTypeOK
    BY <1>1, <1>2, <1>3 DEF SearchTypeOK
  <1>5. RowsOnce
    BY <1>2, <1>3 DEF RowsOnce
  <1>6. SelectedOfFirst
    <2>1. Given = {}
      BY <1>1, <1>2 DEF Given
    <2> QED BY <1>3, <2>1 DEF SelectedOfFirst
  <1>7. SelectedOnce
    BY <1>3 DEF SelectedOnce
  <1> QED BY <1>4, <1>5, <1>6, <1>7 DEF SearchInv

LEMMA SearchInvStep == SearchInv /\ [SearchNext]_searchVars => SearchInv'
  <1> SUFFICES ASSUME SearchInv, [SearchNext]_searchVars PROVE SearchInv'
    OBVIOUS
  <1> DEFINE L == Len(Machines)
  <1>1. L \in Nat /\ Len(Combinations) \in Nat
    BY SearchAssumption DEF Combinations
  <1>2. /\ SearchTypeOK /\ RowsOnce /\ SelectedOfFirst /\ SelectedOnce
        /\ rows \in Seq(1 .. L) /\ Len(rows) \in 0 .. L /\ tried \in 0 .. Len(Combinations)
    BY DEF SearchInv, SearchTypeOK
  <1>3. CASE NextCombination
    <2>1. /\ prices' = prices /\ rows' = rows /\ selections' = selections
          /\ tried' = tried + 1 /\ combination' = Combinations[tried + 1]
          /\ tried < Len(Combinations) /\ (tried = 0 \/ rows = <<>>)
      BY <1>3 DEF NextCombination
    <2>2. SearchTypeOK'
      BY <1>1, <1>2, <2>1 DEF SearchTypeOK, First
    <2>3. RowsOnce'
      BY <1>2, <2>1 DEF RowsOnce, First
    <2>4. SelectedOfFirst'
      BY <1>2, <2>1 DEF SelectedOfFirst, Given, Chosen, First
    <2>5. SelectedOnce'
      BY <1>2, <2>1 DEF SelectedOnce, Given, TotalPrice, First
    <2> QED BY <2>2, <2>3, <2>4, <2>5 DEF SearchInv
  <1>4. CASE TryMachine
    <2> DEFINE m == Head(rows)
               n == Len(selections)
    <2>1. /\ tried > 0 /\ rows # <<>> /\ rows' = Tail(rows)
          /\ prices' = prices /\ tried' = tried /\ combination' = combination
      BY <1>4 DEF TryMachine
    <2>2. tried = 1 /\ combination = First
      BY <1>2, <2>1 DEF RowsOnce
    <2>3. /\ Len(rows) \in 1 .. L /\ m = L - Len(rows) + 1 /\ m \in 1 .. L
      BY <1>1, <1>2, <2>1 DEF SearchTypeOK
    <2>4. /\ rows' \in Seq(1 .. L) /\ Len(rows') = Len(rows) - 1
          /\ \A k \in 1 .. Len(rows') : rows'[k] = rows[k + 1]
      BY <1>2, <2>1
    <2>5. Given' = Given \cup {m}
      BY <1>1, <2>3, <2>4 DEF Given
    <2>6. \A k \in 1 .. Len(rows') : rows'[k] = L - Len(rows') + k
      <3> SUFFICES ASSUME NEW k \in 1 .. Len(rows') PROVE rows'[k] = L - Len(rows') + k
        OBVIOUS
      <3>1. k + 1 \in 1 .. Len(rows) /\ k \in Nat
        BY <2>3, <2>4
      <3>2. rows[k + 1] = L - Len(rows) + (k + 1)
        BY <1>2, <3>1 DEF SearchTypeOK
      <3> QED BY <1>1, <2>3, <2>4, <3>1, <3>2
    <2>7. \A k \in 1 .. L : Chosen(k)' <=> Chosen(k)
      BY <2>1 DEF Chosen, First
    <2>8. prices[m] \in Nat /\ TotalPrice(m, First) \in Int
      <3>1. First.nnodes \in Nat /\ First.nssd \in Nat /\ First.ssd_size \in Nat
        BY <1>2, <2>2, FirstIsWhole
      <3>2. prices[m] \in Nat
        BY <1>2, <2>3 DEF SearchTypeOK
      <3> HIDE DEF m
      <3> QED BY <3>1, <3>2 DEF TotalPrice
    <2>11. \A c, k : TotalPrice(k, c)' = TotalPrice(k, c)
      BY <2>1 DEF TotalPrice
    <2>9. CASE Chosen(m)
      <3> DEFINE new == [machine |-> m, combination |-> First, total_price |-> TotalPrice(m, First)]
      <3>1. selections' = Append(selections, new)
        BY <1>4, <2>2, <2>9 DEF TryMachine, Chosen
      <3>2. new \in [machine : 1 .. L, combination : {First}, total_price : Int]
        BY <2>3, <2>8
      <3>3. /\ selections \in Seq([machine : 1 .. L, combination : {First}, total_price : Int])
            /\ n \in Nat
        BY <1>2 DEF SearchTypeOK
      <3> HIDE DEF new, m
      <3>4. /\ selections' \in Seq([machine : 1 .. L, combination : {First}, total_price : Int])
            /\ Len(selections') = n + 1 /\ selections'[n + 1] = new
            /\ \A i \in 1 .. n : selections'[i] = selections[i]
        BY <3>1, <3>2, <3>3
      <3>5. new.machine = m /\ new.total_price = TotalPrice(m, First)
        BY DEF new
      <3>6. {selections'[i].machine : i \in 1 .. Len(selections')} =
               {selections[i].machine : i \in 1 .. n} \cup {m}
        <4> DEFINE is(i) == selections'[i].machine
                   was(i) == selections[i].machine
        <4>1. 1 .. Len(selections') = 1 .. n \cup {n + 1}
          BY <3>3, <3>4
        <4>2. \A i \in 1 .. n : is(i) = was(i)
          BY <3>4
        <4>3. is(n + 1) = m
          BY <3>4, <3>5
        <4> HIDE DEF is, was
        <4>4. {is(i) : i \in 1 .. n \cup {n + 1}} = {was(i) : i \in 1 .. n} \cup {m}
          BY <4>2, <4>3
        <4> QED BY <4>1, <4>4 DEF is, was
      <3>7. SelectedOfFirst'
        <4>1. {k \in Given' : Chosen(k)'} = {k \in Given : Chosen(k)} \cup {m}
          <5>1. Given' \subseteq 1 .. L
            BY <1>1, <2>3, <2>4 DEF Given
          <5> QED BY <2>5, <2>7, <2>9, <5>1
        <4> QED BY <1>2, <3>6, <4>1 DEF SelectedOfFirst
      <3>8. SearchTypeOK'
        BY <1>1, <1>2, <2>1, <2>3, <2>4, <2>6, <3>4 DEF SearchTypeOK, First
      <3>9. SelectedOnce'
        <4> SUFFICES ASSUME NEW i \in 1 .. (n + 1)
                     PROVE  /\ selections'[i].machine \in Given'
                            /\ selections'[i].total_price = TotalPrice(selections'[i].machine, First)
                            /\ \A j \in 1 .. (i - 1) : selections'[j].machine # selections'[i].machine
          BY <2>11, <3>4 DEF SelectedOnce, First
        <4>1. CASE i \in 1 .. n
          <5>1. \A j \in 1 .. (i - 1) : j \in 1 .. n
            BY <3>3, <4>1
          <5> QED BY <1>2, <2>5, <3>4, <4>1, <5>1 DEF SelectedOnce
        <4>2. CASE i = n + 1
          <5>1. m \notin Given
            BY <1>1, <2>3 DEF Given
          <5>2. \A j \in 1 .. n : selections'[j].machine # m
            BY <1>2, <3>4, <5>1 DEF SelectedOnce
          <5>3. i - 1 = n
            BY <3>3, <4>2
          <5> QED BY <2>5, <3>4, <3>5, <4>2, <5>2, <5>3
        <4> QED BY <3>3, <4>1, <4>2
      <3> QED BY <2>1, <2>2, <3>7, <3>8, <3>9 DEF SearchInv, RowsOnce, First
    <2>10. CASE ~Chosen(m)
      <3>1. selections' = selections
        BY <1>4, <2>2, <2>10 DEF TryMachine, Chosen
      <3> HIDE DEF m
      <3>2. {k \in Given' : Chosen(k)'} = {k \in Given : Chosen(k)}
        <4>1. Given' \subseteq 1 .. L
          BY <1>1, <2>3, <2>4 DEF Given
        <4> QED BY <2>5, <2>7, <2>10, <4>1
      <3>3. SelectedOfFirst'
        BY <1>2, <3>1, <3>2 DEF SelectedOfFirst
      <3>4. SearchTypeOK'
        BY <1>1, <1>2, <2>1, <2>3, <2>4, <2>6, <3>1 DEF SearchTypeOK, First
      <3>5. SelectedOnce'
        BY <1>2, <2>5, <2>11, <3>1 DEF SelectedOnce, First
      <3> QED BY <2>1, <2>2, <3>3, <3>4, <3>5 DEF SearchInv, RowsOnce, First
    <2> QED BY <2>9, <2>10
  <1>5. CASE UNCHANGED searchVars
    BY <1>2, <1>5 DEF searchVars, SearchInv, SearchTypeOK, RowsOnce, SelectedOfFirst, SelectedOnce,
                      Given, Chosen, TotalPrice, First
  <1> QED BY <1>3, <1>4, <1>5 DEF SearchNext, SearchOver

\* Whatever the machines, the prices and the combinations are: the list is sorted, has
\* no entry twice, and each with its price and a machine that serves the load; of a
\* combination in it, it has all of them (simple.py:247-269).
THEOREM ListedRight == SearchSpec => []ListIsRight
  <1>1. SearchInv => ListIsRight
    <2> SUFFICES ASSUME SearchInv, Searched
                 PROVE  \A i \in 1 .. Len(Sorted) :
                          LET m == Sorted[i].machine
                              c == Sorted[i].combination
                          IN  /\ prices[m] # 0 /\ Fits(Machines[m], c)
                              /\ Sorted[i].total_price = TotalPrice(m, c)
                              /\ \A j \in 1 .. (i - 1) :
                                    /\ Sorted[j].total_price <= Sorted[i].total_price
                                    /\ <<Sorted[j].machine, Sorted[j].combination>> # <<m, c>>
                              /\ \A k \in 1 .. Len(Machines) :
                                    prices[k] # 0 /\ Fits(Machines[k], c) => Listed(k, c)
      BY DEF ListIsRight
    <2> DEFINE n == Len(selections)
               keys == [k \in 1 .. n |-> selections[k].total_price]
               o == Order(keys)
               S == [machine : 1 .. Len(Machines), combination : {First}, total_price : Int]
    <2>1. n \in Nat /\ selections \in Seq(S) /\ \A k \in 1 .. n : selections[k] \in S
      <3>1. selections \in Seq(S)
        BY DEF SearchInv, SearchTypeOK
      <3> HIDE DEF S
      <3> QED BY <3>1
    <2>2. keys \in [1 .. n -> Int]
      BY <2>1
    <2> HIDE DEF S
    <2>3. o \in Bijection(1 .. n, 1 .. n) /\ \A i, j \in 1 .. n : i <= j => keys[o[i]] <= keys[o[j]]
      <3> HIDE DEF keys, n
      <3> QED BY <2>1, <2>2, OrderSorts
    <2>4. o \in [1 .. n -> 1 .. n] /\ \A k \in 1 .. n : \E i \in 1 .. n : o[i] = k
      BY <2>3 DEF Bijection, Injection, Surjection
    <2>5. Sorted = [k \in 1 .. n |-> selections[o[k]]]
      BY DEF Sorted
    <2> HIDE DEF o
    <2>6. Len(Sorted) = n /\ \A k \in 1 .. n : Sorted[k] = selections[o[k]]
      BY <2>1, <2>5
    <2>7. \A k \in 1 .. n : selections[k].combination = First
      BY <2>1 DEF S
    <2>8. Given = 1 .. Len(Machines)
      BY SearchAssumption DEF Searched, Given
    <2>9. {selections[i].machine : i \in 1 .. n} = {k \in 1 .. Len(Machines) : Chosen(k)}
      BY <2>8 DEF SearchInv, SelectedOfFirst
    <2>10. \A i, j \in 1 .. n : i # j => selections[o[i]].machine # selections[o[j]].machine
      <3>1. \A i, j \in 1 .. n : i # j => o[i] # o[j]
        BY <2>3 DEF Bijection, Injection, IsInjective
      <3>2. ASSUME NEW i \in 1 .. n, NEW j \in 1 .. n, i # j
            PROVE  selections[i].machine # selections[j].machine
        <4>1. i \in 1 .. (j - 1) \/ j \in 1 .. (i - 1)
          BY <2>1, <3>2
        <4> QED BY <4>1 DEF SearchInv, SelectedOnce
      <3> HIDE DEF n
      <3> QED BY <2>4, <3>1, <3>2
    <2>11. ASSUME NEW k \in 1 .. Len(Machines), Chosen(k)
           PROVE  Listed(k, First)
      <3>1. PICK l \in 1 .. n : selections[l].machine = k
        BY <2>9, <2>11
      <3>2. PICK i \in 1 .. n : o[i] = l
        BY <2>4, <3>1
      <3> QED BY <2>6, <2>7, <3>1, <3>2 DEF Listed
    <2>12. ASSUME NEW i \in 1 .. n
           PROVE  /\ Sorted[i] = selections[o[i]] /\ Sorted[i].combination = First
                  /\ Sorted[i].machine \in 1 .. Len(Machines) /\ Chosen(Sorted[i].machine)
                  /\ Sorted[i].total_price = TotalPrice(Sorted[i].machine, First)
      <3>1. Sorted[i] = selections[o[i]] /\ o[i] \in 1 .. n
        BY <2>4, <2>6
      <3>2. selections[o[i]].machine \in {k \in 1 .. Len(Machines) : Chosen(k)}
        BY <2>9, <3>1
      <3> QED BY <2>7, <3>1, <3>2 DEF SearchInv, SelectedOnce
    <2>13. ASSUME NEW i \in 1 .. n, NEW j \in 1 .. (i - 1)
           PROVE  /\ Sorted[j].total_price <= Sorted[i].total_price
                  /\ Sorted[j].machine # Sorted[i].machine
      <3>1. j \in 1 .. n /\ j <= i /\ j # i
        BY <2>1
      <3>2. o[j] \in 1 .. n /\ o[i] \in 1 .. n
        BY <2>4, <3>1
      <3>3. keys[o[j]] <= keys[o[i]]
        BY <2>3, <3>1
      <3> QED BY <2>6, <2>10, <3>1, <3>2, <3>3
    <2> HIDE DEF n, keys
    <2> QED BY <2>6, <2>11, <2>12, <2>13 DEF Chosen
  <1> QED BY <1>1, SearchInvInit, SearchInvStep, PTL DEF SearchSpec

-----------------------------------------------------------------------------
(* The clock in the frame buffer.                                            *)

\* A word belongs to one column and one row.
LEMMA OneColumnOneRow ==
    ASSUME NEW r \in Nat, NEW x \in 0 .. (r - 1), NEW u \in 0 .. (r - 1), NEW y \in Nat, NEW v \in Nat,
           y * r + x = v * r + u
    PROVE  x = u /\ y = v
  <1>1. ASSUME NEW a \in Nat, NEW b \in Nat, a < b, NEW c \in 0 .. (r - 1), NEW d \in Nat
        PROVE  a * r + c < b * r + d
    <2>1. (a + 1) * r <= b * r
      BY <1>1, MoreIsMore
    <2>2. (a + 1) * r = a * r + r /\ a * r \in Nat /\ b * r \in Nat
      OBVIOUS
    <2>3. \A k, n, m \in Nat : k <= m /\ k = n + r => n + c < m + d
      OBVIOUS
    <2> QED BY <2>1, <2>2, <2>3
  <1>2. ~(y < v) /\ ~(v < y)
    BY <1>1
  <1> QED BY <1>2

\* The words of a rectangle with h lineNumbers whose columns go from l to the right side.
Rectangle(r, l, h) == {y * r + x : x \in l .. (r - 1), y \in 0 .. (h - 1)}

LEMMA RectangleSize ==
    ASSUME NEW r \in Nat, NEW l \in 0 .. r, NEW h \in Nat
    PROVE  Cardinality(Rectangle(r, l, h)) = (r - l) * h
  <1> DEFINE cols == l .. (r - 1)
             lineNumbers == 0 .. (h - 1)
             words == Rectangle(r, l, h)
             f == [c \in cols \X lineNumbers |-> c[2] * r + c[1]]
  <1>1. /\ IsFiniteSet(cols) /\ Cardinality(cols) = r - l
        /\ IsFiniteSet(lineNumbers) /\ Cardinality(lineNumbers) = h
    <2>1. IsFiniteSet(cols) /\ Cardinality(cols) = IF l > r - 1 THEN 0 ELSE (r - 1) - l + 1
      BY FS_Interval
    <2>2. IsFiniteSet(lineNumbers) /\ Cardinality(lineNumbers) = IF 0 > h - 1 THEN 0 ELSE (h - 1) - 0 + 1
      BY FS_Interval
    <2> HIDE DEF cols, lineNumbers
    <2> QED BY <2>1, <2>2
  <1>2. IsFiniteSet(cols \X lineNumbers) /\ Cardinality(cols \X lineNumbers) = (r - l) * h
    BY <1>1, FS_Product
  <1>3. f \in [cols \X lineNumbers -> words]
    <2>1. ASSUME NEW c \in cols \X lineNumbers PROVE c[2] * r + c[1] \in words
      <3>1. c[1] \in cols /\ c[2] \in lineNumbers
        OBVIOUS
      <3>2. words = {y * r + x : x \in cols, y \in lineNumbers}
        BY DEF Rectangle
      <3> HIDE DEF words, cols, lineNumbers
      <3> QED BY <3>1, <3>2
    <2> HIDE DEF words, cols, lineNumbers
    <2> QED BY <2>1
  <1>4. ASSUME NEW c \in cols \X lineNumbers, NEW d \in cols \X lineNumbers, f[c] = f[d] PROVE c = d
    <2>1. /\ c[1] \in 0 .. (r - 1) /\ d[1] \in 0 .. (r - 1) /\ c[2] \in Nat /\ d[2] \in Nat
          /\ c[2] * r + c[1] = d[2] * r + d[1]
      BY <1>4
    <2>2. c[1] = d[1] /\ c[2] = d[2]
      BY <2>1, OneColumnOneRow
    <2> QED BY <2>2
  <1>5. ASSUME NEW t \in words PROVE \E c \in cols \X lineNumbers : f[c] = t
    <2>1. PICK x \in cols, y \in lineNumbers : t = y * r + x
      BY DEF Rectangle
    <2> HIDE DEF cols, lineNumbers
    <2>2. <<x, y>> \in cols \X lineNumbers /\ f[<<x, y>>] = t
      BY <2>1
    <2> HIDE DEF f
    <2> QED BY <2>2
  <1> HIDE DEF f, words, cols, lineNumbers
  <1>6. f \in Bijection(cols \X lineNumbers, words)
    BY <1>3, <1>4, <1>5 DEF Bijection, Injection, Surjection, IsInjective
  <1>7. Cardinality(words) = Cardinality(cols \X lineNumbers)
    BY <1>2, <1>6, FS_Bijection DEF ExistsBijection
  <1> QED BY <1>2, <1>7 DEF words

FbTypeOK ==
    /\ screen \in Screens /\ font \in Fonts
    /\ drawing \in {"open", "time", "draw", "exited", "divided by zero"}
    /\ now \in Nat /\ rounds \in Nat /\ delay \in Nat
    /\ local \in [minute : Nat, second : Nat]

Glyphs == UNION {Glyph(k) : k \in 0 .. (len - 1)}

\* The clock is as far from the time on the screen as there were rounds and delays.
FbInv ==
    /\ FbTypeOK
    /\ drawing = "draw" => now = local.minute * Minute + local.second + rounds + delay
    /\ picture # {} => font.height > 0 /\ picture = Border \cup Glyphs

LEMMA FbInvInit == FbInit => FbInv
  BY FbAssumption DEF FbInit, FbInv, FbTypeOK

LEMMA FbInvStep == FbInv /\ [FbNext]_fbVars => FbInv'
  <1> SUFFICES ASSUME FbInv, [FbNext]_fbVars PROVE FbInv'
    OBVIOUS
  <1>1. FbTypeOK /\ Minute \in Nat \ {0}
    BY FbAssumption DEF FbInv
  <1>2. ASSUME UNCHANGED <<screen, font>> PROVE (Border \cup Glyphs)' = Border \cup Glyphs
    BY <1>2 DEF Border, Glyphs, Glyph, Word, Left, Wrap
  <1>3. CASE UNCHANGED fbVars
    BY <1>2, <1>3 DEF fbVars, FbInv, FbTypeOK
  <1>4. CASE Open
    BY <1>2, <1>4 DEF Open, FbInv, FbTypeOK
  <1>5. CASE NextMinute
    BY <1>2, <1>5 DEF NextMinute, FbInv, FbTypeOK
  <1>6. CASE Time
    <2>1. /\ rounds' = 0 /\ delay' = 0 /\ drawing' \in {"draw", "exited"} /\ UNCHANGED <<screen, font, now, picture>>
          /\ \/ now > 0 /\ now % Minute = 0 /\ local' = [minute |-> (now \div Minute) - 1, second |-> Minute]
             \/ local' = [minute |-> now \div Minute, second |-> now % Minute]
      BY <1>6 DEF Time
    <2> DEFINE q == now \div Minute
               r == now % Minute
    <2>2. /\ now \in Nat /\ q \in Nat /\ r \in 0 .. (Minute - 1) /\ now = q * Minute + r
          /\ now > 0 /\ r = 0 => q >= 1
      <3>1. now \in Nat
        BY <1>1 DEF FbTypeOK
      <3> QED BY <1>1, <3>1, DivisionParts
    <2> HIDE DEF q, r
    <2>3. q >= 1 => (q - 1) * Minute + Minute = q * Minute
      BY <1>1, <2>2
    <2>4. /\ local'.minute \in Nat /\ local'.second \in Nat
          /\ local' \in [minute : Nat, second : Nat]
          /\ now = local'.minute * Minute + local'.second
      <3>1. CASE now > 0 /\ r = 0 /\ local' = [minute |-> q - 1, second |-> Minute]
        <4>1. q >= 1 /\ local'.minute = q - 1 /\ local'.second = Minute
          BY <2>2, <3>1
        <4>2. q - 1 \in Nat /\ now = (q - 1) * Minute + Minute
          BY <1>1, <2>2, <2>3, <3>1, <4>1
        <4> QED BY <1>1, <3>1, <4>1, <4>2
      <3>2. CASE local' = [minute |-> q, second |-> r]
        BY <2>2, <3>2
      <3> QED BY <2>1, <3>1, <3>2 DEF q, r
    <2>5. now' = local'.minute * Minute + local'.second + rounds' + delay'
      <3>1. \A n, k \in Nat : n = k => n = k + 0 + 0
        OBVIOUS
      <3>2. local'.minute * Minute + local'.second \in Nat
        BY <1>1, <2>4
      <3> QED BY <2>1, <2>2, <2>4, <3>1, <3>2
    <2>6. FbTypeOK'
      BY <1>1, <2>1, <2>4 DEF FbTypeOK
    <2> QED BY <1>2, <2>1, <2>5, <2>6 DEF FbInv
  <1>7. CASE Draw
    <2>1. drawing = "draw" /\ UNCHANGED <<screen, font, local>>
      BY <1>7 DEF Draw
    <2>2. CASE font.height = 0
      BY <1>2, <1>7, <2>1, <2>2 DEF Draw, FbInv, FbTypeOK
    <2>3. CASE font.height # 0
      <3>1. PICK d \in Delays : now' = now + 1 + d /\ delay' = delay + d
        BY <1>7, <2>3 DEF Draw
      <3>2. /\ rounds' = rounds + 1 /\ UNCHANGED drawing
            /\ picture' = Border \cup Glyphs
        BY <1>7, <2>3 DEF Draw, Glyphs
      <3>3. d \in Nat /\ font.height \in Nat
        BY <1>1, FbAssumption DEF FbTypeOK
      <3>4. FbTypeOK'
        BY <1>1, <2>1, <3>1, <3>2, <3>3 DEF FbTypeOK
      <3>5. now' = local.minute * Minute + local.second + rounds' + delay'
        <4>3. local.minute \in Nat /\ local.second \in Nat
          BY <1>1 DEF FbTypeOK
        <4>1. local.minute * Minute + local.second \in Nat
          BY <1>1, <4>3
        <4>2. ASSUME NEW b \in Nat PROVE \A i, e \in Nat : (b + i + e) + 1 + d = b + (i + 1) + (e + d)
          BY <3>3
        <4> QED BY <1>1, <2>1, <3>1, <3>2, <4>1, <4>2 DEF FbInv, FbTypeOK
      <3> QED BY <1>2, <2>1, <2>3, <3>2, <3>3, <3>4, <3>5 DEF FbInv
    <2> QED BY <2>2, <2>3
  <1> QED BY <1>3, <1>4, <1>5, <1>6, <1>7 DEF FbNext, FbOver

LEMMA InTime == FbInv => ShowsTheMinute
  <1> SUFFICES ASSUME FbInv, drawing = "draw", rounds < Minute - local.second
               PROVE  now < (local.minute + 1) * Minute + delay
    BY DEF ShowsTheMinute
  <1>1. /\ Minute \in Nat /\ rounds \in Nat /\ delay \in Nat /\ local.minute \in Nat /\ local.second \in Nat
        /\ now = local.minute * Minute + local.second + rounds + delay
    BY FbAssumption DEF FbInv, FbTypeOK
  <1>2. local.minute * Minute \in Nat /\ (local.minute + 1) * Minute = local.minute * Minute + Minute
    BY <1>1
  <1>3. \A a, b, s, i, e \in Nat : b = a + Minute /\ i < Minute - s => a + s + i + e < b + e
    BY <1>1
  <1>4. (local.minute + 1) * Minute \in Nat
    BY <1>1
  <1> QED BY <1>1, <1>2, <1>3, <1>4

LEMMA WordInside ==
    ASSUME NEW r \in Nat, NEW h \in Nat, NEW x \in 0 .. (r - 1), NEW y \in 0 .. (h - 1)
    PROVE  y * r + x \in 0 .. (r * h - 1)
  <1>1. (y + 1) * r <= h * r
    BY MoreIsMore
  <1>2. (y + 1) * r = y * r + r /\ h * r = r * h /\ y * r \in Nat /\ r * h \in Nat
    OBVIOUS
  <1>3. \A k, n \in Nat : k + r <= n => k + x \in 0 .. (n - 1)
    OBVIOUS
  <1> QED BY <1>1, <1>2, <1>3

LEMMA WrapKeeps ==
    ASSUME NEW n \in Nat, n < WordModulus
    PROVE  Wrap(n) = n
  <1>1. WordModulus \in Nat \ {0}
    BY FbAssumption
  <1> QED BY <1>1 DEF Wrap

\* The columns of the glyphs: from l to the right side, w of them to each of c glyphs.
LEMMA ColumnsOfGlyphs ==
    ASSUME NEW w \in Nat, NEW c \in Nat
    PROVE  \A k \in 0 .. (c - 1), x \in 0 .. (w - 1) : k * w + x \in 0 .. (w * c - 1)
  BY WordInside

LEMMA GlyphOfColumn ==
    ASSUME NEW w \in Nat, NEW c \in Nat, NEW j \in 0 .. (w * c - 1)
    PROVE  \E k \in 0 .. (c - 1), x \in 0 .. (w - 1) : j = k * w + x
  <1>1. w * c \in Nat /\ j \in Nat /\ j < w * c
    OBVIOUS
  <1>2. w # 0
    <2>1. 0 * c = 0
      OBVIOUS
    <2> QED BY <1>1, <2>1
  <1> DEFINE q == j \div w
             m == j % w
  <1>3. q \in Nat /\ m \in 0 .. (w - 1) /\ j = q * w + m
    BY <1>1, <1>2, DivisionParts
  <1> HIDE DEF q, m
  <1>4. q < c
    <2>1. SUFFICES ASSUME c <= q PROVE FALSE
      BY <1>3
    <2>2. c * w <= q * w /\ c * w = w * c /\ q * w \in Nat
      BY <1>3, <2>1, MoreIsMore
    <2> QED BY <1>1, <1>3, <2>2
  <1>5. q \in 0 .. (c - 1)
    BY <1>3, <1>4
  <1> QED BY <1>3, <1>5

LEMMA PictureInside == FbInv => PictureFits
  <1> DEFINE X == screen.xres
             Y == screen.yres
             W == font.width
             H == font.height
             B == font.size \div font.height
             T == W * len
             L == X - T
             M == WordModulus
             Area == Rectangle(X, L, H)
  <1> SUFFICES ASSUME FbInv, picture # {}, X > T, Y > H
               PROVE  /\ picture \subseteq 0 .. (X * Y - 1)
                      /\ Cardinality(Glyphs) = len * W * H
                      /\ Border \cap Glyphs = {}
                      /\ 8 * B >= W => GlyphBytes \subseteq 0 .. (font.size - 1)
    BY DEF PictureFits, Glyphs
  <1>1. /\ X \in Nat /\ Y \in Nat /\ W \in Nat /\ H \in Nat \ {0} /\ font.size \in Nat /\ len \in Nat
        /\ M \in Nat \ {0} /\ X * Y <= M
        /\ picture = Border \cup Glyphs
    <2>1. screen \in Screens /\ font \in Fonts
      BY DEF FbInv, FbTypeOK
    <2>2. screen \in [xres : Nat, yres : Nat] /\ font \in [height : Nat, width : Nat, size : Nat]
      BY <2>1, FbAssumption
    <2>3. X \in Nat /\ Y \in Nat /\ M \in Nat \ {0} /\ 4 * (X * Y) < M
      BY <2>1, <2>2, FbAssumption, ScreensAssumption
    <2>4. X * Y <= M
      <3> HIDE DEF X, Y, M
      <3>1. X * Y \in Nat
        BY <2>3
      <3> QED BY <2>3, <3>1
    <2> QED BY <2>1, <2>2, <2>3, <2>4, FbAssumption DEF FbInv
  <1>2. T \in Nat /\ L \in 1 .. X /\ L = X - T
    BY <1>1
  <1>3. X * Y \in Nat /\ X < X * Y
    <2>1. 2 <= Y
      BY <1>1
    <2>2. 2 * X <= Y * X
      BY <1>1, <2>1, MoreIsMore
    <2>3. Y * X = X * Y /\ X * Y \in Nat
      BY <1>1
    <2> QED BY <1>1, <1>2, <2>2, <2>3
  <1> HIDE DEF T, L
  <1>4. Left = L /\ Wrap(L - 1) = L - 1
    <2>1. L \in Nat /\ L - 1 \in Nat /\ L < M /\ L - 1 < M
      BY <1>1, <1>2, <1>3
    <2>2. Left = Wrap(L)
      BY DEF Left, L, T
    <2> QED BY <2>1, <2>2, WrapKeeps
  <1>5. ASSUME NEW x \in 0 .. (X - 1), NEW y \in 0 .. (Y - 1)
        PROVE  Word(x, y) = y * X + x /\ y * X + x \in 0 .. (X * Y - 1)
    <2>1. y * X + x \in 0 .. (X * Y - 1)
      BY <1>1, WordInside
    <2>2. y * X + x \in Nat /\ y * X + x < M
      BY <1>1, <1>3, <2>1
    <2> QED BY <2>1, <2>2, WrapKeeps DEF Word
  <1>6. ASSUME NEW y \in 0 .. H PROVE y \in 0 .. (Y - 1)
    BY <1>1
  <1>7. ASSUME NEW b \in Border
        PROVE  \/ \E y \in 0 .. (H - 1) : b = y * X + (L - 1)
               \/ \E x \in (L - 1) .. (X - 1) : b = H * X + x
    <2>1. CASE \E y \in 0 .. (H - 1) : b = Word(L - 1, y)
      <3>1. PICK y \in 0 .. (H - 1) : b = Word(L - 1, y)
        BY <2>1
      <3>2. L - 1 \in 0 .. (X - 1) /\ y \in 0 .. (Y - 1)
        BY <1>1, <1>2
      <3> QED BY <1>5, <3>1, <3>2
    <2>2. CASE \E x \in (L - 1) .. (X - 1) : b = Word(x, H)
      <3>1. PICK x \in (L - 1) .. (X - 1) : b = Word(x, H)
        BY <2>2
      <3>2. x \in 0 .. (X - 1) /\ H \in 0 .. (Y - 1)
        BY <1>1, <1>2
      <3> QED BY <1>5, <3>1, <3>2
    <2> QED BY <1>4, <2>1, <2>2 DEF Border
  <1>8. ASSUME NEW k \in 0 .. (len - 1), NEW x \in 0 .. (W - 1)
        PROVE  L + k * W + x \in L .. (X - 1)
    <2>1. k * W + x \in 0 .. (T - 1)
      BY <1>1, ColumnsOfGlyphs DEF T
    <2>2. k * W \in Nat /\ x \in Nat
      BY <1>1
    <2>3. \A n, i \in Nat : n + i \in 0 .. (T - 1) => L + n + i \in L .. (X - 1)
      BY <1>1, <1>2
    <2> QED BY <2>1, <2>2, <2>3
  <1>9. Glyphs = Area
    <2>1. ASSUME NEW k \in 0 .. (len - 1), NEW x \in 0 .. (W - 1), NEW y \in 0 .. (H - 1)
          PROVE  Word(Left + k * W + x, y) = y * X + (L + k * W + x)
      <3>1. L + k * W + x \in 0 .. (X - 1) /\ y \in 0 .. (Y - 1)
        BY <1>1, <1>2, <1>8
      <3> QED BY <1>4, <1>5, <3>1
    <2>2. ASSUME NEW g \in Glyphs PROVE g \in Area
      <3>1. PICK k \in 0 .. (len - 1) : g \in Glyph(k)
        BY DEF Glyphs
      <3>2. PICK x \in 0 .. (W - 1), y \in 0 .. (H - 1) : g = Word(Left + k * W + x, y)
        BY <3>1 DEF Glyph
      <3>3. L + k * W + x \in L .. (X - 1) /\ g = y * X + (L + k * W + x)
        BY <1>8, <2>1, <3>2
      <3> QED BY <3>2, <3>3 DEF Rectangle
    <2>3. ASSUME NEW g \in Area PROVE g \in Glyphs
      <3>1. PICK u \in L .. (X - 1), y \in 0 .. (H - 1) : g = y * X + u
        BY DEF Rectangle
      <3>2. u - L \in 0 .. (T - 1)
        BY <1>1, <1>2
      <3>3. PICK k \in 0 .. (len - 1), x \in 0 .. (W - 1) : u - L = k * W + x
        <4>1. W \in Nat /\ len \in Nat
          BY <1>1
        <4>2. \E k \in 0 .. (len - 1), x \in 0 .. (W - 1) : u - L = k * W + x
          BY <3>2, <4>1, GlyphOfColumn DEF T
        <4> QED BY <4>2
      <3>4. u = L + k * W + x
        <4>1. k * W \in Nat /\ x \in Nat /\ u \in Int /\ L \in Int
          BY <1>1, <1>2
        <4>2. \A n, i \in Nat : u - L = n + i => u = L + n + i
          BY <4>1
        <4> QED BY <3>3, <4>1, <4>2
      <3>5. g = Word(Left + k * W + x, y)
        BY <2>1, <3>1, <3>4
      <3>6. g \in Glyph(k)
        BY <3>5 DEF Glyph
      <3> QED BY <3>6 DEF Glyphs
    <2> HIDE DEF Area
    <2> QED BY <2>2, <2>3
  <1>10. Cardinality(Glyphs) = len * W * H
    <2>1. Cardinality(Area) = (X - L) * H
      <3>1. L \in 0 .. X
        BY <1>2
      <3>2. X \in Nat /\ H \in Nat
        BY <1>1
      <3> QED BY <3>1, <3>2, RectangleSize
    <2>2. X - L = T
      BY <1>1, <1>2
    <2>3. T * H = len * W * H
      BY <1>1 DEF T
    <2> HIDE DEF Area
    <2> QED BY <1>9, <2>1, <2>2, <2>3
  <1>11. ASSUME NEW b \in Border, b \in Glyphs PROVE FALSE
    <2>1. PICK u \in L .. (X - 1), v \in 0 .. (H - 1) : b = v * X + u
      BY <1>9, <1>11 DEF Rectangle
    <2>2. ASSUME NEW x \in (L - 1) .. (X - 1), NEW y \in 0 .. H, b = y * X + x PROVE x = u /\ y = v
      <3>1. x \in 0 .. (X - 1) /\ u \in 0 .. (X - 1) /\ y \in Nat /\ v \in Nat
        BY <1>1, <1>2
      <3> QED BY <1>1, <2>1, <2>2, <3>1, OneColumnOneRow
    <2>3. CASE \E y \in 0 .. (H - 1) : b = y * X + (L - 1)
      <3>1. PICK y \in 0 .. (H - 1) : b = y * X + (L - 1)
        BY <2>3
      <3>2. L - 1 \in (L - 1) .. (X - 1) /\ y \in 0 .. H
        BY <1>1, <1>2
      <3>3. L - 1 = u
        BY <2>2, <3>1, <3>2
      <3> QED BY <1>2, <3>3
    <2>4. CASE \E x \in (L - 1) .. (X - 1) : b = H * X + x
      <3>1. H \in 0 .. H /\ H # v
        BY <1>1
      <3> QED BY <2>2, <2>4, <3>1
    <2> QED BY <1>7, <2>3, <2>4
  <1>12. picture \subseteq 0 .. (X * Y - 1)
    <2>1. ASSUME NEW b \in Border PROVE b \in 0 .. (X * Y - 1)
      <3>1. ASSUME NEW y \in 0 .. (H - 1), b = y * X + (L - 1) PROVE b \in 0 .. (X * Y - 1)
        <4>1. L - 1 \in 0 .. (X - 1) /\ y \in 0 .. (Y - 1)
          BY <1>1, <1>2
        <4> QED BY <1>5, <3>1, <4>1
      <3>2. ASSUME NEW x \in (L - 1) .. (X - 1), b = H * X + x PROVE b \in 0 .. (X * Y - 1)
        <4>1. x \in 0 .. (X - 1) /\ H \in 0 .. (Y - 1)
          BY <1>1, <1>2
        <4> QED BY <1>5, <3>2, <4>1
      <3> QED BY <1>7, <3>1, <3>2
    <2>2. ASSUME NEW g \in Area PROVE g \in 0 .. (X * Y - 1)
      <3>1. PICK x \in L .. (X - 1), y \in 0 .. (H - 1) : g = y * X + x
        BY DEF Rectangle
      <3>2. x \in 0 .. (X - 1) /\ y \in 0 .. (Y - 1)
        BY <1>1, <1>2
      <3> QED BY <1>5, <3>1, <3>2
    <2> HIDE DEF Area
    <2> QED BY <1>1, <1>9, <2>1, <2>2
  <1>13. ASSUME 8 * B >= W, NEW g \in GlyphBytes PROVE g \in 0 .. (font.size - 1)
    <2>1. B \in Nat /\ font.size % H \in Nat /\ font.size = B * H + (font.size % H)
      <3>1. font.size \in Nat /\ H \in Nat \ {0}
        BY <1>1
      <3>2. B \in Nat /\ font.size % H \in 0 .. (H - 1) /\ font.size = B * H + (font.size % H)
        BY <3>1, DivisionParts, Zenon
      <3> QED BY <3>1, <3>2
    <2>2. PICK x \in 0 .. (W - 1), y \in 0 .. (H - 1) : g = y * B + x \div 8
      BY DEF GlyphBytes
    <2> HIDE DEF B
    <2>3. x \div 8 \in 0 .. (B - 1)
      BY <1>1, <1>13, <2>1
    <2>4. g \in 0 .. (B * H - 1)
      BY <1>1, <2>1, <2>2, <2>3, WordInside
    <2>5. B * H \in Nat
      BY <1>1, <2>1
    <2>6. \A n, m \in Nat : font.size = n + m /\ g \in 0 .. (n - 1) => g \in 0 .. (font.size - 1)
      BY <1>1
    <2> QED BY <2>1, <2>4, <2>5, <2>6
  <1> QED BY <1>10, <1>11, <1>12, <1>13

\* For every screen whose mapping has a size of 32 bits, every font, and however late the
\* rounds are: what is drawn lies in the frame buffer and shows the text and its
\* border, and the minute on the screen is over by no more than the delays (fb.cpp).
THEOREM MinuteIsDrawn == FbSpec => []DrawsTheMinute
  <1>1. FbInv => DrawsTheMinute
    BY InTime, PictureInside DEF DrawsTheMinute
  <1> QED BY <1>1, FbInvInit, FbInvStep, PTL DEF FbSpec

-----------------------------------------------------------------------------
(* The filter: first the facts about numbers that its primes and factors need. *)

\* A set of numbers has a smallest one.
LEMMA SmallestOf ==
    ASSUME NEW T \in SUBSET Nat, T # {}
    PROVE  \E m \in T : \A k \in T : m <= k
  <1>1. IsWellFoundedOn(OpToRel(<, Nat), Nat)
    BY NatLessThanWellFounded
  <1>2. PICK m \in T : \A k \in T : ~(<<k, m>> \in OpToRel(<, Nat))
    BY <1>1, WFMin
  <1>3. \A k \in T : ~(k < m)
    BY <1>2 DEF OpToRel
  <1>4. ASSUME NEW k \in T PROVE m <= k
    <2>1. m \in Nat /\ k \in Nat /\ ~(k < m)
      BY <1>3
    <2> QED BY ONLY <2>1
  <1> QED BY <1>4

\* Induction up to n, for the members of a set.
LEMMA UpwardTo ==
    ASSUME NEW n \in Nat, NEW S, 0 \in S, \A k \in 1 .. n : k - 1 \in S => k \in S
    PROVE  \A k \in 0 .. n : k \in S
  <1> DEFINE T == {k \in 0 .. n : k \notin S}
  <1> SUFFICES ASSUME T # {} PROVE FALSE
    OBVIOUS
  <1>1. T \in SUBSET Nat
    OBVIOUS
  <1>2. PICK m \in T : \A k \in T : m <= k
    BY <1>1, SmallestOf
  <1>3. m \in 1 .. n /\ m - 1 \in 0 .. n
    BY <1>2
  <1>4. m - 1 \notin T
    BY <1>2, <1>3
  <1> QED BY <1>2, <1>3, <1>4

\* ... and if a number may need all the smaller ones.
LEMMA ThroughSmaller ==
    ASSUME NEW n \in Nat, NEW S, \A k \in 0 .. n : (\A j \in 0 .. (k - 1) : j \in S) => k \in S
    PROVE  \A k \in 0 .. n : k \in S
  <1> DEFINE T == {k \in 0 .. n : k \notin S}
  <1> SUFFICES ASSUME T # {} PROVE FALSE
    OBVIOUS
  <1>1. T \in SUBSET Nat
    OBVIOUS
  <1>2. PICK m \in T : \A k \in T : m <= k
    BY <1>1, SmallestOf
  <1>3. ASSUME NEW j \in 0 .. (m - 1) PROVE j \in S
    <2>1. m \in 0 .. n /\ j \in 0 .. n /\ ~(m <= j)
      BY <1>2
    <2> QED BY <1>2, <2>1
  <1> QED BY <1>2, <1>3

\* A loop over 1 .. n that keeps a value has a result: the function of the values exists.
IsLoop(f, n, V, base, step) ==
    f \in [0 .. n -> V] /\ f[0] = base /\ \A k \in 1 .. n : f[k] = step[<<f[k - 1], k>>]

LEMMA LoopExists ==
    ASSUME NEW n \in Nat, NEW V, NEW base \in V, NEW step \in [V \X (1 .. n) -> V]
    PROVE  \E f : IsLoop(f, n, V, base, step)
  <1> DEFINE upTo(f, k) == IsLoop(f, k, V, base, step)
             S == {k \in 0 .. n : \E f : upTo(f, k)}
  <1>1. 0 \in S
    <2>1. upTo([i \in 0 .. 0 |-> base], 0)
      BY DEF IsLoop
    <2>2. \E f : upTo(f, 0)
      <3> HIDE DEF upTo
      <3> QED BY <2>1
    <2>3. 0 \in 0 .. n
      OBVIOUS
    <2> HIDE DEF upTo
    <2> QED BY <2>2, <2>3
  <1>2. ASSUME NEW k \in 1 .. n, k - 1 \in S PROVE k \in S
    <2>1. PICK f : upTo(f, k - 1)
      BY <1>2
    <2> DEFINE g == [i \in 0 .. k |-> IF i = k THEN step[<<f[k - 1], k>>] ELSE f[i]]
    <2>2. k - 1 \in 0 .. (k - 1) /\ f[k - 1] \in V
      BY <2>1 DEF IsLoop
    <2>3. step[<<f[k - 1], k>>] \in V
      BY <2>2
    <2>4. g \in [0 .. k -> V]
      <3>1. ASSUME NEW i \in 0 .. k, i # k PROVE f[i] \in V
        <4>1. i \in 0 .. (k - 1)
          BY <3>1
        <4> QED BY <2>1, <4>1 DEF IsLoop
      <3> QED BY <2>3, <3>1
    <2>5. g[0] = base
      BY <2>1 DEF IsLoop
    <2>6. ASSUME NEW i \in 1 .. k PROVE g[i] = step[<<g[i - 1], i>>]
      <3>1. CASE i = k
        <4>1. i - 1 \in 0 .. k /\ i - 1 # k
          BY <3>1
        <4> QED BY <3>1, <4>1
      <3>2. CASE i # k
        <4>1. i \in 1 .. (k - 1) /\ i - 1 \in 0 .. k /\ i - 1 # k
          BY <3>2
        <4>2. f[i] = step[<<f[i - 1], i>>]
          BY <2>1, <4>1 DEF IsLoop
        <4> QED BY <3>2, <4>1, <4>2
      <3> QED BY <3>1, <3>2
    <2> HIDE DEF g
    <2>7. upTo(g, k)
      BY <2>4, <2>5, <2>6 DEF IsLoop
    <2> QED BY <2>7
  <1>3. n \in S
    <2> HIDE DEF S
    <2>1. \A k \in 0 .. n : k \in S
      BY <1>1, <1>2, UpwardTo
    <2> QED BY <2>1
  <1> QED BY <1>3

\* What divides a number is not larger, and what divides that divides the number.
LEMMA Times ==
    ASSUME NEW x \in Nat, NEW y \in Nat
    PROVE  x * y \in Nat
  OBVIOUS

LEMMA Exactly ==
    ASSUME NEW n \in Nat, NEW d \in Nat \ {0}, n % d = 0
    PROVE  n \div d \in Nat /\ n = (n \div d) * d
  <1> DEFINE q == n \div d
  <1>1. q \in Nat /\ n = q * d + 0
    BY DivisionParts
  <1>2. q * d \in Nat
    BY <1>1, Times
  <1> HIDE DEF q
  <1>3. n = q * d
    BY <1>1, <1>2
  <1> QED BY <1>1, <1>3 DEF q

LEMMA DividesMultiple ==
    ASSUME NEW q \in Nat, NEW d \in Nat \ {0}
    PROVE  (q * d) % d = 0
  <1> DEFINE n == q * d
             e == n \div d
             r == n % d
  <1>1. n \in Nat
    BY Times
  <1> HIDE DEF n
  <1>2. e \in Nat /\ r \in 0 .. (d - 1) /\ n = e * d + r
    BY <1>1, DivisionParts
  <1> HIDE DEF e, r
  <1>3. CASE q > e
    <2>1. PICK x \in Nat : q = e + 1 + x
      <3>1. q - e - 1 \in Nat /\ q = e + 1 + (q - e - 1)
        BY <1>2, <1>3
      <3> QED BY <3>1
    <2>2. q * d = e * d + d + x * d
      BY <1>2, <2>1
    <2>3. x * d \in Nat /\ e * d \in Nat
      BY <1>2, Times
    <2>4. q * d = e * d + r
      BY <1>2 DEF n
    <2>5. \A u, v \in Nat : u + d + v # u + r
      BY <1>2
    <2> QED BY <2>2, <2>3, <2>4, <2>5
  <1>4. CASE q < e
    <2>1. PICK x \in Nat : e = q + 1 + x
      <3>1. e - q - 1 \in Nat /\ e = q + 1 + (e - q - 1)
        BY <1>2, <1>4
      <3> QED BY <3>1
    <2>2. e * d = q * d + d + x * d
      BY <1>2, <2>1
    <2>3. x * d \in Nat /\ q * d \in Nat
      BY <1>2, Times
    <2>4. q * d = (q * d + d + x * d) + r
      BY <1>2, <2>2 DEF n
    <2>5. \A u, v \in Nat : u # (u + d + v) + r
      BY <1>2
    <2> QED BY <2>3, <2>4, <2>5
  <1>5. CASE q = e
    <2>1. q * d \in Nat /\ q * d = q * d + r
      BY <1>1, <1>2, <1>5 DEF n
    <2>2. \A u \in Nat : u = u + r => r = 0
      BY <1>2
    <2> QED BY <2>1, <2>2 DEF r, n
  <1> QED BY <1>2, <1>3, <1>4, <1>5

LEMMA DivisorsDivide ==
    ASSUME NEW n \in Nat, NEW d \in Nat \ {0}, NEW p \in Nat \ {0}, n % d = 0, d % p = 0
    PROVE  n % p = 0
  <1>1. PICK x \in Nat : n = x * d
    BY Exactly
  <1>2. PICK y \in Nat : d = y * p
    BY Exactly
  <1>3. n = (x * y) * p
    BY <1>1, <1>2
  <1>4. x * y \in Nat
    BY Times
  <1> QED BY <1>3, <1>4, DividesMultiple

LEMMA DivisorAtMost ==
    ASSUME NEW n \in Nat \ {0}, NEW d \in Nat \ {0}, n % d = 0
    PROVE  d <= n /\ n \div d \in Nat \ {0} /\ (d >= 2 => n \div d < n) /\ n = (n \div d) * d
  <1> DEFINE q == n \div d
  <1>1. q \in Nat /\ n = q * d
    BY Exactly
  <1> HIDE DEF q
  <1>2. q # 0
    BY <1>1
  <1>3. PICK x \in Nat : q = x + 1
    <2>1. q - 1 \in Nat /\ q = (q - 1) + 1
      BY <1>1, <1>2
    <2> QED BY <2>1
  <1>4. n = x * d + d /\ x * d \in Nat
    BY <1>1, <1>3, Times
  <1>5. PICK y \in Nat : d = y + 1
    <2>1. d - 1 \in Nat /\ d = (d - 1) + 1
      OBVIOUS
    <2> QED BY <2>1
  <1>6. n = q * y + q /\ q * y \in Nat
    BY <1>1, <1>5, Times
  <1>7. d >= 2 => q * y >= 1
    <2>1. \A u, v \in Nat \ {0} : u * v \in Nat \ {0}
      OBVIOUS
    <2>2. d >= 2 => y \in Nat \ {0} /\ q \in Nat \ {0}
      BY <1>1, <1>2, <1>5
    <2> QED BY <2>1, <2>2
  <1>8. d <= n
    BY <1>4
  <1>9. d >= 2 => q < n
    <2>1. \A u \in Nat : u >= 1 => q < u + q
      BY <1>1
    <2> QED BY <1>6, <1>7, <2>1
  <1> QED BY <1>1, <1>2, <1>8, <1>9 DEF q

\* The sieve: the numbers below MaxPrime, those left and those found.
Below == 2 .. (MaxPrime - 1)

Sieved == [numbers : SUBSET Below, result : Seq(Below)]

LEMMA BelowIsNat == Below \in SUBSET Nat /\ \A n \in Below : n >= 2 /\ n < MaxPrime
  BY FilterAssumption DEF Below

LEMMA SiftedFirst ==
    ASSUME NEW s \in Sieved, s.numbers # {}
    PROVE  \E v \in s.numbers :
              /\ \A m \in s.numbers : v <= m
              /\ Sift(s) = [numbers |-> {n \in s.numbers : n % v # 0}, result |-> Append(s.result, v)]
  <1>1. s.numbers \in SUBSET Nat
    BY BelowIsNat DEF Sieved
  <1>2. \E v \in s.numbers : \A m \in s.numbers : v <= m
    BY <1>1, SmallestOf
  <1> DEFINE v == CHOOSE n \in s.numbers : \A m \in s.numbers : n <= m
  <1>3. v \in s.numbers /\ \A m \in s.numbers : v <= m
    BY <1>2
  <1>4. Sift(s) = [numbers |-> {n \in s.numbers : n % v # 0}, result |-> Append(s.result, v)]
    BY DEF Sift
  <1> HIDE DEF v
  <1> QED BY <1>3, <1>4

SiftMore(s) == IF s.numbers = {} THEN s ELSE Sift(s)

LEMMA SieveLoop ==
    \E f \in [0 .. MaxPrime -> Sieved] :
        /\ Sieve = f[MaxPrime]
        /\ f[0] = [numbers |-> Below, result |-> <<>>]
        /\ \A k \in 1 .. MaxPrime : f[k] = SiftMore(f[k - 1])
  <1> DEFINE n == MaxPrime
             base == [numbers |-> Below, result |-> <<>>]
             step == [p \in Sieved \X (1 .. n) |-> SiftMore(p[1])]
             body(f) == [k \in 0 .. n |-> IF k = 0 THEN base ELSE SiftMore(f[k - 1])]
             after == CHOOSE f : f = body(f)
  <1>1. n \in Nat
    BY FilterAssumption
  <1>2. base \in Sieved
    BY DEF Sieved
  <1>3. ASSUME NEW s \in Sieved PROVE SiftMore(s) \in Sieved
    <2>1. CASE s.numbers # {}
      <3>1. PICK v \in s.numbers :
                Sift(s) = [numbers |-> {m \in s.numbers : m % v # 0}, result |-> Append(s.result, v)]
        BY <2>1, SiftedFirst
      <3>2. v \in Below /\ s.numbers \subseteq Below /\ s.result \in Seq(Below)
        BY DEF Sieved
      <3>3. Append(s.result, v) \in Seq(Below)
        BY <3>2
      <3> QED BY <2>1, <3>1, <3>2, <3>3 DEF SiftMore, Sieved
    <2> QED BY <2>1 DEF SiftMore
  <1>4. step \in [Sieved \X (1 .. n) -> Sieved]
    BY <1>3
  <1>5. ASSUME NEW s \in Sieved, NEW k \in 1 .. n PROVE step[<<s, k>>] = SiftMore(s)
    OBVIOUS
  <1> HIDE DEF base, step, n
  <1>6. PICK g \in [0 .. n -> Sieved] : g[0] = base /\ \A k \in 1 .. n : g[k] = step[<<g[k - 1], k>>]
    <2>1. \E g : IsLoop(g, n, Sieved, base, step)
      BY <1>1, <1>2, <1>4, LoopExists
    <2> QED BY <2>1 DEF IsLoop
  <1>7. g = body(g)
    <2>1. ASSUME NEW k \in 1 .. n PROVE g[k] = SiftMore(g[k - 1])
      <3>1. k - 1 \in 0 .. n
        BY <1>1
      <3> QED BY <1>5, <1>6, <3>1
    <2> QED BY <1>1, <1>6, <2>1
  <1>8. after = body(after)
    BY <1>7
  <1>9. Sieve = after[n]
    BY DEF Sieve, SiftMore, base, n, Below
  <1> HIDE DEF after
  <1>10. after[0] = base /\ \A k \in 1 .. n : after[k] = SiftMore(after[k - 1])
    BY <1>1, <1>8
  <1>11. \A k \in 0 .. n : after[k] \in Sieved
    <2> DEFINE S == {k \in 0 .. n : after[k] \in Sieved}
    <2>1. 0 \in S
      BY <1>1, <1>2, <1>10
    <2>2. \A k \in 1 .. n : k - 1 \in S => k \in S
      BY <1>1, <1>3, <1>10
    <2> HIDE DEF S
    <2>3. \A k \in 0 .. n : k \in S
      BY <1>1, <2>1, <2>2, UpwardTo
    <2> QED BY <2>3 DEF S
  <1>12. after \in [0 .. n -> Sieved]
    BY <1>8, <1>11
  <1> QED BY <1>9, <1>10, <1>12 DEF base, n

\* After k rounds the numbers left are those no prime divides, and they are larger.
SieveInv(s, k) ==
    LET p == s.result
    IN  /\ s.numbers = {n \in Below : \A j \in 1 .. Len(p) : n % p[j] # 0}
        /\ \A i, j \in 1 .. Len(p) : j < i => p[j] < p[i] /\ p[i] % p[j] # 0
        /\ \A j \in 1 .. Len(p), n \in s.numbers : p[j] < n
        /\ \A n \in s.numbers : n >= k + 2

LEMMA SieveInvStep ==
    ASSUME NEW s \in Sieved, NEW k \in 1 .. MaxPrime, SieveInv(s, k - 1)
    PROVE  SieveInv(SiftMore(s), k)
  <1>1. CASE s.numbers = {}
    BY <1>1 DEF SieveInv, SiftMore
  <1>2. CASE s.numbers # {}
    <2>1. PICK v \in s.numbers :
              /\ \A m \in s.numbers : v <= m
              /\ Sift(s) = [numbers |-> {n \in s.numbers : n % v # 0}, result |-> Append(s.result, v)]
      BY <1>2, SiftedFirst
    <2> DEFINE p == s.result
               q == Append(p, v)
               left == {n \in s.numbers : n % v # 0}
    <2>2. p \in Seq(Below) /\ v \in Below /\ s.numbers \in SUBSET Below
      BY DEF Sieved
    <2>3. /\ Len(p) \in Nat /\ Len(q) = Len(p) + 1 /\ q[Len(p) + 1] = v
          /\ \A j \in 1 .. Len(p) : q[j] = p[j]
      BY <2>2, AppendProperties
    <2> HIDE DEF p, q
    <2>4. SiftMore(s) = [numbers |-> left, result |-> q]
      BY <1>2, <2>1 DEF SiftMore, q, p
    <2>5. /\ s.numbers = {n \in Below : \A j \in 1 .. Len(p) : n % p[j] # 0}
          /\ \A i, j \in 1 .. Len(p) : j < i => p[j] < p[i] /\ p[i] % p[j] # 0
          /\ \A j \in 1 .. Len(p), n \in s.numbers : p[j] < n
          /\ \A n \in s.numbers : n >= (k - 1) + 2
      BY DEF SieveInv, p
    <2>6. ASSUME NEW n \in left PROVE v < n /\ n \in Nat
      <3>1. n \in Nat \ {0} /\ v \in Nat \ {0} /\ v <= n /\ n % v # 0
        BY <2>1, <2>2, BelowIsNat
      <3>2. v % v = 0
        BY <3>1
      <3> QED BY <3>1, <3>2
    <2>7. left = {n \in Below : \A j \in 1 .. Len(q) : n % q[j] # 0}
      <3>1. ASSUME NEW n \in Below
            PROVE  (\A j \in 1 .. Len(q) : n % q[j] # 0)
                      <=> (\A j \in 1 .. Len(p) : n % p[j] # 0) /\ n % v # 0
        <4>1. \A j \in 1 .. Len(q) : j \in 1 .. Len(p) \/ j = Len(p) + 1
          BY <2>3
        <4>2. Len(p) + 1 \in 1 .. Len(q) /\ \A j \in 1 .. Len(p) : j \in 1 .. Len(q)
          BY <2>3
        <4> QED BY <2>3, <4>1, <4>2
      <3> QED BY <2>5, <3>1
    <2>8. ASSUME NEW i \in 1 .. Len(q), NEW j \in 1 .. Len(q), j < i
          PROVE  q[j] < q[i] /\ q[i] % q[j] # 0
      <3>1. j \in 1 .. Len(p)
        BY <2>3, <2>8
      <3>2. CASE i \in 1 .. Len(p)
        BY <2>3, <2>5, <2>8, <3>1, <3>2
      <3>3. CASE i = Len(p) + 1
        <4>1. q[i] = v /\ q[j] = p[j]
          BY <2>3, <3>1, <3>3
        <4>2. p[j] < v /\ v % p[j] # 0
          BY <2>5, <3>1
        <4> QED BY <4>1, <4>2
      <3> QED BY <2>3, <3>2, <3>3
    <2>9. ASSUME NEW j \in 1 .. Len(q), NEW n \in left PROVE q[j] < n
      <3>1. CASE j \in 1 .. Len(p)
        BY <2>3, <2>5, <3>1
      <3>2. CASE j = Len(p) + 1
        BY <2>3, <2>6, <3>2
      <3> QED BY <2>3, <3>1, <3>2
    <2>10. ASSUME NEW n \in left PROVE n >= k + 2
      <3>1. v < n /\ v >= (k - 1) + 2 /\ v \in Nat /\ n \in Nat
        BY <2>2, <2>5, <2>6, BelowIsNat
      <3> QED BY <3>1, FilterAssumption
    <2> HIDE DEF left
    <2> QED BY <2>4, <2>7, <2>8, <2>9, <2>10 DEF SieveInv
  <1> QED BY <1>1, <1>2

\* The primes: in order, no one divides another, and one divides each number.
LEMMA PrimesRight ==
    /\ Primes \in Seq(Below)
    /\ \A i, j \in 1 .. Len(Primes) : j < i => Primes[j] < Primes[i] /\ Primes[i] % Primes[j] # 0
    /\ \A n \in Below : \E j \in 1 .. Len(Primes) : n % Primes[j] = 0
  <1>1. PICK f \in [0 .. MaxPrime -> Sieved] :
            /\ Sieve = f[MaxPrime]
            /\ f[0] = [numbers |-> Below, result |-> <<>>]
            /\ \A k \in 1 .. MaxPrime : f[k] = SiftMore(f[k - 1])
    BY SieveLoop
  <1>2. MaxPrime \in Nat
    BY FilterAssumption
  <1> DEFINE S == {k \in 0 .. MaxPrime : SieveInv(f[k], k)}
  <1>3. 0 \in S
    <2>1. SieveInv([numbers |-> Below, result |-> <<>>], 0)
      <3>1. Len(<<>>) = 0 /\ 1 .. 0 = {}
        OBVIOUS
      <3>2. \A n \in Below : n >= 0 + 2
        BY BelowIsNat
      <3> QED BY <3>1, <3>2 DEF SieveInv
    <2> QED BY <1>1, <1>2, <2>1
  <1>4. ASSUME NEW k \in 1 .. MaxPrime, k - 1 \in S PROVE k \in S
    <2>1. k \in 0 .. MaxPrime /\ k - 1 \in 0 .. MaxPrime
      BY <1>2
    <2>2. f[k - 1] \in Sieved /\ SieveInv(f[k - 1], k - 1)
      BY <1>4, <2>1
    <2>3. SieveInv(SiftMore(f[k - 1]), k)
      BY <2>2, SieveInvStep
    <2> QED BY <1>1, <2>1, <2>3
  <1> HIDE DEF S
  <1>5. MaxPrime \in S
    <2>1. \A k \in 0 .. MaxPrime : k \in S
      BY <1>2, <1>3, <1>4, UpwardTo
    <2> QED BY <1>2, <2>1
  <1>6. Sieve \in Sieved /\ SieveInv(Sieve, MaxPrime)
    BY <1>1, <1>2, <1>5 DEF S
  <1>7. Sieve.numbers = {}
    <2>1. ASSUME NEW n \in Sieve.numbers PROVE FALSE
      <3>1. n \in Below /\ n >= MaxPrime + 2
        BY <1>6 DEF Sieved, SieveInv
      <3> QED BY <1>2, <3>1, BelowIsNat
    <2> QED BY <2>1
  <1>8. Primes \in Seq(Below)
    BY <1>6 DEF Primes, Sieved
  <1>9. \A n \in Below : ~(\A j \in 1 .. Len(Primes) : n % Primes[j] # 0)
    BY <1>6, <1>7 DEF SieveInv, Primes
  <1>10. \A i, j \in 1 .. Len(Primes) : j < i => Primes[j] < Primes[i] /\ Primes[i] % Primes[j] # 0
    BY <1>6 DEF SieveInv, Primes
  <1> QED BY <1>8, <1>9, <1>10

\* What the numbers of a sequence are multiplied to.
LEMMA ProductLoop ==
    ASSUME NEW s \in Seq(Nat)
    PROVE  \E f \in [0 .. Len(s) -> Nat] :
              /\ Product(s) = f[Len(s)] /\ f[0] = 1
              /\ \A k \in 1 .. Len(s) : f[k] = f[k - 1] * s[k]
  <1> DEFINE n == Len(s)
             step == [p \in Nat \X (1 .. n) |-> p[1] * s[p[2]]]
             body(f) == [k \in 0 .. n |-> IF k = 0 THEN 1 ELSE f[k - 1] * s[k]]
             after == CHOOSE f : f = body(f)
  <1>1. n \in Nat /\ \A k \in 1 .. n : s[k] \in Nat
    OBVIOUS
  <1>2. step \in [Nat \X (1 .. n) -> Nat]
    BY <1>1, Times
  <1>3. ASSUME NEW x \in Nat, NEW k \in 1 .. n PROVE step[<<x, k>>] = x * s[k]
    OBVIOUS
  <1> HIDE DEF step, n
  <1>4. PICK g \in [0 .. n -> Nat] : g[0] = 1 /\ \A k \in 1 .. n : g[k] = step[<<g[k - 1], k>>]
    <2>1. \E g : IsLoop(g, n, Nat, 1, step)
      BY <1>1, <1>2, LoopExists
    <2> QED BY <2>1 DEF IsLoop
  <1>5. g = body(g)
    <2>1. ASSUME NEW k \in 1 .. n PROVE g[k] = g[k - 1] * s[k]
      <3>1. k - 1 \in 0 .. n
        BY <1>1
      <3> QED BY <1>3, <1>4, <3>1
    <2> QED BY <1>1, <1>4, <2>1
  <1>6. after = body(after)
    BY <1>5
  <1>7. Product(s) = after[n]
    BY DEF Product, n
  <1> HIDE DEF after
  <1>8. after[0] = 1 /\ \A k \in 1 .. n : after[k] = after[k - 1] * s[k]
    BY <1>1, <1>6
  <1>9. \A k \in 0 .. n : after[k] \in Nat
    <2> DEFINE S == {k \in 0 .. n : after[k] \in Nat}
    <2>1. 0 \in S
      BY <1>1, <1>8
    <2>2. ASSUME NEW k \in 1 .. n, k - 1 \in S PROVE k \in S
      <3>1. after[k - 1] \in Nat /\ s[k] \in Nat /\ after[k] = after[k - 1] * s[k] /\ k \in 0 .. n
        BY <1>1, <1>8, <2>2
      <3> QED BY <3>1, Times
    <2> HIDE DEF S
    <2>3. \A k \in 0 .. n : k \in S
      BY <1>1, <2>1, <2>2, UpwardTo
    <2> QED BY <2>3 DEF S
  <1>10. after \in [0 .. n -> Nat]
    BY <1>6, <1>9
  <1> QED BY <1>7, <1>8, <1>10 DEF n

LEMMA ProductOfOne == Product(<<>>) = 1 /\ \A v \in Nat : Product(<<v>>) = v
  <1>1. Product(<<>>) = 1
    <2>1. <<>> \in Seq(Nat) /\ Len(<<>>) = 0
      OBVIOUS
    <2> QED BY <2>1, ProductLoop
  <1>2. ASSUME NEW v \in Nat PROVE Product(<<v>>) = v
    <2> DEFINE s == <<v>>
    <2>1. s \in Seq(Nat) /\ Len(s) = 1 /\ s[1] = v
      OBVIOUS
    <2> HIDE DEF s
    <2>2. PICK f \in [0 .. 1 -> Nat] : Product(s) = f[1] /\ f[0] = 1 /\ f[1] = f[1 - 1] * s[1]
      BY <2>1, ProductLoop
    <2>3. f[1 - 1] = 1 /\ 1 * v = v
      BY <2>2
    <2> QED BY <2>1, <2>2, <2>3 DEF s
  <1> QED BY <1>1, <1>2

LEMMA ProductOfMore ==
    ASSUME NEW a \in Nat, NEW s \in Seq(Nat)
    PROVE  Product(<<a>> \o s) = a * Product(s)
  <1> DEFINE n == Len(s)
             t == <<a>> \o s
  <1>1. n \in Nat /\ t \in Seq(Nat) /\ Len(t) = n + 1 /\ t[1] = a /\ \A k \in 1 .. n : t[k + 1] = s[k]
    OBVIOUS
  <1>2. \A k \in 1 .. n : s[k] \in Nat
    OBVIOUS
  <1> HIDE DEF n, t
  <1>3. PICK f \in [0 .. n -> Nat] :
            Product(s) = f[n] /\ f[0] = 1 /\ \A k \in 1 .. n : f[k] = f[k - 1] * s[k]
    BY ProductLoop DEF n
  <1>4. PICK g \in [0 .. (n + 1) -> Nat] :
            Product(t) = g[n + 1] /\ g[0] = 1 /\ \A k \in 1 .. (n + 1) : g[k] = g[k - 1] * t[k]
    BY <1>1, ProductLoop
  <1> DEFINE S == {k \in 0 .. n : g[k + 1] = a * f[k]}
  <1>5. 0 \in S
    <2>1. g[1] = g[1 - 1] * t[1]
      BY <1>1, <1>4
    <2>2. g[1] = 1 * a
      BY <1>1, <1>4, <2>1
    <2>3. 1 * a = a * 1
      OBVIOUS
    <2> QED BY <1>1, <1>3, <2>2, <2>3
  <1>6. ASSUME NEW k \in 1 .. n, k - 1 \in S PROVE k \in S
    <2>1. k \in 0 .. n /\ k - 1 \in 0 .. n /\ k + 1 \in 1 .. (n + 1) /\ (k + 1) - 1 = k /\ (k - 1) + 1 = k
      BY <1>1
    <2>2. g[k] = a * f[k - 1]
      BY <1>6, <2>1
    <2>3. g[k + 1] = g[k] * s[k]
      BY <1>1, <1>4, <2>1
    <2>4. f[k] = f[k - 1] * s[k] /\ f[k - 1] \in Nat /\ s[k] \in Nat
      BY <1>2, <1>3, <2>1
    <2>5. \A x, y \in Nat : (a * x) * y = a * (x * y)
      OBVIOUS
    <2> QED BY <2>1, <2>2, <2>3, <2>4, <2>5
  <1> HIDE DEF S
  <1>7. n \in S
    <2>1. \A k \in 0 .. n : k \in S
      BY <1>1, <1>5, <1>6, UpwardTo
    <2> QED BY <1>1, <2>1
  <1> QED BY <1>3, <1>4, <1>7 DEF S, t

\* decompose calls itself with a smaller number.
Starts == 1 .. (Len(Primes) + 1)

FactorsBy(f, v, start) ==
    LET found == Found(v, start)
    IN  IF found = {}
        THEN IF v = 1 THEN <<>> ELSE <<v>>
        ELSE LET i == CHOOSE k \in found : \A l \in found : k <= l
             IN  <<Primes[i]>> \o f[v \div Primes[i]][From(i)]

DecomposeAt(f, v) == [start \in Starts |-> FactorsBy(f, v, start)]

FirstFound(v, start) ==
    CHOOSE k \in Found(v, start) : \A l \in Found(v, start) : k <= l

LEMMA FactorsOfFirst ==
    ASSUME NEW f, NEW v, NEW start, Found(v, start) # {}
    PROVE  FactorsBy(f, v, start)
              = <<Primes[FirstFound(v, start)]>> \o f[v \div Primes[FirstFound(v, start)]][FirstFound(v, start)]
  BY DEF FactorsBy, FirstFound, From

LEMMA FoundFirst ==
    ASSUME NEW v \in Nat, NEW start \in Starts, Found(v, start) # {}, NEW i, i = FirstFound(v, start)
    PROVE  /\ i \in start .. Len(Primes) /\ i \in Starts /\ Primes[i] \in Below
           /\ Possible(Primes[i], v) /\ v % Primes[i] = 0
           /\ \A l \in start .. (i - 1) : ~(Possible(Primes[l], v) /\ v % Primes[l] = 0)
           /\ v \in Nat \ {0} /\ v \div Primes[i] \in Nat \ {0}
           /\ v \div Primes[i] < v /\ v = (v \div Primes[i]) * Primes[i]
  <1> DEFINE found == Found(v, start)
  <1>1. Len(Primes) \in Nat /\ start \in Nat /\ start >= 1
    BY PrimesRight DEF Starts
  <1>2. found \in SUBSET Nat
    BY <1>1 DEF Found
  <1>3. i \in found /\ \A l \in found : i <= l
    <2>1. \E k \in found : \A l \in found : k <= l
      BY <1>2, SmallestOf
    <2>2. i = CHOOSE k \in found : \A l \in found : k <= l
      BY DEF FirstFound
    <2> HIDE DEF found
    <2> QED BY <2>1, <2>2
  <1>5. i \in start .. Len(Primes) /\ Possible(Primes[i], v) /\ v % Primes[i] = 0
    BY <1>3 DEF Found
  <1>6. i \in Starts /\ Primes[i] \in Below
    <2>1. i \in 1 .. Len(Primes)
      BY <1>1, <1>5
    <2>2. Primes[i] \in Below
      BY <2>1, PrimesRight, ElementOfSeq
    <2> QED BY <1>1, <2>1, <2>2 DEF Starts
  <1>7. ASSUME NEW l \in start .. (i - 1) PROVE ~(Possible(Primes[l], v) /\ v % Primes[l] = 0)
    <2>1. l \in start .. Len(Primes) /\ ~(i <= l)
      BY <1>1, <1>5
    <2> QED BY <1>3, <2>1 DEF Found
  <1>8. Primes[i] \in Nat \ {0} /\ Primes[i] >= 2
    <2>1. \A n \in Below : n \in Nat \ {0} /\ n >= 2
      BY BelowIsNat
    <2> QED BY <1>6, <2>1
  <1>9. v \in Nat \ {0}
    <2>1. Primes[i] - 1 \in Nat
      BY <1>8
    <2>2. (Primes[i] - 1) * (Primes[i] - 1) \in Nat
      BY <2>1, Times
    <2> QED BY <1>5, <2>2 DEF Possible
  <1>10. /\ v \div Primes[i] \in Nat \ {0}
         /\ v \div Primes[i] < v /\ v = (v \div Primes[i]) * Primes[i]
    BY <1>5, <1>8, <1>9, DivisorAtMost
  <1> QED BY <1>5, <1>6, <1>7, <1>9, <1>10

LEMMA DecomposeSame ==
    ASSUME NEW v \in Nat, NEW f, NEW g,
           \A w \in 0 .. (v - 1) : f[w] = g[w] /\ f[w] \in [Starts -> Seq(Nat)]
    PROVE  DecomposeAt(f, v) = DecomposeAt(g, v) /\ DecomposeAt(f, v) \in [Starts -> Seq(Nat)]
  <1>1. ASSUME NEW start \in Starts
        PROVE  FactorsBy(f, v, start) = FactorsBy(g, v, start) /\ FactorsBy(f, v, start) \in Seq(Nat)
    <2>1. CASE Found(v, start) = {}
      <3>1. <<>> \in Seq(Nat) /\ <<v>> \in Seq(Nat)
        OBVIOUS
      <3> QED BY <2>1, <3>1 DEF FactorsBy
    <2>2. CASE Found(v, start) # {}
      <3> DEFINE i == FirstFound(v, start)
                 w == v \div Primes[i]
      <3>1. FactorsBy(f, v, start) = <<Primes[i]>> \o f[w][i] /\ FactorsBy(g, v, start) = <<Primes[i]>> \o g[w][i]
        BY <2>2, FactorsOfFirst
      <3>2. i \in Starts /\ Primes[i] \in Nat /\ w \in Nat /\ w < v
        BY <2>2, FoundFirst, BelowIsNat
      <3> HIDE DEF i, w
      <3>3. w \in 0 .. (v - 1)
        BY <3>2
      <3>4. f[w] = g[w] /\ f[w][i] \in Seq(Nat)
        BY <3>2, <3>3
      <3>5. <<Primes[i]>> \in Seq(Nat)
        BY <3>2
      <3>6. <<Primes[i]>> \o f[w][i] \in Seq(Nat)
        BY <3>4, <3>5, ConcatProperties
      <3> QED BY <3>1, <3>4, <3>6
    <2> QED BY <2>1, <2>2
  <1> QED BY <1>1 DEF DecomposeAt

LEMMA DecomposeRight ==
    /\ Decompose \in [0 .. LongMax -> [Starts -> Seq(Nat)]]
    /\ \A v \in 0 .. LongMax, start \in Starts :
          Decompose[v][start] = FactorsBy(Decompose, v, start)
  <1> DEFINE T == [Starts -> Seq(Nat)]
             right(f, n) == f \in [0 .. (n - 1) -> T] /\ \A v \in 0 .. (n - 1) : f[v] = DecomposeAt(f, v)
             N == LongMax + 1
             S == {n \in 0 .. N : \E f : right(f, n)}
             body(f) == [v \in 0 .. LongMax |-> DecomposeAt(f, v)]
  <1>1. N \in Nat /\ 0 .. (N - 1) = 0 .. LongMax
    BY FilterAssumption
  <1>2. 0 \in S
    <2>1. 0 .. (0 - 1) = {}
      OBVIOUS
    <2>2. right([v \in {} |-> v], 0)
      BY <2>1
    <2> HIDE DEF right
    <2> QED BY <1>1, <2>2
  <1>3. ASSUME NEW n \in 1 .. N, n - 1 \in S PROVE n \in S
    <2>1. n \in 0 .. N /\ n - 1 \in Nat
      BY <1>1
    <2>2. PICK f : right(f, n - 1)
      BY <1>3
    <2> DEFINE m == n - 1
               g == [v \in 0 .. m |-> IF v = m THEN DecomposeAt(f, m) ELSE f[v]]
    <2>3. m \in Nat /\ f \in [0 .. (m - 1) -> T] /\ \A v \in 0 .. (m - 1) : f[v] = DecomposeAt(f, v)
      BY <2>1, <2>2
    <2> HIDE DEF m, T
    <2>4. \A v \in 0 .. (m - 1) : g[v] = f[v] /\ f[v] \in T
      <3>1. \A v \in 0 .. (m - 1) : v \in 0 .. m /\ v # m
        BY <2>3
      <3> QED BY <2>3, <3>1
    <2>5. ASSUME NEW v \in 0 .. m PROVE DecomposeAt(f, v) = DecomposeAt(g, v) /\ DecomposeAt(f, v) \in T
      <3>1. v \in Nat /\ \A w \in 0 .. (v - 1) : w \in 0 .. (m - 1)
        BY <2>3
      <3> HIDE DEF g
      <3>2. \A w \in 0 .. (v - 1) : f[w] = g[w] /\ f[w] \in [Starts -> Seq(Nat)]
        BY <2>4, <3>1 DEF T
      <3> QED BY <3>1, <3>2, DecomposeSame DEF T
    <2>6. ASSUME NEW v \in 0 .. m PROVE g[v] = DecomposeAt(g, v) /\ g[v] \in T
      <3>1. v = m \/ v \in 0 .. (m - 1)
        BY <2>3
      <3>2. g[v] = DecomposeAt(f, v)
        BY <2>3, <2>4, <3>1
      <3> QED BY <2>5, <3>2
    <2>7. g \in [0 .. m -> T]
      BY <2>6
    <2> HIDE DEF g
    <2>8. right(g, n)
      BY <2>6, <2>7 DEF m, T
    <2> HIDE DEF right
    <2> QED BY <2>1, <2>8
  <1>4. PICK f : right(f, N)
    <2> HIDE DEF S
    <2>1. \A n \in 0 .. N : n \in S
      BY <1>1, <1>2, <1>3, UpwardTo
    <2>2. N \in S
      BY <1>1, <2>1
    <2> QED BY <2>2 DEF S
  <1>5. f = body(f)
    BY <1>1, <1>4
  <1>6. Decompose = CHOOSE h : h = body(h)
    BY DEF Decompose, DecomposeAt, FactorsBy, Starts
  <1>7. Decompose = body(Decompose)
    <2> HIDE DEF body
    <2> QED BY <1>5, <1>6
  <1>8. \A v \in 0 .. LongMax : Decompose[v] = DecomposeAt(Decompose, v)
    BY <1>7
  <1>9. \A v \in 0 .. LongMax : Decompose[v] \in T
    <2> DEFINE R == {v \in 0 .. LongMax : Decompose[v] \in T}
    <2>1. ASSUME NEW v \in 0 .. LongMax, \A w \in 0 .. (v - 1) : w \in R PROVE v \in R
      <3>1. v \in Nat /\ \A w \in 0 .. (v - 1) : Decompose[w] = Decompose[w] /\ Decompose[w] \in T
        BY <2>1, FilterAssumption
      <3>2. DecomposeAt(Decompose, v) \in T
        BY <3>1, DecomposeSame
      <3> QED BY <1>8, <3>2
    <2> HIDE DEF R
    <2>2. \A v \in 0 .. LongMax : v \in R
      BY <2>1, FilterAssumption, ThroughSmaller
    <2> QED BY <2>2 DEF R
  <1>10. Decompose \in [0 .. LongMax -> T]
    BY <1>7, <1>9
  <1>11. ASSUME NEW v \in 0 .. LongMax, NEW start \in Starts
         PROVE  Decompose[v][start] = FactorsBy(Decompose, v, start)
    BY <1>8 DEF DecomposeAt
  <1> QED BY <1>10, <1>11

\* What decompose makes of a number that no prime before start_from divides.
Undivided(v, start) == \A j \in 1 .. (start - 1) : v % Primes[j] # 0

FactorsRight(fs, v, start) ==
    /\ fs \in Seq(Nat) /\ Product(fs) = v
    /\ \A i \in 1 .. Len(fs) :
          /\ i > 1 => fs[i - 1] <= fs[i]
          /\ v >= 1 => fs[i] > 1
          /\ \A d \in Below : d < fs[i] => fs[i] % d # 0
          /\ Undivided(fs[i], start)

\* The square of the smaller of two divisors is not larger than the number.
LEMMA SmallerDivisor ==
    ASSUME NEW v \in Nat, NEW d \in Nat, d >= 2, d < v, v % d = 0
    PROVE  \E m \in Nat : m >= 2 /\ m <= d /\ v % m = 0 /\ m * m <= v
  <1> DEFINE e == v \div d
  <1>1. e \in Nat \ {0} /\ v = e * d
    <2>1. v \in Nat \ {0} /\ d \in Nat \ {0}
      OBVIOUS
    <2> QED BY <2>1, DivisorAtMost
  <1> HIDE DEF e
  <1>2. e >= 2
    <2>1. e # 1
      BY <1>1
    <2> QED BY <1>1, <2>1
  <1>3. v = d * e
    BY <1>1
  <1>4. \A x, y \in Nat : x <= y => x * x <= x * y
    <2>1. ASSUME NEW x \in Nat, NEW y \in Nat, x <= y PROVE x * x <= x * y
      <3>1. PICK z \in Nat : y = x + z
        <4>1. y - x \in Nat /\ y = x + (y - x)
          BY <2>1
        <4> QED BY <4>1
      <3>2. x * y = x * x + x * z /\ x * z \in Nat /\ x * x \in Nat
        BY <3>1, Times
      <3> QED BY <3>2
    <2> QED BY <2>1
  <1>5. CASE d <= e
    <2>1. d * d <= v
      BY <1>1, <1>3, <1>4, <1>5
    <2> QED BY <2>1
  <1>6. CASE e < d
    <2>1. e * e <= v
      BY <1>1, <1>4, <1>6
    <2>2. v % e = 0
      BY <1>1, <1>3, DividesMultiple
    <2> QED BY <1>1, <1>2, <1>6, <2>1, <2>2
  <1> QED BY <1>1, <1>5, <1>6

LEMMA SquareBelow ==
    ASSUME NEW p \in Nat, NEW m \in Nat, p >= 1, p <= m
    PROVE  (p - 1) * (p - 1) < m * m
  <1>1. PICK q \in Nat : p = q + 1
    <2>1. p - 1 \in Nat /\ p = (p - 1) + 1
      OBVIOUS
    <2> QED BY <2>1
  <1>2. PICK z \in Nat : m = q + 1 + z
    <2>1. m - p \in Nat /\ m = q + 1 + (m - p)
      BY <1>1
    <2> QED BY <2>1
  <1>3. m * m = q * q + (q * (1 + z) + (1 + z) * m)
    BY <1>2
  <1>4. q * q \in Nat /\ q * (1 + z) \in Nat
    BY Times
  <1>5. (1 + z) * m \in Nat /\ (1 + z) * m >= 1
    <2>1. (1 + z) * m = m + z * m /\ z * m \in Nat
      BY Times
    <2> QED BY <1>2, <2>1
  <1>6. p - 1 = q
    BY <1>1
  <1> QED BY <1>3, <1>4, <1>5, <1>6

\* Where decompose finds nothing more, the number has no divisor below MaxPrime.
LEMMA NothingFound ==
    ASSUME NEW v \in Nat, NEW start \in Starts, Undivided(v, start), Found(v, start) = {},
           NEW d \in Below, d < v
    PROVE  v % d # 0
  <1> SUFFICES ASSUME v % d = 0 PROVE FALSE
    OBVIOUS
  <1>1. d \in Nat /\ d >= 2 /\ d < MaxPrime
    BY BelowIsNat
  <1>2. PICK m \in Nat : m >= 2 /\ m <= d /\ v % m = 0 /\ m * m <= v
    BY <1>1, SmallerDivisor
  <1>3. m \in Below
    <2>1. m < MaxPrime
      BY <1>1, <1>2, FilterAssumption
    <2> QED BY <1>2, <2>1, FilterAssumption DEF Below
  <1>4. PICK j \in 1 .. Len(Primes) : m % Primes[j] = 0
    BY <1>3, PrimesRight
  <1> DEFINE p == Primes[j]
  <1>5. p \in Nat \ {0} /\ p >= 2
    <2>1. \A n \in Below : n \in Nat \ {0} /\ n >= 2
      BY BelowIsNat
    <2>2. p \in Below
      BY PrimesRight, ElementOfSeq
    <2> QED BY <2>1, <2>2
  <1>6. p <= m
    <2>1. m \in Nat \ {0}
      BY <1>2
    <2> QED BY <1>4, <1>5, <2>1, DivisorAtMost
  <1>7. v % p = 0
    <2>1. m \in Nat \ {0}
      BY <1>2
    <2> QED BY <1>2, <1>4, <1>5, <2>1, DivisorsDivide
  <1>8. Possible(p, v)
    <2>1. (p - 1) * (p - 1) < m * m
      BY <1>2, <1>5, <1>6, SquareBelow
    <2>2. m * m \in Nat /\ (p - 1) * (p - 1) \in Int
      BY <1>5, Times
    <2>3. \A x \in Int, y, z \in Nat : x < y /\ y <= z => x < z
      OBVIOUS
    <2> QED BY <1>2, <2>1, <2>2, <2>3 DEF Possible
  <1>9. j >= start
    <2>1. start \in Nat /\ j \in Nat /\ j >= 1
      BY PrimesRight DEF Starts
    <2>2. j \notin 1 .. (start - 1)
      BY <1>7 DEF Undivided
    <2> QED BY <2>1, <2>2
  <1>10. j \in Found(v, start)
    <2>1. j \in start .. Len(Primes)
      BY <1>9, PrimesRight DEF Starts
    <2> QED BY <1>7, <1>8, <2>1 DEF Found
  <1> QED BY <1>10

\* A number above 1 that no prime before the i-th divides is not below that one.
LEMMA NotBelowPrime ==
    ASSUME NEW e \in Nat, e > 1, NEW i \in 1 .. Len(Primes), Undivided(e, i)
    PROVE  Primes[i] <= e
  <1> SUFFICES ASSUME ~(Primes[i] <= e) PROVE FALSE
    OBVIOUS
  <1>1. Primes[i] \in Nat /\ Primes[i] < MaxPrime
    <2>1. Primes[i] \in Below
      BY PrimesRight, ElementOfSeq
    <2> QED BY <2>1, BelowIsNat
  <1>2. e \in Below
    BY <1>1, FilterAssumption DEF Below
  <1>3. PICK j \in 1 .. Len(Primes) : e % Primes[j] = 0
    BY <1>2, PrimesRight
  <1>4. Primes[j] \in Nat \ {0}
    <2>1. \A n \in Below : n \in Nat \ {0}
      BY BelowIsNat
    <2>2. Primes[j] \in Below
      BY PrimesRight, ElementOfSeq
    <2> QED BY <2>1, <2>2
  <1>5. Primes[j] <= e
    <2>1. e \in Nat \ {0}
      OBVIOUS
    <2> QED BY <1>3, <1>4, <2>1, DivisorAtMost
  <1>6. ~(i < j) /\ i # j
    <2>1. i < j => Primes[i] < Primes[j]
      BY PrimesRight
    <2> QED BY <1>1, <1>4, <1>5, <2>1
  <1>7. j \in 1 .. (i - 1)
    BY <1>6, PrimesRight
  <1> QED BY <1>3, <1>7 DEF Undivided

LEMMA FactorsAreRight ==
    \A v \in 0 .. LongMax : \A start \in Starts :
        Undivided(v, start) => FactorsRight(Decompose[v][start], v, start)
  <1> DEFINE S == {v \in 0 .. LongMax : \A start \in Starts :
                      Undivided(v, start) => FactorsRight(Decompose[v][start], v, start)}
  <1>1. ASSUME NEW v \in 0 .. LongMax, \A w \in 0 .. (v - 1) : w \in S,
               NEW start \in Starts, Undivided(v, start)
        PROVE  FactorsRight(Decompose[v][start], v, start)
    <2>1. v \in Nat /\ Decompose[v][start] = FactorsBy(Decompose, v, start)
      BY FilterAssumption, DecomposeRight
    <2>2. CASE Found(v, start) = {} /\ v = 1
      <3>1. Decompose[v][start] = <<>>
        BY <2>1, <2>2 DEF FactorsBy
      <3>2. <<>> \in Seq(Nat) /\ Len(<<>>) = 0
        OBVIOUS
      <3> QED BY <2>2, <3>1, <3>2, ProductOfOne DEF FactorsRight
    <2>3. CASE Found(v, start) = {} /\ v # 1
      <3> DEFINE fs == <<v>>
      <3>1. Decompose[v][start] = fs
        BY <2>1, <2>3 DEF FactorsBy
      <3>2. fs \in Seq(Nat) /\ Len(fs) = 1 /\ fs[1] = v
        BY <2>1
      <3>3. Product(fs) = v
        BY <2>1, ProductOfOne
      <3> HIDE DEF fs
      <3>4. \A d \in Below : d < v => v % d # 0
        BY <1>1, <2>1, <2>3, NothingFound
      <3>5. v >= 1 => v > 1
        BY <2>1, <2>3
      <3>6. FactorsRight(fs, v, start)
        BY <1>1, <3>2, <3>3, <3>4, <3>5 DEF FactorsRight
      <3> QED BY <3>1, <3>6
    <2>4. CASE Found(v, start) # {}
      <3> DEFINE i == FirstFound(v, start)
                 p == Primes[i]
                 w == v \div p
                 rest == Decompose[w][i]
                 fs == <<p>> \o rest
      <3>1. Decompose[v][start] = fs
        BY <2>1, <2>4, FactorsOfFirst
      <3>2. /\ i \in start .. Len(Primes) /\ i \in Starts /\ p \in Below
            /\ Possible(p, v) /\ v % p = 0
            /\ \A l \in start .. (i - 1) : ~(Possible(Primes[l], v) /\ v % Primes[l] = 0)
            /\ v \in Nat \ {0} /\ w \in Nat \ {0} /\ w < v /\ v = w * p
        BY <2>1, <2>4, FoundFirst
      <3> HIDE DEF i, w
      <3>3. p \in Nat \ {0} /\ p >= 2 /\ p < MaxPrime
        <4>1. \A n \in Below : n \in Nat \ {0} /\ n >= 2 /\ n < MaxPrime
          BY BelowIsNat
        <4> QED BY <3>2, <4>1
      <3>4. /\ Len(Primes) \in Nat /\ start \in Nat /\ start >= 1
            /\ i \in 1 .. Len(Primes) /\ start <= i
        BY <3>2, PrimesRight DEF Starts
      <3>5. \A j \in 1 .. Len(Primes) : Primes[j] \in Nat \ {0}
        <4>1. \A n \in Below : n \in Nat \ {0}
          BY BelowIsNat
        <4> QED BY <4>1, PrimesRight, ElementOfSeq
      <3>6. \A j \in 1 .. (i - 1) : j \in 1 .. Len(Primes) /\ Primes[j] < p /\ p % Primes[j] # 0
        <4>1. \A j \in 1 .. (i - 1) : j \in 1 .. Len(Primes) /\ j < i
          BY <3>4
        <4> QED BY <3>4, <4>1, PrimesRight
      <3>7. Undivided(w, i)
        <4>1. ASSUME NEW j \in 1 .. (i - 1), w % Primes[j] = 0 PROVE FALSE
          <5>1. j \in 1 .. Len(Primes) /\ Primes[j] \in Nat \ {0} /\ Primes[j] < p
            BY <3>5, <3>6
          <5>2. v % w = 0
            <6>1. v = p * w
              BY <3>2, <3>3
            <6> QED BY <3>2, <3>3, <6>1, DividesMultiple
          <5>3. v % Primes[j] = 0
            BY <2>1, <3>2, <4>1, <5>1, <5>2, DivisorsDivide
          <5>4. CASE j < start
            <6>1. j \in 1 .. (start - 1)
              BY <3>4, <5>4
            <6> QED BY <1>1, <5>3, <6>1 DEF Undivided
          <5>5. CASE ~(j < start)
            <6>1. j \in start .. (i - 1)
              BY <3>4, <5>5
            <6>2. Possible(Primes[j], v)
              <7> DEFINE x == Primes[j]
                         y == p - 1
              <7>1. y \in Nat /\ x \in Nat /\ x >= 1 /\ x <= y
                BY <3>3, <5>1
              <7>2. y * y < v
                BY <3>2 DEF Possible
              <7> HIDE DEF x, y
              <7>3. (x - 1) * (x - 1) < y * y
                BY <7>1, SquareBelow
              <7>4. y * y \in Nat /\ (x - 1) * (x - 1) \in Int
                BY <7>1, Times
              <7>5. \A a, b, c \in Int : a < b /\ b < c => a < c
                OBVIOUS
              <7>6. (x - 1) * (x - 1) < v
                BY <2>1, <7>2, <7>3, <7>4, <7>5
              <7> QED BY <7>6 DEF x, Possible
            <6> QED BY <3>2, <5>3, <6>1, <6>2
          <5> QED BY <5>4, <5>5
        <4> QED BY <4>1 DEF Undivided
      <3>8. FactorsRight(rest, w, i)
        <4>1. w \in 0 .. (v - 1)
          BY <2>1, <3>2
        <4>2. w \in S
          BY <1>1, <4>1
        <4> QED BY <3>2, <3>7, <4>2
      <3> HIDE DEF rest, S
      <3>9. rest \in Seq(Nat) /\ Len(rest) \in Nat /\ Product(rest) = w
        BY <3>8 DEF FactorsRight
      <3>10. \A k \in 1 .. Len(rest) :
                /\ rest[k] \in Nat
                /\ k > 1 => rest[k - 1] <= rest[k]
                /\ rest[k] > 1
                /\ \A d \in Below : d < rest[k] => rest[k] % d # 0
                /\ Undivided(rest[k], i)
        BY <3>2, <3>8, <3>9, ElementOfSeq DEF FactorsRight
      <3>11. /\ fs \in Seq(Nat) /\ Len(fs) = Len(rest) + 1 /\ fs[1] = p
             /\ \A k \in 2 .. Len(fs) : k - 1 \in 1 .. Len(rest) /\ fs[k] = rest[k - 1]
        BY <3>3, <3>9
      <3>12. Product(fs) = v
        <4>1. Product(fs) = p * w
          BY <3>3, <3>9, ProductOfMore
        <4> QED BY <3>2, <3>3, <4>1
      <3> HIDE DEF fs
      <3>13. \A e \in Nat : Undivided(e, i) => Undivided(e, start)
        <4>1. \A j \in 1 .. (start - 1) : j \in 1 .. (i - 1)
          BY <3>4
        <4> QED BY <4>1 DEF Undivided
      <3>14. Undivided(p, i)
        BY <3>6 DEF Undivided
      <3>15. ASSUME NEW d \in Below, d < p PROVE p % d # 0
        <4> SUFFICES ASSUME p % d = 0 PROVE FALSE
          OBVIOUS
        <4>1. d \in Nat \ {0} /\ d > 1
          BY BelowIsNat
        <4>2. ~Undivided(d, i)
          <5>1. Undivided(d, i) => p <= d
            BY <3>4, <4>1, NotBelowPrime
          <5> QED BY <3>3, <3>15, <4>1, <5>1
        <4>3. PICK j \in 1 .. (i - 1) : d % Primes[j] = 0
          BY <4>2 DEF Undivided
        <4>4. p % Primes[j] = 0
          <5>1. Primes[j] \in Nat \ {0}
            BY <3>5, <3>6
          <5> QED BY <3>3, <4>1, <4>3, <5>1, DivisorsDivide
        <4> QED BY <3>6, <4>4
      <3>16. ASSUME NEW k \in 1 .. Len(fs)
             PROVE  /\ k > 1 => fs[k - 1] <= fs[k]
                    /\ fs[k] > 1
                    /\ \A d \in Below : d < fs[k] => fs[k] % d # 0
                    /\ Undivided(fs[k], start)
        <4>1. CASE k = 1
          <5>1. fs[k] = p /\ p > 1
            BY <3>3, <3>11, <4>1
          <5> QED BY <3>3, <3>13, <3>14, <3>15, <4>1, <5>1
        <4>2. CASE k # 1
          <5>1. k \in 2 .. Len(fs) /\ k - 1 \in 1 .. Len(rest) /\ fs[k] = rest[k - 1]
            <6>1. k \in 2 .. Len(fs)
              BY <3>11, <4>2
            <6>2. k - 1 \in 1 .. Len(rest)
              BY <3>9, <3>11, <6>1
            <6> QED BY <3>11, <6>1, <6>2
          <5>2. /\ fs[k] \in Nat /\ fs[k] > 1 /\ Undivided(fs[k], i)
                /\ \A d \in Below : d < fs[k] => fs[k] % d # 0
            BY <3>10, <5>1
          <5>3. fs[k - 1] <= fs[k]
            <6>1. CASE k = 2
              <7>1. fs[k - 1] = p
                BY <3>11, <6>1
              <7>2. p <= fs[k]
                BY <3>4, <5>2, NotBelowPrime
              <7> QED BY <7>1, <7>2
            <6>2. CASE k # 2
              <7>1. /\ k - 1 \in 2 .. Len(fs) /\ k - 1 > 1
                    /\ (k - 1) - 1 \in 1 .. Len(rest) /\ fs[k - 1] = rest[(k - 1) - 1]
                <8>1. k - 1 \in 2 .. Len(fs) /\ k - 1 > 1
                  BY <5>1, <6>2, <3>9, <3>11
                <8> QED BY <3>11, <8>1
              <7>2. rest[(k - 1) - 1] <= rest[k - 1]
                BY <3>10, <5>1, <7>1
              <7> QED BY <5>1, <7>1, <7>2
            <6> QED BY <6>1, <6>2
          <5> QED BY <3>13, <5>2, <5>3
        <4> QED BY <4>1, <4>2
      <3>17. FactorsRight(fs, v, start)
        BY <3>11, <3>12, <3>16 DEF FactorsRight
      <3> QED BY <3>1, <3>17
    <2> QED BY <2>2, <2>3, <2>4
  <1>2. ASSUME NEW v \in 0 .. LongMax, \A w \in 0 .. (v - 1) : w \in S PROVE v \in S
    BY <1>1, <1>2
  <1> HIDE DEF S
  <1>3. \A v \in 0 .. LongMax : v \in S
    BY <1>2, FilterAssumption, ThroughSmaller
  <1> QED BY <1>3 DEF S

LEMMA FactorsOfNumber ==
    ASSUME NEW v \in 0 .. LongMax
    PROVE  Factors(v) \in Seq(Nat) /\ AreFactors(Factors(v), v)
  <1>1. 1 \in Starts
    BY PrimesRight DEF Starts
  <1>2. Undivided(v, 1)
    <2>1. 1 .. (1 - 1) = {}
      OBVIOUS
    <2> QED BY <2>1 DEF Undivided
  <1>3. FactorsRight(Factors(v), v, 1)
    BY <1>1, <1>2, FactorsAreRight DEF Factors
  <1>4. v > 1 => v >= 1
    BY FilterAssumption
  <1> QED BY <1>3, <1>4 DEF FactorsRight, AreFactors, Below

-----------------------------------------------------------------------------
(* The filter itself.                                                        *)

LEMMA StrtolInRange ==
    ASSUME NEW digits \in Seq(Nat)
    PROVE  Strtol(digits) \in 0 .. LongMax
  <1> DEFINE n == Len(digits)
             V == 0 .. LongMax
             add(x, k) == IF 10 * x + digits[k] > LongMax THEN LongMax ELSE 10 * x + digits[k]
             step == [p \in V \X (1 .. n) |-> add(p[1], p[2])]
             body(f) == [k \in 0 .. n |-> IF k = 0 THEN 0 ELSE add(f[k - 1], k)]
             value == CHOOSE f : f = body(f)
  <1>1. n \in Nat /\ LongMax \in Nat /\ 0 \in V /\ \A k \in 1 .. n : digits[k] \in Nat
    BY FilterAssumption
  <1>2. ASSUME NEW x \in V, NEW k \in 1 .. n PROVE add(x, k) \in V
    <2>1. 10 * x + digits[k] \in Nat
      BY <1>1
    <2> QED BY <1>1, <2>1
  <1>3. Strtol(digits) = value[n]
    BY DEF Strtol
  <1> HIDE DEF add
  <1>4. step \in [V \X (1 .. n) -> V]
    BY <1>2
  <1>5. ASSUME NEW x \in V, NEW k \in 1 .. n PROVE step[<<x, k>>] = add(x, k)
    OBVIOUS
  <1> HIDE DEF step, n, V
  <1>6. PICK g \in [0 .. n -> V] : g[0] = 0 /\ \A k \in 1 .. n : g[k] = step[<<g[k - 1], k>>]
    <2>1. \E g : IsLoop(g, n, V, 0, step)
      BY <1>1, <1>4, LoopExists
    <2> QED BY <2>1 DEF IsLoop
  <1>7. g = body(g)
    <2>1. ASSUME NEW k \in 1 .. n PROVE g[k] = add(g[k - 1], k)
      <3>1. k - 1 \in 0 .. n
        BY <1>1
      <3> QED BY <1>5, <1>6, <3>1
    <2> QED BY <1>1, <1>6, <2>1
  <1>8. value = body(value)
    BY <1>7
  <1> HIDE DEF value
  <1>9. value[0] = 0 /\ \A k \in 1 .. n : value[k] = add(value[k - 1], k)
    BY <1>1, <1>8
  <1> DEFINE S == {k \in 0 .. n : value[k] \in V}
  <1>10. 0 \in S
    BY <1>1, <1>9
  <1>11. \A k \in 1 .. n : k - 1 \in S => k \in S
    BY <1>1, <1>2, <1>9
  <1> HIDE DEF S
  <1>12. n \in S
    <2>1. \A k \in 0 .. n : k \in S
      BY <1>1, <1>10, <1>11, UpwardTo
    <2> QED BY <1>1, <2>1
  <1> QED BY <1>3, <1>12 DEF S, V

\* The numeral before a character ends there or goes on.
EndsBefore(t, k, m) ==
    /\ \A j \in (k - m) .. (k - 1) : InNumeral(t, j)
    /\ m < k - 1 => ~InNumeral(t, k - m - 1)

LEMMA BeforeIs ==
    ASSUME NEW t, NEW k \in Nat \ {0}, NEW m \in 0 .. (k - 1), EndsBefore(t, k, m)
    PROVE  Before(t, k) = m
  <1>1. Before(t, k) = CHOOSE l \in 0 .. (k - 1) : EndsBefore(t, k, l)
    BY DEF Before, EndsBefore
  <1>2. Before(t, k) \in 0 .. (k - 1) /\ EndsBefore(t, k, Before(t, k))
    BY <1>1
  <1>3. ASSUME NEW x \in 0 .. (k - 1), NEW y \in 0 .. (k - 1), x < y,
               EndsBefore(t, k, x), EndsBefore(t, k, y)
        PROVE  FALSE
    <2>1. x < k - 1 /\ k - x - 1 \in (k - y) .. (k - 1)
      BY <1>3
    <2> QED BY <1>3, <2>1 DEF EndsBefore
  <1>4. Before(t, k) < m \/ Before(t, k) = m \/ m < Before(t, k)
    BY <1>2
  <1> QED BY <1>2, <1>3, <1>4

LEMMA BeforeRight ==
    ASSUME NEW t, NEW n \in Nat
    PROVE  Before(t, n + 1) \in 0 .. n /\ EndsBefore(t, n + 1, Before(t, n + 1))
  <1> DEFINE S == {k \in 0 .. n : \E m \in 0 .. k : EndsBefore(t, k + 1, m)}
  <1>1. 0 \in S
    BY DEF EndsBefore
  <1>2. ASSUME NEW k \in 1 .. n, k - 1 \in S PROVE k \in S
    <2>1. PICK m \in 0 .. (k - 1) : EndsBefore(t, k, m)
      <3>1. (k - 1) + 1 = k
        OBVIOUS
      <3> QED BY <1>2, <3>1
    <2>2. CASE InNumeral(t, k)
      <3>1. ASSUME NEW j \in ((k + 1) - (m + 1)) .. ((k + 1) - 1) PROVE InNumeral(t, j)
        <4>1. j = k \/ j \in (k - m) .. (k - 1)
          OBVIOUS
        <4> QED BY <2>1, <2>2, <4>1 DEF EndsBefore
      <3>2. m + 1 < (k + 1) - 1 => ~InNumeral(t, (k + 1) - (m + 1) - 1)
        <4>1. (k + 1) - (m + 1) - 1 = k - m - 1 /\ (m + 1 < (k + 1) - 1 => m < k - 1)
          OBVIOUS
        <4> QED BY <2>1, <4>1 DEF EndsBefore
      <3>3. EndsBefore(t, k + 1, m + 1) /\ m + 1 \in 0 .. k /\ k \in 0 .. n
        BY <3>1, <3>2 DEF EndsBefore
      <3> QED BY <3>3
    <2>3. CASE ~InNumeral(t, k)
      <3>1. (k + 1) - 0 .. (k + 1) - 1 = {} /\ (k + 1) - 0 - 1 = k
        OBVIOUS
      <3>2. EndsBefore(t, k + 1, 0) /\ 0 \in 0 .. k /\ k \in 0 .. n
        BY <2>3, <3>1 DEF EndsBefore
      <3> QED BY <3>2
    <2> QED BY <2>2, <2>3
  <1> HIDE DEF S
  <1>3. n \in S
    <2>1. \A k \in 0 .. n : k \in S
      BY <1>1, <1>2, UpwardTo
    <2> QED BY <2>1
  <1>4. PICK m \in 0 .. n : EndsBefore(t, n + 1, m)
    BY <1>3 DEF S
  <1>5. Before(t, n + 1) = m
    <2>1. n + 1 \in Nat \ {0} /\ (n + 1) - 1 = n
      OBVIOUS
    <2> QED BY <1>4, <2>1, BeforeIs
  <1> QED BY <1>4, <1>5

LEMMA BeforeNext ==
    ASSUME NEW t, NEW k \in Nat \ {0}
    PROVE  Before(t, k + 1) = IF InNumeral(t, k) THEN Before(t, k) + 1 ELSE 0
  <1> DEFINE m == Before(t, k)
  <1>1. m \in 0 .. (k - 1) /\ EndsBefore(t, k, m)
    <2>1. k - 1 \in Nat /\ (k - 1) + 1 = k
      OBVIOUS
    <2> QED BY <2>1, BeforeRight
  <1> HIDE DEF m
  <1>2. CASE InNumeral(t, k)
    <2>1. ASSUME NEW j \in ((k + 1) - (m + 1)) .. ((k + 1) - 1) PROVE InNumeral(t, j)
      <3>1. j = k \/ j \in (k - m) .. (k - 1)
        BY <1>1
      <3> QED BY <1>1, <1>2, <3>1 DEF EndsBefore
    <2>2. m + 1 < (k + 1) - 1 => ~InNumeral(t, (k + 1) - (m + 1) - 1)
      <3>1. (k + 1) - (m + 1) - 1 = k - m - 1 /\ (m + 1 < (k + 1) - 1 => m < k - 1)
        BY <1>1
      <3> QED BY <1>1, <3>1 DEF EndsBefore
    <2>3. EndsBefore(t, k + 1, m + 1) /\ m + 1 \in 0 .. ((k + 1) - 1) /\ k + 1 \in Nat \ {0}
      BY <1>1, <2>1, <2>2 DEF EndsBefore
    <2>4. Before(t, k + 1) = m + 1
      BY <2>3, BeforeIs
    <2> QED BY <1>2, <2>4 DEF m
  <1>3. CASE ~InNumeral(t, k)
    <2>1. (k + 1) - 0 .. (k + 1) - 1 = {} /\ (k + 1) - 0 - 1 = k
      OBVIOUS
    <2>2. EndsBefore(t, k + 1, 0) /\ 0 \in 0 .. ((k + 1) - 1) /\ k + 1 \in Nat \ {0}
      BY <1>3, <2>1 DEF EndsBefore
    <2>3. Before(t, k + 1) = 0
      BY <2>2, BeforeIs
    <2> QED BY <1>3, <2>3
  <1> QED BY <1>2, <1>3

LEMMA NumeralNext ==
    ASSUME NEW t \in Seq(Nat)
    PROVE  /\ NumeralBefore(t, 1) = <<>>
           /\ \A k \in 1 .. (Len(t) + 1) : NumeralBefore(t, k) \in Seq(Nat)
           /\ \A k \in 1 .. Len(t) :
                 NumeralBefore(t, k + 1)
                    = IF InNumeral(t, k) THEN Append(NumeralBefore(t, k), t[k]) ELSE <<>>
  <1>1. Len(t) \in Nat /\ \A j \in 1 .. Len(t) : t[j] \in Nat
    OBVIOUS
  <1>2. ASSUME NEW k \in 1 .. (Len(t) + 1)
        PROVE  Before(t, k) \in 0 .. (k - 1) /\ NumeralBefore(t, k) \in Seq(Nat)
    <2>1. k - 1 \in Nat /\ (k - 1) + 1 = k
      BY <1>1
    <2>2. Before(t, k) \in 0 .. (k - 1)
      BY <2>1, BeforeRight
    <2>3. k - Before(t, k) \in Int /\ k - 1 \in Int /\ \A j \in (k - Before(t, k)) .. (k - 1) : t[j] \in Nat
      BY <1>1, <2>2
    <2>4. SubSeq(t, k - Before(t, k), k - 1) \in Seq(Nat)
      BY <2>3, SubSeqProperties
    <2> QED BY <2>2, <2>4 DEF NumeralBefore
  <1>3. NumeralBefore(t, 1) = <<>>
    <2>1. 1 \in 1 .. (Len(t) + 1)
      BY <1>1
    <2>2. Before(t, 1) = 0
      <3>1. Before(t, 1) \in 0 .. (1 - 1)
        BY <1>2, <2>1
      <3> QED BY <3>1
    <2>3. SubSeq(t, 1, 0) = <<>>
      BY SubSeqEmpty
    <2> QED BY <2>2, <2>3 DEF NumeralBefore
  <1>4. ASSUME NEW k \in 1 .. Len(t)
        PROVE  NumeralBefore(t, k + 1)
                  = IF InNumeral(t, k) THEN Append(NumeralBefore(t, k), t[k]) ELSE <<>>
    <2> DEFINE m == Before(t, k)
    <2>1. k \in Nat \ {0} /\ k \in 1 .. (Len(t) + 1) /\ m \in 0 .. (k - 1) /\ (k + 1) - 1 = k
      BY <1>1, <1>2
    <2>2. Before(t, k + 1) = IF InNumeral(t, k) THEN m + 1 ELSE 0
      BY <2>1, BeforeNext
    <2> HIDE DEF m
    <2>3. CASE InNumeral(t, k)
      <3>1. NumeralBefore(t, k + 1) = SubSeq(t, k - m, k)
        <4>1. (k + 1) - (m + 1) = k - m
          BY <2>1
        <4> QED BY <2>1, <2>2, <2>3, <4>1 DEF NumeralBefore
      <3>2. SubSeq(t, k - m, k) = SubSeq(t, k - m, k - 1) \o <<t[k]>>
        <4>1. k - m \in 1 .. Len(t) /\ k \in (k - m) .. Len(t)
          BY <1>1, <2>1
        <4> QED BY <4>1, SubSeqRecursiveSecond
      <3>3. NumeralBefore(t, k) = SubSeq(t, k - m, k - 1)
        BY DEF NumeralBefore, m
      <3>4. NumeralBefore(t, k) \in Seq(Nat) /\ t[k] \in Nat
        BY <1>1, <1>2, <2>1
      <3>5. Append(NumeralBefore(t, k), t[k]) = NumeralBefore(t, k) \o <<t[k]>>
        BY <3>4, AppendIsConcat
      <3> QED BY <2>3, <3>1, <3>2, <3>3, <3>5
    <2>4. CASE ~InNumeral(t, k)
      <3>1. SubSeq(t, k + 1, k) = <<>>
        <4>1. k + 1 \in Int /\ k \in Int /\ k < k + 1
          BY <2>1
        <4> QED BY <4>1, SubSeqEmpty
      <3>2. (k + 1) - 0 = k + 1
        BY <2>1
      <3> QED BY <2>1, <2>2, <2>4, <3>1, <3>2 DEF NumeralBefore
    <2> QED BY <2>3, <2>4
  <1> QED BY <1>2, <1>3, <1>4

LEMMA FirstPointIs ==
    ASSUME NEW b \in Seq(Nat), NEW j \in Points(b), \A k \in Points(b) : j <= k
    PROVE  FirstPoint(b) = j
  <1>1. Points(b) \in SUBSET Nat
    BY DEF Points
  <1>2. FirstPoint(b) \in Points(b) /\ \A k \in Points(b) : FirstPoint(b) <= k
    BY DEF FirstPoint
  <1> QED BY <1>1, <1>2

LEMMA FirstPointRight ==
    ASSUME NEW b \in Seq(Nat), Points(b) # {}
    PROVE  /\ FirstPoint(b) \in Points(b) /\ FirstPoint(b) \in 1 .. Len(b)
           /\ \A k \in Points(b) : FirstPoint(b) <= k
  <1>1. Points(b) \in SUBSET Nat /\ Points(b) \subseteq 1 .. Len(b)
    BY DEF Points
  <1>2. PICK m \in Points(b) : \A k \in Points(b) : m <= k
    BY <1>1, SmallestOf
  <1>3. FirstPoint(b) = m
    BY <1>2, FirstPointIs
  <1> QED BY <1>1, <1>2, <1>3

LEMMA PointsFinite ==
    ASSUME NEW b \in Seq(Nat)
    PROVE  IsFiniteSet(Points(b)) /\ Cardinality(Points(b)) \in Nat
  <1>1. IsFiniteSet(1 .. Len(b))
    BY FS_Interval
  <1>2. Points(b) \subseteq 1 .. Len(b)
    BY DEF Points
  <1>3. IsFiniteSet(Points(b))
    BY <1>1, <1>2, FS_Subset
  <1> QED BY <1>3, FS_CardinalityType

LEMMA PointsAppended ==
    ASSUME NEW b \in Seq(Nat), NEW ch \in Nat
    PROVE  Points(Append(b, ch)) = IF ch = Point THEN Points(b) \cup {Len(b) + 1} ELSE Points(b)
  <1> DEFINE a == Append(b, ch)
  <1>1. /\ Len(b) \in Nat /\ Len(a) = Len(b) + 1 /\ a[Len(b) + 1] = ch
        /\ \A j \in 1 .. Len(b) : a[j] = b[j]
    BY AppendProperties
  <1> HIDE DEF a
  <1>2. ASSUME NEW j \in 1 .. Len(a)
        PROVE  a[j] = Point <=> (j \in 1 .. Len(b) /\ b[j] = Point) \/ (j = Len(b) + 1 /\ ch = Point)
    <2>1. j = Len(b) + 1 \/ (j \in 1 .. Len(b) /\ j # Len(b) + 1)
      BY <1>1
    <2>2. Len(b) + 1 \notin 1 .. Len(b)
      BY <1>1
    <2> QED BY <1>1, <2>1, <2>2
  <1>3. \A j \in 1 .. Len(b) : j \in 1 .. Len(a)
    BY <1>1
  <1>4. Len(b) + 1 \in 1 .. Len(a)
    BY <1>1
  <1>5. Points(a) = IF ch = Point THEN Points(b) \cup {Len(b) + 1} ELSE Points(b)
    BY <1>2, <1>3, <1>4 DEF Points
  <1> QED BY <1>5 DEF a

LEMMA WithoutFractionType ==
    ASSUME NEW b \in Seq(Nat), Points(b) # {}
    PROVE  /\ WithoutFraction(b) \in Seq(Nat)
           /\ Len(WithoutFraction(b)) = FirstPoint(b) - 1 + Cardinality(Points(b))
  <1> DEFINE f == FirstPoint(b)
             n == f - 1 + Cardinality(Points(b))
  <1>1. f \in 1 .. Len(b) /\ Cardinality(Points(b)) \in Nat /\ Len(b) \in Nat
    BY FirstPointRight, PointsFinite
  <1>2. n \in Nat
    BY <1>1
  <1>3. WithoutFraction(b) = [j \in 1 .. n |-> IF j < f THEN b[j] ELSE Point]
    BY DEF WithoutFraction
  <1> HIDE DEF n, f
  <1>4. \A j \in 1 .. n : (IF j < f THEN b[j] ELSE Point) \in Nat
    <2>1. ASSUME NEW j \in 1 .. n, j < f PROVE b[j] \in Nat
      <3>1. j \in 1 .. Len(b)
        BY <1>1, <1>2, <2>1
      <3> QED BY <3>1
    <2>2. Point \in Nat
      BY DEF Point
    <2> QED BY <2>1, <2>2
  <1> QED BY <1>2, <1>3, <1>4 DEF n, f

\* A first point, a digit behind it, and another point.
LEMMA FirstPointRead ==
    ASSUME NEW b \in Seq(Nat), Points(b) = {}
    PROVE  WithoutFraction(Append(b, Point)) = Append(b, Point)
  <1> DEFINE a == Append(b, Point)
             n == Len(b)
  <1>0. Point \in Nat
    BY DEF Point
  <1>1. /\ a \in Seq(Nat) /\ n \in Nat /\ Len(a) = n + 1 /\ a[n + 1] = Point
        /\ \A j \in 1 .. n : a[j] = b[j]
    BY <1>0, AppendProperties
  <1>2. Points(a) = {n + 1}
    BY <1>0, PointsAppended
  <1> HIDE DEF a
  <1>3. FirstPoint(a) = n + 1
    BY <1>1, <1>2, FirstPointIs
  <1>4. Cardinality(Points(a)) = 1
    BY <1>2, FS_Singleton
  <1> HIDE DEF n
  <1>5. (n + 1) - 1 + 1 = n + 1
    BY <1>1
  <1>6. WithoutFraction(a) = [j \in 1 .. (n + 1) |-> IF j < n + 1 THEN a[j] ELSE Point]
    BY <1>3, <1>4, <1>5 DEF WithoutFraction
  <1>7. \A j \in 1 .. (n + 1) : (IF j < n + 1 THEN a[j] ELSE Point) = a[j]
    BY <1>1
  <1>8. a = [j \in 1 .. (n + 1) |-> a[j]]
    BY <1>1
  <1>9. WithoutFraction(a) = a
    BY <1>6, <1>7, <1>8
  <1> QED BY <1>9 DEF a

LEMMA FirstPointStays ==
    ASSUME NEW b \in Seq(Nat), Points(b) # {}, NEW ch \in Nat
    PROVE  /\ FirstPoint(Append(b, ch)) = FirstPoint(b)
           /\ \A j \in 1 .. Len(b) : Append(b, ch)[j] = b[j]
           /\ Points(Append(b, ch)) # {}
  <1> DEFINE a == Append(b, ch)
  <1>1. a \in Seq(Nat) /\ Len(b) \in Nat /\ \A j \in 1 .. Len(b) : a[j] = b[j]
    BY AppendProperties
  <1>2. Points(a) = IF ch = Point THEN Points(b) \cup {Len(b) + 1} ELSE Points(b)
    BY PointsAppended
  <1> HIDE DEF a
  <1>3. /\ FirstPoint(b) \in Points(b) /\ FirstPoint(b) \in 1 .. Len(b)
        /\ \A k \in Points(b) : FirstPoint(b) <= k
    BY FirstPointRight
  <1>4. FirstPoint(b) <= Len(b) + 1
    BY <1>1, <1>3
  <1>5. FirstPoint(b) \in Points(a) /\ \A k \in Points(a) : FirstPoint(b) <= k
    BY <1>2, <1>3, <1>4
  <1>6. FirstPoint(a) = FirstPoint(b)
    BY <1>1, <1>5, FirstPointIs
  <1> QED BY <1>1, <1>5, <1>6 DEF a

LEMMA FractionRead ==
    ASSUME NEW b \in Seq(Nat), Points(b) # {}, NEW ch \in Nat, ch # Point
    PROVE  WithoutFraction(Append(b, ch)) = WithoutFraction(b)
  <1> DEFINE a == Append(b, ch)
             f == FirstPoint(b)
             n == f - 1 + Cardinality(Points(b))
  <1>1. FirstPoint(a) = f /\ \A j \in 1 .. Len(b) : a[j] = b[j]
    BY FirstPointStays
  <1>2. Points(a) = Points(b)
    BY PointsAppended
  <1>3. f \in 1 .. Len(b)
    BY FirstPointRight
  <1> HIDE DEF a
  <1>4. WithoutFraction(a) = [j \in 1 .. n |-> IF j < f THEN a[j] ELSE Point]
    BY <1>1, <1>2 DEF WithoutFraction
  <1>5. WithoutFraction(b) = [j \in 1 .. n |-> IF j < f THEN b[j] ELSE Point]
    BY DEF WithoutFraction
  <1> HIDE DEF f, n
  <1>6. \A j \in 1 .. n : j < f => j \in 1 .. Len(b)
    BY <1>3
  <1>7. \A j \in 1 .. n : (IF j < f THEN a[j] ELSE Point) = (IF j < f THEN b[j] ELSE Point)
    BY <1>1, <1>6
  <1> QED BY <1>4, <1>5, <1>7 DEF a

LEMMA NextPointRead ==
    ASSUME NEW b \in Seq(Nat), Points(b) # {}
    PROVE  WithoutFraction(Append(b, Point)) = Append(WithoutFraction(b), Point)
  <1> DEFINE a == Append(b, Point)
             f == FirstPoint(b)
             n == f - 1 + Cardinality(Points(b))
             w == WithoutFraction(b)
  <1>0. Point \in Nat
    BY DEF Point
  <1>1. FirstPoint(a) = f /\ \A j \in 1 .. Len(b) : a[j] = b[j]
    BY <1>0, FirstPointStays
  <1>2. Points(a) = Points(b) \cup {Len(b) + 1}
    BY <1>0, PointsAppended
  <1>3. f \in 1 .. Len(b) /\ Len(b) \in Nat /\ IsFiniteSet(Points(b)) /\ Cardinality(Points(b)) \in Nat
    BY FirstPointRight, PointsFinite
  <1>4. Cardinality(Points(a)) = Cardinality(Points(b)) + 1
    <2>1. Len(b) + 1 \notin Points(b)
      BY <1>3 DEF Points
    <2> QED BY <1>2, <1>3, <2>1, FS_AddElement
  <1>5. n \in Nat /\ n >= f /\ f - 1 + (Cardinality(Points(b)) + 1) = n + 1
    <2>1. Cardinality(Points(b)) # 0
      BY <1>3, FS_EmptySet
    <2> QED BY <1>3, <2>1
  <1> HIDE DEF a
  <1>6. WithoutFraction(a) = [j \in 1 .. (n + 1) |-> IF j < f THEN a[j] ELSE Point]
    BY <1>1, <1>4, <1>5 DEF WithoutFraction
  <1>7. w = [j \in 1 .. n |-> IF j < f THEN b[j] ELSE Point]
    BY DEF WithoutFraction
  <1>8. w \in Seq(Nat) /\ Len(w) = n
    BY WithoutFractionType
  <1> HIDE DEF f, n, w
  <1>9. Append(w, Point) = [j \in 1 .. (n + 1) |-> IF j = n + 1 THEN Point ELSE w[j]]
    <2>1. /\ Append(w, Point) \in Seq(Nat) /\ Len(Append(w, Point)) = n + 1
          /\ Append(w, Point)[n + 1] = Point /\ \A j \in 1 .. n : Append(w, Point)[j] = w[j]
      BY <1>0, <1>8, AppendProperties
    <2>2. \A j \in 1 .. (n + 1) : Append(w, Point)[j] = IF j = n + 1 THEN Point ELSE w[j]
      BY <1>5, <2>1
    <2>3. Append(w, Point) = [j \in 1 .. (n + 1) |-> Append(w, Point)[j]]
      <3> DEFINE q == Append(w, Point)
      <3> HIDE DEF q
      <3>1. q \in Seq(Nat) /\ Len(q) = n + 1
        BY <2>1 DEF q
      <3>2. q = [j \in 1 .. (n + 1) |-> q[j]]
        BY <3>1
      <3> QED BY <3>2 DEF q
    <2> QED BY <2>2, <2>3
  <1>10. ASSUME NEW j \in 1 .. (n + 1)
         PROVE  (IF j < f THEN a[j] ELSE Point) = (IF j = n + 1 THEN Point ELSE w[j])
    <2>1. CASE j = n + 1
      <3>1. ~(j < f)
        BY <1>3, <1>5, <2>1
      <3> QED BY <2>1, <3>1
    <2>2. CASE j # n + 1
      <3>1. j \in 1 .. n
        BY <1>5, <2>2
      <3>2. j < f => j \in 1 .. Len(b)
        BY <1>3
      <3>3. w[j] = IF j < f THEN b[j] ELSE Point
        BY <1>7, <3>1
      <3> QED BY <1>1, <2>2, <3>2, <3>3
    <2> QED BY <2>1, <2>2
  <1>11. WithoutFraction(a) = Append(w, Point)
    BY <1>6, <1>9, <1>10
  <1> QED BY <1>11 DEF a, w

Chunks == Seq(Seq(Nat))

LEMMA CharactersType ==
    ASSUME NEW s \in Seq(Nat)
    PROVE  Characters(s) \in Chunks
  <1> DEFINE C == Seq(Nat)
  <1>1. \A j \in 1 .. Len(s) : <<s[j]>> \in C
    OBVIOUS
  <1>2. Len(s) \in Nat
    OBVIOUS
  <1> HIDE DEF C
  <1>3. [j \in 1 .. Len(s) |-> <<s[j]>>] \in Seq(C)
    BY <1>1, <1>2
  <1> QED BY <1>3 DEF Characters, Chunks, C

LEMMA ExpectedType ==
    ASSUME NEW t \in Seq(Nat), NEW k \in 1 .. Len(t)
    PROVE  Expected(t, k) \in Chunks
  <1> DEFINE b == NumeralBefore(t, k)
  <1>1. t[k] \in Nat /\ b \in Seq(Nat)
    <2>1. k \in 1 .. (Len(t) + 1)
      OBVIOUS
    <2> QED BY <2>1, NumeralNext
  <1> HIDE DEF b
  <1>2. <<>> \in Chunks /\ <<<<t[k]>>>> \in Chunks
    BY <1>1 DEF Chunks
  <1>3. Points(b) # {} => Characters(WithoutFraction(b)) \in Chunks
    BY <1>1, CharactersType, WithoutFractionType
  <1>4. <<<<Number>> \o Factors(Strtol(b))>> \in Chunks
    <2>1. Factors(Strtol(b)) \in Seq(Nat)
      BY <1>1, StrtolInRange, FactorsOfNumber
    <2>2. <<Number>> \in Seq(Nat)
      BY DEF Number
    <2>3. <<Number>> \o Factors(Strtol(b)) \in Seq(Nat)
      BY <2>1, <2>2, ConcatProperties
    <2> QED BY <2>3 DEF Chunks
  <1>5. \A x, y \in Chunks : x \o y \in Chunks
    BY ConcatProperties DEF Chunks
  <1> DEFINE x == IF b = <<>> THEN <<>>
                  ELSE IF Points(b) # {} THEN Characters(WithoutFraction(b))
                  ELSE <<<<Number>> \o Factors(Strtol(b))>>
  <1>6. x \in Chunks
    BY <1>2, <1>3, <1>4
  <1>7. Expected(t, k) = IF InNumeral(t, k)
                         THEN IF IsDigit(t[k]) /\ Points(b) # {} THEN <<<<t[k]>>>> ELSE <<>>
                         ELSE x \o <<<<t[k]>>>>
    BY DEF Expected, b
  <1> HIDE DEF x
  <1> QED BY <1>2, <1>5, <1>6, <1>7

LEMMA WrittenLoop ==
    ASSUME NEW t \in Seq(Nat)
    PROVE  /\ Written(t) \in [0 .. Len(t) -> Chunks]
           /\ Written(t)[0] = <<>>
           /\ \A k \in 1 .. Len(t) : Written(t)[k] = Written(t)[k - 1] \o Expected(t, k)
  <1> DEFINE n == Len(t)
             add(x, k) == x \o Expected(t, k)
             step == [p \in Chunks \X (1 .. n) |-> add(p[1], p[2])]
             body(f) == [k \in 0 .. n |-> IF k = 0 THEN <<>> ELSE add(f[k - 1], k)]
             w == CHOOSE f : f = body(f)
  <1>1. n \in Nat /\ <<>> \in Chunks
    BY DEF Chunks
  <1>2. ASSUME NEW x \in Chunks, NEW k \in 1 .. n PROVE add(x, k) \in Chunks
    <2>1. Expected(t, k) \in Chunks
      BY ExpectedType
    <2> QED BY <2>1, ConcatProperties DEF Chunks
  <1>3. Written(t) = w
    BY DEF Written
  <1> HIDE DEF add
  <1>4. step \in [Chunks \X (1 .. n) -> Chunks]
    BY <1>2
  <1>5. ASSUME NEW x \in Chunks, NEW k \in 1 .. n PROVE step[<<x, k>>] = add(x, k)
    OBVIOUS
  <1> HIDE DEF step, n
  <1>6. PICK g \in [0 .. n -> Chunks] : g[0] = <<>> /\ \A k \in 1 .. n : g[k] = step[<<g[k - 1], k>>]
    <2>1. \E g : IsLoop(g, n, Chunks, <<>>, step)
      BY <1>1, <1>4, LoopExists
    <2> QED BY <2>1 DEF IsLoop
  <1>7. g = body(g)
    <2>1. ASSUME NEW k \in 1 .. n PROVE g[k] = add(g[k - 1], k)
      <3>1. k - 1 \in 0 .. n
        BY <1>1
      <3> QED BY <1>5, <1>6, <3>1
    <2> QED BY <1>1, <1>6, <2>1
  <1>8. w = body(w)
    BY <1>7
  <1> HIDE DEF w
  <1>9. w[0] = <<>> /\ \A k \in 1 .. n : w[k] = add(w[k - 1], k)
    BY <1>1, <1>8
  <1> DEFINE S == {k \in 0 .. n : w[k] \in Chunks}
  <1>10. 0 \in S
    BY <1>1, <1>9
  <1>11. \A k \in 1 .. n : k - 1 \in S => k \in S
    BY <1>1, <1>2, <1>9
  <1> HIDE DEF S
  <1>12. \A k \in 0 .. n : w[k] \in Chunks
    <2>1. \A k \in 0 .. n : k \in S
      BY <1>1, <1>10, <1>11, UpwardTo
    <2> QED BY <2>1 DEF S
  <1>13. w \in [0 .. n -> Chunks]
    BY <1>8, <1>12
  <1> QED BY <1>3, <1>9, <1>13 DEF n, add

\* What is in ss is what has been read of the numeral, without its fraction.
FilterInv ==
    LET numeral == NumeralBefore(text, position + 1)
    IN  /\ text \in Texts /\ position \in 0 .. Len(text)
        /\ output = Written(text)[position]
        /\ state \in {"Integer", "Decimal", "Other"}
        /\ state = "Other" <=> numeral = <<>>
        /\ state = "Decimal" <=> Points(numeral) # {}
        /\ ss = IF state = "Decimal" THEN WithoutFraction(numeral) ELSE numeral

LEMMA TextsAppended ==
    ASSUME NEW a \in Seq(Seq(Nat)), NEW b \in Seq(Seq(Nat)), NEW c \in Seq(Seq(Nat))
    PROVE  (a \o b) \o c = a \o (b \o c)
  BY ConcatAssociative

LEMMA NoPoints == Points(<<>>) = {}
  <1>1. Len(<<>>) = 0 /\ 1 .. 0 = {}
    OBVIOUS
  <1> QED BY <1>1 DEF Points

LEMMA FilterInvInit == FilterInit => FilterInv
  <1> SUFFICES ASSUME FilterInit PROVE FilterInv
    OBVIOUS
  <1>1. /\ text \in Texts /\ text \in Seq(Nat) /\ position = 0 /\ 0 + 1 = 1
        /\ state = "Other" /\ ss = <<>> /\ output = <<>>
    BY FilterAssumption DEF FilterInit
  <1>2. NumeralBefore(text, position + 1) = <<>> /\ Written(text)[position] = <<>>
    BY <1>1, NumeralNext, WrittenLoop
  <1>3. position \in 0 .. Len(text)
    BY <1>1
  <1> QED BY <1>1, <1>2, <1>3, NoPoints DEF FilterInv

\* What every reading has in common.
LEMMA OneRead ==
    ASSUME FilterInv, Reads, NEW b, b = NumeralBefore(text, position + 1)
    PROVE  /\ text' = text /\ text \in Texts /\ position' = position + 1 /\ position' \in 0 .. Len(text)
           /\ b \in Seq(Nat) /\ Char \in Nat /\ output \in Chunks
           /\ Written(text)[position'] = output \o Expected(text, position + 1)
           /\ NumeralBefore(text, position' + 1)
                 = IF IsDigit(Char) \/ Char = Point THEN Append(b, Char) ELSE <<>>
           /\ state \in {"Integer", "Decimal", "Other"}
           /\ state = "Other" <=> b = <<>>
           /\ state = "Decimal" <=> Points(b) # {}
           /\ ss = IF state = "Decimal" THEN WithoutFraction(b) ELSE b
  <1>1. /\ text' = text /\ text \in Texts /\ text \in Seq(Nat) /\ position' = position + 1
        /\ position \in 0 .. Len(text) /\ position < Len(text)
    BY FilterAssumption DEF FilterInv, Reads
  <1> DEFINE k == position + 1
  <1>2. k \in 1 .. Len(text) /\ k \in 1 .. (Len(text) + 1) /\ k - 1 = position /\ position' = k
    BY <1>1
  <1>3. b \in Seq(Nat)
    BY <1>1, <1>2, NumeralNext
  <1>4. Char \in Nat /\ Char = text[k]
    BY <1>1, <1>2 DEF Char
  <1>5. output = Written(text)[position]
    BY DEF FilterInv
  <1> HIDE DEF k
  <1>6. Written(text)[k] = Written(text)[k - 1] \o Expected(text, k)
    BY <1>1, <1>2, WrittenLoop
  <1>7. output \in Chunks
    BY <1>1, <1>5, WrittenLoop
  <1>8. NumeralBefore(text, k + 1)
           = IF InNumeral(text, k) THEN Append(NumeralBefore(text, k), text[k]) ELSE <<>>
    BY <1>1, <1>2, NumeralNext
  <1>9. b = NumeralBefore(text, k)
    BY DEF k
  <1>10. InNumeral(text, k) <=> IsDigit(Char) \/ Char = Point
    BY <1>4 DEF InNumeral
  <1>11. position' \in 0 .. Len(text)
    BY <1>1
  <1>12. /\ state \in {"Integer", "Decimal", "Other"}
         /\ state = "Other" <=> b = <<>>
         /\ state = "Decimal" <=> Points(b) # {}
         /\ ss = IF state = "Decimal" THEN WithoutFraction(b) ELSE b
    BY DEF FilterInv
  <1>13. Written(text)[position'] = output \o Expected(text, k)
    BY <1>2, <1>5, <1>6
  <1>14. NumeralBefore(text, position' + 1) = IF IsDigit(Char) \/ Char = Point THEN Append(b, Char) ELSE <<>>
    BY <1>2, <1>4, <1>8, <1>9, <1>10
  <1> QED BY <1>1, <1>3, <1>4, <1>7, <1>11, <1>12, <1>13, <1>14 DEF k

LEMMA FilterInvStep == FilterInv /\ [FilterNext]_filterVars => FilterInv'
  <1> SUFFICES ASSUME FilterInv, [FilterNext]_filterVars PROVE FilterInv'
    OBVIOUS
  <1> DEFINE b == NumeralBefore(text, position + 1)
             after == NumeralBefore(text, position' + 1)
             more == Expected(text, position + 1)
  <1>1. ASSUME Reads
        PROVE  /\ text' = text /\ text \in Texts /\ position' = position + 1 /\ position' \in 0 .. Len(text)
               /\ b \in Seq(Nat) /\ Char \in Nat /\ output \in Chunks
               /\ Written(text)[position'] = output \o more
               /\ after = IF IsDigit(Char) \/ Char = Point THEN Append(b, Char) ELSE <<>>
               /\ state \in {"Integer", "Decimal", "Other"}
               /\ state = "Other" <=> b = <<>>
               /\ state = "Decimal" <=> Points(b) # {}
               /\ ss = IF state = "Decimal" THEN WithoutFraction(b) ELSE b
    BY <1>1, OneRead
  <1>2. ASSUME Reads
        PROVE  more = IF IsDigit(Char) \/ Char = Point
                      THEN IF IsDigit(Char) /\ Points(b) # {} THEN <<<<Char>>>> ELSE <<>>
                      ELSE (IF b = <<>> THEN <<>>
                            ELSE IF Points(b) # {} THEN Characters(WithoutFraction(b))
                            ELSE <<<<Number>> \o Factors(Strtol(b))>>) \o <<<<Char>>>>
    BY DEF Expected, InNumeral, Char
  <1>3. ASSUME Reads, output' = output \o more, state' \in {"Integer", "Decimal", "Other"},
               state' = "Other" <=> after = <<>>, state' = "Decimal" <=> Points(after) # {},
               ss' = IF state' = "Decimal" THEN WithoutFraction(after) ELSE after
        PROVE  FilterInv'
    <2>1. /\ text' = text /\ text \in Texts /\ position' \in 0 .. Len(text)
          /\ output' = Written(text)[position']
      BY <1>1, <1>3
    <2>2. after = NumeralBefore(text', position' + 1)
      BY <2>1
    <2>3. output' = Written(text')[position'] /\ text' \in Texts /\ position' \in 0 .. Len(text')
      BY <2>1
    <2> HIDE DEF after
    <2> QED BY <1>3, <2>2, <2>3 DEF FilterInv
  <1> HIDE DEF b, after, more
  <1>4. \A x \in Chunks : x \o <<>> = x
    BY ConcatEmptySeq DEF Chunks
  <1>5. CASE ReadDigit
    <2>1. Reads /\ IsDigit(Char)
      BY <1>5 DEF ReadDigit
    <2>2. /\ b \in Seq(Nat) /\ Char \in Nat /\ output \in Chunks /\ after = Append(b, Char)
          /\ Char # Point /\ more = IF Points(b) # {} THEN <<<<Char>>>> ELSE <<>>
      BY <1>1, <1>2, <2>1 DEF IsDigit, Point
    <2>3. after # <<>> /\ Points(after) = Points(b)
      BY <2>2, AppendProperties, PointsAppended
    <2>4. CASE state = "Decimal"
      <3>1. output' = Append(output, <<Char>>) /\ state' = state /\ ss' = ss
        BY <1>5, <2>4 DEF ReadDigit
      <3>2. Points(b) # {} /\ ss = WithoutFraction(b)
        BY <1>1, <2>1, <2>4
      <3>3. <<Char>> \in Seq(Nat)
        BY <2>2
      <3>4. output' = output \o more
        BY <2>2, <3>1, <3>2, <3>3, AppendIsConcat DEF Chunks
      <3>5. WithoutFraction(after) = WithoutFraction(b)
        BY <2>2, <3>2, FractionRead
      <3> QED BY <1>3, <2>1, <2>3, <2>4, <3>1, <3>2, <3>4, <3>5
    <2>5. CASE state # "Decimal"
      <3>1. output' = output /\ state' = "Integer" /\ ss' = Append(ss, Char)
        BY <1>5, <2>5 DEF ReadDigit
      <3>2. Points(b) = {} /\ ss = b
        BY <1>1, <2>1, <2>5
      <3>3. output' = output \o more
        BY <1>4, <2>2, <3>1, <3>2
      <3> QED BY <1>3, <2>1, <2>2, <2>3, <3>1, <3>2, <3>3
    <2> QED BY <2>4, <2>5
  <1>6. CASE ReadPoint
    <2>1. Reads /\ Char = Point /\ state' = "Decimal" /\ ss' = Append(ss, Point) /\ output' = output
      BY <1>6 DEF ReadPoint
    <2>2. b \in Seq(Nat) /\ Char \in Nat /\ output \in Chunks /\ after = Append(b, Point) /\ more = <<>>
      BY <1>1, <1>2, <2>1 DEF IsDigit, Point
    <2>3. after # <<>> /\ Points(after) # {}
      <3>1. Point \in Nat
        BY DEF Point
      <3>2. Len(b) + 1 \in Points(after)
        BY <2>2, <3>1, PointsAppended
      <3> QED BY <2>2, <3>1, <3>2, AppendProperties
    <2>4. output' = output \o more
      BY <1>4, <2>1, <2>2
    <2>5. ss' = WithoutFraction(after)
      <3>1. CASE state = "Decimal"
        <4>1. Points(b) # {} /\ ss = WithoutFraction(b)
          BY <1>1, <2>1, <3>1
        <4> QED BY <2>1, <2>2, <4>1, NextPointRead
      <3>2. CASE state # "Decimal"
        <4>1. Points(b) = {} /\ ss = b
          BY <1>1, <2>1, <3>2
        <4> QED BY <2>1, <2>2, <4>1, FirstPointRead
      <3> QED BY <3>1, <3>2
    <2> QED BY <1>3, <2>1, <2>3, <2>4, <2>5
  <1>7. CASE ReadOther
    <2> DEFINE x == IF state = "Integer" THEN <<<<Number>> \o Factors(Strtol(ss))>>
                    ELSE IF state = "Decimal" THEN Characters(ss) ELSE <<>>
               y == <<<<Char>>>>
    <2>1. Reads /\ ~IsDigit(Char) /\ Char # Point /\ state' = "Other"
      BY <1>7 DEF ReadOther
    <2>2. after = <<>> /\ Char \in Nat /\ output \in Chunks /\ state \in {"Integer", "Decimal", "Other"}
      BY <1>1, <2>1
    <2>3. ss' = <<>>
      <3>1. state = "Other" => ss = <<>>
        BY <1>1, <2>1
      <3> QED BY <1>7, <3>1 DEF ReadOther
    <2>4. output' = (output \o x) \o y
      BY <1>7, <2>2 DEF ReadOther
    <2>5. more = x \o y
      BY <1>1, <1>2, <2>1
    <2>6. x \in Chunks
      <3>1. /\ state = "Integer" => ss \in Seq(Nat)
            /\ state = "Decimal" => ss \in Seq(Nat)
        BY <1>1, <2>1, WithoutFractionType
      <3>2. ASSUME state = "Integer" PROVE <<<<Number>> \o Factors(Strtol(ss))>> \in Chunks
        <4>1. Factors(Strtol(ss)) \in Seq(Nat)
          BY <3>1, <3>2, StrtolInRange, FactorsOfNumber
        <4>2. <<Number>> \in Seq(Nat)
          BY DEF Number
        <4>3. <<Number>> \o Factors(Strtol(ss)) \in Seq(Nat)
          BY <4>1, <4>2, ConcatProperties
        <4> QED BY <4>3 DEF Chunks
      <3>3. ASSUME state = "Decimal" PROVE Characters(ss) \in Chunks
        BY <3>1, <3>3, CharactersType
      <3>4. <<>> \in Chunks
        BY DEF Chunks
      <3> QED BY <2>2, <3>2, <3>3, <3>4
    <2>7. y \in Chunks
      <3>1. <<Char>> \in Seq(Nat)
        BY <2>2
      <3> QED BY <3>1 DEF Chunks
    <2> HIDE DEF x, y
    <2>8. output' = output \o more
      <3>1. /\ output \in Seq(Seq(Nat))
            /\ x \in Seq(Seq(Nat))
            /\ y \in Seq(Seq(Nat))
        BY <2>2, <2>6, <2>7, Zenon DEF Chunks
      <3>2. (output \o x) \o y = output \o (x \o y)
        BY <3>1, TextsAppended, Zenon
      <3> QED BY <2>4, <2>5, <3>2, Zenon
    <2> QED BY <1>3, <2>1, <2>2, <2>3, <2>8, NoPoints
  <1>8. CASE UNCHANGED filterVars
    BY <1>8 DEF FilterInv, filterVars
  <1>9. CASE FilterOver
    BY <1>8, <1>9 DEF FilterOver
  <1> QED BY <1>5, <1>6, <1>7, <1>8, <1>9 DEF FilterNext

\* The filter copies a text and replaces each number by its factors (integer_filter,
\* decompose and get_primes), with what it loses of the others, for any text, any
\* limit of the primes and any width of the numbers.
THEOREM FactorsWritten == FilterSpec => []WritesFactors
  <1>1. FilterInv => WritesFactors
    <2> SUFFICES ASSUME FilterInv PROVE WritesFactors
      OBVIOUS
    <2>1. text \in Seq(Nat) /\ position \in 0 .. Len(text) /\ output = Written(text)[position]
      BY FilterAssumption DEF FilterInv
    <2>2. ASSUME NEW k \in 1 .. position
          PROVE  LET before == NumeralBefore(text, k)
                 IN  AreFactors(Factors(Strtol(before)), Strtol(before))
      <3>1. k \in 1 .. (Len(text) + 1)
        BY <2>1
      <3>2. NumeralBefore(text, k) \in Seq(Nat)
        BY <2>1, <3>1, NumeralNext
      <3> QED BY <3>2, StrtolInRange, FactorsOfNumber
    <2> QED BY <2>1, <2>2 DEF WritesFactors
  <1> QED BY <1>1, FilterInvInit, FilterInvStep, PTL DEF FilterSpec
=============================================================================
