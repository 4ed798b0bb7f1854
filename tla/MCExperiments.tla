---------------------------- MODULE MCExperiments ----------------------------
(* Small programs of the repository, which have nothing to do with each other.  An    *)
(* execution runs one of them; the others stay where they start, with one input.  *)
EXTENDS FutexDemo, HttpBenchmark, RandomNumbers, NcclAllReduce, EatCpu, NumberFilter,
        PriceSearch, FrameBuffer

VARIABLE program        \* the one that runs

MCCutPoints == <<<<1, 2>>, <<2, 3>>, <<9, 10>>, <<1, 1>>>>

MCRates == {<<1, 4>>, <<1, 2>>, <<3, 4>>}

\* All texts of up to five characters: three digits, the point and another one.
MCTexts == UNION {[1 .. n -> {0, 1, 2, 10, 11}] : n \in 0 .. 5}

MCSizes == <<1, 2>>

MCMachines ==
    <<[mem |-> 2, cpu |-> 1, tp |-> 1, pps |-> 2], [mem |-> 3, cpu |-> 2, tp |-> 2, pps |-> 2],
      [mem |-> 6, cpu |-> 4, tp |-> 3, pps |-> 4], [mem |-> 1, cpu |-> 4, tp |-> 4, pps |-> 4]>>

MCPriceTables == [1 .. 4 -> {0, 2, 5}]

MCLoad == [index |-> 1, pps |-> 2, tp |-> 2, iops |-> 1, cpu |-> 2, ssdIops |-> 4, ssdTp |-> 5]

MCScreens == [xres : {0, 3, 4, 5, 7}, yres : 0 .. 4]

MCFonts == [height : 0 .. 2, width : {1, 2}, size : {1, 2}]

-----------------------------------------------------------------------------

\* The futex demo while another program is followed: a signal has ended the child
\* before the parent has done anything.
ChildFailed ==
    /\ futex = [p \in Procs |-> IF p = "parent" THEN 1 ELSE 0]
    /\ pc = [p \in Procs |-> IF p = "parent" THEN "loop" ELSE "failed"]
    /\ j = [p \in Procs |-> 0] /\ lines = j
    /\ interrupts = 1

MCInit ==
    /\ program \in {"futex", "http", "rng", "nccl", "eat", "filter", "search", "fb"}
    /\ IF program = "futex" THEN Init ELSE ChildFailed
    /\ HttpInit
    /\ program # "rng" => threadCount = 1 /\ total = 0
    /\ RngInit
    /\ program # "nccl" => procSize = 1 /\ streams = {}
    /\ NcclInit
    /\ program # "eat" => rate = <<1, 2>>
    /\ EatInit
    /\ program # "filter" => text = <<>>
    /\ FilterInit
    /\ program # "search" => prices = [m \in 1 .. 4 |-> 0]
    /\ SearchInit
    /\ program # "fb" => /\ screen = [xres |-> 0, yres |-> 0] /\ now = 0
                         /\ font = [height |-> 0, width |-> 1, size |-> 1]
    /\ FbInit

MCNext ==
    /\ UNCHANGED program
    /\ \/ program = "futex" /\ Next
       \/ program # "futex" /\ UNCHANGED vars
    /\ \/ program = "http" /\ HttpNext
       \/ program # "http" /\ UNCHANGED httpVars
    /\ \/ program = "rng" /\ RngNext
       \/ program # "rng" /\ UNCHANGED rngVars
    /\ \/ program = "nccl" /\ NcclNext
       \/ program # "nccl" /\ UNCHANGED ncclVars
    /\ \/ program = "eat" /\ EatNext
       \/ program # "eat" /\ UNCHANGED eatVars
    /\ \/ program = "filter" /\ FilterNext
       \/ program # "filter" /\ UNCHANGED filterVars
    /\ \/ program = "search" /\ SearchNext
       \/ program # "search" /\ UNCHANGED searchVars
    /\ \/ program = "fb" /\ FbNext
       \/ program # "fb" /\ UNCHANGED fbVars

MCVars ==
    <<program, vars, httpVars, rngVars, ncclVars, eatVars, filterVars, searchVars, fbVars>>

\* The scheduler runs both processes of the futex demo.
MCSpec ==
    /\ MCInit /\ [][MCNext]_MCVars
    /\ \A p \in Procs : WF_vars(program = "futex" /\ Step(p))
=============================================================================
