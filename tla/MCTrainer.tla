------------------------------ MODULE MCTrainer ------------------------------
(* The trainer and the parts it is made of.  An execution follows one of them: *)
(* the processes and their collective calls (Trainer), the numbers that the     *)
(* layers compute (Layers), the tensors they are in (Tensor) or their timing    *)
(* (NetBenchmark).  The others stay where they start, with one input, and the   *)
(* processes stay at the end of a training without MPI.                         *)
EXTENDS Trainer, Layers, Tensor, NetBenchmark

VARIABLE part           \* the one that is followed

-----------------------------------------------------------------------------
(* The layers, with two pixels and two classes.                              *)

\* Of degree two, so that the slope is another one at every input.
MCFn(x) == x * x + x

MCDerivative(x, y) == 2 * x + 1

MCItems == [image : [{0, 1} -> {0, 1}], label : {0, 1}]

\* All training sets of one or two images, and those of three whose first two
\* images have different labels.
MCTrainSets ==
    {<<a>> : a \in MCItems} \cup (MCItems \X MCItems)
        \cup {s \in MCItems \X MCItems \X MCItems : s[1].label = 0 /\ s[2].label = 1}

MCTestSet ==
    <<[image |-> [i \in {0, 1} |-> 1 - i], label |-> 0],
      [image |-> [i \in {0, 1} |-> i], label |-> 0]>>

\* Tensors of one to three dimensions, also with dimensions of length one.
MCShapes == {<<1>>, <<3>>, <<2, 2>>, <<3, 1>>, <<1, 3>>, <<1, 2, 2>>}

MCElements == {-1, 0, 1}

\* Two metrics, and a clock that may go back.
MCMetrics == <<"forward", "backward">>

MCDurations == {-1, 0, 2}

-----------------------------------------------------------------------------

\* The processes while another part is followed.
AfterTraining ==
    /\ use_mpi = FALSE
    /\ pc = [r \in Ranks |-> IF r = 0 THEN "aborted" ELSE "done"]
    /\ it = [r \in Ranks |-> 0] /\ layer = it /\ dataOffset = it /\ labelOffset = it
    /\ batch = it /\ entered = it
    /\ diff = [r \in Ranks |-> [l \in Layers |-> {}]]
    /\ used = [i \in Images |-> 0]

MCInit ==
    /\ part \in {"processes", "layers", "tensor", "benchmark"}
    /\ IF part = "processes" THEN Init ELSE AfterTraining
    /\ part # "layers" => world = 1 /\ bs = 1 /\ trainSet = MCTestSet
    /\ LayersInit
    /\ part # "tensor" => shape = <<1>> /\ elements = [p \in {0} |-> 0]
    /\ TensorInit
    /\ part # "benchmark" => netSize = 0
    /\ BenchmarkInit

MCNext ==
    /\ UNCHANGED part
    /\ \/ part = "processes" /\ Next
       \/ part # "processes" /\ UNCHANGED vars
    /\ \/ part = "layers" /\ LayersNext
       \/ part # "layers" /\ UNCHANGED layersVars
    /\ \/ part = "tensor" /\ TensorNext
       \/ part # "tensor" /\ UNCHANGED tensorVars
    /\ \/ part = "benchmark" /\ BenchmarkNext
       \/ part # "benchmark" /\ UNCHANGED benchmarkVars

MCVars == <<part, vars, layersVars, tensorVars, benchmarkVars>>

\* Every process of the trainer keeps running, and MPI lets a process leave a
\* collective call that all have entered.
MCSpec == MCInit /\ [][MCNext]_MCVars /\ \A r \in Ranks : WF_vars(part = "processes" /\ Step(r))

\* The tensors alone.
MCTensorSpec == part = "tensor" /\ MCInit /\ [][MCNext]_MCVars /\ TensorFairness
=============================================================================
