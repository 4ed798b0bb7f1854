------------------------------- MODULE Trainer -------------------------------
(* The trainer sgd-comm/asgd.cpp: every MPI process trains a network of its   *)
(* own (src/net.cpp) on batches of the training images, and after each layer  *)
(* of the backward pass the processes average the derivatives.  Batches and   *)
(* labels are read at two offsets, Data's and L2Norm's, that are kept apart:   *)
(* the first moves in the forward pass, the second in the backward pass.      *)
(*                                                                           *)
(* Numbers are left out.  A batch is known by its first image, a derivative   *)
(* by the batches that went into it: <<r, i>> is the one of process r in its  *)
(* i-th iteration.                                                            *)
EXTENDS Integers

CONSTANTS
    WorldSize,      \* the size of MPI_COMM_WORLD
    BatchSize,      \* bs
    TrainSize,      \* the training images, and their labels
    Iters,          \* iters
    LastLayer       \* fns.size() - 1, the loss; layer 0 is the data

ASSUME TrainerAssumption ==
    /\ WorldSize \in Nat \ {0} /\ BatchSize \in Nat \ {0} /\ TrainSize \in Nat \ {0}
    /\ Iters \in Nat /\ LastLayer \in Nat \ {0}

Ranks == 0 .. (WorldSize - 1)

Images == 0 .. (TrainSize - 1)

Layers == 0 .. LastLayer

VARIABLES
    use_mpi,        \* the third argument of the program
    pc,             \* per process, where it is
    it,             \* per process, its iteration
    layer,          \* per process, the layer the backward pass is at
    dataOffset,     \* per process, offset of Data
    labelOffset,    \* per process, offset of L2Norm
    batch,          \* per process, the first image of the batch in Data's output_
    diff,           \* per process and layer, the batches in its output_diff_
    entered,        \* per process, the collective calls it has entered
    used            \* per image, how often it has been in a batch

vars == <<use_mpi, pc, it, layer, dataOffset, labelOffset, batch, diff, entered, used>>

\* Without MPI the program is one process.
Procs == IF use_mpi THEN Ranks ELSE {0}

\* The images of a batch; a batch that reaches the end goes on at the beginning.
ImagesOf(first) == {(first + i) % TrainSize : i \in 0 .. (BatchSize - 1)}

\* Data::setup and the constructor of L2Norm.
FirstImage(r) == r * BatchSize

Advance(offset, stride) == (offset + stride) % TrainSize

\* Mutant: a process goes on with the batch behind its own.
DataStrideOfOne == BatchSize

\* All processes' batches lie between one of a process and its next one.
DataStride == IF use_mpi THEN WorldSize * BatchSize ELSE BatchSize

\* Mutant: the same for the labels.
LabelStrideOfOne == BatchSize

LabelStride == IF use_mpi THEN BatchSize * WorldSize ELSE BatchSize

Init ==
    /\ use_mpi \in BOOLEAN
    /\ pc = [r \in Ranks |-> IF use_mpi THEN "barrier" ELSE IF r = 0 THEN "iterate" ELSE "done"]
    /\ it = [r \in Ranks |-> 0]
    /\ layer = [r \in Ranks |-> LastLayer]
    /\ dataOffset = [r \in Ranks |-> 0]
    /\ labelOffset = [r \in Ranks |-> 0]
    /\ batch = [r \in Ranks |-> 0]
    /\ diff = [r \in Ranks |-> [l \in Layers |-> {}]]
    /\ entered = [r \in Ranks |-> IF use_mpi THEN 1 ELSE 0]
    /\ used = [i \in Images |-> 0]

-----------------------------------------------------------------------------

Goto(r, where) ==
    /\ pc' = [pc EXCEPT ![r] = where]
    /\ UNCHANGED entered

Enter(r, call) ==
    /\ pc' = [pc EXCEPT ![r] = call]
    /\ entered' = [entered EXCEPT ![r] = @ + 1]

AllEntered(r) == \A s \in Ranks : entered[s] >= entered[r]

\* initMPI ends with a barrier; then the layers are constructed and set up.
Setup(r) ==
    /\ pc[r] = "barrier" /\ AllEntered(r)
    /\ Goto(r, "iterate")
    /\ dataOffset' = [dataOffset EXCEPT ![r] = Advance(FirstImage(r), 0)]
    /\ labelOffset' = [labelOffset EXCEPT ![r] = Advance(r * BatchSize, 0)]
    /\ UNCHANGED <<use_mpi, it, layer, batch, diff, used>>

\* Net::forward: Data copies its batch and moves on; the loss compares the
\* output of the net with the labels, whose offset stays.
Forward(r) ==
    /\ pc[r] = "iterate" /\ it[r] < Iters
    /\ batch' = [batch EXCEPT ![r] = dataOffset[r]]
    /\ used' = [i \in Images |-> IF i \in ImagesOf(dataOffset[r]) THEN used[i] + 1 ELSE used[i]]
    /\ dataOffset' = [dataOffset EXCEPT ![r] = Advance(@, DataStride)]
    /\ layer' = [layer EXCEPT ![r] = LastLayer]
    /\ IF use_mpi THEN Enter(r, "lossReduce") ELSE Goto(r, "backward")
    /\ UNCHANGED <<use_mpi, it, labelOffset, diff>>

\* Mutant: only process 0, which prints it, takes part in reducing the accuracy.
LeaveLossReduceRoot(r) ==
    /\ pc[r] = "lossReduce" /\ AllEntered(r)
    /\ IF r = 0 THEN Enter(r, "accReduce") ELSE Goto(r, "backward")
    /\ UNCHANGED <<use_mpi, it, layer, dataOffset, labelOffset, batch, diff, used>>

LeaveLossReduce(r) ==
    /\ pc[r] = "lossReduce" /\ AllEntered(r)
    /\ Enter(r, "accReduce")
    /\ UNCHANGED <<use_mpi, it, layer, dataOffset, labelOffset, batch, diff, used>>

LeaveAccReduce(r) ==
    /\ pc[r] = "accReduce" /\ AllEntered(r)
    /\ Goto(r, "backward")
    /\ UNCHANGED <<use_mpi, it, layer, dataOffset, labelOffset, batch, diff, used>>

\* What df makes of the output_diff_ of a layer and the layer's own input: the
\* loss looks at the labels, the other layers at the derivative behind them.
Derivative(r) == IF layer[r] = LastLayer THEN {<<r, it[r]>>} ELSE diff[r][layer[r]]

\* The backward loop's i-- and its test.
NextLayer(r) ==
    /\ layer' = [layer EXCEPT ![r] = @ - 1]
    /\ Goto(r, IF layer[r] > 1 THEN "backward" ELSE "apply")

\* Mutant: the derivative of the loss is not averaged.
BackwardLocalLoss(r) ==
    /\ pc[r] = "backward"
    /\ diff' = [diff EXCEPT ![r][layer[r] - 1] = Derivative(r)]
    /\ labelOffset' = IF layer[r] = LastLayer
                      THEN [labelOffset EXCEPT ![r] = Advance(@, LabelStride)]
                      ELSE labelOffset
    /\ IF use_mpi /\ layer[r] < LastLayer
       THEN Enter(r, "diffReduce") /\ UNCHANGED layer
       ELSE NextLayer(r)
    /\ UNCHANGED <<use_mpi, it, dataOffset, batch, used>>

\* One round of Net::backward: df writes the derivative by the layer's input
\* into the layer before; L2Norm's then moves on to the next labels.
Backward(r) ==
    /\ pc[r] = "backward"
    /\ diff' = [diff EXCEPT ![r][layer[r] - 1] = Derivative(r)]
    /\ labelOffset' = IF layer[r] = LastLayer
                      THEN [labelOffset EXCEPT ![r] = Advance(@, LabelStride)]
                      ELSE labelOffset
    /\ IF use_mpi
       THEN Enter(r, "diffReduce") /\ UNCHANGED layer
       ELSE NextLayer(r)
    /\ UNCHANGED <<use_mpi, it, dataOffset, batch, used>>

\* MPI_Allreduce(MPI_IN_PLACE, input_diff): a process that has left the call
\* already holds the sum, the others still what they entered it with.
LeaveDiffReduce(r) ==
    /\ pc[r] = "diffReduce" /\ AllEntered(r)
    /\ diff' = [diff EXCEPT ![r][layer[r] - 1] = UNION {diff[s][layer[r] - 1] : s \in Ranks}]
    /\ NextLayer(r)
    /\ UNCHANGED <<use_mpi, it, dataOffset, labelOffset, batch, used>>

\* InnerProduct::applyUpdates asks MPI for the rank even if MPI has not been
\* initialised, which MPI answers by ending the program.
ApplyUpdate(r) ==
    /\ pc[r] = "apply"
    /\ IF use_mpi
       THEN Goto(r, "iterate") /\ it' = [it EXCEPT ![r] = @ + 1]
       ELSE Goto(r, "aborted") /\ UNCHANGED it
    /\ UNCHANGED <<use_mpi, layer, dataOffset, labelOffset, batch, diff, used>>

\* Mutant: a process may also end when its next batch would begin again.
EndMPIAtLastImage(r) ==
    /\ pc[r] = "iterate" /\ (it[r] >= Iters \/ dataOffset[r] + BatchSize > TrainSize)
    /\ IF use_mpi THEN Enter(r, "finalize") ELSE Goto(r, "done")
    /\ UNCHANGED <<use_mpi, it, layer, dataOffset, labelOffset, batch, diff, used>>

\* The end of main: MPI_Finalize.
EndMPI(r) ==
    /\ pc[r] = "iterate" /\ it[r] >= Iters
    /\ IF use_mpi THEN Enter(r, "finalize") ELSE Goto(r, "done")
    /\ UNCHANGED <<use_mpi, it, layer, dataOffset, labelOffset, batch, diff, used>>

LeaveFinalize(r) ==
    /\ pc[r] = "finalize" /\ AllEntered(r)
    /\ Goto(r, "done")
    /\ UNCHANGED <<use_mpi, it, layer, dataOffset, labelOffset, batch, diff, used>>

JobOver ==
    /\ \A r \in Ranks : pc[r] \in {"done", "aborted"}
    /\ UNCHANGED vars

Step(r) ==
    \/ Setup(r) \/ Forward(r) \/ LeaveLossReduce(r) \/ LeaveAccReduce(r)
    \/ Backward(r) \/ LeaveDiffReduce(r) \/ ApplyUpdate(r)
    \/ EndMPI(r) \/ LeaveFinalize(r)

Next == (\E r \in Ranks : Step(r)) \/ JobOver

Spec == Init /\ [][Next]_vars

\* Every process keeps running, and MPI lets a process leave a collective call
\* that all have entered.
FairSpec == Spec /\ \A r \in Ranks : WF_vars(Step(r))

-----------------------------------------------------------------------------

Collectives == {"barrier", "lossReduce", "accReduce", "diffReduce", "finalize"}

Locations == Collectives \cup {"iterate", "backward", "apply", "done", "aborted"}

TypeOK ==
    /\ use_mpi \in BOOLEAN
    /\ pc \in [Ranks -> Locations]
    /\ it \in [Ranks -> 0 .. Iters]
    /\ layer \in [Ranks -> Layers]
    /\ dataOffset \in [Ranks -> Images]
    /\ labelOffset \in [Ranks -> Images]
    /\ batch \in [Ranks -> Images]
    /\ diff \in [Ranks -> [Layers -> SUBSET (Ranks \X (0 .. Iters))]]
    /\ entered \in [Ranks -> Nat]
    /\ used \in [Images -> Nat]

\* The process is between a forward pass and the update after it.
InIteration(r) == pc[r] \in {"lossReduce", "accReduce", "backward", "diffReduce", "apply"}

Batches(r) == IF InIteration(r) THEN it[r] + 1 ELSE it[r]

\* Images and labels stay together although Data and L2Norm advance their
\* offsets in different passes: from the forward pass until df of the loss has
\* used them, the labels are those of the batch; between iterations the next
\* labels are those of the next batch.
LabelsOfBatch ==
    \A r \in Procs :
        /\ pc[r] \in {"lossReduce", "accReduce"} => labelOffset[r] = batch[r]
        /\ pc[r] = "backward" /\ layer[r] = LastLayer => labelOffset[r] = batch[r]
        /\ pc[r] \in {"iterate", "apply"} => labelOffset[r] = dataOffset[r]

\* In one iteration no image is in the batches of two processes.
DisjointBatches ==
    WorldSize * BatchSize <= TrainSize =>
        \A r, s \in Procs :
            r # s /\ InIteration(r) /\ InIteration(s) /\ it[r] = it[s] =>
                ImagesOf(batch[r]) \cap ImagesOf(batch[s]) = {}

\* The training set is used evenly, over all processes and also when its size
\* is not a multiple of the batches: the batches of one iteration are disjoint,
\* and after equally many iterations of all processes no image has been used
\* twice more than another one.
EvenUse ==
    /\ DisjointBatches
    /\ WorldSize * BatchSize <= TrainSize /\ (\A r, s \in Procs : Batches(r) = Batches(s)) =>
          \A i, j \in Images : used[i] <= used[j] + 1

\* Processes that meet in a collective call have made the same one: a loss is
\* never summed with an accuracy, nor one layer's derivatives with another's.
CollectivesMatch ==
    \A r, s \in Procs :
        /\ pc[r] \in Collectives
        /\ pc[s] \in Collectives
        /\ entered[r] = entered[s]
        => pc[r] = pc[s] /\ it[r] = it[s] /\ layer[r] = layer[s]

\* When a process updates its weights, each layer's derivative is the average
\* over all processes' batches of this iteration and of no other.
DiffsOfThisIteration ==
    \A r \in Procs, l \in 0 .. (LastLayer - 1) :
        pc[r] = "apply" => diff[r][l] = {<<s, it[r]>> : s \in Procs}

\* With MPI the training ends for all processes after all of their iterations:
\* none waits in a collective call for one that has gone on.
TrainingEnds == use_mpi => <>(\A r \in Ranks : pc[r] = "done" /\ it[r] = Iters)

\* Violated: so it does for the one process without MPI, which main starts if there is
\* no third argument (asgd.cpp:52).
EndsWithoutMpi == ~use_mpi => <>(pc[0] = "done" /\ it[0] = Iters)
=============================================================================
