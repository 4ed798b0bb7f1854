---------------------------- MODULE TrainerProofs ----------------------------
(* Proofs about the trainer, for any number of processes, batch and training  *)
(* set sizes, iterations and layers: the types, that labels stay with their   *)
(* images, that two processes that meet in a collective call have made the    *)
(* same one, that they update their weights with the same derivatives, and    *)
(* that they use the training set evenly.  Then about what the layers compute *)
(* with: labels are those of the images.  Then about the benchmark: the reports *)
(* are right and in order; and that tensors print their elements in the order  *)
(* of the memory, whatever their shape.  Last that a step of the weights is    *)
(* the gradient of the loss by the chain rule.                                *)
EXTENDS Trainer, Layers, Tensor, NetBenchmark, WellFoundedInduction, FiniteSetTheorems, TLAPS

\* What the offsets are, wherever a process is: the labels are one stride
\* behind the data from the forward pass until df of the loss.
BeforeLossDf(r) ==
    \/ pc[r] \in {"lossReduce", "accReduce"}
    \/ pc[r] = "backward" /\ layer[r] = LastLayer

OffsetsInv ==
    \A r \in Ranks :
        IF BeforeLossDf(r)
        THEN /\ labelOffset[r] = batch[r]
             /\ dataOffset[r] = Advance(batch[r], DataStride)
        ELSE labelOffset[r] = dataOffset[r]

\* In the reductions the layer is still the last one, and in the backward pass
\* it is not the data.
LayerInv ==
    \A r \in Ranks :
        /\ pc[r] \in {"lossReduce", "accReduce"} => layer[r] = LastLayer
        /\ pc[r] \in {"backward", "diffReduce"} => layer[r] > 0
        /\ pc[r] \in {"lossReduce", "accReduce", "backward", "diffReduce", "apply"} => it[r] < Iters

IInv == TypeOK /\ OffsetsInv /\ LayerInv

LEMMA AdvanceType ==
    ASSUME NEW o \in Nat, NEW d \in Nat
    PROVE  Advance(o, d) \in Images
  BY TrainerAssumption DEF Advance, Images

LEMMA StrideType ==
    ASSUME use_mpi \in BOOLEAN
    PROVE  DataStride \in Nat /\ LabelStride = DataStride
  BY TrainerAssumption DEF DataStride, LabelStride

LEMMA IInvInit == Init => IInv
  <1> SUFFICES ASSUME Init PROVE IInv
    OBVIOUS
  <1> USE TrainerAssumption DEF Init, Ranks, Images, Layers
  <1>1. TypeOK
    BY DEF TypeOK, Locations, Collectives
  <1>2. OffsetsInv
    BY DEF OffsetsInv, BeforeLossDf
  <1>3. LayerInv
    BY DEF LayerInv
  <1> QED BY <1>1, <1>2, <1>3 DEF IInv

LEMMA MoveType ==
    ASSUME TypeOK, NEW r \in Ranks, NEW where \in Locations, Goto(r, where) \/ Enter(r, where)
    PROVE  pc' \in [Ranks -> Locations] /\ entered' \in [Ranks -> Nat]
  <1>1. pc' = [pc EXCEPT ![r] = where]
    BY DEF Goto, Enter
  <1>2. entered' = entered \/ entered' = [entered EXCEPT ![r] = entered[r] + 1]
    BY DEF Goto, Enter
  <1>3. entered[r] + 1 \in Nat
    BY DEF TypeOK
  <1>4. entered' \in [Ranks -> Nat]
    BY <1>2, <1>3 DEF TypeOK
  <1> QED BY <1>1, <1>4 DEF TypeOK

\* Each step changes the locations and offsets of the process that takes it.
LEMMA TypeStep == IInv /\ [Next]_vars => TypeOK'
  <1> SUFFICES ASSUME IInv, [Next]_vars PROVE TypeOK'
    OBVIOUS
  <1> USE TrainerAssumption DEF IInv
  <1>a. {"barrier", "lossReduce", "accReduce", "diffReduce", "finalize",
         "iterate", "backward", "apply", "done", "aborted"} = Locations
    BY DEF Locations, Collectives
  <1>0. Images \subseteq Nat /\ (\A r \in Ranks : r \in Nat /\ r * BatchSize \in Nat)
    BY DEF Images, Ranks
  <1>1. ASSUME NEW r \in Ranks, Setup(r) PROVE TypeOK'
    <2>1. FirstImage(r) \in Nat /\ r * BatchSize \in Nat
      BY <1>0 DEF FirstImage
    <2>2. Advance(FirstImage(r), 0) \in Images /\ Advance(r * BatchSize, 0) \in Images
      BY <2>1, AdvanceType
    <2>3. pc' \in [Ranks -> Locations] /\ entered' \in [Ranks -> Nat]
      BY <1>1, <1>a, MoveType DEF Setup
    <2> QED BY <1>1, <2>2, <2>3 DEF Setup, TypeOK
  <1>2. ASSUME NEW r \in Ranks, Forward(r) PROVE TypeOK'
    <2>1. Advance(dataOffset[r], DataStride) \in Images
      BY <1>0, StrideType, AdvanceType DEF TypeOK
    <2>2. LastLayer \in Layers
      BY DEF Layers
    <2>3. used' \in [Images -> Nat]
      BY <1>2 DEF Forward, TypeOK
    <2>4. Enter(r, "lossReduce") \/ Goto(r, "backward")
      BY <1>2 DEF Forward
    <2>5. pc' \in [Ranks -> Locations] /\ entered' \in [Ranks -> Nat]
      BY <2>4, <1>a, MoveType
    <2> QED BY <1>2, <2>1, <2>2, <2>3, <2>5 DEF Forward, TypeOK
  <1>3. ASSUME NEW r \in Ranks, LeaveLossReduce(r) \/ LeaveAccReduce(r) \/ EndMPI(r) \/ LeaveFinalize(r)
        PROVE  TypeOK'
    <2>1. \/ Enter(r, "accReduce") \/ Goto(r, "backward")
          \/ Enter(r, "finalize") \/ Goto(r, "done")
      BY <1>3 DEF LeaveLossReduce, LeaveAccReduce, EndMPI, LeaveFinalize
    <2>2. pc' \in [Ranks -> Locations] /\ entered' \in [Ranks -> Nat]
      BY <2>1, <1>a, MoveType
    <2>3. UNCHANGED <<use_mpi, it, layer, dataOffset, labelOffset, batch, diff, used>>
      BY <1>3 DEF LeaveLossReduce, LeaveAccReduce, EndMPI, LeaveFinalize
    <2> QED BY <2>2, <2>3 DEF TypeOK
  <1>4. ASSUME NEW r \in Ranks, Backward(r) PROVE TypeOK'
    <2>1. pc[r] = "backward" /\ layer[r] \in Layers /\ layer[r] > 0 /\ it[r] \in 0 .. Iters
      BY <1>4 DEF Backward, LayerInv, TypeOK
    <2>2. layer[r] - 1 \in Layers
      BY <2>1 DEF Layers
    <2>3. Derivative(r) \in SUBSET (Ranks \X (0 .. Iters))
      BY <2>1 DEF Derivative, TypeOK
    <2>4. diff' \in [Ranks -> [Layers -> SUBSET (Ranks \X (0 .. Iters))]]
      BY <1>4, <2>2, <2>3 DEF Backward, TypeOK
    <2>5. labelOffset' \in [Ranks -> Images]
      <3>1. Advance(labelOffset[r], LabelStride) \in Images
        BY <1>0, StrideType, AdvanceType DEF TypeOK
      <3> QED BY <1>4, <3>1 DEF Backward, TypeOK
    <2>6. layer' \in [Ranks -> Layers]
      BY <1>4, <2>2 DEF Backward, NextLayer, TypeOK
    <2>7. Enter(r, "diffReduce") \/ Goto(r, "backward") \/ Goto(r, "apply")
      BY <1>4 DEF Backward, NextLayer
    <2>8. pc' \in [Ranks -> Locations] /\ entered' \in [Ranks -> Nat]
      BY <2>7, <1>a, MoveType
    <2>9. UNCHANGED <<use_mpi, it, dataOffset, batch, used>>
      BY <1>4 DEF Backward
    <2> QED BY <2>4, <2>5, <2>6, <2>8, <2>9 DEF TypeOK
  <1>5. ASSUME NEW r \in Ranks, LeaveDiffReduce(r) PROVE TypeOK'
    <2>1. layer[r] \in Layers /\ layer[r] > 0
      BY <1>5 DEF LeaveDiffReduce, LayerInv, TypeOK
    <2>2. layer[r] - 1 \in Layers
      BY <2>1 DEF Layers
    <2>3. UNION {diff[s][layer[r] - 1] : s \in Ranks} \in SUBSET (Ranks \X (0 .. Iters))
      BY <2>2 DEF TypeOK
    <2>4. diff' \in [Ranks -> [Layers -> SUBSET (Ranks \X (0 .. Iters))]]
      BY <1>5, <2>2, <2>3 DEF LeaveDiffReduce, TypeOK
    <2>5. layer' \in [Ranks -> Layers]
      BY <1>5, <2>2 DEF LeaveDiffReduce, NextLayer, TypeOK
    <2>6. Goto(r, "backward") \/ Goto(r, "apply")
      BY <1>5 DEF LeaveDiffReduce, NextLayer
    <2>7. pc' \in [Ranks -> Locations] /\ entered' \in [Ranks -> Nat]
      BY <2>6, <1>a, MoveType
    <2>8. UNCHANGED <<use_mpi, it, dataOffset, labelOffset, batch, used>>
      BY <1>5 DEF LeaveDiffReduce
    <2> QED BY <2>4, <2>5, <2>7, <2>8 DEF TypeOK
  <1>6. ASSUME NEW r \in Ranks, ApplyUpdate(r) PROVE TypeOK'
    <2>1. it[r] < Iters /\ it[r] \in 0 .. Iters
      BY <1>6 DEF ApplyUpdate, LayerInv, TypeOK
    <2>2. it' \in [Ranks -> 0 .. Iters]
      <3>1. it[r] + 1 \in 0 .. Iters
        BY <2>1
      <3>2. it' = it \/ it' = [it EXCEPT ![r] = it[r] + 1]
        BY <1>6 DEF ApplyUpdate
      <3> QED BY <3>1, <3>2 DEF TypeOK
    <2>3. Goto(r, "iterate") \/ Goto(r, "aborted")
      BY <1>6 DEF ApplyUpdate
    <2>4. pc' \in [Ranks -> Locations] /\ entered' \in [Ranks -> Nat]
      BY <2>3, <1>a, MoveType
    <2>5. UNCHANGED <<use_mpi, layer, dataOffset, labelOffset, batch, diff, used>>
      BY <1>6 DEF ApplyUpdate
    <2> QED BY <2>2, <2>4, <2>5 DEF TypeOK
  <1>7. ASSUME UNCHANGED vars PROVE TypeOK'
    BY <1>7 DEF vars, TypeOK
  <1> QED BY <1>1, <1>2, <1>3, <1>4, <1>5, <1>6, <1>7 DEF Next, Step, JobOver

LEMMA LayerStep == IInv /\ [Next]_vars => LayerInv'
  <1> SUFFICES ASSUME IInv, [Next]_vars, NEW q \in Ranks
               PROVE  /\ pc'[q] \in {"lossReduce", "accReduce"} => layer'[q] = LastLayer
                      /\ pc'[q] \in {"backward", "diffReduce"} => layer'[q] > 0
                      /\ pc'[q] \in {"lossReduce", "accReduce", "backward", "diffReduce", "apply"}
                            => it'[q] < Iters
    BY DEF LayerInv, Ranks
  <1> USE TrainerAssumption DEF IInv, TypeOK, LayerInv, Goto, Enter, Layers
  <1>1. CASE UNCHANGED vars
    BY <1>1 DEF vars
  <1>2. CASE \E r \in Ranks : Step(r)
    <2> PICK r \in Ranks : Step(r)
      BY <1>2
    <2>1. CASE Setup(r) BY <2>1 DEF Setup
    <2>2. CASE Forward(r) BY <2>2 DEF Forward
    <2>3. CASE LeaveLossReduce(r) BY <2>3 DEF LeaveLossReduce
    <2>4. CASE LeaveAccReduce(r) BY <2>4 DEF LeaveAccReduce
    <2>5. CASE Backward(r) BY <2>5 DEF Backward, NextLayer
    <2>6. CASE LeaveDiffReduce(r) BY <2>6 DEF LeaveDiffReduce, NextLayer
    <2>7. CASE ApplyUpdate(r) BY <2>7 DEF ApplyUpdate
    <2>8. CASE EndMPI(r) \/ LeaveFinalize(r) BY <2>8 DEF EndMPI, LeaveFinalize
    <2> QED BY <2>1, <2>2, <2>3, <2>4, <2>5, <2>6, <2>7, <2>8 DEF Step
  <1> QED BY <1>1, <1>2 DEF Next, JobOver

LEMMA OffsetsStep == IInv /\ [Next]_vars => OffsetsInv'
  <1> SUFFICES ASSUME IInv, [Next]_vars, NEW q \in Ranks
               PROVE  IF BeforeLossDf(q)'
                      THEN /\ labelOffset'[q] = batch'[q]
                           /\ dataOffset'[q] = Advance(batch'[q], DataStride')
                      ELSE labelOffset'[q] = dataOffset'[q]
    BY DEF OffsetsInv, Ranks, Advance
  <1> USE TrainerAssumption DEF IInv, TypeOK, OffsetsInv, LayerInv, BeforeLossDf, Goto, Enter
  <1>1. CASE UNCHANGED vars
    BY <1>1 DEF vars, DataStride
  <1>2. CASE \E r \in Ranks : Step(r)
    <2> PICK r \in Ranks : Step(r)
      BY <1>2
    <2>0. use_mpi' = use_mpi /\ DataStride' = DataStride
      BY DEF Step, Setup, Forward, LeaveLossReduce, LeaveAccReduce, Backward, LeaveDiffReduce,
             ApplyUpdate, EndMPI, LeaveFinalize, DataStride
    <2>1. CASE Setup(r) BY <2>0, <2>1 DEF Setup, FirstImage
    <2>2. CASE Forward(r) BY <2>0, <2>2 DEF Forward
    <2>3. CASE LeaveLossReduce(r) BY <2>0, <2>3 DEF LeaveLossReduce
    <2>4. CASE LeaveAccReduce(r) BY <2>0, <2>4 DEF LeaveAccReduce
    <2>5. CASE Backward(r)
      <3>1. LabelStride = DataStride
        BY StrideType
      <3>2. layer[r] \in Int /\ layer[r] <= LastLayer /\ LastLayer \in Int
        BY DEF Layers
      <3>3. /\ pc[r] = "backward"
            /\ pc'[r] \in {"diffReduce", "backward", "apply"}
            /\ pc'[r] = "backward" => layer'[r] = layer[r] - 1
            /\ \A s \in Ranks \ {r} : pc'[s] = pc[s] /\ layer'[s] = layer[s] /\ labelOffset'[s] = labelOffset[s]
        BY <2>5 DEF Backward, NextLayer
      <3>4. labelOffset'[r] = IF layer[r] = LastLayer THEN Advance(labelOffset[r], LabelStride) ELSE labelOffset[r]
        BY <2>5 DEF Backward
      <3>5. UNCHANGED <<dataOffset, batch>>
        BY <2>5 DEF Backward
      <3>6. ~BeforeLossDf(r)'
        BY <3>2, <3>3
      <3>7. CASE q = r
        BY <3>1, <3>3, <3>4, <3>5, <3>6, <3>7
      <3>8. CASE q # r
        BY <2>0, <3>3, <3>5, <3>8
      <3> QED BY <3>7, <3>8
    <2>6. CASE LeaveDiffReduce(r)
      <3>2. layer[r] \in Int /\ layer[r] <= LastLayer /\ LastLayer \in Int
        BY DEF Layers
      <3> QED BY <2>0, <2>6, <3>2 DEF LeaveDiffReduce, NextLayer
    <2>7. CASE ApplyUpdate(r) BY <2>0, <2>7 DEF ApplyUpdate
    <2>8. CASE EndMPI(r) \/ LeaveFinalize(r) BY <2>0, <2>8 DEF EndMPI, LeaveFinalize
    <2> QED BY <2>1, <2>2, <2>3, <2>4, <2>5, <2>6, <2>7, <2>8 DEF Step
  <1> QED BY <1>1, <1>2 DEF Next, JobOver

LEMMA Invariance == Spec => []IInv
  <1>1. IInv /\ [Next]_vars => IInv'
    BY TypeStep, LayerStep, OffsetsStep DEF IInv
  <1> QED BY IInvInit, <1>1, PTL DEF Spec

\* All variables have their types (Trainer.tla, TypeOK).
THEOREM TypeCorrect == Spec => []TypeOK
  BY Invariance, PTL DEF IInv

LEMMA LabelsFollow == IInv => LabelsOfBatch
  <1> SUFFICES ASSUME IInv, NEW r \in Procs
               PROVE  /\ pc[r] \in {"lossReduce", "accReduce"} => labelOffset[r] = batch[r]
                      /\ pc[r] = "backward" /\ layer[r] = LastLayer => labelOffset[r] = batch[r]
                      /\ pc[r] \in {"iterate", "apply"} => labelOffset[r] = dataOffset[r]
    BY DEF LabelsOfBatch
  <1>1. r \in Ranks
    BY TrainerAssumption DEF Procs, Ranks
  <1>2. IF BeforeLossDf(r)
        THEN labelOffset[r] = batch[r] /\ dataOffset[r] = Advance(batch[r], DataStride)
        ELSE labelOffset[r] = dataOffset[r]
    BY <1>1 DEF IInv, OffsetsInv
  <1> QED BY <1>2 DEF BeforeLossDf

\* Data and L2Norm read images and labels of the same positions, in every
\* iteration of every process (data.cpp:71-88, loss.cpp:57-108).
THEOREM LabelsStayWithImages == Spec => []LabelsOfBatch
  BY Invariance, LabelsFollow, PTL

-----------------------------------------------------------------------------

\* The calls of one iteration: the loss, the accuracy, and one per layer.
Calls == LastLayer + 2

\* How many of them a process has entered, by where it is.
CallInIteration(r) ==
    CASE pc[r] \in {"barrier", "iterate"} -> 0
      [] pc[r] = "lossReduce" -> 1
      [] pc[r] = "accReduce" -> 2
      [] pc[r] = "backward" -> 2 + LastLayer - layer[r]
      [] pc[r] = "diffReduce" -> 3 + LastLayer - layer[r]
      [] pc[r] = "apply" -> Calls
      [] OTHER -> 1

\* With MPI a process's place in the program tells how many calls it has made.
EnteredInv ==
    use_mpi =>
        \A r \in Ranks :
            /\ entered[r] = 1 + it[r] * Calls + CallInIteration(r)
            /\ pc[r] = "barrier" => it[r] = 0 /\ layer[r] = LastLayer
            /\ pc[r] = "apply" => layer[r] = 0
            /\ pc[r] \in {"iterate", "finalize", "done"} => layer[r] = IF it[r] = 0 THEN LastLayer ELSE 0
            /\ pc[r] \in {"finalize", "done"} => it[r] = Iters
            /\ pc[r] # "aborted"

LEMMA CallsNat ==
    /\ Calls \in Nat /\ Calls > 2
    /\ \A i \in Nat : i * Calls \in Nat /\ (i + 1) * Calls = i * Calls + Calls
  BY TrainerAssumption DEF Calls

\* An iteration and a call in it are recovered from the number of calls.
LEMMA CallsSeparate ==
    ASSUME NEW i \in Nat, NEW j \in Nat, NEW a \in 1 .. Calls, NEW b \in 1 .. Calls,
           i * Calls + a = j * Calls + b
    PROVE  i = j /\ a = b
  <1>0. Calls \in Nat
    BY CallsNat
  <1>1. ASSUME NEW m \in Nat, NEW n \in Nat, m < n
        PROVE  m * Calls + Calls <= n * Calls
    <2>1. PICK d \in Nat : n = m + 1 + d
      <3>1. n - m - 1 \in Nat
        BY <1>1
      <3> QED BY <3>1
    <2>2. (m + 1 + d) * Calls = m * Calls + Calls + d * Calls /\ d * Calls \in Nat /\ m * Calls \in Nat
      BY <1>0
    <2> QED BY <1>0, <2>1, <2>2
  <1>2. i * Calls \in Nat /\ j * Calls \in Nat
    BY <1>0
  <1>3. ~(i < j)
    BY <1>0, <1>1, <1>2
  <1>4. ~(j < i)
    BY <1>0, <1>1, <1>2
  <1> QED BY <1>2, <1>3, <1>4

LEMMA EnteredStep == IInv /\ EnteredInv /\ [Next]_vars => EnteredInv'
  <1> SUFFICES ASSUME IInv, EnteredInv, [Next]_vars, use_mpi', NEW q \in Ranks
               PROVE  (/\ entered[q] = 1 + it[q] * Calls + CallInIteration(q)
                       /\ pc[q] = "barrier" => it[q] = 0 /\ layer[q] = LastLayer
                       /\ pc[q] = "apply" => layer[q] = 0
                       /\ pc[q] \in {"iterate", "finalize", "done"} => layer[q] = IF it[q] = 0 THEN LastLayer ELSE 0
                       /\ pc[q] \in {"finalize", "done"} => it[q] = Iters
                       /\ pc[q] # "aborted")'
    BY DEF EnteredInv, Ranks
  <1>0. use_mpi' = use_mpi
    BY DEF Next, Step, JobOver, vars, Setup, Forward, LeaveLossReduce, LeaveAccReduce, Backward,
           LeaveDiffReduce, ApplyUpdate, EndMPI, LeaveFinalize
  <1>1. CASE UNCHANGED vars
    BY <1>0, <1>1 DEF vars, EnteredInv, CallInIteration
  <1>2. CASE \E r \in Ranks : Step(r)
    <2> PICK r \in Ranks : Step(r)
      BY <1>2
    <2>0. use_mpi
      BY <1>0
    <2>1. CASE q # r
      <3>1. UNCHANGED <<pc[q], it[q], layer[q], entered[q]>>
        BY <2>1 DEF IInv, TypeOK, Goto, Enter, Step, Setup, Forward, LeaveLossReduce, LeaveAccReduce,
                    Backward, NextLayer, LeaveDiffReduce, ApplyUpdate, EndMPI, LeaveFinalize
      <3> QED BY <1>0, <3>1 DEF EnteredInv, CallInIteration
    <2>2. CASE q = r
      <3>0. /\ it[r] \in Nat /\ it[r] <= Iters /\ layer[r] \in Int /\ layer[r] <= LastLayer
            /\ LastLayer \in Nat \ {0} /\ entered[r] \in Nat /\ Iters \in Nat
            /\ Calls = LastLayer + 2 /\ it[r] * Calls \in Nat
            /\ (it[r] + 1) * Calls = it[r] * Calls + Calls
        <4>1. /\ it[r] \in Nat /\ it[r] <= Iters /\ layer[r] \in Int /\ layer[r] <= LastLayer
              /\ LastLayer \in Nat \ {0} /\ entered[r] \in Nat /\ Iters \in Nat
          BY TrainerAssumption DEF IInv, TypeOK, Layers
        <4>2. Calls = LastLayer + 2
          BY DEF Calls
        <4> QED BY <4>1, <4>2, CallsNat
      <3>1. /\ entered[r] = 1 + it[r] * Calls + CallInIteration(r)
            /\ pc[r] = "barrier" => it[r] = 0 /\ layer[r] = LastLayer
            /\ pc[r] = "apply" => layer[r] = 0
            /\ pc[r] \in {"iterate", "finalize", "done"} => layer[r] = IF it[r] = 0 THEN LastLayer ELSE 0
            /\ pc[r] \in {"finalize", "done"} => it[r] = Iters
        BY <1>0 DEF EnteredInv
      <3>2. /\ pc[r] \in {"backward", "diffReduce"} => layer[r] > 0
            /\ pc[r] \in {"lossReduce", "accReduce"} => layer[r] = LastLayer
        BY DEF IInv, LayerInv
      <3> USE <1>0, <2>2, <3>0, <3>1, <3>2 DEF Goto, Enter, CallInIteration
      <3>3. CASE Setup(r) BY <3>3 DEF Setup, IInv, TypeOK
      <3>4. CASE Forward(r)
        <4>1. pc[r] = "iterate" /\ it'[r] = it[r] /\ layer'[r] = LastLayer
          BY <3>4 DEF Forward, IInv, TypeOK
        <4>2. Enter(r, "lossReduce")
          BY <2>0, <3>4 DEF Forward
        <4>3. pc'[r] = "lossReduce" /\ entered'[r] = entered[r] + 1
          BY <4>2 DEF IInv, TypeOK
        <4>4. CallInIteration(r)' = 1 /\ CallInIteration(r) = 0
          BY <4>1, <4>3
        <4>5. it'[r] * Calls = it[r] * Calls
          BY <4>1
        <4>6. entered'[r] = 1 + it'[r] * Calls + CallInIteration(r)'
          BY <4>3, <4>4, <4>5
        <4> QED BY <4>1, <4>3, <4>6
      <3>5. CASE LeaveLossReduce(r) BY <3>5 DEF LeaveLossReduce, IInv, TypeOK
      <3>6. CASE LeaveAccReduce(r) BY <3>6 DEF LeaveAccReduce, IInv, TypeOK
      <3>7. CASE Backward(r) BY <3>7 DEF Backward, IInv, TypeOK
      <3>8. CASE LeaveDiffReduce(r) BY <3>8 DEF LeaveDiffReduce, NextLayer, IInv, TypeOK
      <3>9. CASE ApplyUpdate(r) BY <3>9 DEF ApplyUpdate, IInv, TypeOK
      <3>10. CASE EndMPI(r)
        <4>1. pc[r] = "iterate" /\ it'[r] = it[r] /\ layer'[r] = layer[r] /\ it[r] = Iters
          BY <3>10 DEF EndMPI
        <4>2. Enter(r, "finalize")
          BY <2>0, <3>10 DEF EndMPI
        <4>3. pc'[r] = "finalize" /\ entered'[r] = entered[r] + 1
          BY <4>2 DEF IInv, TypeOK
        <4>4. CallInIteration(r)' = 1 /\ CallInIteration(r) = 0
          BY <4>1, <4>3
        <4>5. it'[r] * Calls = it[r] * Calls
          BY <4>1
        <4>6. entered'[r] = 1 + it'[r] * Calls + CallInIteration(r)'
          BY <4>3, <4>4, <4>5
        <4> QED BY <4>1, <4>3, <4>6
      <3>11. CASE LeaveFinalize(r) BY <3>11 DEF LeaveFinalize, IInv, TypeOK
      <3> QED BY <3>3, <3>4, <3>5, <3>6, <3>7, <3>8, <3>9, <3>10, <3>11 DEF Step
    <2> QED BY <2>1, <2>2
  <1> QED BY <1>1, <1>2 DEF Next, JobOver

LEMMA EnteredInvInit == Init => EnteredInv
  <1> SUFFICES ASSUME Init, use_mpi PROVE EnteredInv
    BY DEF EnteredInv
  <1> QED BY TrainerAssumption, CallsNat DEF Init, EnteredInv, CallInIteration, Calls

LEMMA SameCall == IInv /\ EnteredInv => CollectivesMatch
  <1> SUFFICES ASSUME IInv, EnteredInv, NEW r \in Procs, NEW s \in Procs,
                      pc[r] \in Collectives, pc[s] \in Collectives, entered[r] = entered[s]
               PROVE  pc[r] = pc[s] /\ it[r] = it[s] /\ layer[r] = layer[s]
    BY DEF CollectivesMatch
  <1>1. CASE ~use_mpi
    BY <1>1 DEF Procs
  <1>2. CASE use_mpi
    <2>1. \A q \in {r, s} :
            /\ entered[q] = 1 + it[q] * Calls + CallInIteration(q)
            /\ pc[q] = "barrier" => it[q] = 0 /\ layer[q] = LastLayer
            /\ pc[q] = "finalize" => layer[q] = (IF it[q] = 0 THEN LastLayer ELSE 0) /\ it[q] = Iters
      BY <1>2 DEF Procs, EnteredInv
    <2>2. \A q \in {r, s} :
            /\ it[q] \in Nat /\ layer[q] \in Int /\ layer[q] <= LastLayer
            /\ pc[q] \in {"lossReduce", "accReduce"} => layer[q] = LastLayer
            /\ pc[q] = "diffReduce" => layer[q] > 0
            /\ pc[q] \in {"lossReduce", "accReduce", "diffReduce"} => it[q] < Iters
      BY <1>2, TrainerAssumption DEF IInv, TypeOK, LayerInv, Layers, Procs
    <2>3. Calls = LastLayer + 2 /\ LastLayer \in Nat \ {0}
      BY TrainerAssumption DEF Calls
    <2>4. \A q \in {r, s} : it[q] * Calls \in Nat
      BY <2>2, CallsNat
    <2>5. \A q \in {r, s} : pc[q] # "barrier" => CallInIteration(q) \in 1 .. Calls
      BY <2>2, <2>3 DEF CallInIteration, Collectives
    <2>6. \A q \in {r, s} : pc[q] = "barrier" => entered[q] = 1
      BY <2>1, <2>3 DEF CallInIteration
    <2>7. \A q \in {r, s} : pc[q] # "barrier" => entered[q] > 1
      BY <2>1, <2>3, <2>4, <2>5
    <2>8. CASE pc[r] = "barrier"
      BY <2>1, <2>6, <2>7, <2>8
    <2>9. CASE pc[r] # "barrier"
      <3>1. pc[s] # "barrier"
        BY <2>6, <2>7, <2>9
      <3>2. it[r] * Calls + CallInIteration(r) = it[s] * Calls + CallInIteration(s)
        BY <2>1, <2>3, <2>4, <2>5, <2>9, <3>1
      <3>3. it[r] = it[s] /\ CallInIteration(r) = CallInIteration(s)
        BY <2>2, <2>5, <2>9, <3>1, <3>2, CallsSeparate
      <3>4. pc[r] = pc[s]
        BY <2>1, <2>2, <2>3, <2>9, <3>1, <3>3 DEF CallInIteration, Collectives
      <3>5. CASE pc[r] = "diffReduce"
        <4>1. 3 + LastLayer - layer[r] = 3 + LastLayer - layer[s]
          BY <3>3, <3>4, <3>5 DEF CallInIteration
        <4> QED BY <2>2, <2>3, <3>3, <3>4, <4>1
      <3>6. CASE pc[r] \in {"lossReduce", "accReduce"}
        BY <2>2, <3>3, <3>4, <3>6
      <3>7. CASE pc[r] = "finalize"
        BY <2>1, <3>3, <3>4, <3>7
      <3> QED BY <2>9, <3>3, <3>4, <3>5, <3>6, <3>7 DEF Collectives
    <2> QED BY <2>8, <2>9
  <1> QED BY <1>1, <1>2

\* Processes that meet in a collective call have made the same one, for the
\* same iteration and layer (asgd.cpp:96-118, net.cpp:44-78).
THEOREM SameCollective == Spec => []CollectivesMatch
  <1>1. IInv /\ EnteredInv /\ [Next]_vars => (IInv /\ EnteredInv)'
    BY TypeStep, LayerStep, OffsetsStep, EnteredStep DEF IInv
  <1>2. Spec => [](IInv /\ EnteredInv)
    BY IInvInit, EnteredInvInit, <1>1, PTL DEF Spec
  <1> QED BY <1>2, SameCall, PTL

-----------------------------------------------------------------------------
(* What a process finds in the others' derivatives when it leaves an          *)
(* Allreduce in place, where some still hold their own and others the sum.    *)

AllBatches(i) == {<<s, i>> : s \in Ranks}

\* A process that waits in a call has entered one more than all have, at most.
WaitInv ==
    use_mpi =>
        \A r, s \in Ranks :
            entered[s] >= entered[r] - (IF pc[r] \in Collectives THEN 1 ELSE 0)

Diffs(r) ==
    /\ pc[r] = "diffReduce" =>
          diff[r][layer[r] - 1] = IF layer[r] = LastLayer THEN {<<r, it[r]>>} ELSE AllBatches(it[r])
    /\ pc[r] \in {"backward", "diffReduce"} =>
          \A l \in layer[r] .. (LastLayer - 1) : diff[r][l] = AllBatches(it[r])
    /\ pc[r] = "apply" =>
          \A l \in 0 .. (LastLayer - 1) : diff[r][l] = AllBatches(it[r])
    /\ pc[r] \in {"iterate", "lossReduce", "finalize"} /\ it[r] > 0 =>
          \A l \in 0 .. (LastLayer - 1) : diff[r][l] = AllBatches(it[r] - 1)

DiffInv == use_mpi => \A r \in Ranks : Diffs(r)

\* A step changes the place of the process that takes it only.
LEMMA OthersStay ==
    ASSUME TypeOK, NEW r \in Ranks, Step(r), NEW s \in Ranks, s # r
    PROVE  UNCHANGED <<pc[s], it[s], layer[s], entered[s], diff[s]>>
  BY DEF TypeOK, Goto, Enter, Step, Setup, Forward, LeaveLossReduce, LeaveAccReduce,
         Backward, NextLayer, LeaveDiffReduce, ApplyUpdate, EndMPI, LeaveFinalize

LEMMA MpiStays == [Next]_vars => use_mpi' = use_mpi
  BY DEF Next, Step, JobOver, vars, Setup, Forward, LeaveLossReduce, LeaveAccReduce, Backward,
         LeaveDiffReduce, ApplyUpdate, EndMPI, LeaveFinalize

\* With MPI a process enters a call when it comes to one, and leaves one when
\* all have entered it.
LEMMA CallsStep ==
    ASSUME TypeOK, use_mpi, NEW r \in Ranks, Step(r)
    PROVE  /\ entered'[r] = entered[r] + (IF pc'[r] \in Collectives THEN 1 ELSE 0)
           /\ pc[r] \in Collectives => AllEntered(r)
  <1>0. entered \in [Ranks -> Nat] /\ pc \in [Ranks -> Locations]
    BY DEF TypeOK
  <1>1. ASSUME NEW c \in Collectives, Enter(r, c)
        PROVE  entered'[r] = entered[r] + (IF pc'[r] \in Collectives THEN 1 ELSE 0)
    BY <1>0, <1>1 DEF Enter
  <1>2. ASSUME NEW where \in Locations \ Collectives, Goto(r, where)
        PROVE  entered'[r] = entered[r] + (IF pc'[r] \in Collectives THEN 1 ELSE 0)
    BY <1>0, <1>2 DEF Goto
  <1>3. /\ {"lossReduce", "accReduce", "diffReduce", "finalize"} \subseteq Collectives
        /\ {"iterate", "backward", "apply", "done", "aborted"} \subseteq Locations \ Collectives
    BY DEF Collectives, Locations
  <1>4. CASE Setup(r) BY <1>2, <1>3, <1>4 DEF Setup
  <1>5. CASE Forward(r) BY <1>1, <1>3, <1>5 DEF Forward, Collectives
  <1>6. CASE LeaveLossReduce(r) BY <1>1, <1>3, <1>6 DEF LeaveLossReduce
  <1>7. CASE LeaveAccReduce(r) BY <1>2, <1>3, <1>7 DEF LeaveAccReduce
  <1>8. CASE Backward(r) BY <1>1, <1>3, <1>8 DEF Backward, Collectives
  <1>9. CASE LeaveDiffReduce(r) BY <1>2, <1>3, <1>9 DEF LeaveDiffReduce, NextLayer
  <1>10. CASE ApplyUpdate(r) BY <1>2, <1>3, <1>10 DEF ApplyUpdate, Collectives
  <1>11. CASE EndMPI(r) BY <1>1, <1>3, <1>11 DEF EndMPI, Collectives
  <1>12. CASE LeaveFinalize(r) BY <1>2, <1>3, <1>12 DEF LeaveFinalize
  <1> QED BY <1>4, <1>5, <1>6, <1>7, <1>8, <1>9, <1>10, <1>11, <1>12 DEF Step

LEMMA WaitStep ==
    ASSUME TypeOK, WaitInv, use_mpi, NEW r \in Ranks, Step(r)
    PROVE  WaitInv'
  <1> SUFFICES ASSUME NEW p \in Ranks, NEW q \in Ranks
               PROVE  entered'[q] >= entered'[p] - (IF pc'[p] \in Collectives THEN 1 ELSE 0)
    BY DEF WaitInv
  <1>0. /\ \A s \in Ranks : entered[s] \in Nat
        /\ \A s \in Ranks \ {r} : entered'[s] = entered[s] /\ pc'[s] = pc[s]
        /\ entered'[r] = entered[r] + (IF pc'[r] \in Collectives THEN 1 ELSE 0)
        /\ \A s \in Ranks : entered[s] >= entered[r]
        /\ \A s, t \in Ranks : entered[t] >= entered[s] - (IF pc[s] \in Collectives THEN 1 ELSE 0)
    <2>1. pc[r] \notin Collectives => \A s \in Ranks : entered[s] >= entered[r]
      BY DEF WaitInv, TypeOK
    <2> QED BY <2>1, CallsStep, OthersStay DEF TypeOK, WaitInv, AllEntered
  <1>1. CASE p = r
    BY <1>0, <1>1
  <1>2. CASE p # r
    BY <1>0, <1>2
  <1> QED BY <1>1, <1>2

\* Where the others may be when a process leaves an Allreduce of derivatives.
LEMMA OthersAtReduce ==
    ASSUME IInv, EnteredInv, WaitInv, use_mpi, NEW r \in Ranks, pc[r] = "diffReduce", AllEntered(r),
           NEW s \in Ranks
    PROVE  \/ pc[s] = "diffReduce" /\ layer[s] = layer[r] /\ it[s] = it[r]
           \/ pc[s] \in {"backward", "diffReduce"} /\ layer[s] = layer[r] - 1 /\ it[s] = it[r]
           \/ pc[s] = "apply" /\ layer[r] = 1 /\ it[s] = it[r]
           \/ pc[s] \in {"iterate", "lossReduce", "finalize"} /\ layer[r] = 1 /\ it[s] = it[r] + 1
  <1> DEFINE c == 3 + LastLayer - layer[r]
             d == CallInIteration(s)
  <1>1. /\ it[r] \in Nat /\ it[r] < Iters /\ it[s] \in Nat /\ Iters \in Nat
        /\ layer[r] \in Nat \ {0} /\ layer[r] <= LastLayer
        /\ layer[s] \in Nat /\ layer[s] <= LastLayer
        /\ pc[s] \in {"backward", "diffReduce"} => layer[s] > 0
        /\ LastLayer \in Nat \ {0} /\ Calls = LastLayer + 2
        /\ pc[s] \in Locations
    BY TrainerAssumption DEF IInv, TypeOK, LayerInv, Layers, Calls
  <1>2. /\ c \in 3 .. Calls
        /\ d \in 0 .. Calls
        /\ d = 0 <=> pc[s] \in {"barrier", "iterate"}
    BY <1>1 DEF CallInIteration
  <1>3. /\ it[r] * Calls \in Nat /\ it[s] * Calls \in Nat
        /\ (it[r] + 1) * Calls = it[r] * Calls + Calls
        /\ Calls \in Nat
    BY <1>1, CallsNat
  <1>4. /\ entered[r] = 1 + it[r] * Calls + c
        /\ entered[s] = 1 + it[s] * Calls + d
        /\ pc[s] = "barrier" => it[s] = 0
        /\ pc[s] \in {"finalize", "done"} => it[s] = Iters
        /\ pc[s] # "aborted"
    BY DEF EnteredInv, CallInIteration
  <1>5. \/ entered[s] = entered[r]
        \/ entered[s] = entered[r] + 1 /\ pc[s] \in Collectives
    <2>1. entered[s] >= entered[r]
      BY DEF AllEntered
    <2>2. entered[r] >= entered[s] - (IF pc[s] \in Collectives THEN 1 ELSE 0)
      BY DEF WaitInv
    <2> QED BY <1>1, <1>2, <1>3, <1>4, <2>1, <2>2
  <1> HIDE DEF c, d
  <1>6. CASE pc[s] = "barrier"
    <2>1. it[s] * Calls = 0 /\ d = 0
      BY <1>2, <1>3, <1>4, <1>6
    <2> QED BY <1>2, <1>3, <1>4, <1>5, <2>1
  <1>7. CASE pc[s] = "iterate"
    <2>1. d = 0 /\ entered[s] = entered[r]
      BY <1>2, <1>5, <1>7 DEF Collectives
    <2>2. it[s] # 0
      <3>1. 0 * Calls = 0
        BY <1>3
      <3> DEFINE a == it[r] * Calls
                 b == it[s] * Calls
      <3>2. /\ a \in Nat /\ c \in 3 .. Calls /\ Calls \in Nat
            /\ entered[r] = 1 + a + c /\ entered[s] = 1 + b + d
            /\ it[s] = 0 => b = 0
        BY <1>2, <1>3, <1>4, <3>1
      <3> HIDE DEF a, b
      <3> QED BY <2>1, <3>2
    <2>3. it[s] - 1 \in Nat /\ (it[s] - 1) * Calls + Calls = it[s] * Calls
      <3>1. it[s] - 1 \in Nat /\ it[s] - 1 + 1 = it[s]
        BY <1>1, <2>2
      <3> QED BY <3>1, CallsNat
    <2>4. (it[s] - 1) * Calls + Calls = it[r] * Calls + c
      <3>1. it[s] * Calls = it[r] * Calls + c
        BY <1>2, <1>3, <1>4, <2>1
      <3> QED BY <2>3, <3>1
    <2>5. it[s] - 1 = it[r] /\ Calls = c
      <3>1. c \in 1 .. Calls /\ Calls \in 1 .. Calls
        BY <1>2, <1>3
      <3>2. it[s] - 1 \in Nat /\ it[r] \in Nat
        BY <1>1, <2>3
      <3> QED BY <2>4, <3>1, <3>2, CallsSeparate
    <2> QED BY <1>1, <1>7, <2>5 DEF c
  <1>8. CASE d # 0 /\ entered[s] = entered[r]
    <2>1. it[s] * Calls + d = it[r] * Calls + c
      BY <1>2, <1>3, <1>4, <1>8
    <2>2. it[s] = it[r] /\ d = c
      <3>1. c \in 1 .. Calls /\ d \in 1 .. Calls
        BY <1>2, <1>3, <1>8
      <3>2. it[s] \in Nat /\ it[r] \in Nat
        BY <1>1
      <3> QED BY <2>1, <3>1, <3>2, CallsSeparate
    <2> QED BY <1>1, <1>2, <1>4, <2>2 DEF CallInIteration, Locations, Collectives, c, d
  <1>9. CASE d # 0 /\ entered[s] = entered[r] + 1 /\ pc[s] \in Collectives
    <2>1. CASE c = Calls
      <3>1. it[s] * Calls + d = (it[r] + 1) * Calls + 1
        BY <1>2, <1>3, <1>4, <1>9, <2>1
      <3>2. it[s] = it[r] + 1 /\ d = 1
        BY <1>1, <1>2, <1>9, <3>1, CallsSeparate, CallsNat
      <3>3. pc[s] \in {"lossReduce", "finalize"}
        BY <1>1, <1>2, <1>9, <3>2 DEF CallInIteration, Collectives, d
      <3> QED BY <1>1, <2>1, <3>2, <3>3 DEF c
    <2>2. CASE c # Calls
      <3>1. it[s] * Calls + d = it[r] * Calls + (c + 1)
        BY <1>2, <1>3, <1>4, <1>9
      <3>2. it[s] = it[r] /\ d = c + 1
        <4>1. c + 1 \in 1 .. Calls /\ d \in 1 .. Calls
          BY <1>2, <1>3, <1>9, <2>2
        <4>2. it[s] \in Nat /\ it[r] \in Nat
          BY <1>1
        <4> QED BY <3>1, <4>1, <4>2, CallsSeparate
      <3>3. d >= 4 /\ d = 4 + LastLayer - layer[r]
        BY <1>1, <1>2, <3>2 DEF c
      <3> QED BY <1>1, <1>9, <3>2, <3>3 DEF CallInIteration, Collectives, d
    <2> QED BY <2>1, <2>2
  <1> QED BY <1>2, <1>5, <1>6, <1>7, <1>8, <1>9

\* So the sum is the one of all batches of the iteration.
LEMMA SumOfAll ==
    ASSUME IInv, EnteredInv, WaitInv, DiffInv, use_mpi,
           NEW r \in Ranks, pc[r] = "diffReduce", AllEntered(r)
    PROVE  UNION {diff[s][layer[r] - 1] : s \in Ranks} = AllBatches(it[r])
  <1> DEFINE l == layer[r] - 1
  <1>1. /\ layer[r] \in Nat \ {0} /\ layer[r] <= LastLayer /\ LastLayer \in Nat \ {0}
        /\ it[r] \in Nat
    BY TrainerAssumption DEF IInv, TypeOK, LayerInv, Layers
  <1>2. ASSUME NEW s \in Ranks
        PROVE  diff[s][l] = {<<s, it[r]>>} \/ diff[s][l] = AllBatches(it[r])
    <2>1. CASE pc[s] = "diffReduce" /\ layer[s] = layer[r] /\ it[s] = it[r]
      BY <2>1 DEF DiffInv, Diffs
    <2>2. CASE pc[s] \in {"backward", "diffReduce"} /\ layer[s] = layer[r] - 1 /\ it[s] = it[r]
      <3>1. l \in layer[s] .. (LastLayer - 1)
        BY <1>1, <2>2
      <3> QED BY <2>2, <3>1 DEF DiffInv, Diffs
    <2>3. CASE layer[r] = 1 /\ pc[s] = "apply" /\ it[s] = it[r]
      <3>1. l \in 0 .. (LastLayer - 1)
        BY <1>1, <2>3
      <3> QED BY <2>3, <3>1 DEF DiffInv, Diffs
    <2>4. CASE layer[r] = 1 /\ pc[s] \in {"iterate", "lossReduce", "finalize"} /\ it[s] = it[r] + 1
      <3>1. l \in 0 .. (LastLayer - 1) /\ it[s] > 0 /\ it[s] - 1 = it[r]
        BY <1>1, <2>4
      <3> QED BY <2>4, <3>1 DEF DiffInv, Diffs
    <2> QED BY <2>1, <2>2, <2>3, <2>4, OthersAtReduce
  <1>3. \A s \in Ranks : <<s, it[r]>> \in diff[s][l] /\ diff[s][l] \subseteq AllBatches(it[r])
    BY <1>2 DEF AllBatches
  <1>4. UNION {diff[s][l] : s \in Ranks} \subseteq AllBatches(it[r])
    BY <1>3
  <1>5. AllBatches(it[r]) \subseteq UNION {diff[s][l] : s \in Ranks}
    BY <1>3 DEF AllBatches
  <1> QED BY <1>4, <1>5

LEMMA DiffStep ==
    ASSUME IInv, EnteredInv, WaitInv, DiffInv, use_mpi, NEW r \in Ranks, Step(r)
    PROVE  Diffs(r)'
  <1>1. /\ layer[r] \in Nat /\ layer[r] <= LastLayer /\ LastLayer \in Nat \ {0}
        /\ it[r] \in Nat /\ Diffs(r)
        /\ pc[r] \in {"backward", "diffReduce"} => layer[r] > 0
        /\ pc[r] \in {"lossReduce", "accReduce"} => layer[r] = LastLayer
        /\ pc[r] = "barrier" => it[r] = 0
    BY TrainerAssumption DEF IInv, TypeOK, LayerInv, Layers, DiffInv, EnteredInv
  <1>2. pc \in [Ranks -> Locations] /\ it \in [Ranks -> 0 .. Iters] /\ layer \in [Ranks -> Layers]
        /\ diff \in [Ranks -> [Layers -> SUBSET (Ranks \X (0 .. Iters))]]
    BY DEF IInv, TypeOK
  <1>3. CASE Setup(r)
    <2>1. pc'[r] = "iterate" /\ it'[r] = it[r] /\ pc[r] = "barrier"
      BY <1>2, <1>3 DEF Setup, Goto
    <2> QED BY <1>1, <2>1 DEF Diffs
  <1>4. CASE Forward(r)
    <2>1. /\ pc[r] = "iterate" /\ pc'[r] = "lossReduce" /\ it'[r] = it[r] /\ diff'[r] = diff[r]
      BY <1>2, <1>4 DEF Forward, Enter
    <2> QED BY <1>1, <2>1 DEF Diffs, AllBatches
  <1>5. CASE LeaveLossReduce(r)
    <2>1. pc'[r] = "accReduce"
      BY <1>2, <1>5 DEF LeaveLossReduce, Enter
    <2> QED BY <2>1 DEF Diffs
  <1>6. CASE LeaveAccReduce(r)
    <2>1. pc'[r] = "backward" /\ layer'[r] = LastLayer
      BY <1>1, <1>2, <1>6 DEF LeaveAccReduce, Goto
    <2> QED BY <1>1, <2>1 DEF Diffs
  <1>7. CASE Backward(r)
    <2> DEFINE k == layer[r] - 1
    <2>1. /\ pc[r] = "backward" /\ pc'[r] = "diffReduce" /\ it'[r] = it[r] /\ layer'[r] = layer[r]
          /\ diff' = [diff EXCEPT ![r][k] = Derivative(r)]
      BY <1>2, <1>7 DEF Backward, Enter
    <2>2. k \in Layers /\ layer[r] > 0
      BY <1>1, <2>1 DEF Layers
    <2>3. /\ diff'[r][k] = Derivative(r)
          /\ \A l \in Layers \ {k} : diff'[r][l] = diff[r][l]
      BY <1>2, <2>1, <2>2
    <2>4. \A l \in layer[r] .. (LastLayer - 1) : diff'[r][l] = AllBatches(it[r])
      BY <1>1, <2>1, <2>3 DEF Diffs, Layers
    <2>5. layer[r] # LastLayer => Derivative(r) = AllBatches(it[r])
      <3>1. layer[r] # LastLayer => layer[r] \in layer[r] .. (LastLayer - 1)
        BY <1>1
      <3> QED BY <1>1, <2>1, <3>1 DEF Diffs, Derivative
    <2>6. layer[r] = LastLayer => Derivative(r) = {<<r, it[r]>>}
      BY DEF Derivative
    <2>7. /\ pc'[r] = "diffReduce" /\ it'[r] = it[r] /\ layer'[r] = layer[r]
          /\ diff'[r][layer'[r] - 1] = Derivative(r)
      BY <2>1, <2>3
    <2>8. AllBatches(it[r])' = AllBatches(it[r])
      BY <2>7 DEF AllBatches
    <2> QED BY <2>4, <2>5, <2>6, <2>7, <2>8 DEF Diffs
  <1>8. CASE LeaveDiffReduce(r)
    <2> DEFINE k == layer[r] - 1
    <2>1. /\ pc[r] = "diffReduce" /\ AllEntered(r)
          /\ it'[r] = it[r] /\ layer'[r] = k
          /\ pc'[r] = IF layer[r] > 1 THEN "backward" ELSE "apply"
          /\ diff' = [diff EXCEPT ![r][k] = UNION {diff[s][k] : s \in Ranks}]
      BY <1>2, <1>8 DEF LeaveDiffReduce, NextLayer, Goto
    <2>2. k \in Layers
      BY <1>1, <2>1 DEF Layers
    <2>3. UNION {diff[s][k] : s \in Ranks} = AllBatches(it[r])
      BY <2>1, SumOfAll
    <2>4. /\ diff'[r][k] = AllBatches(it[r])
          /\ \A l \in Layers \ {k} : diff'[r][l] = diff[r][l]
      BY <1>2, <2>1, <2>2, <2>3
    <2>5. \A l \in layer[r] .. (LastLayer - 1) : diff'[r][l] = AllBatches(it[r])
      BY <1>1, <2>1, <2>4 DEF Diffs, Layers
    <2>6. \A l \in k .. (LastLayer - 1) : diff'[r][l] = AllBatches(it[r])
      BY <1>1, <2>4, <2>5
    <2>7. layer[r] > 1 \/ k = 0
      BY <1>1, <2>1
    <2> QED BY <2>1, <2>6, <2>7 DEF Diffs, AllBatches
  <1>9. CASE ApplyUpdate(r)
    <2>1. /\ pc[r] = "apply" /\ pc'[r] = "iterate" /\ it'[r] - 1 = it[r] /\ diff'[r] = diff[r]
      <3>1. it' = [it EXCEPT ![r] = it[r] + 1]
        BY <1>9 DEF ApplyUpdate
      <3>2. it'[r] - 1 = it[r]
        BY <1>1, <1>2, <3>1
      <3> QED BY <1>2, <1>9, <3>2 DEF ApplyUpdate, Goto
    <2> QED BY <1>1, <2>1 DEF Diffs, AllBatches
  <1>10. CASE EndMPI(r)
    <2>1. /\ pc[r] = "iterate" /\ pc'[r] = "finalize" /\ it'[r] = it[r] /\ diff'[r] = diff[r]
      BY <1>2, <1>10 DEF EndMPI, Enter
    <2> QED BY <1>1, <2>1 DEF Diffs, AllBatches
  <1>11. CASE LeaveFinalize(r)
    <2>1. pc'[r] = "done"
      BY <1>2, <1>11 DEF LeaveFinalize, Goto
    <2> QED BY <2>1 DEF Diffs
  <1> QED BY <1>3, <1>4, <1>5, <1>6, <1>7, <1>8, <1>9, <1>10, <1>11 DEF Step

\* Without MPI the derivatives are those of the one process.
AloneInv ==
    ~use_mpi =>
        \A r \in Ranks :
            /\ pc[r] \notin {"diffReduce", "barrier", "lossReduce", "accReduce"}
            /\ pc[r] = "backward" => \A l \in layer[r] .. (LastLayer - 1) : diff[r][l] = {<<r, it[r]>>}
            /\ pc[r] = "apply" => \A l \in 0 .. (LastLayer - 1) : diff[r][l] = {<<r, it[r]>>}

LEMMA AloneStep ==
    ASSUME IInv, AloneInv, ~use_mpi, use_mpi' = use_mpi, NEW r \in Ranks, Step(r)
    PROVE  AloneInv'
  <1>1. /\ layer[r] \in Nat /\ layer[r] <= LastLayer /\ LastLayer \in Nat \ {0}
        /\ it[r] \in Nat
        /\ pc[r] = "backward" => layer[r] > 0
    BY TrainerAssumption DEF IInv, TypeOK, LayerInv, Layers
  <1>2. pc \in [Ranks -> Locations] /\ it \in [Ranks -> 0 .. Iters] /\ layer \in [Ranks -> Layers]
        /\ diff \in [Ranks -> [Layers -> SUBSET (Ranks \X (0 .. Iters))]]
    BY DEF IInv, TypeOK
  <1> SUFFICES ASSUME NEW s \in Ranks
               PROVE  /\ pc'[s] \notin {"diffReduce", "barrier", "lossReduce", "accReduce"}
                      /\ pc'[s] = "backward" =>
                            \A l \in layer'[s] .. (LastLayer - 1) : diff'[s][l] = {<<s, it'[s]>>}
                      /\ pc'[s] = "apply" =>
                            \A l \in 0 .. (LastLayer - 1) : diff'[s][l] = {<<s, it'[s]>>}
    BY DEF AloneInv
  <1>3. CASE s # r
    <2>1. UNCHANGED <<pc[s], it[s], layer[s], diff[s]>>
      BY <1>3, OthersStay DEF IInv
    <2> QED BY <2>1 DEF AloneInv
  <1>4. CASE s = r /\ Forward(r)
    <2>1. pc'[r] = "backward" /\ layer'[r] = LastLayer
      BY <1>2, <1>4 DEF Forward, Goto
    <2> QED BY <1>1, <1>4, <2>1
  <1>5. CASE s = r /\ Backward(r)
    <2> DEFINE k == layer[r] - 1
    <2>1. /\ pc[r] = "backward" /\ it'[r] = it[r] /\ layer'[r] = k
          /\ pc'[r] = IF layer[r] > 1 THEN "backward" ELSE "apply"
          /\ diff' = [diff EXCEPT ![r][k] = Derivative(r)]
      BY <1>2, <1>5 DEF Backward, NextLayer, Goto
    <2>2. k \in Layers
      BY <1>1, <2>1 DEF Layers
    <2>3. Derivative(r) = {<<r, it[r]>>}
      <3>1. layer[r] # LastLayer => layer[r] \in layer[r] .. (LastLayer - 1)
        BY <1>1
      <3> QED BY <2>1, <3>1 DEF Derivative, AloneInv
    <2>4. /\ diff'[r][k] = {<<r, it[r]>>}
          /\ \A l \in Layers \ {k} : diff'[r][l] = diff[r][l]
      BY <1>2, <2>1, <2>2, <2>3
    <2>5. \A l \in layer[r] .. (LastLayer - 1) : diff'[r][l] = {<<r, it[r]>>}
      BY <1>1, <2>1, <2>4 DEF AloneInv, Layers
    <2>6. \A l \in k .. (LastLayer - 1) : diff'[r][l] = {<<r, it[r]>>}
      BY <1>1, <2>4, <2>5
    <2>7. layer[r] > 1 \/ k = 0
      BY <1>1, <2>1
    <2> QED BY <1>5, <2>1, <2>6, <2>7
  <1>6. CASE s = r /\ (ApplyUpdate(r) \/ EndMPI(r))
    BY <1>2, <1>6 DEF ApplyUpdate, EndMPI, Goto
  <1>7. ~(Setup(r) \/ LeaveLossReduce(r) \/ LeaveAccReduce(r) \/ LeaveDiffReduce(r))
    BY DEF AloneInv, Setup, LeaveLossReduce, LeaveAccReduce, LeaveDiffReduce
  <1>8. CASE s = r /\ LeaveFinalize(r)
    BY <1>2, <1>8 DEF LeaveFinalize, Goto
  <1> QED BY <1>3, <1>4, <1>5, <1>6, <1>7, <1>8 DEF Step

ReduceInv == IInv /\ EnteredInv /\ WaitInv /\ DiffInv /\ AloneInv

LEMMA ReduceStep == ReduceInv /\ [Next]_vars => ReduceInv'
  <1> SUFFICES ASSUME ReduceInv, [Next]_vars PROVE ReduceInv'
    OBVIOUS
  <1>1. IInv' /\ EnteredInv' /\ use_mpi' = use_mpi
    BY TypeStep, LayerStep, OffsetsStep, EnteredStep, MpiStays DEF ReduceInv, IInv
  <1>2. CASE UNCHANGED vars
    <2>1. UNCHANGED <<pc, it, layer, entered, diff>>
      BY <1>2 DEF vars
    <2>2. WaitInv'
      BY <1>1, <2>1 DEF ReduceInv, WaitInv
    <2>3. DiffInv'
      <3>1. \A r \in Ranks : Diffs(r) => Diffs(r)'
        BY <2>1 DEF Diffs, AllBatches
      <3> QED BY <1>1, <3>1 DEF ReduceInv, DiffInv
    <2>4. AloneInv'
      BY <1>1, <2>1 DEF ReduceInv, AloneInv
    <2> QED BY <1>1, <2>2, <2>3, <2>4 DEF ReduceInv
  <1>3. ASSUME NEW r \in Ranks, Step(r) PROVE ReduceInv'
    <2>1. CASE use_mpi
      <3>1. WaitInv' /\ Diffs(r)'
        BY <1>3, <2>1, WaitStep, DiffStep DEF ReduceInv, IInv
      <3>2. ASSUME NEW s \in Ranks, s # r PROVE Diffs(s)'
        <4>1. UNCHANGED <<pc[s], it[s], layer[s], diff[s]>>
          BY <1>3, <3>2, OthersStay DEF ReduceInv, IInv
        <4>2. Diffs(s)
          BY <2>1 DEF ReduceInv, DiffInv
        <4> QED BY <4>1, <4>2 DEF Diffs, AllBatches
      <3> QED BY <1>1, <2>1, <3>1, <3>2 DEF ReduceInv, DiffInv, AloneInv
    <2>2. CASE ~use_mpi
      <3>1. AloneInv'
        BY <1>1, <1>3, <2>2, AloneStep DEF ReduceInv
      <3> QED BY <1>1, <2>2, <3>1 DEF ReduceInv, WaitInv, DiffInv
    <2> QED BY <2>1, <2>2
  <1> QED BY <1>2, <1>3 DEF Next, JobOver

LEMMA ReduceInit == Init => ReduceInv
  <1> SUFFICES ASSUME Init PROVE ReduceInv
    OBVIOUS
  <1>1. WaitInv /\ DiffInv
    BY DEF Init, WaitInv, DiffInv, Diffs, Collectives
  <1>2. AloneInv
    BY DEF Init, AloneInv
  <1> QED BY <1>1, <1>2, IInvInit, EnteredInvInit DEF ReduceInv

LEMMA DiffsAtUpdate == ReduceInv => DiffsOfThisIteration
  <1> SUFFICES ASSUME ReduceInv, NEW r \in Procs, NEW l \in 0 .. (LastLayer - 1), pc[r] = "apply"
               PROVE  diff[r][l] = {<<s, it[r]>> : s \in Procs}
    BY DEF DiffsOfThisIteration
  <1>1. r \in Ranks
    BY TrainerAssumption DEF Procs, Ranks
  <1>2. CASE use_mpi
    BY <1>1, <1>2 DEF ReduceInv, DiffInv, Diffs, AllBatches, Procs
  <1>3. CASE ~use_mpi
    <2>1. diff[r][l] = {<<r, it[r]>>}
      BY <1>1, <1>3 DEF ReduceInv, AloneInv
    <2> QED BY <1>3, <2>1 DEF Procs
  <1> QED BY <1>2, <1>3

\* The derivatives a process updates its weights with are those of all
\* processes' batches of this iteration and of no other, although the sums are
\* taken in place and the processes leave each call one by one (net.cpp:44-78).
THEOREM DiffsAgree == Spec => []DiffsOfThisIteration
  <1>1. Spec => []ReduceInv
    BY ReduceInit, ReduceStep, PTL DEF Spec
  <1> QED BY <1>1, DiffsAtUpdate, PTL

-----------------------------------------------------------------------------
(* The batches of all processes lie behind each other in one stream of images *)
(* that repeats the training set: the batch of process r in iteration k       *)
(* begins at k * DataStride + r * BatchSize.                                   *)

\* The batches a process has copied, those of an iteration that was aborted too.
Copied(r) == IF InIteration(r) \/ pc[r] = "aborted" THEN it[r] + 1 ELSE it[r]

BatchStart(k, r) == k * DataStride + r * BatchSize

\* The places of one batch, of all batches, and those of one image.
PlacesOf(k, r) == {BatchStart(k, r) + j : j \in 0 .. (BatchSize - 1)}

Taken == UNION {UNION {PlacesOf(k, r) : k \in 0 .. (Copied(r) - 1)} : r \in Procs}

TakenOf(i) == {p \in Taken : p % TrainSize = i}

\* Data's offset is where the stream goes on for the process.
PlaceInv ==
    \A r \in Procs :
        /\ pc[r] # "barrier" => dataOffset[r] = BatchStart(Copied(r), r) % TrainSize
        /\ InIteration(r) => batch[r] = BatchStart(it[r], r) % TrainSize
        /\ pc[r] = "barrier" => it[r] = 0

\* Without MPI the other processes do not exist, with it none is aborted.
IdleInv ==
    \A r \in Ranks :
        /\ use_mpi => pc[r] # "aborted"
        /\ ~use_mpi /\ r # 0 => pc[r] = "done"

TakenInv ==
    WorldSize * BatchSize <= TrainSize =>
        \A i \in Images : IsFiniteSet(TakenOf(i)) /\ used[i] = Cardinality(TakenOf(i))

LEMMA LaterRound ==
    ASSUME NEW d \in Nat, NEW m \in Nat, NEW n \in Nat, m < n
    PROVE  m * d + d <= n * d
  <1>1. PICK e \in Nat : n = m + 1 + e
    <2>1. n - m - 1 \in Nat /\ n = m + 1 + (n - m - 1)
      OBVIOUS
    <2> QED BY <2>1
  <1>2. (m + 1 + e) * d = m * d + d + e * d /\ e * d \in Nat /\ m * d \in Nat
    OBVIOUS
  <1> QED BY <1>1, <1>2

LEMMA RoundsSeparate ==
    ASSUME NEW d \in Nat \ {0}, NEW m \in Nat, NEW n \in Nat,
           NEW x \in 0 .. (d - 1), NEW y \in 0 .. (d - 1), m * d + x = n * d + y
    PROVE  m = n /\ x = y
  <1>1. m * d \in Nat /\ n * d \in Nat /\ x \in Nat /\ y \in Nat /\ x < d /\ y < d
    OBVIOUS
  <1>2. ~(m < n) /\ ~(n < m)
    BY <1>1, LaterRound
  <1>3. m = n
    BY <1>2
  <1> QED BY <1>1, <1>3

LEMMA PartsOf ==
    ASSUME NEW n \in Nat, NEW d \in Nat \ {0}
    PROVE  /\ n \div d \in Nat
           /\ n % d \in 0 .. (d - 1)
           /\ n = (n \div d) * d + (n % d)
  <1>1. /\ n \div d \in Nat
        /\ n % d \in 0 .. (d - 1)
        /\ n = d * (n \div d) + (n % d)
    BY SMT
  <1>2. d * (n \div d) = (n \div d) * d
    BY <1>1
  <1> QED BY <1>1, <1>2

LEMMA Division ==
    ASSUME NEW n \in Nat, NEW d \in Nat \ {0}
    PROVE  /\ n % d \in 0 .. (d - 1)
           /\ \E q \in Nat : n = q * d + (n % d)
  BY PartsOf

LEMMA Remainder ==
    ASSUME NEW d \in Nat \ {0}, NEW q \in Nat, NEW x \in 0 .. (d - 1)
    PROVE  (q * d + x) % d = x
  <1>1. q * d + x \in Nat
    OBVIOUS
  <1>2. PICK e \in Nat : q * d + x = e * d + ((q * d + x) % d)
    BY <1>1, Division
  <1>3. (q * d + x) % d \in 0 .. (d - 1)
    BY <1>1, Division
  <1> QED BY <1>2, <1>3, RoundsSeparate

\* Remainders may be taken early, and tell the places of a round apart.
LEMMA RemainderOfSum ==
    ASSUME NEW d \in Nat \ {0}, NEW a \in Nat, NEW b \in Nat
    PROVE  ((a % d) + b) % d = (a + b) % d
  <1>1. PICK q \in Nat : a = q * d + (a % d)
    BY Division
  <1>2. a % d \in Nat
    BY Division
  <1> DEFINE c == (a % d) + b
  <1>3. c \in Nat
    BY <1>2
  <1>4. PICK e \in Nat : c = e * d + (c % d)
    BY <1>3, Division
  <1>5. c % d \in 0 .. (d - 1)
    BY <1>3, Division
  <1>6. a + b = (q + e) * d + (c % d)
    <2>1. (q + e) * d = q * d + e * d /\ q * d \in Nat /\ e * d \in Nat
      OBVIOUS
    <2>2. a + b = q * d + c
      BY <1>1, <1>2
    <2> HIDE DEF c
    <2> QED BY <1>4, <1>5, <2>1, <2>2
  <1>7. q + e \in Nat
    OBVIOUS
  <1> HIDE DEF c
  <1>8. (a + b) % d = c % d
    BY <1>5, <1>6, <1>7, Remainder
  <1> QED BY <1>8 DEF c

LEMMA RemaindersDiffer ==
    ASSUME NEW d \in Nat \ {0}, NEW a \in Nat, NEW x \in 0 .. (d - 1), NEW y \in 0 .. (d - 1),
           (a + x) % d = (a + y) % d
    PROVE  x = y
  <1>1. a + x \in Nat /\ a + y \in Nat
    OBVIOUS
  <1> DEFINE m == (a + x) % d
  <1>2. PICK q \in Nat : a + x = q * d + m
    BY <1>1, Division
  <1>3. PICK e \in Nat : a + y = e * d + m
    BY <1>1, Division
  <1>4. m \in Nat
    BY <1>1, Division
  <1> HIDE DEF m
  <1>5. q * d \in Nat /\ e * d \in Nat
    OBVIOUS
  <1>6. ~(q < e)
    BY <1>2, <1>3, <1>4, <1>5, LaterRound
  <1>7. ~(e < q)
    BY <1>2, <1>3, <1>4, <1>5, LaterRound
  <1>8. q = e
    BY <1>6, <1>7
  <1> QED BY <1>2, <1>3, <1>4, <1>5, <1>8

LEMMA Strides ==
    ASSUME use_mpi \in BOOLEAN
    PROVE  /\ DataStride \in Nat \ {0}
           /\ \A r \in Procs : r \in Nat /\ r * BatchSize \in Nat /\ r * BatchSize + BatchSize <= DataStride
           /\ WorldSize * BatchSize <= TrainSize => DataStride <= TrainSize
           /\ \A x \in 0 .. (DataStride - 1) :
                 \E r \in Procs, j \in 0 .. (BatchSize - 1) : x = r * BatchSize + j
  <1> DEFINE n == IF use_mpi THEN WorldSize ELSE 1
  <1>1. n \in Nat \ {0} /\ BatchSize \in Nat \ {0} /\ WorldSize \in Nat \ {0}
    BY TrainerAssumption
  <1>2. Procs = 0 .. (n - 1)
    BY DEF Procs, Ranks
  <1>3. DataStride = n * BatchSize
    BY <1>1 DEF DataStride
  <1>4. WorldSize * BatchSize \in Nat /\ BatchSize <= WorldSize * BatchSize
    <2>1. 0 * BatchSize + BatchSize <= WorldSize * BatchSize
      BY <1>1, LaterRound
    <2> QED BY <1>1, <2>1
  <1>5. n * BatchSize <= WorldSize * BatchSize
    BY <1>1, <1>4
  <1> HIDE DEF n
  <1>6. n * BatchSize \in Nat
    BY <1>1
  <1>7. ASSUME NEW r \in 0 .. (n - 1)
        PROVE  r \in Nat /\ r * BatchSize \in Nat /\ r * BatchSize + BatchSize <= n * BatchSize
    <2>1. r \in Nat /\ r < n
      BY <1>1
    <2> QED BY <1>1, <2>1, LaterRound
  <1>8. 0 * BatchSize + BatchSize <= n * BatchSize
    BY <1>1, LaterRound
  <1>9. ASSUME NEW x \in 0 .. (n * BatchSize - 1)
        PROVE  \E r \in 0 .. (n - 1), j \in 0 .. (BatchSize - 1) : x = r * BatchSize + j
    <2>1. x \in Nat /\ x < n * BatchSize
      BY <1>6
    <2>2. PICK r \in Nat, j \in 0 .. (BatchSize - 1) : x = r * BatchSize + j
      BY <1>1, <2>1, Division
    <2>3. ~(n < r)
      BY <1>1, <1>6, <2>1, <2>2, LaterRound
    <2>4. r # n
      BY <1>1, <1>6, <2>1, <2>2
    <2>5. r \in 0 .. (n - 1)
      BY <1>1, <2>3, <2>4
    <2> QED BY <2>2, <2>5
  <1>10. n * BatchSize \in Nat \ {0}
    BY <1>1, <1>6, <1>8
  <1>11. DataStride <= TrainSize \/ ~(WorldSize * BatchSize <= TrainSize)
    BY <1>3, <1>4, <1>5, <1>6, TrainerAssumption
  <1> QED BY <1>2, <1>3, <1>7, <1>9, <1>10, <1>11

\* A place in the stream is in one batch only.
LEMMA PlacesApart ==
    ASSUME use_mpi \in BOOLEAN, NEW k \in Nat, NEW l \in Nat, NEW r \in Procs, NEW s \in Procs,
           NEW i \in 0 .. (BatchSize - 1), NEW j \in 0 .. (BatchSize - 1),
           BatchStart(k, r) + i = BatchStart(l, s) + j
    PROVE  k = l /\ r = s
  <1>1. /\ DataStride \in Nat \ {0} /\ r \in Nat /\ s \in Nat /\ BatchSize \in Nat \ {0}
        /\ r * BatchSize \in Nat /\ r * BatchSize + BatchSize <= DataStride
        /\ s * BatchSize \in Nat /\ s * BatchSize + BatchSize <= DataStride
    BY Strides, TrainerAssumption
  <1>2. k * DataStride \in Nat /\ l * DataStride \in Nat
    BY <1>1
  <1> DEFINE x == r * BatchSize + i
             y == s * BatchSize + j
  <1>3. x \in 0 .. (DataStride - 1) /\ y \in 0 .. (DataStride - 1)
    BY <1>1
  <1>4. k * DataStride + x = l * DataStride + y
    BY <1>1, <1>2 DEF BatchStart
  <1>5. k = l /\ x = y
    <2> HIDE DEF x, y
    <2> QED BY <1>1, <1>3, <1>4, RoundsSeparate
  <1>6. r = s
    BY <1>1, <1>5, RoundsSeparate
  <1> QED BY <1>5, <1>6

LEMMA StartType ==
    ASSUME use_mpi \in BOOLEAN, NEW k \in Nat, NEW r \in Procs
    PROVE  BatchStart(k, r) \in Nat /\ BatchStart(k + 1, r) = BatchStart(k, r) + DataStride
  <1>1. DataStride \in Nat \ {0} /\ r * BatchSize \in Nat
    BY Strides
  <1>2. k * DataStride \in Nat /\ (k + 1) * DataStride = k * DataStride + DataStride
    BY <1>1
  <1> QED BY <1>1, <1>2 DEF BatchStart

\* What a step does to the number of batches a process has copied.
LEMMA CopiedStep ==
    ASSUME IInv, IdleInv, NEW r \in Ranks, Step(r)
    PROVE  /\ pc'[r] # "barrier"
           /\ Forward(r) => /\ Copied(r) = it[r] /\ Copied(r)' = it[r] + 1
                            /\ InIteration(r)' /\ it'[r] = it[r]
           /\ ~Forward(r) => /\ Copied(r)' = Copied(r) /\ batch' = batch /\ used' = used
                             /\ InIteration(r)' => InIteration(r) /\ it'[r] = it[r]
                             /\ dataOffset' = dataOffset \/ Setup(r)
  <1> USE DEF InIteration, Copied
  <1>1. pc \in [Ranks -> Locations] /\ it \in [Ranks -> 0 .. Iters] /\ it[r] \in Nat
    BY TrainerAssumption DEF IInv, TypeOK
  <1>2. CASE Forward(r)
    BY <1>1, <1>2 DEF Forward, Enter, Goto
  <1>3. CASE Setup(r) \/ EndMPI(r) \/ LeaveFinalize(r)
    <2>1. ~Forward(r)
      BY <1>1, <1>3, TrainerAssumption DEF Setup, EndMPI, LeaveFinalize, Forward
    <2> QED BY <1>1, <1>3, <2>1 DEF Setup, EndMPI, LeaveFinalize, Enter, Goto
  <1>4. CASE LeaveLossReduce(r) \/ LeaveAccReduce(r)
    BY <1>1, <1>4 DEF LeaveLossReduce, LeaveAccReduce, Enter, Goto, Forward
  <1>5. CASE Backward(r)
    BY <1>1, <1>5 DEF Backward, NextLayer, Enter, Goto, Forward
  <1>6. CASE LeaveDiffReduce(r)
    BY <1>1, <1>6 DEF LeaveDiffReduce, NextLayer, Goto, Forward
  <1>7. CASE ApplyUpdate(r)
    BY <1>1, <1>7 DEF ApplyUpdate, Goto, Forward
  <1> QED BY <1>2, <1>3, <1>4, <1>5, <1>6, <1>7 DEF Step

LEMMA OthersKeep ==
    ASSUME IInv, NEW r \in Ranks, Step(r), NEW s \in Ranks, s # r
    PROVE  UNCHANGED <<pc[s], it[s], dataOffset[s], batch[s]>>
  <1> USE DEF IInv, TypeOK
  <1>1. UNCHANGED <<pc[s], it[s]>>
    BY OthersStay
  <1>2. CASE Setup(r)
    BY <1>1, <1>2 DEF Setup
  <1>3. CASE Forward(r)
    BY <1>1, <1>3 DEF Forward
  <1>4. CASE ~Setup(r) /\ ~Forward(r)
    BY <1>1, <1>4 DEF Step, LeaveLossReduce, LeaveAccReduce, Backward, LeaveDiffReduce,
                      ApplyUpdate, EndMPI, LeaveFinalize
  <1> QED BY <1>2, <1>3, <1>4

LEMMA IdleStep ==
    ASSUME IInv, IdleInv, use_mpi' = use_mpi, NEW r \in Ranks, Step(r)
    PROVE  IdleInv'
  <1>1. pc \in [Ranks -> Locations]
    BY DEF IInv, TypeOK
  <1>2. \A s \in Ranks : s # r => pc'[s] = pc[s]
    BY OthersKeep
  <1>3. pc[r] # "done"
    BY DEF Step, Setup, Forward, LeaveLossReduce, LeaveAccReduce, Backward, LeaveDiffReduce,
           ApplyUpdate, EndMPI, LeaveFinalize
  <1>4. use_mpi => pc'[r] # "aborted"
    BY <1>1 DEF Step, Setup, Forward, LeaveLossReduce, LeaveAccReduce, Backward, LeaveDiffReduce,
                NextLayer, ApplyUpdate, EndMPI, LeaveFinalize, Goto, Enter, IdleInv
  <1> QED BY <1>2, <1>3, <1>4 DEF IdleInv

LEMMA PlaceStep ==
    ASSUME IInv, IdleInv, PlaceInv, use_mpi' = use_mpi, NEW r \in Ranks, Step(r)
    PROVE  PlaceInv'
  <1>1. /\ use_mpi \in BOOLEAN /\ Procs' = Procs /\ DataStride' = DataStride
        /\ \A k, s : BatchStart(k, s)' = BatchStart(k, s)
    BY DEF IInv, TypeOK, Procs, DataStride, BatchStart
  <1>2. /\ dataOffset \in [Ranks -> Images] /\ batch \in [Ranks -> Images] /\ it \in [Ranks -> 0 .. Iters]
        /\ pc \in [Ranks -> Locations] /\ Iters \in Nat /\ TrainSize \in Nat \ {0}
    BY TrainerAssumption DEF IInv, TypeOK
  <1> SUFFICES ASSUME NEW s \in Procs
               PROVE  /\ pc'[s] # "barrier" => dataOffset'[s] = BatchStart(Copied(s)', s) % TrainSize
                      /\ InIteration(s)' => batch'[s] = BatchStart(it'[s], s) % TrainSize
                      /\ pc'[s] = "barrier" => it'[s] = 0
    BY <1>1 DEF PlaceInv
  <1>3. s \in Ranks
    BY TrainerAssumption DEF Procs, Ranks
  <1>4. CASE s # r
    <2>1. UNCHANGED <<pc[s], it[s], dataOffset[s], batch[s]>>
      BY <1>3, <1>4, OthersKeep
    <2>2. Copied(s)' = Copied(s) /\ InIteration(s)' = InIteration(s)
      BY <2>1 DEF Copied, InIteration
    <2> QED BY <2>1, <2>2 DEF PlaceInv
  <1>5. CASE s = r /\ Forward(r)
    <2>1. /\ Copied(r) = it[r] /\ Copied(r)' = it[r] + 1 /\ it'[r] = it[r] /\ pc'[r] # "barrier"
      BY <1>5, CopiedStep
    <2>2. /\ pc[r] = "iterate" /\ batch'[r] = dataOffset[r]
          /\ dataOffset'[r] = (dataOffset[r] + DataStride) % TrainSize
      BY <1>2, <1>5 DEF Forward, Advance
    <2>3. dataOffset[r] = BatchStart(it[r], r) % TrainSize
      BY <1>5, <2>1, <2>2 DEF PlaceInv
    <2>4. /\ BatchStart(it[r], r) \in Nat /\ DataStride \in Nat
          /\ BatchStart(it[r] + 1, r) = BatchStart(it[r], r) + DataStride
      BY <1>1, <1>2, <1>5, StartType, Strides
    <2>5. dataOffset'[r] = BatchStart(it[r] + 1, r) % TrainSize
      BY <1>2, <2>2, <2>3, <2>4, RemainderOfSum
    <2> QED BY <1>5, <2>1, <2>2, <2>3, <2>5
  <1>6. CASE s = r /\ Setup(r)
    <2>1. /\ pc[r] = "barrier" /\ pc'[r] = "iterate" /\ it'[r] = it[r]
          /\ dataOffset'[r] = Advance(FirstImage(r), 0)
      BY <1>2, <1>6 DEF Setup, Goto
    <2>2. it[r] = 0
      BY <1>6, <2>1 DEF PlaceInv
    <2>3. Copied(r)' = 0 /\ ~InIteration(r)'
      BY <2>1, <2>2 DEF Copied, InIteration
    <2>4. DataStride \in Nat /\ r * BatchSize \in Nat
      BY <1>1, <1>6, Strides
    <2>5. BatchStart(0, r) = r * BatchSize /\ r * BatchSize + 0 = r * BatchSize
      BY <2>4 DEF BatchStart
    <2>6. dataOffset'[r] = BatchStart(0, r) % TrainSize
      BY <2>1, <2>5 DEF Advance, FirstImage
    <2> QED BY <1>6, <2>1, <2>3, <2>6
  <1>7. CASE s = r /\ ~Forward(r) /\ ~Setup(r)
    <2>1. /\ Copied(r)' = Copied(r) /\ batch' = batch /\ dataOffset' = dataOffset /\ pc'[r] # "barrier"
          /\ InIteration(r)' => InIteration(r) /\ it'[r] = it[r]
      BY <1>7, CopiedStep
    <2>2. pc[r] # "barrier"
      BY <1>7 DEF Step, Forward, LeaveLossReduce, LeaveAccReduce, Backward, LeaveDiffReduce,
                  ApplyUpdate, EndMPI, LeaveFinalize
    <2> QED BY <1>7, <2>1, <2>2 DEF PlaceInv
  <1> QED BY <1>4, <1>5, <1>6, <1>7

\* A batch that is not larger than the training set has an image once.
LEMMA PlaceOfImage ==
    ASSUME NEW a \in Nat, NEW i \in Images, BatchSize <= TrainSize
    PROVE  LET new == {p \in {a + j : j \in 0 .. (BatchSize - 1)} : p % TrainSize = i}
           IN  IF i \in ImagesOf(a % TrainSize) THEN \E p \in Nat : new = {p} ELSE new = {}
  <1> DEFINE places == {a + j : j \in 0 .. (BatchSize - 1)}
             new == {p \in places : p % TrainSize = i}
  <1>1. BatchSize \in Nat \ {0} /\ TrainSize \in Nat \ {0}
    BY TrainerAssumption
  <1>2. \A j \in 0 .. (BatchSize - 1) : ((a % TrainSize) + j) % TrainSize = (a + j) % TrainSize
    <2>1. 0 .. (BatchSize - 1) \subseteq Nat
      BY <1>1
    <2>2. \A j \in Nat : ((a % TrainSize) + j) % TrainSize = (a + j) % TrainSize
      BY <1>1, RemainderOfSum, Zenon
    <2> QED BY <2>1, <2>2
  <1>3. CASE i \in ImagesOf(a % TrainSize)
    <2>1. PICK j \in 0 .. (BatchSize - 1) : (a + j) % TrainSize = i
      BY <1>2, <1>3 DEF ImagesOf
    <2>2. a + j \in new
      BY <2>1
    <2>3. ASSUME NEW p \in new PROVE p = a + j
      <3>1. PICK k \in 0 .. (BatchSize - 1) : p = a + k /\ (a + k) % TrainSize = i
        OBVIOUS
      <3>2. j \in 0 .. (TrainSize - 1) /\ k \in 0 .. (TrainSize - 1)
        BY <1>1
      <3>3. k = j
        BY <1>1, <2>1, <3>1, <3>2, RemaindersDiffer
      <3> QED BY <3>1, <3>3
    <2>4. a + j \in Nat
      BY <1>1
    <2> HIDE DEF new
    <2>5. new = {a + j}
      BY <2>2, <2>3
    <2>6. \E p \in Nat : new = {p}
      BY <2>4, <2>5
    <2> QED BY <1>3, <2>6 DEF new
  <1>4. CASE i \notin ImagesOf(a % TrainSize)
    <2>1. \A j \in 0 .. (BatchSize - 1) : (a + j) % TrainSize # i
      BY <1>2, <1>4 DEF ImagesOf
    <2>2. new = {}
      BY <2>1
    <2> QED BY <1>4, <2>2
  <1> QED BY <1>3, <1>4

\* The forward pass of a process takes the places of one batch, which nobody
\* has taken before.
LEMMA TakenStep ==
    ASSUME IInv, IdleInv, use_mpi' = use_mpi, NEW r \in Procs, Forward(r)
    PROVE  /\ Taken' = Taken \cup PlacesOf(it[r], r)
           /\ Taken \cap PlacesOf(it[r], r) = {}
  <1>1. r \in Ranks /\ Step(r) /\ use_mpi \in BOOLEAN /\ it[r] \in Nat
    BY TrainerAssumption DEF Procs, Ranks, Step, IInv, TypeOK
  <1>2. Copied(r) = it[r] /\ Copied(r)' = it[r] + 1
    BY <1>1, CopiedStep
  <1>3. ASSUME NEW s \in Procs, s # r PROVE Copied(s)' = Copied(s)
    <2>1. s \in Ranks
      BY TrainerAssumption DEF Procs, Ranks
    <2>2. UNCHANGED <<pc[s], it[s]>>
      BY <1>1, <1>3, <2>1, OthersKeep
    <2> QED BY <2>2 DEF Copied, InIteration
  <1>4. /\ Procs' = Procs
        /\ \A k, s : PlacesOf(k, s)' = PlacesOf(k, s)
    BY DEF Procs, DataStride, BatchStart, PlacesOf
  <1>5. Taken' = UNION {UNION {PlacesOf(k, s) : k \in 0 .. (Copied(s)' - 1)} : s \in Procs}
    BY <1>4 DEF Taken
  <1>6. 0 .. (it[r] + 1 - 1) = (0 .. (it[r] - 1)) \cup {it[r]}
    BY <1>1
  <1>7. ASSUME NEW p PROVE p \in Taken' <=> p \in Taken \/ p \in PlacesOf(it[r], r)
    <2>1. p \in Taken' <=> (\E s \in Procs : \E k \in 0 .. (Copied(s)' - 1) : p \in PlacesOf(k, s))
      BY <1>5
    <2>2. p \in Taken <=> (\E s \in Procs : \E k \in 0 .. (Copied(s) - 1) : p \in PlacesOf(k, s))
      BY DEF Taken
    <2>3. (\E k \in 0 .. (Copied(r)' - 1) : p \in PlacesOf(k, r))
            <=> (\E k \in 0 .. (Copied(r) - 1) : p \in PlacesOf(k, r)) \/ p \in PlacesOf(it[r], r)
      BY <1>2, <1>6
    <2> QED BY <1>3, <2>1, <2>2, <2>3
  <1>8. ASSUME NEW p \in Taken, p \in PlacesOf(it[r], r) PROVE FALSE
    <2>0. PICK s \in Procs : \E k \in 0 .. (Copied(s) - 1) : p \in PlacesOf(k, s)
      BY DEF Taken
    <2>1. PICK k \in 0 .. (Copied(s) - 1) : p \in PlacesOf(k, s)
      BY <2>0
    <2>2. k \in Nat
      OBVIOUS
    <2>3. PICK i \in 0 .. (BatchSize - 1) : p = BatchStart(it[r], r) + i
      BY <1>8 DEF PlacesOf
    <2>4. PICK j \in 0 .. (BatchSize - 1) : p = BatchStart(k, s) + j
      BY <2>1 DEF PlacesOf
    <2>5. k = it[r] /\ s = r
      BY <1>1, <2>2, <2>3, <2>4, PlacesApart
    <2> QED BY <1>1, <1>2, <2>1, <2>5
  <1> QED BY <1>7, <1>8

LEMMA CountStep ==
    ASSUME IInv, IdleInv, PlaceInv, TakenInv, use_mpi' = use_mpi, NEW r \in Procs, Forward(r),
           WorldSize * BatchSize <= TrainSize, NEW i \in Images
    PROVE  IsFiniteSet(TakenOf(i)') /\ used'[i] = Cardinality(TakenOf(i)')
  <1> DEFINE a == BatchStart(it[r], r)
             new == {p \in {a + j : j \in 0 .. (BatchSize - 1)} : p % TrainSize = i}
  <1>1. r \in Ranks /\ Step(r) /\ use_mpi \in BOOLEAN /\ it[r] \in Nat /\ pc[r] = "iterate"
    BY TrainerAssumption DEF Procs, Ranks, Step, Forward, IInv, TypeOK
  <1>2. a \in Nat
    BY <1>1, StartType
  <1>3. dataOffset[r] = a % TrainSize
    <2>1. Copied(r) = it[r]
      BY <1>1, CopiedStep
    <2> QED BY <1>1, <2>1 DEF PlaceInv
  <1>4. used'[i] = IF i \in ImagesOf(a % TrainSize) THEN used[i] + 1 ELSE used[i]
    BY <1>3 DEF Forward
  <1>5. BatchSize <= TrainSize
    <2>1. r * BatchSize \in Nat /\ r * BatchSize + BatchSize <= DataStride /\ DataStride <= TrainSize
          /\ DataStride \in Nat
      BY <1>1, Strides
    <2> QED BY <2>1, TrainerAssumption
  <1>6. PlacesOf(it[r], r) = {a + j : j \in 0 .. (BatchSize - 1)}
    BY DEF PlacesOf
  <1>7. TakenOf(i)' = TakenOf(i) \cup new
    BY <1>6, TakenStep DEF TakenOf
  <1>8. TakenOf(i) \cap new = {}
    BY <1>6, TakenStep DEF TakenOf
  <1>9. IsFiniteSet(TakenOf(i)) /\ used[i] = Cardinality(TakenOf(i))
    BY DEF TakenInv
  <1>10. IF i \in ImagesOf(a % TrainSize) THEN \E p \in Nat : new = {p} ELSE new = {}
    <2> HIDE DEF a
    <2> QED BY <1>2, <1>5, PlaceOfImage
  <1> HIDE DEF new, a
  <1>11. CASE i \in ImagesOf(a % TrainSize)
    <2>1. PICK p \in Nat : new = {p}
      BY <1>10, <1>11
    <2>2. p \notin TakenOf(i) /\ TakenOf(i)' = TakenOf(i) \cup {p}
      BY <1>7, <1>8, <2>1
    <2>3. /\ IsFiniteSet(TakenOf(i) \cup {p})
          /\ Cardinality(TakenOf(i) \cup {p}) = Cardinality(TakenOf(i)) + 1
      BY <1>9, <2>2, FS_AddElement
    <2> QED BY <1>4, <1>9, <1>11, <2>2, <2>3
  <1>12. CASE i \notin ImagesOf(a % TrainSize)
    <2>1. TakenOf(i)' = TakenOf(i)
      BY <1>7, <1>10, <1>12
    <2> QED BY <1>4, <1>9, <1>12, <2>1
  <1> QED BY <1>11, <1>12

StreamInv == IInv /\ IdleInv /\ PlaceInv /\ TakenInv

LEMMA StreamStep == StreamInv /\ [Next]_vars => StreamInv'
  <1> SUFFICES ASSUME StreamInv, [Next]_vars PROVE StreamInv'
    OBVIOUS
  <1> USE DEF StreamInv
  <1>1. IInv' /\ use_mpi' = use_mpi
    BY TypeStep, LayerStep, OffsetsStep, MpiStays DEF IInv
  <1>2. CASE UNCHANGED vars
    <2>1. Procs' = Procs /\ UNCHANGED <<pc, it, dataOffset, batch, used>>
      BY <1>2 DEF vars, Procs
    <2>2. \A r : Copied(r)' = Copied(r) /\ InIteration(r)' = InIteration(r)
      BY <2>1 DEF Copied, InIteration
    <2>3. \A k, r : BatchStart(k, r)' = BatchStart(k, r) /\ PlacesOf(k, r)' = PlacesOf(k, r)
      BY <1>1 DEF BatchStart, PlacesOf, DataStride
    <2>4. IdleInv' /\ PlaceInv'
      BY <1>1, <2>1, <2>2, <2>3 DEF IdleInv, PlaceInv
    <2>5. Taken' = Taken
      BY <2>1, <2>2, <2>3 DEF Taken
    <2>6. TakenInv'
      BY <2>1, <2>5 DEF TakenInv, TakenOf
    <2> QED BY <1>1, <2>4, <2>6
  <1>3. ASSUME NEW r \in Ranks, Step(r) PROVE StreamInv'
    <2>1. IdleInv' /\ PlaceInv'
      BY <1>1, <1>3, IdleStep, PlaceStep
    <2>2. CASE Forward(r)
      <3>1. r \in Procs
        BY <1>3, <2>2, TrainerAssumption DEF Procs, IdleInv, Forward
      <3>2. WorldSize * BatchSize <= TrainSize =>
               \A i \in Images : IsFiniteSet(TakenOf(i)') /\ used'[i] = Cardinality(TakenOf(i)')
        BY <1>1, <2>2, <3>1, CountStep
      <3> QED BY <1>1, <2>1, <3>2 DEF TakenInv
    <2>3. CASE ~Forward(r)
      <3>1. Copied(r)' = Copied(r) /\ used' = used
        BY <1>3, <2>3, CopiedStep
      <3>2. ASSUME NEW s \in Ranks, s # r PROVE Copied(s)' = Copied(s)
        <4>1. UNCHANGED <<pc[s], it[s]>>
          BY <1>3, <3>2, OthersKeep
        <4> QED BY <4>1 DEF Copied, InIteration
      <3>3. Procs' = Procs /\ Procs \subseteq Ranks
        BY <1>1, TrainerAssumption DEF Procs, Ranks
      <3>4. \A k, s : PlacesOf(k, s)' = PlacesOf(k, s)
        BY <1>1 DEF BatchStart, PlacesOf, DataStride
      <3>5. Taken' = Taken
        BY <3>1, <3>2, <3>3, <3>4 DEF Taken
      <3>6. TakenInv'
        BY <3>1, <3>5 DEF TakenInv, TakenOf
      <3> QED BY <1>1, <2>1, <3>6
    <2> QED BY <2>2, <2>3
  <1> QED BY <1>2, <1>3 DEF Next, JobOver

LEMMA StreamInit == Init => StreamInv
  <1> SUFFICES ASSUME Init PROVE StreamInv
    OBVIOUS
  <1>1. IdleInv
    BY DEF Init, IdleInv
  <1>2. \A r \in Procs : r \in Ranks /\ it[r] = 0 /\ ~InIteration(r) /\ Copied(r) = 0
    BY TrainerAssumption DEF Init, Procs, Ranks, InIteration, Copied
  <1>3. PlaceInv
    <2>1. ASSUME NEW r \in Procs, pc[r] # "barrier" PROVE dataOffset[r] = BatchStart(Copied(r), r) % TrainSize
      <3>1. ~use_mpi /\ r = 0 /\ dataOffset[r] = 0
        BY <1>2, <2>1 DEF Init, Procs
      <3>2. BatchStart(0, 0) = 0
        BY <3>1, TrainerAssumption DEF BatchStart, DataStride
      <3>3. 0 % TrainSize = 0
        BY TrainerAssumption
      <3> QED BY <1>2, <3>1, <3>2, <3>3
    <2> QED BY <1>2, <2>1 DEF PlaceInv
  <1>4. TakenInv
    <2>1. Taken = {}
      BY <1>2 DEF Taken
    <2>2. \A i \in Images : TakenOf(i) = {} /\ used[i] = 0
      BY <2>1 DEF Init, TakenOf
    <2> QED BY <2>2, FS_EmptySet DEF TakenInv
  <1> QED BY <1>1, <1>3, <1>4, IInvInit DEF StreamInv

\* The batches of one iteration are apart, if all of them fit into the training set.
LEMMA BatchesApart == StreamInv => DisjointBatches
  <1> SUFFICES ASSUME StreamInv, WorldSize * BatchSize <= TrainSize,
                      NEW r \in Procs, NEW s \in Procs, r # s,
                      InIteration(r), InIteration(s), it[r] = it[s],
                      NEW i \in ImagesOf(batch[r]) \cap ImagesOf(batch[s])
               PROVE  FALSE
    BY DEF DisjointBatches
  <1>1. /\ r \in Ranks /\ s \in Ranks /\ use_mpi \in BOOLEAN /\ it[r] \in Nat
        /\ TrainSize \in Nat \ {0} /\ BatchSize \in Nat \ {0}
    BY TrainerAssumption DEF Procs, Ranks, StreamInv, IInv, TypeOK
  <1> DEFINE c == it[r] * DataStride
  <1>2. /\ DataStride \in Nat \ {0} /\ DataStride <= TrainSize /\ c \in Nat
        /\ r * BatchSize \in Nat /\ r * BatchSize + BatchSize <= DataStride
        /\ s * BatchSize \in Nat /\ s * BatchSize + BatchSize <= DataStride
    BY <1>1, Strides
  <1>3. ASSUME NEW q \in {r, s}, NEW j \in 0 .. (BatchSize - 1), i = (batch[q] + j) % TrainSize
        PROVE  i = (c + (q * BatchSize + j)) % TrainSize /\ q * BatchSize + j \in 0 .. (TrainSize - 1)
    <2>1. batch[q] = BatchStart(it[r], q) % TrainSize
      BY DEF StreamInv, PlaceInv
    <2>2. BatchStart(it[r], q) \in Nat /\ j \in Nat
      BY <1>1, StartType
    <2>3. i = (BatchStart(it[r], q) + j) % TrainSize
      BY <1>1, <1>3, <2>1, <2>2, RemainderOfSum
    <2>4. q * BatchSize \in Nat /\ q * BatchSize + BatchSize <= DataStride
      BY <1>2
    <2>5. BatchStart(it[r], q) + j = c + (q * BatchSize + j)
      BY <1>2, <2>2, <2>4 DEF BatchStart
    <2> QED BY <1>1, <1>2, <2>2, <2>3, <2>4, <2>5
  <1>4. PICK j \in 0 .. (BatchSize - 1) : i = (batch[r] + j) % TrainSize
    BY DEF ImagesOf
  <1>5. PICK k \in 0 .. (BatchSize - 1) : i = (batch[s] + k) % TrainSize
    BY DEF ImagesOf
  <1> HIDE DEF c
  <1>6. r * BatchSize + j = s * BatchSize + k
    <2> DEFINE x == r * BatchSize + j
               y == s * BatchSize + k
    <2>1. (c + x) % TrainSize = (c + y) % TrainSize /\ x \in 0 .. (TrainSize - 1) /\ y \in 0 .. (TrainSize - 1)
      BY <1>3, <1>4, <1>5
    <2> HIDE DEF x, y
    <2>2. x = y
      BY <1>1, <1>2, <2>1, RemaindersDiffer
    <2> QED BY <2>2 DEF x, y
  <1>7. r \in Nat /\ s \in Nat
    BY <1>1, Strides
  <1>8. r = s
    BY <1>1, <1>6, <1>7, RoundsSeparate
  <1> QED BY <1>8

\* Equally many batches of all processes fill a beginning of the stream.
LEMMA TakenIsPrefix ==
    ASSUME use_mpi \in BOOLEAN, NEW n \in Nat, \A r \in Procs : Copied(r) = n
    PROVE  n * DataStride \in Nat /\ Taken = 0 .. (n * DataStride - 1)
  <1> DEFINE d == DataStride
  <1>1. d \in Nat \ {0} /\ BatchSize \in Nat \ {0}
    BY Strides, TrainerAssumption
  <1>2. n * d \in Nat
    BY <1>1
  <1>3. ASSUME NEW p \in Taken PROVE p \in 0 .. (n * d - 1)
    <2>1. PICK r \in Procs : \E k \in 0 .. (n - 1) : p \in PlacesOf(k, r)
      BY DEF Taken
    <2>2. PICK k \in 0 .. (n - 1) : p \in PlacesOf(k, r)
      BY <2>1
    <2>3. PICK j \in 0 .. (BatchSize - 1) : p = k * d + r * BatchSize + j
      BY <2>2 DEF PlacesOf, BatchStart
    <2>4. r * BatchSize \in Nat /\ r * BatchSize + BatchSize <= d
      BY Strides
    <2>5. k \in Nat /\ k < n
      OBVIOUS
    <2> HIDE DEF d
    <2>6. k * d \in Nat /\ k * d + d <= n * d
      BY <1>1, <2>5, LaterRound
    <2> QED BY <1>1, <1>2, <2>3, <2>4, <2>6
  <1>4. ASSUME NEW p \in 0 .. (n * d - 1) PROVE p \in Taken
    <2>1. p \in Nat /\ p < n * d
      BY <1>2
    <2>2. PICK k \in Nat : p = k * d + (p % d)
      BY <1>1, <2>1, Division
    <2>3. p % d \in 0 .. (d - 1)
      BY <1>1, <2>1, Division
    <2>4. PICK r \in Procs, j \in 0 .. (BatchSize - 1) : p % d = r * BatchSize + j
      BY <2>3, Strides
    <2>5. r * BatchSize \in Nat /\ k * d \in Nat
      BY <1>1, Strides
    <2>6. p = BatchStart(k, r) + j
      BY <2>2, <2>4, <2>5 DEF BatchStart
    <2>7. k \in 0 .. (n - 1)
      <3> HIDE DEF d
      <3>1. ~(n < k)
        BY <1>1, <1>2, <2>1, <2>2, <2>3, <2>5, LaterRound
      <3>2. n # k
        BY <1>1, <1>2, <2>1, <2>2, <2>3, <2>5
      <3> QED BY <3>1, <3>2
    <2> HIDE DEF d
    <2>8. p \in PlacesOf(k, r)
      BY <2>6 DEF PlacesOf
    <2> QED BY <2>7, <2>8 DEF Taken
  <1> QED BY <1>2, <1>3, <1>4

\* In a beginning of the stream an image is at most once more than another one:
\* each of its places but the first has one of the other's a little before it.
LEMMA PrefixIsEven ==
    ASSUME NEW m \in Nat, Taken = 0 .. (m - 1), NEW i \in Images, NEW j \in Images
    PROVE  Cardinality(TakenOf(i)) <= Cardinality(TakenOf(j)) + 1
  <1> DEFINE d == TrainSize
             later == TakenOf(i) \ {i}
             f == [p \in later |-> p - d - i + j]
  <1>1. d \in Nat \ {0} /\ i \in 0 .. (d - 1) /\ j \in 0 .. (d - 1)
    BY TrainerAssumption DEF Images
  <1>2. \A k \in Images : IsFiniteSet(TakenOf(k))
    <2>1. IsFiniteSet(0 .. (m - 1))
      BY FS_Interval
    <2> QED BY <2>1, FS_Subset DEF TakenOf
  <1>3. ASSUME NEW p \in later PROVE p \in Int /\ p - d - i + j \in TakenOf(j)
    <2>1. p \in Nat /\ p < m /\ p % d = i /\ p # i
      BY DEF TakenOf
    <2>2. PICK q \in Nat : p = q * d + i
      BY <1>1, <2>1, Division
    <2>3. q # 0
      BY <1>1, <2>1, <2>2
    <2>4. PICK e \in Nat : q = e + 1
      <3>1. q - 1 \in Nat /\ q = (q - 1) + 1
        BY <2>3
      <3> QED BY <3>1
    <2>5. e * d \in Nat /\ (e + 1) * d = e * d + d
      BY <1>1
    <2>6. p - d - i + j = e * d + j
      BY <1>1, <2>2, <2>4, <2>5
    <2>7. (e * d + j) % d = j
      BY <1>1, Remainder
    <2>8. e * d + j \in 0 .. (m - 1)
      BY <1>1, <2>1, <2>2, <2>4, <2>5
    <2> QED BY <2>1, <2>6, <2>7, <2>8 DEF TakenOf
  <1>4. f \in Injection(later, TakenOf(j))
    <2>1. f \in [later -> TakenOf(j)]
      BY <1>3
    <2>2. \A p, q \in later : f[p] = f[q] => p = q
      <3> SUFFICES ASSUME NEW p \in later, NEW q \in later, p - d - i + j = q - d - i + j PROVE p = q
        OBVIOUS
      <3>1. p \in Int /\ q \in Int
        BY <1>3
      <3> HIDE DEF later
      <3> QED BY <1>1, <3>1
    <2> HIDE DEF f, later
    <2> QED BY <2>1, <2>2 DEF Injection, IsInjective
  <1>5. Cardinality(later) <= Cardinality(TakenOf(j))
    <2> HIDE DEF f, later
    <2> QED BY <1>2, <1>4, FS_Injection
  <1>6. Cardinality(later) = IF i \in TakenOf(i) THEN Cardinality(TakenOf(i)) - 1 ELSE Cardinality(TakenOf(i))
    BY <1>2, FS_RemoveElement
  <1>7. Cardinality(TakenOf(i)) \in Nat /\ Cardinality(TakenOf(j)) \in Nat
    BY <1>2, FS_CardinalityType
  <1> HIDE DEF later
  <1> QED BY <1>5, <1>6, <1>7

LEMMA StreamIsEven == StreamInv => EvenUse
  <1> SUFFICES ASSUME StreamInv, WorldSize * BatchSize <= TrainSize,
                      \A r, s \in Procs : Batches(r) = Batches(s),
                      NEW i \in Images, NEW j \in Images
               PROVE  used[i] <= used[j] + 1
    BY BatchesApart DEF EvenUse
  <1>1. use_mpi \in BOOLEAN /\ 0 \in Procs
    BY TrainerAssumption DEF StreamInv, IInv, TypeOK, Procs, Ranks
  <1>2. ASSUME NEW r \in Procs PROVE Copied(r) = Copied(0) /\ Copied(r) \in Nat
    <2>1. r \in Ranks /\ it[r] \in Nat
      BY TrainerAssumption DEF Procs, Ranks, StreamInv, IInv, TypeOK
    <2>2. CASE use_mpi
      <3>1. \A s \in Ranks : Copied(s) = Batches(s)
        BY <2>2 DEF StreamInv, IdleInv, Copied, Batches
      <3>2. 0 \in Ranks
        BY TrainerAssumption DEF Ranks
      <3>3. Copied(r) \in Nat
        BY <2>1 DEF Copied
      <3> QED BY <1>1, <2>1, <3>1, <3>2, <3>3
    <2>3. CASE ~use_mpi
      BY <2>1, <2>3 DEF Procs, Copied
    <2> QED BY <2>2, <2>3
  <1>3. Copied(0) * DataStride \in Nat /\ Taken = 0 .. (Copied(0) * DataStride - 1)
    <2> DEFINE n == Copied(0)
    <2>1. n \in Nat /\ \A r \in Procs : Copied(r) = n
      BY <1>1, <1>2
    <2> HIDE DEF n
    <2>2. n * DataStride \in Nat /\ Taken = 0 .. (n * DataStride - 1)
      BY <1>1, <2>1, TakenIsPrefix
    <2> QED BY <2>2 DEF n
  <1>4. Cardinality(TakenOf(i)) <= Cardinality(TakenOf(j)) + 1
    BY <1>3, PrefixIsEven
  <1> QED BY <1>4 DEF StreamInv, TakenInv

\* The training set is used evenly, also when its size is not a multiple of the
\* batches: no image has been used twice more than another one whenever all
\* processes have made equally many iterations (functions/data.cpp:82-86).
THEOREM UsedEvenly == Spec => []EvenUse
  <1>1. Spec => []StreamInv
    BY StreamInit, StreamStep, PTL DEF Spec
  <1> QED BY <1>1, StreamIsEven, PTL

-----------------------------------------------------------------------------
(* The numbers of the layers: which images, labels and weights.               *)

Places == {"iterate", "backward", "apply", "aborted"}

LayersTypeOK ==
    /\ world \in Nat \ {0} /\ bs \in Nat \ {0} /\ Len(trainSet) \in Nat \ {0}
    /\ at \in Places /\ pass \in 1 .. 3
    /\ imageAt \in [Processes -> 0 .. (Len(trainSet) - 1)]

\* No test has been made, or none that reduces the offset of a label.
TestsDoNoHarm == correct = -1 \/ Len(TestSet) >= Len(trainSet)

\* The labels are one step behind the images from the forward pass until df of the
\* loss, as in OffsetsInv.
LayerOffsetsInv ==
    TestsDoNoHarm =>
        \A r \in Processes :
            /\ source[r].images = source[r].labels
            /\ IF at = "backward" /\ pass = 3
               THEN /\ labelAt[r] = source[r].images
                    /\ imageAt[r] = (source[r].images + world * bs) % Len(trainSet)
               ELSE labelAt[r] = imageAt[r]

SourcesInv == LayersTypeOK /\ LayerOffsetsInv

LEMMA FurtherType ==
    ASSUME LayersTypeOK, NEW offset \in Int
    PROVE  (offset + world * bs) % Len(trainSet) \in 0 .. (Len(trainSet) - 1)
  <1>1. offset + world * bs \in Int /\ Len(trainSet) \in Nat \ {0}
    BY DEF LayersTypeOK
  <1> QED BY <1>1

LEMMA SourcesInvInit == LayersInit => SourcesInv
  <1> SUFFICES ASSUME LayersInit PROVE SourcesInv
    OBVIOUS
  <1>1. world \in Nat \ {0} /\ bs \in Nat \ {0} /\ Len(trainSet) \in Nat \ {0}
    BY LayersAssumption DEF LayersInit
  <1>2. ASSUME NEW r \in Processes PROVE (r * bs) % Len(trainSet) \in 0 .. (Len(trainSet) - 1)
    <2>1. r * bs \in Nat
      BY <1>1 DEF Processes
    <2> QED BY <1>1, <2>1
  <1>3. imageAt \in [Processes -> 0 .. (Len(trainSet) - 1)]
    BY <1>2 DEF LayersInit
  <1>4. LayersTypeOK
    BY <1>1, <1>3 DEF LayersInit, LayersTypeOK, Places
  <1>5. LayerOffsetsInv
    BY DEF LayersInit, LayerOffsetsInv
  <1> QED BY <1>4, <1>5 DEF SourcesInv

LEMMA SourcesInvStep == SourcesInv /\ [LayersNext]_layersVars => SourcesInv'
  <1> SUFFICES ASSUME SourcesInv, [LayersNext]_layersVars PROVE SourcesInv'
    OBVIOUS
  <1>1. LayersTypeOK /\ LayerOffsetsInv
    BY DEF SourcesInv
  <1>2. CASE UNCHANGED layersVars
    BY <1>1, <1>2 DEF layersVars, SourcesInv, LayersTypeOK, LayerOffsetsInv, TestsDoNoHarm, Processes
  <1>3. CASE ForwardAll
    <2>1. /\ UNCHANGED chosen /\ UNCHANGED <<labelAt, correct>>
          /\ at' = "backward" /\ pass' = 3
          /\ source' = [r \in Processes |-> [images |-> imageAt[r], labels |-> labelAt[r]]]
          /\ imageAt' = [r \in Processes |-> (imageAt[r] + world * bs) % Len(trainSet)]
          /\ at = "iterate"
      BY <1>3 DEF ForwardAll, Further
    <2>2. Processes' = Processes /\ UNCHANGED <<world, bs, trainSet>>
      BY <2>1 DEF chosen, Processes
    <2>3. imageAt' \in [Processes -> 0 .. (Len(trainSet) - 1)]
      <3>1. ASSUME NEW r \in Processes PROVE imageAt[r] \in Int
        BY <1>1 DEF LayersTypeOK
      <3>2. ASSUME NEW r \in Processes
            PROVE  (imageAt[r] + world * bs) % Len(trainSet) \in 0 .. (Len(trainSet) - 1)
        BY <1>1, <3>1, FurtherType
      <3> QED BY <2>1, <3>2
    <2>4. LayersTypeOK'
      BY <1>1, <2>1, <2>2, <2>3 DEF LayersTypeOK, Places
    <2>5. LayerOffsetsInv'
      BY <1>1, <2>1, <2>2 DEF LayerOffsetsInv, TestsDoNoHarm
    <2> QED BY <2>4, <2>5 DEF SourcesInv
  <1>4. CASE BackwardAll
    <2>1. /\ UNCHANGED chosen /\ UNCHANGED <<imageAt, source, correct>>
          /\ labelAt' = IF pass = 3 THEN [r \in Processes |-> (labelAt[r] + world * bs) % Len(trainSet)]
                        ELSE labelAt
          /\ IF pass > 1 THEN pass' = pass - 1 /\ UNCHANGED at ELSE at' = "apply" /\ UNCHANGED pass
          /\ at = "backward"
      BY <1>4 DEF BackwardAll, Further
    <2>2. Processes' = Processes /\ UNCHANGED <<world, bs, trainSet>>
      BY <2>1 DEF chosen, Processes
    <2>3. LayersTypeOK'
      BY <1>1, <2>1, <2>2 DEF LayersTypeOK, Places
    <2>4. ~(at' = "backward" /\ pass' = 3)
      BY <1>1, <2>1 DEF LayersTypeOK
    <2>5. LayerOffsetsInv'
      <3>1. ASSUME TestsDoNoHarm, NEW r \in Processes PROVE labelAt'[r] = imageAt[r]
        BY <1>1, <2>1, <3>1 DEF LayerOffsetsInv
      <3> QED BY <1>1, <2>1, <2>2, <2>4, <3>1 DEF LayerOffsetsInv, TestsDoNoHarm
    <2> QED BY <2>3, <2>5 DEF SourcesInv
  <1>5. CASE Apply
    <2>1. /\ UNCHANGED chosen /\ UNCHANGED <<pass, imageAt, labelAt, source, correct>>
          /\ at = "apply" /\ at' = "iterate"
      BY <1>5 DEF Apply
    <2> QED BY <1>1, <2>1 DEF chosen, SourcesInv, LayersTypeOK, LayerOffsetsInv, TestsDoNoHarm, Processes, Places
  <1>6. CASE Test
    <2>1. /\ UNCHANGED chosen /\ UNCHANGED <<pass, imageAt, source>> /\ at = "iterate" /\ correct = -1
      BY <1>6 DEF Test
    <2>2. Processes' = Processes /\ UNCHANGED <<world, bs, trainSet>>
      BY <2>1 DEF chosen, Processes
    <2>3. \/ at' = "aborted" /\ UNCHANGED <<correct, labelAt>>
          \/ /\ UNCHANGED at /\ correct' # -1
             /\ labelAt' = [r \in Processes |-> labelAt[r] % Len(TestSet)]
      <3>1. CASE TestFits
        <4> DEFINE fc == InnerProduct(weights[0], TestBatch(Cyclic(TestSet, testOffset).image), NIn)
                   right == {b \in 0 .. (bs - 1) :
                                Cyclic(TestSet, labelAt[0] + b).label = Prediction(Pure(fc))}
        <4>1. correct' = Cardinality(right) /\ UNCHANGED at
              /\ labelAt' = [r \in Processes |-> labelAt[r] % Len(TestSet)]
          BY <1>6, <3>1 DEF Test, AfterTest
        <4>2. IsFiniteSet(0 .. (bs - 1)) /\ right \subseteq 0 .. (bs - 1)
          BY <1>1, FS_Interval DEF LayersTypeOK
        <4> HIDE DEF right
        <4>3. Cardinality(right) \in Nat
          BY <4>2, FS_Subset, FS_CardinalityType
        <4> QED BY <4>1, <4>3
      <3> QED BY <1>6, <3>1 DEF Test
    <2>4. LayersTypeOK'
      BY <1>1, <2>1, <2>2, <2>3 DEF LayersTypeOK, Places
    <2>5. ASSUME NEW r \in Processes, Len(TestSet) >= Len(trainSet)
          PROVE  imageAt[r] % Len(TestSet) = imageAt[r]
      <3>1. imageAt[r] \in 0 .. (Len(TestSet) - 1) /\ Len(TestSet) \in Nat \ {0}
        BY <1>1, <2>5, LayersAssumption DEF LayersTypeOK
      <3> QED BY <3>1
    <2>6. \A r \in Processes : source[r].images = source[r].labels /\ labelAt[r] = imageAt[r]
      BY <1>1, <2>1 DEF LayerOffsetsInv, TestsDoNoHarm
    <2>7. LayerOffsetsInv'
      BY <2>1, <2>2, <2>3, <2>5, <2>6 DEF LayerOffsetsInv, TestsDoNoHarm
    <2> QED BY <2>4, <2>7 DEF SourcesInv
  <1> QED BY <1>2, <1>3, <1>4, <1>5, <1>6 DEF LayersNext, LayersOver

\* Data and L2Norm read the same items of the training set, in every number of
\* processes and size of batch, until a test with a smaller test set is made; any
\* other test does no harm (loss.cpp:136).
THEOREM LabelsAreOfImages == LayersSpec => []LabelsOfImages
  <1>1. SourcesInv => LabelsOfImages
    BY DEF SourcesInv, LayerOffsetsInv, TestsDoNoHarm, LabelsOfImages
  <1> QED BY <1>1, SourcesInvInit, SourcesInvStep, PTL DEF LayersSpec

-----------------------------------------------------------------------------
(* The reports of the benchmark.                                             *)

\* Numbers of a set have a smallest one.
LEMMA SmallestOf ==
    ASSUME NEW T \in SUBSET Nat, T # {}
    PROVE  \E m \in T : \A k \in T : m <= k
  <1>1. IsWellFoundedOn(OpToRel(<, Nat), Nat)
    BY NatLessThanWellFounded
  <1>2. PICK m \in T : \A k \in T : ~(<<k, m>> \in OpToRel(<, Nat))
    BY <1>1, WFMin
  <1>3. \A k \in T : ~(k < m)
    BY <1>2 DEF OpToRel
  <1>4. ASSUME NEW k \in T PROVE m <= k
    <2>1. m \in Nat /\ k \in Nat /\ ~(k < m)
      BY <1>3
    <2> QED BY ONLY <2>1
  <1> QED BY <1>4

\* Induction up to n, for the members of a set.
LEMMA UpwardTo ==
    ASSUME NEW n \in Nat, NEW S, 0 \in S, \A k \in 1 .. n : k - 1 \in S => k \in S
    PROVE  \A k \in 0 .. n : k \in S
  <1> DEFINE T == {k \in 0 .. n : k \notin S}
  <1> SUFFICES ASSUME T # {} PROVE FALSE
    OBVIOUS
  <1>1. T \in SUBSET Nat
    OBVIOUS
  <1>2. PICK m \in T : \A k \in T : m <= k
    BY <1>1, SmallestOf
  <1>3. m \in 1 .. n /\ m - 1 \in 0 .. n
    BY <1>2
  <1>4. m - 1 \notin T
    BY <1>2, <1>3
  <1> QED BY <1>2, <1>3, <1>4

\* A loop over 1 .. n that keeps a value has a result: the function of the values exists.
IsLoop(f, n, V, base, step) ==
    f \in [0 .. n -> V] /\ f[0] = base /\ \A k \in 1 .. n : f[k] = step[<<f[k - 1], k>>]

LEMMA LoopExists ==
    ASSUME NEW n \in Nat, NEW V, NEW base \in V, NEW step \in [V \X (1 .. n) -> V]
    PROVE  \E f : IsLoop(f, n, V, base, step)
  <1> DEFINE upTo(f, k) == IsLoop(f, k, V, base, step)
             S == {k \in 0 .. n : \E f : upTo(f, k)}
  <1>1. 0 \in S
    <2>1. upTo([i \in 0 .. 0 |-> base], 0)
      BY DEF IsLoop
    <2>2. \E f : upTo(f, 0)
      <3> HIDE DEF upTo
      <3> QED BY <2>1
    <2>3. 0 \in 0 .. n
      OBVIOUS
    <2> HIDE DEF upTo
    <2> QED BY <2>2, <2>3
  <1>2. ASSUME NEW k \in 1 .. n, k - 1 \in S PROVE k \in S
    <2>1. PICK f : upTo(f, k - 1)
      BY <1>2
    <2> DEFINE g == [i \in 0 .. k |-> IF i = k THEN step[<<f[k - 1], k>>] ELSE f[i]]
    <2>2. k - 1 \in 0 .. (k - 1) /\ f[k - 1] \in V
      BY <2>1 DEF IsLoop
    <2>3. step[<<f[k - 1], k>>] \in V
      BY <2>2
    <2>4. g \in [0 .. k -> V]
      <3>1. ASSUME NEW i \in 0 .. k, i # k PROVE f[i] \in V
        <4>1. i \in 0 .. (k - 1)
          BY <3>1
        <4> QED BY <2>1, <4>1 DEF IsLoop
      <3> QED BY <2>3, <3>1
    <2>5. g[0] = base
      BY <2>1 DEF IsLoop
    <2>6. ASSUME NEW i \in 1 .. k PROVE g[i] = step[<<g[i - 1], i>>]
      <3>1. CASE i = k
        <4>1. i - 1 \in 0 .. k /\ i - 1 # k
          BY <3>1
        <4> QED BY <3>1, <4>1
      <3>2. CASE i # k
        <4>1. i \in 1 .. (k - 1) /\ i - 1 \in 0 .. k /\ i - 1 # k
          BY <3>2
        <4>2. f[i] = step[<<f[i - 1], i>>]
          BY <2>1, <4>1 DEF IsLoop
        <4> QED BY <3>2, <4>1, <4>2
      <3> QED BY <3>1, <3>2
    <2> HIDE DEF g
    <2>7. upTo(g, k)
      BY <2>4, <2>5, <2>6 DEF IsLoop
    <2> QED BY <2>7
  <1>3. n \in S
    <2> HIDE DEF S
    <2>1. \A k \in 0 .. n : k \in S
      BY <1>1, <1>2, UpwardTo
    <2> QED BY <2>1
  <1> QED BY <1>3

\* The loop of pprint has the values that it should have, round by round.
Statistic == [sum : Int, max : Int, min : Int]

LEMMA StatisticsLoop ==
    ASSUME NEW d \in Seq(Int), d # <<>>
    PROVE  \E f \in [0 .. Len(d) -> Statistic] :
              /\ Statistics(d) = f[Len(d)]
              /\ f[0] = [sum |-> 0, max |-> 0, min |-> d[1]]
              /\ \A k \in 1 .. Len(d) :
                    /\ f[k].sum = f[k - 1].sum + d[k]
                    /\ f[k].max = IF d[k] > f[k - 1].max THEN d[k] ELSE f[k - 1].max
                    /\ f[k].min = IF d[k] < f[k - 1].min THEN d[k] ELSE f[k - 1].min
  <1> DEFINE n == Len(d)
             base == [sum |-> 0, max |-> 0, min |-> d[1]]
             add(before, k) == [sum |-> before.sum + d[k],
                                max |-> IF d[k] > before.max THEN d[k] ELSE before.max,
                                min |-> IF d[k] < before.min THEN d[k] ELSE before.min]
             step == [p \in Statistic \X (1 .. n) |-> add(p[1], p[2])]
             body(f) == [k \in 0 .. n |-> IF k = 0 THEN base ELSE add(f[k - 1], k)]
             after == CHOOSE f : f = body(f)
  <1>1. n \in Nat \ {0} /\ \A k \in 1 .. n : d[k] \in Int
    OBVIOUS
  <1>2. base \in Statistic
    BY <1>1 DEF Statistic
  <1>3. ASSUME NEW s \in Statistic, NEW k \in 1 .. n PROVE add(s, k) \in Statistic
    <2>1. d[k] \in Int /\ s.sum \in Int /\ s.max \in Int /\ s.min \in Int
      BY <1>1 DEF Statistic
    <2> QED BY <2>1 DEF Statistic
  <1>4. step \in [Statistic \X (1 .. n) -> Statistic]
    <2> HIDE DEF add
    <2> QED BY <1>3
  <1>5. ASSUME NEW s \in Statistic, NEW k \in 1 .. n PROVE step[<<s, k>>] = add(s, k)
    <2> HIDE DEF add
    <2> QED OBVIOUS
  <1> HIDE DEF base, add, step, n
  <1>6. PICK g \in [0 .. n -> Statistic] : g[0] = base /\ \A k \in 1 .. n : g[k] = step[<<g[k - 1], k>>]
    <2>1. n \in Nat
      BY <1>1
    <2>2. \E g : IsLoop(g, n, Statistic, base, step)
      BY <1>2, <1>4, <2>1, LoopExists
    <2> QED BY <2>2 DEF IsLoop
  <1>7. g = body(g)
    <2>1. ASSUME NEW k \in 1 .. n PROVE g[k] = add(g[k - 1], k)
      <3>1. k - 1 \in 0 .. n
        BY <1>1
      <3> QED BY <1>5, <1>6, <3>1
    <2> QED BY <1>1, <1>6, <2>1
  <1>8. after = body(after)
    BY <1>7
  <1>9. Statistics(d) = after[n]
    BY DEF Statistics, FirstMin, base, add, n
  <1> HIDE DEF after
  <1>10. after[0] = base /\ \A k \in 1 .. n : after[k] = add(after[k - 1], k)
    BY <1>1, <1>8
  <1>11. after \in [0 .. n -> Statistic]
    <2> DEFINE S == {k \in 0 .. n : after[k] \in Statistic}
    <2>1. 0 \in S
      BY <1>1, <1>2, <1>10
    <2>2. \A k \in 1 .. n : k - 1 \in S => k \in S
      BY <1>1, <1>3, <1>10
    <2> HIDE DEF S
    <2>3. \A k \in 0 .. n : k \in S
      BY <1>1, <2>1, <2>2, UpwardTo
    <2>4. \A k \in 0 .. n : after[k] \in Statistic
      BY <2>3 DEF S
    <2> QED BY <1>8, <2>4
  <1>12. ASSUME NEW k \in 1 .. n
         PROVE  /\ after[k].sum = after[k - 1].sum + d[k]
                /\ after[k].max = IF d[k] > after[k - 1].max THEN d[k] ELSE after[k - 1].max
                /\ after[k].min = IF d[k] < after[k - 1].min THEN d[k] ELSE after[k - 1].min
    <2>1. after[k] = add(after[k - 1], k)
      BY <1>10
    <2> QED BY <2>1 DEF add
  <1>13. after[0] = [sum |-> 0, max |-> 0, min |-> d[1]]
    BY <1>10 DEF base
  <1> QED BY <1>9, <1>11, <1>12, <1>13, Zenon DEF n

\* One round more.
LEMMA OneMore ==
    ASSUME NEW k \in Nat, NEW lo \in Int, NEW hi \in Int, NEW sum \in Int, NEW x \in Int,
           k * lo <= sum, sum <= k * hi, lo <= x, x <= hi
    PROVE  (k + 1) * lo <= sum + x /\ sum + x <= (k + 1) * hi
  <1>1. (k + 1) * lo = k * lo + lo /\ (k + 1) * hi = k * hi + hi /\ k * lo \in Int /\ k * hi \in Int
    OBVIOUS
  <1> QED BY <1>1

LEMMA StatisticsRight ==
    ASSUME NEW d \in Seq(Int), d # <<>>
    PROVE  LET s == Statistics(d)
               n == Len(d)
           IN  /\ s \in Statistic
               /\ \E k \in 1 .. n : s.min = d[k]
               /\ \A k \in 1 .. n : s.min <= d[k] /\ d[k] <= s.max
               /\ s.max >= 0 /\ (s.max = 0 \/ \E k \in 1 .. n : s.max = d[k])
               /\ n * s.min <= s.sum /\ s.sum <= n * s.max
  <1> DEFINE s == Statistics(d)
             n == Len(d)
  <1>1. n \in Nat \ {0} /\ \A k \in 1 .. n : d[k] \in Int
    OBVIOUS
  <1>2. PICK f \in [0 .. n -> Statistic] :
            /\ s = f[n]
            /\ f[0] = [sum |-> 0, max |-> 0, min |-> d[1]]
            /\ \A k \in 1 .. n :
                  /\ f[k].sum = f[k - 1].sum + d[k]
                  /\ f[k].max = IF d[k] > f[k - 1].max THEN d[k] ELSE f[k - 1].max
                  /\ f[k].min = IF d[k] < f[k - 1].min THEN d[k] ELSE f[k - 1].min
    BY StatisticsLoop
  <1> HIDE DEF n, s
  <1>3. ASSUME NEW k \in 0 .. n PROVE f[k].sum \in Int /\ f[k].max \in Int /\ f[k].min \in Int
    BY <1>2 DEF Statistic
  <1>4. s \in Statistic /\ s.sum \in Int /\ s.max \in Int /\ s.min \in Int
    BY <1>1, <1>2, <1>3
  \* The extremes.
  <1> DEFINE extremes(k) ==
                 /\ \E j \in 1 .. n : f[k].min = d[j]
                 /\ f[k].max >= 0 /\ (f[k].max = 0 \/ \E j \in 1 .. n : f[k].max = d[j])
                 /\ \A j \in 1 .. k : f[k].min <= d[j] /\ d[j] <= f[k].max
             E == {k \in 0 .. n : extremes(k)}
  <1>5. 0 \in E
    BY <1>1, <1>2
  <1>6. ASSUME NEW k \in 1 .. n, k - 1 \in E PROVE k \in E
    <2> DEFINE b == f[k - 1]
               c == f[k]
    <2>1. k - 1 \in 0 .. n /\ k \in 0 .. n /\ extremes(k - 1)
      BY <1>6
    <2>2. /\ d[k] \in Int /\ b.max \in Int /\ b.min \in Int /\ c.max \in Int /\ c.min \in Int
      BY <1>1, <1>3, <2>1
    <2>3. /\ c.max = IF d[k] > b.max THEN d[k] ELSE b.max
          /\ c.min = IF d[k] < b.min THEN d[k] ELSE b.min
      BY <1>2
    <2> HIDE DEF b, c
    <2>4. c.min <= b.min /\ c.min <= d[k] /\ b.max <= c.max /\ d[k] <= c.max
      BY <2>2, <2>3
    <2>5. \E j \in 1 .. n : c.min = d[j]
      BY <2>1, <2>3 DEF b
    <2>6. c.max = 0 \/ \E j \in 1 .. n : c.max = d[j]
      BY <2>1, <2>3 DEF b
    <2>7. c.max >= 0
      <3>1. b.max >= 0
        BY <2>1 DEF b
      <3> QED BY <2>2, <2>4, <3>1
    <2>8. ASSUME NEW j \in 1 .. k PROVE c.min <= d[j] /\ d[j] <= c.max
      <3>1. CASE j = k
        BY <2>4, <3>1
      <3>2. CASE j # k
        <4>1. j \in 1 .. (k - 1) /\ j \in 1 .. n
          BY <1>1, <3>2
        <4>2. b.min <= d[j] /\ d[j] <= b.max /\ d[j] \in Int
          BY <1>1, <2>1, <4>1 DEF b
        <4> QED BY <2>2, <2>4, <4>2
      <3> QED BY <3>1, <3>2
    <2>9. extremes(k)
      BY <2>5, <2>6, <2>7, <2>8 DEF c
    <2> QED BY <2>1, <2>9
  <1>7. extremes(n)
    <2>1. n \in E
      <3> HIDE DEF E
      <3>1. \A k \in 0 .. n : k \in E
        BY <1>1, <1>5, <1>6, UpwardTo
      <3> QED BY <1>1, <3>1
    <2> QED BY <2>1
  <1>8. /\ \E j \in 1 .. n : s.min = d[j]
        /\ s.max >= 0 /\ (s.max = 0 \/ \E j \in 1 .. n : s.max = d[j])
        /\ \A j \in 1 .. n : s.min <= d[j] /\ d[j] <= s.max
    BY <1>2, <1>7
  \* The sum.
  <1> HIDE DEF E, extremes
  <1> DEFINE between(k) == k * s.min <= f[k].sum /\ f[k].sum <= k * s.max
             B == {k \in 0 .. n : between(k)}
  <1>9. 0 \in B
    <2>1. 0 * s.min = 0 /\ 0 * s.max = 0 /\ f[0].sum = 0
      BY <1>2, <1>4
    <2> QED BY <1>1, <2>1
  <1>10. ASSUME NEW k \in 1 .. n, k - 1 \in B PROVE k \in B
    <2>1. /\ k - 1 \in Nat /\ k - 1 \in 0 .. n /\ k \in 0 .. n /\ (k - 1) + 1 = k
          /\ f[k - 1].sum \in Int /\ d[k] \in Int /\ f[k].sum = f[k - 1].sum + d[k]
      BY <1>1, <1>2, <1>3
    <2>2. (k - 1) * s.min <= f[k - 1].sum /\ f[k - 1].sum <= (k - 1) * s.max
      BY <1>10
    <2>3. ((k - 1) + 1) * s.min <= f[k - 1].sum + d[k] /\ f[k - 1].sum + d[k] <= ((k - 1) + 1) * s.max
      BY <1>4, <1>8, <2>1, <2>2, OneMore
    <2>4. between(k)
      BY <2>1, <2>3
    <2> QED BY <2>1, <2>4
  <1>11. between(n)
    <2>1. n \in B
      <3> HIDE DEF B
      <3>1. \A k \in 0 .. n : k \in B
        BY <1>1, <1>9, <1>10, UpwardTo
      <3> QED BY <1>1, <3>1
    <2> QED BY <2>1
  <1>12. n * s.min <= s.sum /\ s.sum <= n * s.max
    BY <1>2, <1>11
  <1> QED BY <1>4, <1>8, <1>12 DEF n, s

\* A number that is n times between two numbers is so when divided by n, unless it is
\* negative and taken for an unsigned one.
LEMMA QuotientRight ==
    ASSUME NEW n \in Nat \ {0}, NEW sum \in Int, NEW lo \in Int, NEW hi \in Nat,
           n * lo <= sum, sum <= n * hi,
           4 * n <= CountModulus, -CountModulus <= 4 * n * lo, 4 * n * hi <= CountModulus
    PROVE  /\ lo <= Quotient(sum, n)
           /\ Quotient(sum, n) <= hi <=> sum >= 0 \/ n = 1
  <1> DEFINE M == CountModulus
             count == sum % M
             q == count \div n
             e == count % n
  <1>1. M \in Nat \ {0} /\ 4 * n <= M
    BY BenchmarkAssumption
  <1>2. n * lo \in Int /\ n * hi \in Int /\ 4 * n * lo = 4 * (n * lo) /\ 4 * n * hi = 4 * (n * hi)
    OBVIOUS
  <1>14. -M <= 4 * (n * lo) /\ 4 * (n * hi) <= M
    BY <1>2
  <1>3. -M <= 4 * sum /\ 4 * sum <= M
    <2> HIDE DEF M
    <2> QED BY <1>1, <1>2, <1>14
  <1>4. count = IF sum >= 0 THEN sum ELSE sum + M
    <2> HIDE DEF M
    <2>1. ASSUME NEW k \in 0 .. 1, NEW x \in 0 .. (M - 1), sum = x - k * M PROVE count = x
      <3>1. CASE k = 0
        BY <1>1, <2>1, <3>1
      <3>2. CASE k = 1
        <4>1. sum = (-1) * M + x
          BY <1>1, <2>1, <3>2
        <4> QED BY <1>1, <4>1
      <3> QED BY <3>1, <3>2
    <2>2. CASE sum >= 0
      <3>1. sum \in 0 .. (M - 1) /\ sum = sum - 0 * M
        BY <1>1, <1>3, <2>2
      <3> HIDE DEF count
      <3> QED BY <2>1, <2>2, <3>1
    <2>3. CASE sum < 0
      <3>1. sum + M \in 0 .. (M - 1) /\ sum = (sum + M) - 1 * M
        BY <1>1, <1>3, <2>3
      <3> HIDE DEF count
      <3> QED BY <2>1, <2>3, <3>1
    <2> QED BY <2>2, <2>3
  <1>5. count \in Nat
    BY <1>1, <1>3, <1>4
  <1> HIDE DEF count, M
  <1>6. q \in Nat /\ e \in 0 .. (n - 1) /\ count = q * n + e /\ q * n \in Nat
    BY <1>5
  <1> HIDE DEF q, e
  <1>7. ASSUME NEW x \in Int, x > q PROVE n * x >= q * n + n
    <2>1. n * (x - q - 1) \in Nat /\ n * x = n * (x - q - 1) + q * n + n /\ n * x \in Int
      BY <1>6, <1>7
    <2> QED BY <1>6, <2>1
  <1>8. ASSUME NEW x \in Int, x < q PROVE n * x <= q * n - n
    <2>1. n * (q - x - 1) \in Nat /\ n * x = q * n - n * (q - x - 1) - n /\ n * x \in Int
      BY <1>6, <1>8
    <2> QED BY <1>6, <2>1
  <1>9. n * q = q * n
    BY <1>6
  <1>10. Quotient(sum, n) = IF 2 * q >= M THEN q - M ELSE q
    BY DEF Quotient, Signed, q, count, M
  <1>11. CASE sum >= 0
    <2>1. q <= count
      <3>1. (n - 1) * q \in Nat /\ q * n = (n - 1) * q + q
        BY <1>6
      <3> QED BY <1>5, <1>6, <3>1
    <2>2. Quotient(sum, n) = q
      BY <1>1, <1>3, <1>4, <1>6, <1>10, <1>11, <2>1
    <2>3. ~(lo > q)
      <3>1. SUFFICES ASSUME lo > q PROVE FALSE
        OBVIOUS
      <3>2. n * lo >= q * n + n
        BY <1>7, <3>1
      <3> QED BY <1>2, <1>4, <1>6, <1>11, <3>2
    <2>4. ~(hi < q)
      <3>1. SUFFICES ASSUME hi < q PROVE FALSE
        OBVIOUS
      <3>2. n * hi <= q * n - n
        BY <1>8, <3>1
      <3> QED BY <1>2, <1>4, <1>6, <1>11, <3>2
    <2> QED BY <1>6, <1>11, <2>2, <2>3, <2>4
  <1>12. CASE sum < 0 /\ n = 1
    <2>1. q = sum + M
      BY <1>4, <1>5, <1>6, <1>12
    <2>2. Quotient(sum, n) = sum
      BY <1>1, <1>3, <1>10, <1>12, <2>1
    <2>3. n * lo = lo
      BY <1>12
    <2> QED BY <1>2, <1>12, <2>2, <2>3
  <1>13. CASE sum < 0 /\ n # 1
    <2>1. lo < 0
      <3>1. SUFFICES ASSUME lo >= 0 PROVE FALSE
        OBVIOUS
      <3>2. n * lo \in Nat
        BY <3>1
      <3> QED BY <1>13, <3>2
    <2>2. 2 * q < M
      <3>1. (n - 2) * q \in Nat /\ q * n = (n - 2) * q + 2 * q
        BY <1>6, <1>13
      <3> QED BY <1>1, <1>3, <1>4, <1>6, <1>13, <3>1
    <2>3. q > hi
      <3>1. SUFFICES ASSUME hi >= q PROVE FALSE
        BY <1>6
      <3>2. n * (hi - q) \in Nat /\ n * hi = n * (hi - q) + q * n
        BY <1>6, <3>1
      <3>3. n * hi >= q * n /\ 4 * (n * hi) <= M /\ n * hi \in Int
        BY <1>2, <1>6, <1>14, <3>2
      <3> QED BY <1>1, <1>3, <1>4, <1>6, <1>13, <3>3
    <2>4. Quotient(sum, n) = q
      BY <1>1, <1>6, <1>10, <2>2
    <2> QED BY <1>6, <1>13, <2>1, <2>3, <2>4
  <1> QED BY <1>11, <1>12, <1>13

TimePoints == Seq([attr : {"Start", "End"}, tp : Int])

BenchmarkTypeOK ==
    /\ netSize \in Nat
    /\ timePoints \in [Names -> TimePoints]
    /\ clock \in Int
    /\ ticks \in Nat
    /\ printing \in [NetRanks -> Nat]
    /\ inBarrier \in [NetRanks -> Nat]
    /\ lines \in Seq(NetRanks \X {"begin", "end"})

\* A metric's ticks so far, in pairs whose distances the clock can have.
Paired(points) ==
    /\ \A k \in 1 .. Len(points) : points[k].attr = IF k % 2 = 1 THEN "Start" ELSE "End"
    /\ \A k \in 1 .. Len(points) : k % 2 = 1 /\ k < Len(points) => points[k + 1].tp - points[k].tp \in Durations

\* After a rounds and b further ticks the first b metrics have one pair more.
TicksMade ==
    \E a \in Nat, b \in 0 .. (Len(Metrics) - 1) :
        /\ ticks = a * Len(Metrics) + b
        /\ \A j \in 1 .. Len(Metrics) :
              Len(timePoints[Metrics[j]]) = 2 * (IF j <= b THEN a + 1 ELSE a)

Ended(r) == Len(lines) >= 2 * r + 2

LinesInOrder ==
    \A k \in 1 .. Len(lines) : lines[k] = <<(k - 1) \div 2, IF k % 2 = 1 THEN "begin" ELSE "end">>

\* A process is in the barrier of its round or before it, and who has been in that of
\* its own round has printed.
BarrierInv ==
    \A r \in NetRanks :
        /\ inBarrier[r] \in {printing[r], printing[r] + 1}
        /\ \A s \in NetRanks : inBarrier[s] >= printing[r]
        /\ inBarrier[r] > r => Ended(r)

BenchmarkInv ==
    /\ BenchmarkTypeOK
    /\ \A m \in Names : Paired(timePoints[m])
    /\ TicksMade
    /\ lines # <<>> => Printing
    /\ LinesInOrder
    /\ BarrierInv

LEMMA BenchmarkInvInit == BenchmarkInit => BenchmarkInv
  <1> SUFFICES ASSUME BenchmarkInit PROVE BenchmarkInv
    OBVIOUS
  <1>1. /\ netSize \in Nat /\ timePoints = [m \in Names |-> <<>>] /\ clock = 0 /\ ticks = 0
        /\ printing = [r \in NetRanks |-> 0] /\ inBarrier = [r \in NetRanks |-> 0] /\ lines = <<>>
    BY BenchmarkAssumption DEF BenchmarkInit
  <1>2. BenchmarkTypeOK
    BY <1>1 DEF BenchmarkTypeOK, TimePoints
  <1>3. \A m \in Names : Paired(timePoints[m])
    BY <1>1 DEF Paired
  <1>4. TicksMade
    <2>1. Len(Metrics) \in Nat \ {0} /\ 0 = 0 * Len(Metrics) + 0 /\ 0 \in 0 .. (Len(Metrics) - 1)
      BY BenchmarkAssumption
    <2>2. \A j \in 1 .. Len(Metrics) : Len(timePoints[Metrics[j]]) = 2 * (IF j <= 0 THEN 0 + 1 ELSE 0)
      BY <1>1, <2>1 DEF Names
    <2> QED BY <1>1, <2>1, <2>2 DEF TicksMade
  <1>5. BarrierInv
    <2>1. \A r \in NetRanks : r \in Nat
      BY <1>1 DEF NetRanks
    <2> QED BY <1>1, <2>1 DEF BarrierInv
  <1> QED BY <1>1, <1>2, <1>3, <1>4, <1>5 DEF BenchmarkInv, LinesInOrder

LEMMA Concatenated ==
    ASSUME NEW V, NEW s \in Seq(V), NEW t \in Seq(V)
    PROVE  /\ s \o t \in Seq(V) /\ Len(s \o t) = Len(s) + Len(t)
           /\ \A k \in 1 .. Len(s) : (s \o t)[k] = s[k]
           /\ \A k \in 1 .. Len(t) : (s \o t)[Len(s) + k] = t[k]
  <1>1. Len(s) \in Nat /\ Len(t) \in Nat
    OBVIOUS
  <1>2. s \o t \in Seq(V)
    OBVIOUS
  <1>3. Len(s \o t) = Len(s) + Len(t)
    OBVIOUS
  <1>4. ASSUME NEW k \in 1 .. Len(s) PROVE (s \o t)[k] = s[k]
    OBVIOUS
  <1>5. ASSUME NEW k \in 1 .. Len(t) PROVE (s \o t)[Len(s) + k] = t[k]
    <2>1. Len(s) + k \in 1 .. (Len(s) + Len(t)) /\ ~(Len(s) + k <= Len(s)) /\ (Len(s) + k) - Len(s) = k
      BY <1>1
    <2> QED BY <1>1, <2>1
  <1> QED BY <1>2, <1>3, <1>4, <1>5

\* A pair behind a sequence.
LEMMA PairBehind ==
    ASSUME NEW V, NEW s \in Seq(V), NEW x \in V, NEW y \in V
    PROVE  /\ s \o <<x, y>> \in Seq(V) /\ Len(s \o <<x, y>>) = Len(s) + 2
           /\ \A k \in 1 .. Len(s) : (s \o <<x, y>>)[k] = s[k]
           /\ (s \o <<x, y>>)[Len(s) + 1] = x /\ (s \o <<x, y>>)[Len(s) + 2] = y
  <1>1. <<x, y>> \in Seq(V) /\ Len(<<x, y>>) = 2 /\ <<x, y>>[1] = x /\ <<x, y>>[2] = y
    OBVIOUS
  <1>2. \E t \in Seq(V) : t = <<x, y>> /\ Len(t) = 2 /\ t[1] = x /\ t[2] = y
    BY <1>1
  <1>3. PICK t \in Seq(V) : t = <<x, y>> /\ Len(t) = 2 /\ t[1] = x /\ t[2] = y
    BY <1>2
  <1>4. /\ s \o t \in Seq(V) /\ Len(s \o t) = Len(s) + Len(t)
        /\ \A k \in 1 .. Len(s) : (s \o t)[k] = s[k]
        /\ \A k \in 1 .. Len(t) : (s \o t)[Len(s) + k] = t[k]
    BY Concatenated
  <1>5. /\ Len(s \o t) = Len(s) + 2 /\ (s \o t)[Len(s) + 1] = x /\ (s \o t)[Len(s) + 2] = y
    <2>1. 1 \in 1 .. 2 /\ 2 \in 1 .. 2
      OBVIOUS
    <2> QED BY <1>3, <1>4, <2>1, Zenon
  <1> QED BY <1>3, <1>4, <1>5, Zenon

LEMMA TickKeeps == BenchmarkInv /\ Tick => BenchmarkInv'
  <1> SUFFICES ASSUME BenchmarkInv, Tick PROVE BenchmarkInv'
    OBVIOUS
  <1> DEFINE L == Len(Metrics)
  <1>1. L \in Nat \ {0} /\ Rounds \in Nat
    BY BenchmarkAssumption
  <1>2. PICK a \in Nat, b \in 0 .. (L - 1) :
            /\ ticks = a * L + b
            /\ \A j \in 1 .. L : Len(timePoints[Metrics[j]]) = 2 * (IF j <= b THEN a + 1 ELSE a)
    BY DEF BenchmarkInv, TicksMade
  <1>3. PICK d \in Durations :
            /\ clock' = clock + d
            /\ timePoints' = [timePoints EXCEPT ![Metrics[(ticks % L) + 1]] =
                    @ \o Pair([attr |-> "Start", tp |-> clock], [attr |-> "End", tp |-> clock + d])]
    BY DEF Tick
  <1>4. /\ BenchmarkTypeOK /\ LinesInOrder /\ BarrierInv /\ (\A m \in Names : Paired(timePoints[m]))
        /\ ticks \in Nat /\ clock \in Int /\ d \in Int
        /\ timePoints \in [Names -> TimePoints]
        /\ ticks' = ticks + 1 /\ ticks # Rounds * L
        /\ UNCHANGED <<netSize, printing, inBarrier, lines>>
    <2>1. /\ BenchmarkTypeOK /\ LinesInOrder /\ BarrierInv /\ (\A m \in Names : Paired(timePoints[m]))
          /\ ticks \in Nat /\ clock \in Int /\ timePoints \in [Names -> TimePoints]
      BY DEF BenchmarkInv, BenchmarkTypeOK
    <2>2. d \in Int
      BY BenchmarkAssumption
    <2>3. ticks < Rounds * L /\ ticks' = ticks + 1 /\ UNCHANGED <<netSize, printing, inBarrier, lines>>
      BY DEF Tick
    <2>4. Rounds * L \in Nat
      BY <1>1
    <2> HIDE DEF L
    <2>5. ticks # Rounds * L
      BY <2>1, <2>3, <2>4
    <2> QED BY <2>1, <2>2, <2>3, <2>5
  <1>5. lines = <<>>
    BY <1>4 DEF BenchmarkInv, Printing
  <1> DEFINE m == Metrics[b + 1]
             start == [attr |-> "Start", tp |-> clock]
             end == [attr |-> "End", tp |-> clock + d]
  <1>6. ticks % L = b
    <2> HIDE DEF L
    <2> QED BY <1>1, <1>2
  <1>7. b + 1 \in 1 .. L /\ m \in Names
    BY <1>1 DEF Names
  <1>8. /\ timePoints'[m] = timePoints[m] \o <<start, end>>
        /\ \A k \in Names : k # m => timePoints'[k] = timePoints[k]
    BY <1>3, <1>4, <1>6, <1>7 DEF Pair
  <1> DEFINE old == timePoints[m]
             new == timePoints'[m]
  <1>9. old \in TimePoints /\ Len(old) = 2 * a
    <2>1. ~(b + 1 <= b)
      OBVIOUS
    <2> QED BY <1>2, <1>4, <1>7, <2>1
  <1> HIDE DEF m
  <1>10. start \in [attr : {"Start", "End"}, tp : Int] /\ end \in [attr : {"Start", "End"}, tp : Int]
    BY <1>4
  <1>11. /\ new \in TimePoints /\ Len(new) = 2 * a + 2
         /\ new[2 * a + 1] = start /\ new[2 * a + 2] = end
         /\ \A k \in 1 .. (2 * a) : new[k] = old[k]
    <2> HIDE DEF old, start, end
    <2>1. new = old \o <<start, end>>
      BY <1>8 DEF old, start, end
    <2> HIDE DEF new
    <2> DEFINE V == [attr : {"Start", "End"}, tp : Int]
    <2>2. start \in V /\ end \in V /\ old \in Seq(V)
      BY <1>9, <1>10 DEF TimePoints
    <2> HIDE DEF V
    <2>3. /\ new \in Seq(V) /\ Len(new) = Len(old) + 2
          /\ \A k \in 1 .. Len(old) : new[k] = old[k]
          /\ new[Len(old) + 1] = start /\ new[Len(old) + 2] = end
      BY <2>1, <2>2, PairBehind
    <2> QED BY <1>9, <2>3 DEF V, TimePoints
  <1>12. BenchmarkTypeOK'
    <2>1. timePoints' \in [Names -> TimePoints]
      <3>1. \A k \in Names : timePoints'[k] \in TimePoints
        BY <1>4, <1>8, <1>11
      <3>2. timePoints' = [k \in Names |-> timePoints'[k]]
        BY <1>3, <1>4
      <3> QED BY <3>1, <3>2
    <2>2. NetRanks' = NetRanks /\ clock' \in Int /\ ticks' \in Nat
      BY <1>3, <1>4 DEF NetRanks
    <2> QED BY <1>4, <2>1, <2>2 DEF BenchmarkTypeOK
  <1>13. \A k \in Names : Paired(timePoints[k])'
    <2>1. Paired(old)
      BY <1>4, <1>7 DEF m
    <2>2. end.tp - start.tp = d /\ start.attr = "Start" /\ end.attr = "End"
      BY <1>4
    <2>3. (2 * a + 1) % 2 = 1 /\ (2 * a + 2) % 2 # 1 /\ (2 * a) % 2 # 1
      OBVIOUS
    <2>4. ASSUME NEW k \in 1 .. Len(new) PROVE new[k].attr = IF k % 2 = 1 THEN "Start" ELSE "End"
      <3>1. CASE k \in 1 .. (2 * a)
        <4>1. old[k].attr = IF k % 2 = 1 THEN "Start" ELSE "End"
          BY <1>9, <2>1, <3>1 DEF Paired
        <4> QED BY <1>11, <3>1, <4>1
      <3>2. CASE k = 2 * a + 1
        BY <1>11, <2>2, <2>3, <3>2
      <3>3. CASE k = 2 * a + 2
        BY <1>11, <2>2, <2>3, <3>3
      <3> QED BY <1>11, <3>1, <3>2, <3>3
    <2>5. ASSUME NEW k \in 1 .. Len(new), k % 2 = 1, k < Len(new) PROVE new[k + 1].tp - new[k].tp \in Durations
      <3>1. CASE k < 2 * a
        <4>1. k \in 1 .. (2 * a) /\ k + 1 \in 1 .. (2 * a) /\ k < Len(old)
          BY <1>9, <3>1
        <4>2. old[k + 1].tp - old[k].tp \in Durations
          BY <1>9, <2>1, <2>5, <4>1 DEF Paired
        <4> QED BY <1>11, <4>1, <4>2
      <3>2. CASE k = 2 * a + 1
        <4>1. k + 1 = 2 * a + 2
          BY <3>2
        <4> QED BY <1>11, <2>2, <3>2, <4>1
      <3>3. k # 2 * a
        BY <2>3, <2>5
      <3> QED BY <1>11, <2>5, <3>1, <3>2, <3>3
    <2>6. Paired(new)
      BY <2>4, <2>5 DEF Paired
    <2> QED BY <1>4, <1>8, <2>6
  <1>14. TicksMade'
    <2> DEFINE a2 == IF b + 1 = L THEN a + 1 ELSE a
               b2 == IF b + 1 = L THEN 0 ELSE b + 1
    <2>1. ticks' = a2 * L + b2 /\ a2 \in Nat /\ b2 \in 0 .. (L - 1)
      <3> HIDE DEF L
      <3>1. a * L \in Nat /\ (a + 1) * L = a * L + L
        BY <1>1
      <3> QED BY <1>1, <1>2, <1>4, <3>1
    <2>2. ASSUME NEW j \in 1 .. L
          PROVE  Len(timePoints'[Metrics[j]]) = 2 * (IF j <= b2 THEN a2 + 1 ELSE a2)
      <3>1. Len(timePoints[Metrics[j]]) = 2 * (IF j <= b THEN a + 1 ELSE a) /\ Metrics[j] \in Names
        BY <1>2 DEF Names
      <3>2. CASE j = b + 1
        <4>1. Len(timePoints'[Metrics[j]]) = 2 * a + 2
          BY <1>11, <3>2 DEF m
        <4>2. (IF j <= b2 THEN a2 + 1 ELSE a2) = a + 1
          BY <1>1, <3>2
        <4> HIDE DEF a2, b2
        <4> QED BY <4>1, <4>2
      <3>3. CASE j # b + 1
        <4>1. timePoints'[Metrics[j]] = timePoints[Metrics[j]]
          <5>1. Metrics[j] # m
            BY <1>7, <3>3, BenchmarkAssumption DEF m
          <5> QED BY <1>8, <3>1, <5>1
        <4>2. (IF j <= b2 THEN a2 + 1 ELSE a2) = IF j <= b THEN a + 1 ELSE a
          BY <1>1, <3>3
        <4> HIDE DEF a2, b2
        <4> QED BY <3>1, <4>1, <4>2
      <3> QED BY <3>2, <3>3
    <2> HIDE DEF a2, b2
    <2> QED BY <2>1, <2>2 DEF TicksMade
  <1>15. BarrierInv' /\ LinesInOrder'
    BY <1>4 DEF BarrierInv, LinesInOrder, Ended, NetRanks
  <1> QED BY <1>4, <1>5, <1>12, <1>13, <1>14, <1>15 DEF BenchmarkInv

LEMMA RankType == ASSUME BenchmarkTypeOK, NEW r \in NetRanks
    PROVE  r \in Nat /\ (r > 0 => r - 1 \in NetRanks) /\ printing[r] \in Nat /\ inBarrier[r] \in Nat /\ Len(lines) \in Nat
  <1>1. r \in Nat /\ (r > 0 => r - 1 \in NetRanks)
    BY DEF NetRanks, BenchmarkTypeOK
  <1> QED BY <1>1 DEF BenchmarkTypeOK

\* Where a line is follows from who printed it.
LEMMA PlaceOfLine ==
    ASSUME BenchmarkInv, NEW r \in NetRanks
    PROVE  /\ <<r, "begin">> \in ToSet(lines) <=> Len(lines) >= 2 * r + 1
           /\ <<r, "end">> \in ToSet(lines) <=> Ended(r)
  <1>1. r \in Nat /\ Len(lines) \in Nat /\ LinesInOrder /\ DOMAIN lines = 1 .. Len(lines)
    BY RankType DEF BenchmarkInv, BenchmarkTypeOK
  <1>2. ASSUME NEW w \in {"begin", "end"}, <<r, w>> \in ToSet(lines)
        PROVE  Len(lines) >= IF w = "begin" THEN 2 * r + 1 ELSE 2 * r + 2
    <2>1. PICK k \in 1 .. Len(lines) : lines[k] = <<r, w>>
      BY <1>1, <1>2 DEF ToSet
    <2>2. (k - 1) \div 2 = r /\ (IF k % 2 = 1 THEN "begin" ELSE "end") = w
      BY <1>1, <2>1 DEF LinesInOrder
    <2>3. CASE w = "begin"
      <3>1. k = 2 * r + 1
        BY <1>1, <2>2, <2>3
      <3> QED BY <1>1, <2>3, <3>1
    <2>4. CASE w = "end"
      <3>1. k % 2 # 1
        BY <2>2, <2>4
      <3>2. k = 2 * r + 2
        BY <1>1, <2>2, <3>1
      <3> QED BY <1>1, <2>4, <3>2
    <2> QED BY <2>3, <2>4
  <1>3. ASSUME Len(lines) >= 2 * r + 1 PROVE <<r, "begin">> \in ToSet(lines)
    <2>1. 2 * r + 1 \in 1 .. Len(lines) /\ ((2 * r + 1) - 1) \div 2 = r /\ (2 * r + 1) % 2 = 1
      BY <1>1, <1>3
    <2>2. lines[2 * r + 1] = <<r, "begin">>
      BY <1>1, <2>1 DEF LinesInOrder
    <2> QED BY <1>1, <2>1, <2>2 DEF ToSet
  <1>4. ASSUME Ended(r) PROVE <<r, "end">> \in ToSet(lines)
    <2>1. 2 * r + 2 \in 1 .. Len(lines) /\ ((2 * r + 2) - 1) \div 2 = r /\ (2 * r + 2) % 2 # 1
      BY <1>1, <1>4 DEF Ended
    <2>2. lines[2 * r + 2] = <<r, "end">>
      BY <1>1, <2>1 DEF LinesInOrder
    <2> QED BY <1>1, <2>1, <2>2 DEF ToSet
  <1>5. <<r, "end">> \in ToSet(lines) => Ended(r)
    <2> SUFFICES ASSUME <<r, "end">> \in ToSet(lines) PROVE Ended(r)
      OBVIOUS
    <2>1. Len(lines) >= IF "end" = "begin" THEN 2 * r + 1 ELSE 2 * r + 2
      BY <1>2
    <2> QED BY <2>1 DEF Ended
  <1>6. <<r, "begin">> \in ToSet(lines) => Len(lines) >= 2 * r + 1
    BY <1>2
  <1> QED BY <1>3, <1>4, <1>5, <1>6

LEMMA PrintKeeps == ASSUME BenchmarkInv, NEW r \in NetRanks, NetPrint(r) PROVE BenchmarkInv'
  <1>1. /\ BenchmarkTypeOK /\ (\A m \in Names : Paired(timePoints[m])) /\ TicksMade /\ LinesInOrder /\ BarrierInv
        /\ lines # <<>> => Printing
    BY DEF BenchmarkInv
  <1>2. \A s \in NetRanks : s \in Nat /\ printing[s] \in Nat /\ inBarrier[s] \in Nat
    BY <1>1, RankType
  <1>3. /\ r \in Nat /\ Len(lines) \in Nat /\ lines \in Seq(NetRanks \X {"begin", "end"})
        /\ printing \in [NetRanks -> Nat] /\ inBarrier \in [NetRanks -> Nat]
    BY <1>1, RankType DEF BenchmarkTypeOK
  <1>4. ASSUME UNCHANGED <<netSize, timePoints, clock, ticks>>,
               lines' \in Seq(NetRanks \X {"begin", "end"}), printing' \in [NetRanks -> Nat],
               inBarrier' \in [NetRanks -> Nat]
        PROVE  /\ BenchmarkTypeOK' /\ (\A m \in Names : Paired(timePoints[m]))' /\ TicksMade'
               /\ Printing => Printing'
    BY <1>1, <1>4 DEF BenchmarkTypeOK, NetRanks, TicksMade, Printing
  <1>5. ASSUME NEW w \in {"begin", "end"}, lines' = Append(lines, <<r, w>>),
               Len(lines) = IF w = "begin" THEN 2 * r ELSE 2 * r + 1, Printing,
               UNCHANGED <<netSize, timePoints, clock, ticks, printing, inBarrier>>
        PROVE  BenchmarkInv'
    <2>1. /\ lines' \in Seq(NetRanks \X {"begin", "end"}) /\ Len(lines') = Len(lines) + 1
          /\ lines'[Len(lines) + 1] = <<r, w>> /\ \A k \in 1 .. Len(lines) : lines'[k] = lines[k]
      BY <1>3, <1>5
    <2>2. LinesInOrder'
      <3> SUFFICES ASSUME NEW k \in 1 .. Len(lines')
                   PROVE  lines'[k] = <<(k - 1) \div 2, IF k % 2 = 1 THEN "begin" ELSE "end">>
        BY DEF LinesInOrder
      <3>1. CASE k \in 1 .. Len(lines)
        BY <1>1, <2>1, <3>1 DEF LinesInOrder
      <3>2. CASE k = Len(lines) + 1
        <4>1. (k - 1) \div 2 = r /\ (IF k % 2 = 1 THEN "begin" ELSE "end") = w
          <5>1. CASE w = "begin"
            <6>1. k = 2 * r + 1
              BY <1>5, <3>2, <5>1
            <6>2. (k - 1) \div 2 = r /\ k % 2 = 1
              BY <1>3, <6>1
            <6> QED BY <5>1, <6>2
          <5>2. CASE w = "end"
            <6>1. k = 2 * r + 2
              BY <1>3, <1>5, <3>2, <5>2
            <6>2. (k - 1) \div 2 = r /\ k % 2 # 1
              BY <1>3, <6>1
            <6> QED BY <5>2, <6>2
          <5> QED BY <5>1, <5>2
        <4> QED BY <2>1, <3>2, <4>1
      <3> QED BY <1>3, <2>1, <3>1, <3>2
    <2>3. NetRanks' = NetRanks /\ \A s \in NetRanks : Ended(s) => Ended(s)'
      BY <1>2, <1>3, <1>5, <2>1 DEF NetRanks, Ended
    <2>4. BarrierInv'
      BY <1>1, <1>5, <2>3 DEF BarrierInv
    <2> QED BY <1>3, <1>4, <1>5, <2>1, <2>2, <2>4 DEF BenchmarkInv
  <1>6. CASE BeginReport(r)
    <2>1. /\ Printing /\ inBarrier[r] = printing[r] /\ printing[r] = r /\ <<r, "begin">> \notin ToSet(lines)
          /\ lines' = Append(lines, <<r, "begin">>)
          /\ UNCHANGED <<netSize, timePoints, clock, ticks, printing, inBarrier>>
      BY <1>6 DEF BeginReport
    <2>2. Len(lines) < 2 * r + 1
      <3>1. ~(Len(lines) >= 2 * r + 1)
        BY <2>1, PlaceOfLine
      <3> QED BY <1>3, <3>1
    <2>3. Len(lines) >= 2 * r
      <3>1. CASE r = 0
        BY <1>3, <3>1
      <3>2. CASE r > 0
        <4>1. r - 1 \in NetRanks
          BY <1>1, <3>2, RankType
        <4>2. inBarrier[r - 1] >= r
          BY <1>1, <2>1, <4>1 DEF BarrierInv
        <4>3. Ended(r - 1)
          BY <1>1, <1>2, <1>3, <4>1, <4>2 DEF BarrierInv
        <4> QED BY <1>3, <4>3 DEF Ended
      <3> QED BY <1>3, <3>1, <3>2
    <2> QED BY <1>3, <1>5, <2>1, <2>2, <2>3
  <1>7. CASE EndReport(r)
    <2>1. /\ <<r, "begin">> \in ToSet(lines) /\ <<r, "end">> \notin ToSet(lines)
          /\ lines' = Append(lines, <<r, "end">>)
          /\ UNCHANGED <<netSize, timePoints, clock, ticks, printing, inBarrier>>
      BY <1>7 DEF EndReport
    <2>2. Len(lines) = 2 * r + 1
      BY <1>3, <2>1, PlaceOfLine DEF Ended
    <2>3. Printing
      BY <1>1, <1>3, <2>2
    <2> QED BY <1>5, <2>1, <2>2, <2>3
  <1>8. CASE EnterBarrier(r)
    <2>1. /\ inBarrier[r] = printing[r]
          /\ printing[r] = r => Ended(r)
          /\ inBarrier' = [inBarrier EXCEPT ![r] = @ + 1]
          /\ UNCHANGED <<netSize, timePoints, clock, ticks, printing, lines>>
      BY <1>8, PlaceOfLine DEF EnterBarrier
    <2>2. inBarrier' \in [NetRanks -> Nat] /\ NetRanks' = NetRanks
      BY <1>3, <2>1 DEF NetRanks
    <2>3. \A s \in NetRanks : inBarrier'[s] = IF s = r THEN inBarrier[s] + 1 ELSE inBarrier[s]
      BY <1>3, <2>1
    <2>4. Ended(r)' <=> Ended(r)
      BY <2>1 DEF Ended
    <2>5. ASSUME NEW s \in NetRanks
          PROVE  /\ inBarrier'[s] \in {printing[s], printing[s] + 1}
                 /\ \A u \in NetRanks : inBarrier'[u] >= printing[s]
                 /\ inBarrier'[s] > s => Ended(s)
      <3>1. /\ inBarrier[s] \in {printing[s], printing[s] + 1}
            /\ \A u \in NetRanks : inBarrier[u] >= printing[s]
            /\ inBarrier[s] > s => Ended(s)
        BY <1>1 DEF BarrierInv
      <3>2. inBarrier'[s] \in {printing[s], printing[s] + 1}
        BY <1>2, <2>1, <2>3, <3>1
      <3>3. ASSUME NEW u \in NetRanks PROVE inBarrier'[u] >= printing[s]
        BY <1>2, <2>3, <3>1
      <3>4. inBarrier'[s] > s => Ended(s)
        BY <1>2, <2>1, <2>3, <3>1
      <3> QED BY <3>2, <3>3, <3>4
    <2>6. BarrierInv'
      BY <2>1, <2>2, <2>5 DEF BarrierInv, Ended
    <2> QED BY <1>1, <1>3, <1>4, <2>1, <2>2, <2>6 DEF BenchmarkInv, LinesInOrder
  <1>9. CASE LeaveBarrier(r)
    <2>1. /\ inBarrier[r] = printing[r] + 1 /\ \A s \in NetRanks : inBarrier[s] >= inBarrier[r]
          /\ printing' = [printing EXCEPT ![r] = @ + 1]
          /\ UNCHANGED <<netSize, timePoints, clock, ticks, inBarrier, lines>>
      BY <1>9 DEF LeaveBarrier, Barrier
    <2>2. printing' \in [NetRanks -> Nat] /\ NetRanks' = NetRanks
      BY <1>3, <2>1 DEF NetRanks
    <2>3. \A s \in NetRanks : printing'[s] = IF s = r THEN printing[s] + 1 ELSE printing[s]
      BY <1>3, <2>1
    <2>4. ASSUME NEW s \in NetRanks
          PROVE  /\ inBarrier[s] \in {printing'[s], printing'[s] + 1}
                 /\ \A u \in NetRanks : inBarrier[u] >= printing'[s]
                 /\ inBarrier[s] > s => Ended(s)
      BY <1>1, <1>2, <2>1, <2>3 DEF BarrierInv
    <2>5. BarrierInv'
      BY <2>1, <2>2, <2>4 DEF BarrierInv, Ended
    <2> QED BY <1>1, <1>3, <1>4, <2>1, <2>2, <2>5 DEF BenchmarkInv, LinesInOrder
  <1> QED BY <1>6, <1>7, <1>8, <1>9 DEF NetPrint

LEMMA BenchmarkInvStep == BenchmarkInv /\ [BenchmarkNext]_benchmarkVars => BenchmarkInv'
  <1> SUFFICES ASSUME BenchmarkInv, [BenchmarkNext]_benchmarkVars PROVE BenchmarkInv'
    OBVIOUS
  <1>1. CASE UNCHANGED benchmarkVars
    BY <1>1 DEF benchmarkVars, BenchmarkInv, BenchmarkTypeOK, TicksMade, Printing, LinesInOrder, BarrierInv,
                Ended, NetRanks
  <1> QED BY <1>1, TickKeeps, PrintKeeps DEF BenchmarkNext, BenchmarkOver

\* All rounds are over: each metric has as many pairs as there were rounds.
LEMMA MeasuredWhenPrinting ==
    ASSUME BenchmarkInv, Printing, NEW m \in Names
    PROVE  MeasuredAndWhole(m)
  <1> DEFINE L == Len(Metrics)
             points == timePoints[m]
             d == MeasuredDurations(points)
             s == Statistics(d)
  <1>1. L \in Nat \ {0} /\ Rounds \in Nat \ {0}
    BY BenchmarkAssumption
  <1>2. points \in TimePoints /\ Paired(points) /\ ticks \in Nat
    BY DEF BenchmarkInv, BenchmarkTypeOK
  <1>3. Len(points) = 2 * Rounds
    <2>1. PICK a \in Nat, b \in 0 .. (L - 1) :
              /\ ticks = a * L + b
              /\ \A j \in 1 .. L : Len(timePoints[Metrics[j]]) = 2 * (IF j <= b THEN a + 1 ELSE a)
      BY DEF BenchmarkInv, TicksMade
    <2>2. PICK j \in 1 .. L : m = Metrics[j]
      BY DEF Names
    <2>3. a * L + b = Rounds * L
      BY <2>1 DEF Printing
    <2> HIDE DEF L
    <2>4. a = Rounds /\ b = 0
      <3>1. CASE a < Rounds
        <4>1. (Rounds - a - 1) * L \in Nat /\ Rounds * L = (Rounds - a - 1) * L + a * L + L /\ a * L \in Nat
          BY <1>1, <3>1
        <4> QED BY <1>1, <2>3, <4>1
      <3>2. CASE a > Rounds
        <4>1. (a - Rounds - 1) * L \in Nat /\ a * L = (a - Rounds - 1) * L + Rounds * L + L /\ Rounds * L \in Nat
          BY <1>1, <3>2
        <4> QED BY <1>1, <2>3, <4>1
      <3>3. CASE a = Rounds
        <4>1. Rounds * L \in Nat
          BY <1>1
        <4> QED BY <2>3, <3>3, <4>1
      <3> QED BY <1>1, <3>1, <3>2, <3>3
    <2>5. Len(timePoints[Metrics[j]]) = 2 * (IF j <= b THEN a + 1 ELSE a) /\ ~(j <= b)
      BY <1>1, <2>1, <2>4
    <2> QED BY <2>2, <2>4, <2>5
  <1> HIDE DEF points
  <1>4. WellPaired(points)
    <2>1. (2 * Rounds) % 2 = 0
      BY <1>1
    <2> QED BY <1>2, <1>3, <2>1 DEF WellPaired, Paired
  <1>5. (2 * Rounds) \div 2 = Rounds
    BY <1>1
  <1>6. d = [k \in 1 .. Rounds |-> points[2 * k].tp - points[2 * k - 1].tp]
    BY <1>3, <1>5 DEF MeasuredDurations
  <1>7. ASSUME NEW k \in 1 .. Rounds PROVE d[k] \in Durations
    <2>1. /\ 2 * k - 1 \in 1 .. Len(points) /\ (2 * k - 1) + 1 = 2 * k /\ (2 * k - 1) % 2 = 1
          /\ 2 * k - 1 < Len(points)
      BY <1>1, <1>3
    <2>2. points[(2 * k - 1) + 1].tp - points[2 * k - 1].tp \in Durations
      BY <1>2, <2>1 DEF Paired
    <2> QED BY <1>6, <2>1, <2>2
  <1>8. d \in Seq(Int) /\ Len(d) = Rounds /\ d # <<>>
    <2>1. \A k \in 1 .. Rounds : d[k] \in Int
      BY <1>7, BenchmarkAssumption
    <2>2. d \in [1 .. Rounds -> Int]
      BY <1>6, <2>1
    <2> HIDE DEF d
    <2> QED BY <1>1, <2>2
  <1> HIDE DEF d, s
  <1>9. /\ s \in Statistic
        /\ \E k \in 1 .. Rounds : s.min = d[k]
        /\ \A k \in 1 .. Rounds : s.min <= d[k] /\ d[k] <= s.max
        /\ s.max >= 0 /\ (s.max = 0 \/ \E k \in 1 .. Rounds : s.max = d[k])
        /\ Rounds * s.min <= s.sum /\ s.sum <= Rounds * s.max
    BY <1>8, StatisticsRight DEF s
  <1>10. s.sum \in Int /\ s.min \in Int /\ s.max \in Nat
    BY <1>9 DEF Statistic
  <1>11. \A k \in 1 .. Rounds : 4 * Rounds * d[k] \in -CountModulus .. CountModulus /\ d[k] \in Int
    BY <1>7, BenchmarkAssumption
  <1>12. -CountModulus <= 4 * Rounds * s.min
    BY <1>9, <1>11, BenchmarkAssumption
  <1>13. 4 * Rounds * s.max <= CountModulus
    <2>1. CASE s.max = 0
      <3>1. 4 * Rounds * 0 = 0
        BY <1>1
      <3> QED BY <2>1, <3>1, BenchmarkAssumption
    <2>2. CASE s.max # 0
      BY <1>9, <1>11, <2>2, BenchmarkAssumption
    <2> QED BY <2>1, <2>2
  <1>14. /\ s.min <= Quotient(s.sum, Rounds)
         /\ Quotient(s.sum, Rounds) <= s.max <=> s.sum >= 0 \/ Rounds = 1
    <2>1. 4 * Rounds <= CountModulus
      BY BenchmarkAssumption
    <2> QED BY <1>1, <1>9, <1>10, <1>12, <1>13, <2>1, QuotientRight
  <1>15. (\E k \in 1 .. Rounds : s.max = d[k]) \/ (s.max = 0 /\ \A k \in 1 .. Rounds : d[k] < 0)
    <2> SUFFICES ASSUME ~(\E k \in 1 .. Rounds : s.max = d[k])
                 PROVE  s.max = 0 /\ \A k \in 1 .. Rounds : d[k] < 0
      OBVIOUS
    <2>1. s.max = 0
      BY <1>9
    <2>2. ASSUME NEW k \in 1 .. Rounds PROVE d[k] < 0
      <3>1. d[k] # 0 /\ d[k] <= 0 /\ d[k] \in Int
        BY <1>9, <1>11, <2>1
      <3> QED BY <3>1
    <2> QED BY <2>1, <2>2
  <1>16. Report(points) = [average |-> Quotient(s.sum, Rounds), max |-> s.max, min |-> s.min]
    BY <1>8 DEF Report, d, s
  <1>17. /\ Report(points).min = s.min /\ Report(points).max = s.max
         /\ Report(points).average = Quotient(s.sum, Rounds)
    BY <1>16
  <1> QED BY <1>4, <1>8, <1>9, <1>14, <1>15, <1>17 DEF MeasuredAndWhole, d, s, points

\* The reports come in the order of the ranks, for any number of processes, metrics and
\* rounds, and what they print was measured; their average is wrong exactly when the
\* clock went back by more than it went forward, over several rounds
\* (net.cpp:102-114, benchmark.cpp:63-106).
THEOREM PrintedInTurn == BenchmarkSpec => []ReportsInOrder
  <1>1. BenchmarkInv => ReportsInOrder
    BY MeasuredWhenPrinting DEF BenchmarkInv, LinesInOrder, ReportsInOrder
  <1> QED BY <1>1, BenchmarkInvInit, BenchmarkInvStep, PTL DEF BenchmarkSpec

-----------------------------------------------------------------------------
(* Tensors.                                                                  *)

\* A loop whose values have another range in each round has a result, too.
IsLoopIn(f, n, V, base, step) ==
    /\ f = [k \in 0 .. n |-> f[k]]
    /\ \A k \in 0 .. n : f[k] \in V[k]
    /\ f[0] = base
    /\ \A k \in 1 .. n : f[k] = step[k][f[k - 1]]

LEMMA LoopInExists ==
    ASSUME NEW n \in Nat, NEW V, NEW base \in V[0], NEW step,
           \A k \in 1 .. n : step[k] \in [V[k - 1] -> V[k]]
    PROVE  \E f : IsLoopIn(f, n, V, base, step)
  <1> DEFINE upTo(f, k) == IsLoopIn(f, k, V, base, step)
             S == {k \in 0 .. n : \E f : upTo(f, k)}
  <1>1. 0 \in S
    <2>1. upTo([i \in 0 .. 0 |-> base], 0)
      BY DEF IsLoopIn
    <2>2. \E f : upTo(f, 0)
      <3> HIDE DEF upTo
      <3> QED BY <2>1
    <2>3. 0 \in 0 .. n
      OBVIOUS
    <2> HIDE DEF upTo
    <2> QED BY <2>2, <2>3
  <1>2. ASSUME NEW k \in 1 .. n, k - 1 \in S PROVE k \in S
    <2>1. PICK f : upTo(f, k - 1)
      BY <1>2
    <2> DEFINE g == [i \in 0 .. k |-> IF i = k THEN step[k][f[k - 1]] ELSE f[i]]
    <2>2. k - 1 \in 0 .. (k - 1) /\ f[k - 1] \in V[k - 1]
      BY <2>1 DEF IsLoopIn
    <2>3. step[k][f[k - 1]] \in V[k]
      BY <2>2
    <2>4. \A i \in 0 .. k : g[i] \in V[i]
      <3>1. ASSUME NEW i \in 0 .. k, i # k PROVE f[i] \in V[i]
        <4>1. i \in 0 .. (k - 1)
          BY <3>1
        <4> QED BY <2>1, <4>1 DEF IsLoopIn
      <3> QED BY <2>3, <3>1
    <2>5. g[0] = base
      BY <2>1 DEF IsLoopIn
    <2>6. ASSUME NEW i \in 1 .. k PROVE g[i] = step[i][g[i - 1]]
      <3>1. CASE i = k
        <4>1. i - 1 \in 0 .. k /\ i - 1 # k
          BY <3>1
        <4> QED BY <3>1, <4>1
      <3>2. CASE i # k
        <4>1. i \in 1 .. (k - 1) /\ i - 1 \in 0 .. k /\ i - 1 # k
          BY <3>2
        <4>2. f[i] = step[i][f[i - 1]]
          BY <2>1, <4>1 DEF IsLoopIn
        <4> QED BY <3>2, <4>1, <4>2
      <3> QED BY <3>1, <3>2
    <2>7. g = [i \in 0 .. k |-> g[i]]
      OBVIOUS
    <2> HIDE DEF g
    <2>8. upTo(g, k)
      BY <2>4, <2>5, <2>6, <2>7 DEF IsLoopIn
    <2> QED BY <2>8
  <1>3. n \in S
    <2> HIDE DEF S
    <2>1. \A k \in 0 .. n : k \in S
      BY <1>1, <1>2, UpwardTo
    <2> QED BY <2>1
  <1> QED BY <1>3

\* What setupRadix makes of a shape.
LEMMA RadixesLoop ==
    ASSUME NEW s \in Seq(Nat \ {0})
    PROVE  /\ Radixes(s) \in [0 .. Len(s) -> Nat \ {0}]
           /\ Radixes(s)[0] = 1
           /\ \A j \in 1 .. Len(s) : Radixes(s)[j] = Radixes(s)[j - 1] * s[j]
  <1> DEFINE n == Len(s)
             step == [p \in (Nat \ {0}) \X (1 .. n) |-> p[1] * s[p[2]]]
             body(f) == [j \in 0 .. n |-> IF j = 0 THEN 1 ELSE f[j - 1] * s[j]]
             r == CHOOSE f : f = body(f)
  <1>1. n \in Nat /\ \A j \in 1 .. n : s[j] \in Nat \ {0}
    OBVIOUS
  <1>2. step \in [(Nat \ {0}) \X (1 .. n) -> Nat \ {0}]
    BY <1>1
  <1>3. ASSUME NEW x \in Nat \ {0}, NEW k \in 1 .. n PROVE step[<<x, k>>] = x * s[k]
    OBVIOUS
  <1> HIDE DEF step, n
  <1>4. PICK g \in [0 .. n -> Nat \ {0}] : g[0] = 1 /\ \A k \in 1 .. n : g[k] = step[<<g[k - 1], k>>]
    <2> DEFINE V == Nat \ {0}
    <2>1. 1 \in V /\ step \in [V \X (1 .. n) -> V]
      BY <1>2
    <2> HIDE DEF V
    <2>2. \E g : IsLoop(g, n, V, 1, step)
      BY <1>1, <2>1, LoopExists
    <2> QED BY <2>2 DEF IsLoop, V
  <1>5. g = body(g)
    <2>1. ASSUME NEW k \in 1 .. n PROVE g[k] = g[k - 1] * s[k]
      <3>1. k - 1 \in 0 .. n
        BY <1>1
      <3> QED BY <1>3, <1>4, <3>1
    <2> QED BY <1>1, <1>4, <2>1
  <1>6. r = body(r)
    BY <1>5
  <1>7. Radixes(s) = r
    BY DEF Radixes, n
  <1> HIDE DEF r
  <1>8. r[0] = 1 /\ \A k \in 1 .. n : r[k] = r[k - 1] * s[k]
    BY <1>1, <1>6
  <1>9. r \in [0 .. n -> Nat \ {0}]
    <2> DEFINE S == {k \in 0 .. n : r[k] \in Nat \ {0}}
    <2>1. 0 \in S
      BY <1>1, <1>8
    <2>2. ASSUME NEW k \in 1 .. n, k - 1 \in S PROVE k \in S
      <3>1. \A x, y \in Nat \ {0} : x * y \in Nat \ {0}
        OBVIOUS
      <3>2. r[k - 1] \in Nat \ {0} /\ s[k] \in Nat \ {0} /\ r[k] = r[k - 1] * s[k] /\ k \in 0 .. n
        BY <1>1, <1>8, <2>2
      <3> QED BY <3>1, <3>2
    <2> HIDE DEF S
    <2>3. \A k \in 0 .. n : k \in S
      BY <1>1, <2>1, <2>2, UpwardTo
    <2>4. \A k \in 0 .. n : r[k] \in Nat \ {0}
      BY <2>3 DEF S
    <2> QED BY <1>6, <2>4
  <1> QED BY <1>7, <1>8, <1>9 DEF n

\* The sum of operator[], term by term.
LEMMA OffsetLoop ==
    ASSUME NEW s \in Seq(Nat \ {0}), NEW i \in Seq(Nat), Len(i) = Len(s)
    PROVE  \E f \in [0 .. Len(s) -> Nat] :
              /\ Offset(s, i) = f[Len(s)]
              /\ f[0] = 0
              /\ \A j \in 1 .. Len(s) : f[j] = f[j - 1] + i[j] * Radixes(s)[j - 1]
  <1> DEFINE n == Len(s)
             term(j) == i[j] * Radixes(s)[j - 1]
             step == [p \in Nat \X (1 .. n) |-> p[1] + term(p[2])]
             body(f) == [j \in 0 .. n |-> IF j = 0 THEN 0 ELSE f[j - 1] + term(j)]
             offset == CHOOSE f : f = body(f)
  <1>1. n \in Nat
    OBVIOUS
  <1>2. ASSUME NEW j \in 1 .. n PROVE term(j) \in Nat
    <2>1. j - 1 \in 0 .. n /\ i[j] \in Nat
      OBVIOUS
    <2>2. Radixes(s)[j - 1] \in Nat
      BY <2>1, RadixesLoop
    <2> QED BY <2>1, <2>2
  <1>3. Offset(s, i) = offset[n]
    BY DEF Offset, Radix
  <1> HIDE DEF term, n
  <1>4. step \in [Nat \X (1 .. n) -> Nat]
    BY <1>2
  <1>5. ASSUME NEW x \in Nat, NEW k \in 1 .. n PROVE step[<<x, k>>] = x + term(k)
    OBVIOUS
  <1> HIDE DEF step
  <1>6. PICK g \in [0 .. n -> Nat] : g[0] = 0 /\ \A k \in 1 .. n : g[k] = step[<<g[k - 1], k>>]
    <2>1. \E g : IsLoop(g, n, Nat, 0, step)
      BY <1>1, <1>4, LoopExists
    <2> QED BY <2>1 DEF IsLoop
  <1>7. g = body(g)
    <2>1. ASSUME NEW k \in 1 .. n PROVE g[k] = g[k - 1] + term(k)
      <3>1. k - 1 \in 0 .. n
        BY <1>1
      <3> QED BY <1>5, <1>6, <3>1
    <2> QED BY <1>1, <1>6, <2>1
  <1>8. offset = body(offset)
    BY <1>7
  <1> HIDE DEF offset
  <1>9. offset[0] = 0 /\ \A k \in 1 .. n : offset[k] = offset[k - 1] + term(k)
    BY <1>1, <1>8
  <1>10. offset \in [0 .. n -> Nat]
    <2> DEFINE S == {k \in 0 .. n : offset[k] \in Nat}
    <2>1. 0 \in S
      BY <1>1, <1>9
    <2>2. \A k \in 1 .. n : k - 1 \in S => k \in S
      BY <1>1, <1>2, <1>9
    <2> HIDE DEF S
    <2>3. \A k \in 0 .. n : k \in S
      BY <1>1, <2>1, <2>2, UpwardTo
    <2>4. \A k \in 0 .. n : offset[k] \in Nat
      BY <2>3 DEF S
    <2> QED BY <1>8, <2>4
  <1> QED BY <1>3, <1>9, <1>10 DEF n, term

LEMMA ProductIsNat ==
    ASSUME NEW x \in Nat, NEW y \in Nat
    PROVE  x * y \in Nat
  OBVIOUS

LEMMA SumsSwap ==
    ASSUME NEW x \in Nat, NEW y \in Nat, NEW z \in Nat
    PROVE  (x + y) + z = (x + z) + y
  OBVIOUS

LEMMA BelowIsInRange ==
    ASSUME NEW x \in Nat, NEW d \in Nat \ {0}, x < d
    PROVE  x \in 0 .. (d - 1)
  OBVIOUS

\* An index that is q instead of 0 adds q times its radix.
LEMMA OffsetMoves ==
    ASSUME NEW s \in Seq(Nat \ {0}), NEW i \in Seq(Nat), NEW k \in Seq(Nat),
           Len(i) = Len(s), Len(k) = Len(s), NEW d \in 1 .. Len(s), NEW q \in Nat,
           i[d] = 0, k[d] = q, \A j \in 1 .. Len(s) : j # d => k[j] = i[j]
    PROVE  Offset(s, k) = Offset(s, i) + q * Radixes(s)[d - 1]
  <1> DEFINE n == Len(s)
             more == q * Radixes(s)[d - 1]
  <1>1. PICK f \in [0 .. n -> Nat] :
            /\ Offset(s, i) = f[n] /\ f[0] = 0
            /\ \A j \in 1 .. n : f[j] = f[j - 1] + i[j] * Radixes(s)[j - 1]
    BY OffsetLoop
  <1>2. PICK g \in [0 .. n -> Nat] :
            /\ Offset(s, k) = g[n] /\ g[0] = 0
            /\ \A j \in 1 .. n : g[j] = g[j - 1] + k[j] * Radixes(s)[j - 1]
    BY OffsetLoop
  <1>3. n \in Nat /\ d \in 1 .. n /\ Radixes(s)[d - 1] \in Nat /\ more \in Nat
    <2>1. n \in Nat /\ d \in 1 .. n /\ d - 1 \in 0 .. n
      OBVIOUS
    <2>2. Radixes(s)[d - 1] \in Nat
      BY <2>1, RadixesLoop
    <2> QED BY <2>1, <2>2
  <1>8. ASSUME NEW j \in 1 .. n PROVE i[j] \in Nat /\ k[j] = (IF j = d THEN q ELSE i[j])
    <2>1. i[j] \in Nat
      OBVIOUS
    <2>2. j # d => k[j] = i[j]
      OBVIOUS
    <2> HIDE DEF n
    <2> QED BY <2>1, <2>2
  <1> HIDE DEF n
  <1>9. \A j \in 0 .. n : f[j] \in Nat /\ g[j] \in Nat
    OBVIOUS
  <1>10. \A j \in 0 .. n : Radixes(s)[j] \in Nat
    BY RadixesLoop DEF n
  <1> DEFINE S == {j \in 0 .. n : g[j] = f[j] + (IF j < d THEN 0 ELSE more)}
  <1>4. 0 \in S
    BY <1>1, <1>2, <1>3
  <1>5. ASSUME NEW j \in 1 .. n, j - 1 \in S PROVE j \in S
    <2>0. j \in 0 .. n /\ j - 1 \in 0 .. n
      BY <1>3
    <2>3. f[j - 1] \in Nat /\ g[j - 1] \in Nat /\ f[j] \in Nat /\ g[j] \in Nat
      BY <1>9, <2>0
    <2>1. CASE j # d
      <3> DEFINE x == i[j] * Radixes(s)[j - 1]
      <3>1. f[j] = f[j - 1] + x /\ g[j] = g[j - 1] + x /\ x \in Nat
        <4>1. i[j] \in Nat /\ Radixes(s)[j - 1] \in Nat
          BY <1>8, <1>10, <2>0
        <4>2. k[j] = i[j]
          BY <1>8, <2>1
        <4>3. f[j] = f[j - 1] + x
          BY <1>1
        <4>4. g[j] = g[j - 1] + x
          BY <1>2, <4>2
        <4>5. x \in Nat
          BY <4>1, ProductIsNat
        <4> QED BY <4>3, <4>4, <4>5
      <3> HIDE DEF x, more
      <3>2. g[j - 1] = f[j - 1] + (IF j - 1 < d THEN 0 ELSE more)
        BY <1>5
      <3>3. g[j] = f[j] + (IF j < d THEN 0 ELSE more)
        <4>1. (IF j < d THEN 0 ELSE more) = (IF j - 1 < d THEN 0 ELSE more)
          <5>1. j < d <=> j - 1 < d
            BY <1>3, <2>1
          <5> QED BY <5>1
        <4>2. (IF j < d THEN 0 ELSE more) \in Nat
          BY <1>3
        <4> DEFINE e == IF j < d THEN 0 ELSE more
        <4> HIDE DEF e
        <4>3. e \in Nat /\ g[j - 1] = f[j - 1] + e
          BY <3>2, <4>1, <4>2 DEF e
        <4>4. g[j] = f[j] + e
          <5>1. (f[j - 1] + e) + x = (f[j - 1] + x) + e
            <6> DEFINE y == f[j - 1]
            <6>1. y \in Nat /\ e \in Nat /\ x \in Nat
              BY <2>3, <3>1, <4>3
            <6> HIDE DEF y
            <6>2. (y + e) + x = (y + x) + e
              BY <6>1, SumsSwap
            <6> QED BY <6>2 DEF y
          <5> QED BY <3>1, <4>3, <5>1
        <4> QED BY <4>4 DEF e
      <3> QED BY <2>0, <3>3
    <2>2. CASE j = d
      <3>1. f[j] = f[j - 1] + 0 /\ g[j] = g[j - 1] + more
        <4>1. i[j] * Radixes(s)[j - 1] = 0 /\ k[j] * Radixes(s)[j - 1] = more
          <5>1. i[j] = 0 /\ k[j] = q /\ j - 1 = d - 1
            BY <2>2
          <5>2. 0 * Radixes(s)[d - 1] = 0
            <6>1. \A x \in Nat : 0 * x = 0
              OBVIOUS
            <6> HIDE DEF more
            <6> QED BY <1>3, <6>1
          <5> QED BY <5>1, <5>2
        <4> QED BY <1>1, <1>2, <4>1
      <3> HIDE DEF more
      <3>2. g[j - 1] = f[j - 1] + (IF j - 1 < d THEN 0 ELSE more)
        BY <1>5
      <3> QED BY <1>3, <2>0, <2>2, <2>3, <3>1, <3>2
    <2> QED BY <2>1, <2>2
  <1> HIDE DEF S, more
  <1>6. \A j \in 0 .. n : j \in S
    BY <1>3, <1>4, <1>5, UpwardTo
  <1>7. n \in S
    BY <1>3, <1>6
  <1> QED BY <1>1, <1>2, <1>3, <1>7 DEF S, more

\* The places in front of a dimension's next index.
LEMMA PlaceInRound ==
    ASSUME NEW r \in Nat \ {0}, NEW d \in Nat \ {0}, NEW a \in 0 .. (r - 1), NEW q \in 0 .. (d - 1)
    PROVE  a + q * r \in 0 .. (r * d - 1)
  <1>1. d - 1 - q \in Nat /\ q \in Nat /\ q * r \in Nat /\ (d - 1 - q) * r \in Nat
    OBVIOUS
  <1>2. r * d = q * r + r + (d - 1 - q) * r
    OBVIOUS
  <1> HIDE <1>1
  <1> DEFINE x == q * r
             y == (d - 1 - q) * r
  <1>3. x \in Nat /\ y \in Nat /\ r * d = x + r + y
    BY <1>1, <1>2
  <1> HIDE DEF x, y
  <1>4. a + x \in 0 .. (x + r + y - 1)
    BY <1>3
  <1> QED BY <1>3, <1>4 DEF x

Zeros(s) == [j \in 1 .. Len(s) |-> 0]

LEMMA OffsetOfZeros ==
    ASSUME NEW s \in Seq(Nat \ {0})
    PROVE  Zeros(s) \in Seq(Nat) /\ Len(Zeros(s)) = Len(s) /\ Offset(s, Zeros(s)) = 0
  <1> DEFINE n == Len(s)
  <1>0. n \in Nat
    OBVIOUS
  <1>1. Zeros(s) \in Seq(Nat) /\ Len(Zeros(s)) = n
    BY <1>0 DEF Zeros
  <1>2. PICK f \in [0 .. n -> Nat] :
            /\ Offset(s, Zeros(s)) = f[n] /\ f[0] = 0
            /\ \A j \in 1 .. n : f[j] = f[j - 1] + Zeros(s)[j] * Radixes(s)[j - 1]
    BY <1>1, OffsetLoop
  <1>3. \A j \in 0 .. n : Radixes(s)[j] \in Nat
    BY RadixesLoop
  <1>4. \A j \in 1 .. n : Zeros(s)[j] = 0
    BY DEF Zeros
  <1> HIDE DEF n
  <1> DEFINE S == {j \in 0 .. n : f[j] = 0}
  <1>5. 0 \in S
    BY <1>0, <1>2
  <1>6. ASSUME NEW j \in 1 .. n, j - 1 \in S PROVE j \in S
    <2>1. \A x \in Nat : 0 * x = 0
      OBVIOUS
    <2>2. Zeros(s)[j] * Radixes(s)[j - 1] = 0
      BY <1>0, <1>3, <1>4, <2>1
    <2> QED BY <1>0, <1>2, <1>6, <2>2
  <1> HIDE DEF S
  <1>7. \A j \in 0 .. n : j \in S
    BY <1>0, <1>5, <1>6, UpwardTo
  <1>8. n \in S
    BY <1>0, <1>7
  <1> QED BY <1>1, <1>2, <1>8 DEF S, n

\* An index in the shape leads into the block.
LEMMA OffsetInside ==
    ASSUME NEW s \in Seq(Nat \ {0}), NEW i \in Seq(Nat), InShape(s, i)
    PROVE  Offset(s, i) \in 0 .. (Size(s) - 1)
  <1> DEFINE n == Len(s)
             R == Radixes(s)
  <1>1. n \in Nat /\ \A j \in 1 .. n : s[j] \in Nat \ {0} /\ i[j] \in 0 .. (s[j] - 1)
    BY DEF InShape
  <1>2. R \in [0 .. n -> Nat \ {0}] /\ R[0] = 1 /\ \A j \in 1 .. n : R[j] = R[j - 1] * s[j]
    BY RadixesLoop
  <1>3. PICK f \in [0 .. n -> Nat] :
            /\ Offset(s, i) = f[n] /\ f[0] = 0
            /\ \A j \in 1 .. n : f[j] = f[j - 1] + i[j] * R[j - 1]
    BY OffsetLoop DEF InShape
  <1>4. Size(s) = R[n]
    BY DEF Size
  <1> HIDE DEF n, R
  <1> DEFINE S == {j \in 0 .. n : f[j] \in 0 .. (R[j] - 1)}
  <1>5. 0 \in S
    BY <1>1, <1>2, <1>3
  <1>6. ASSUME NEW j \in 1 .. n, j - 1 \in S PROVE j \in S
    <2>1. j \in 0 .. n /\ j - 1 \in 0 .. n /\ f[j - 1] \in 0 .. (R[j - 1] - 1)
      BY <1>1, <1>6
    <2>2. f[j - 1] + i[j] * R[j - 1] \in 0 .. (R[j - 1] * s[j] - 1)
      BY <1>1, <1>2, <2>1, PlaceInRound
    <2> QED BY <1>2, <1>3, <2>1, <2>2
  <1> HIDE DEF S
  <1>7. \A j \in 0 .. n : j \in S
    BY <1>1, <1>5, <1>6, UpwardTo
  <1>8. n \in S
    BY <1>1, <1>7
  <1> QED BY <1>3, <1>4, <1>8 DEF S

\* Two indexes of one element are the same: a partial sum is less than the next radix,
\* so that the last term can be told from it.
LEMMA OffsetsDiffer ==
    ASSUME NEW s \in Seq(Nat \ {0}), NEW i \in Seq(Nat), NEW k \in Seq(Nat),
           InShape(s, i), InShape(s, k), Offset(s, i) = Offset(s, k)
    PROVE  i = k
  <1> DEFINE n == Len(s)
             R == Radixes(s)
  <1>1. /\ n \in Nat
        /\ \A j \in 1 .. n : s[j] \in Nat \ {0} /\ i[j] \in 0 .. (s[j] - 1) /\ k[j] \in 0 .. (s[j] - 1)
    BY DEF InShape
  <1>2. R \in [0 .. n -> Nat \ {0}] /\ R[0] = 1 /\ \A j \in 1 .. n : R[j] = R[j - 1] * s[j]
    BY RadixesLoop
  <1>3. PICK f \in [0 .. n -> Nat] :
            /\ Offset(s, i) = f[n] /\ f[0] = 0
            /\ \A j \in 1 .. n : f[j] = f[j - 1] + i[j] * R[j - 1]
    BY OffsetLoop DEF InShape
  <1>4. PICK g \in [0 .. n -> Nat] :
            /\ Offset(s, k) = g[n] /\ g[0] = 0
            /\ \A j \in 1 .. n : g[j] = g[j - 1] + k[j] * R[j - 1]
    BY OffsetLoop DEF InShape
  <1>5. (\A j \in 1 .. n : i[j] = k[j]) => i = k
    <2>1. Len(i) = n /\ Len(k) = n
      BY DEF InShape
    <2>2. i = [j \in 1 .. n |-> i[j]] /\ k = [j \in 1 .. n |-> k[j]]
      BY <2>1
    <2> HIDE DEF n
    <2>3. ASSUME \A j \in 1 .. n : i[j] = k[j]
          PROVE  [j \in 1 .. n |-> i[j]] = [j \in 1 .. n |-> k[j]]
      BY <2>3
    <2> QED BY <2>2, <2>3
  <1> HIDE DEF n, R
  <1> DEFINE S == {j \in 0 .. n : f[j] < R[j] /\ g[j] < R[j]}
             T == {j \in 0 .. n : f[n - j] = g[n - j] /\ \A l \in (n - j + 1) .. n : i[l] = k[l]}
  <1>6. 0 \in S
    BY <1>1, <1>2, <1>3, <1>4
  <1>7. ASSUME NEW j \in 1 .. n, j - 1 \in S PROVE j \in S
    <2>1. /\ j \in 0 .. n /\ j - 1 \in 0 .. n
          /\ f[j - 1] \in 0 .. (R[j - 1] - 1) /\ g[j - 1] \in 0 .. (R[j - 1] - 1)
      <3>1. j \in 0 .. n /\ j - 1 \in 0 .. n
        BY <1>1
      <3>2. f[j - 1] < R[j - 1] /\ g[j - 1] < R[j - 1]
        BY <1>7
      <3>3. f[j - 1] \in Nat /\ g[j - 1] \in Nat /\ R[j - 1] \in Nat \ {0}
        BY <1>2, <3>1
      <3> QED BY <3>1, <3>2, <3>3, BelowIsInRange
    <2>2. /\ f[j - 1] + i[j] * R[j - 1] \in 0 .. (R[j - 1] * s[j] - 1)
          /\ g[j - 1] + k[j] * R[j - 1] \in 0 .. (R[j - 1] * s[j] - 1)
      BY <1>1, <1>2, <2>1, PlaceInRound
    <2>3. f[j] \in 0 .. (R[j] - 1) /\ g[j] \in 0 .. (R[j] - 1) /\ R[j] \in Nat
      BY <1>2, <1>3, <1>4, <2>1, <2>2
    <2> QED BY <2>1, <2>3
  <1> HIDE DEF S
  <1>8. \A j \in 0 .. n : j \in S
    BY <1>1, <1>6, <1>7, UpwardTo
  <1>9. 0 \in T
    <2>1. 0 \in 0 .. n /\ n - 0 = n /\ (n + 1) .. n = {}
      BY <1>1
    <2> QED BY <1>3, <1>4, <2>1
  <1>10. ASSUME NEW m \in 1 .. n, m - 1 \in T PROVE m \in T
    <2> DEFINE j == n - m + 1
    <2>1. j \in 1 .. n /\ j - 1 \in 0 .. n /\ j - 1 = n - m /\ m \in 0 .. n /\ n - (m - 1) = j
      BY <1>1
    <2>2. f[j] = g[j] /\ \A l \in (j + 1) .. n : i[l] = k[l]
      BY <1>10, <2>1
    <2> HIDE DEF j
    <2>3. i[j] * R[j - 1] + f[j - 1] = k[j] * R[j - 1] + g[j - 1]
      <3>1. f[j - 1] \in Nat /\ g[j - 1] \in Nat /\ R[j - 1] \in Nat /\ i[j] \in Nat /\ k[j] \in Nat
        BY <1>1, <1>2, <2>1
      <3>2. i[j] * R[j - 1] \in Nat /\ k[j] * R[j - 1] \in Nat
        <4>1. \A x, y \in Nat : x * y \in Nat
          OBVIOUS
        <4> QED BY <3>1, <4>1
      <3> QED BY <1>3, <1>4, <2>1, <2>2, <3>1, <3>2
    <2>4. /\ f[j - 1] \in 0 .. (R[j - 1] - 1) /\ g[j - 1] \in 0 .. (R[j - 1] - 1)
          /\ R[j - 1] \in Nat \ {0} /\ i[j] \in Nat /\ k[j] \in Nat
      <3>1. f[j - 1] < R[j - 1] /\ g[j - 1] < R[j - 1]
        BY <1>8, <2>1 DEF S
      <3>2. f[j - 1] \in Nat /\ g[j - 1] \in Nat /\ R[j - 1] \in Nat \ {0}
        BY <1>2, <2>1
      <3>3. i[j] \in Nat /\ k[j] \in Nat
        BY <1>1, <2>1
      <3> QED BY <3>1, <3>2, <3>3, BelowIsInRange
    <2>5. i[j] = k[j] /\ f[j - 1] = g[j - 1]
      <3> DEFINE d == R[j - 1]
                 x == f[j - 1]
                 y == g[j - 1]
                 p == i[j]
                 q == k[j]
      <3>1. /\ d \in Nat \ {0} /\ p \in Nat /\ q \in Nat
            /\ x \in 0 .. (d - 1) /\ y \in 0 .. (d - 1) /\ p * d + x = q * d + y
        BY <2>3, <2>4
      <3> HIDE DEF d, x, y, p, q
      <3>2. p = q /\ x = y
        BY <3>1, RoundsSeparate
      <3> QED BY <3>2 DEF x, y, p, q
    <2>6. ASSUME NEW l \in (n - m + 1) .. n PROVE i[l] = k[l]
      <3>1. n - m + 1 = j
        BY <1>1, <2>1
      <3>2. l = j \/ l \in (j + 1) .. n
        BY <1>1, <2>1, <2>6, <3>1
      <3> QED BY <2>2, <2>5, <3>2
    <2> QED BY <2>1, <2>5, <2>6
  <1> HIDE DEF T
  <1>11. \A j \in 0 .. n : j \in T
    BY <1>1, <1>9, <1>10, UpwardTo
  <1>12. n \in T
    BY <1>1, <1>11
  <1> QED BY <1>1, <1>5, <1>12 DEF T

\* Every element has an index.
LEMMA OffsetReached ==
    ASSUME NEW s \in Seq(Nat \ {0})
    PROVE  \A x \in 0 .. (Size(s) - 1) :
              \E i \in Seq(Nat) : InShape(s, i) /\ Offset(s, i) = x
  <1> DEFINE n == Len(s)
             R == Radixes(s)
             reaches(i, j, x) ==
                 /\ Len(i) = n
                 /\ \A l \in 1 .. n : i[l] \in 0 .. (IF l <= j THEN s[l] - 1 ELSE 0)
                 /\ Offset(s, i) = x
             S == {j \in 0 .. n : \A x \in 0 .. (R[j] - 1) : \E i \in Seq(Nat) : reaches(i, j, x)}
  <1>1. n \in Nat /\ \A j \in 1 .. n : s[j] \in Nat \ {0}
    OBVIOUS
  <1>2. R \in [0 .. n -> Nat \ {0}] /\ R[0] = 1 /\ \A j \in 1 .. n : R[j] = R[j - 1] * s[j]
    BY RadixesLoop
  <1>3. Size(s) = R[n]
    BY DEF Size
  <1>4. 0 \in S
    <2>1. Zeros(s) \in Seq(Nat) /\ reaches(Zeros(s), 0, 0)
      <3>1. \A l \in 1 .. n : Zeros(s)[l] = 0
        BY DEF Zeros
      <3> QED BY <3>1, OffsetOfZeros
    <2>2. 0 \in 0 .. n /\ 0 .. (R[0] - 1) = {0}
      BY <1>1, <1>2
    <2> HIDE DEF reaches
    <2> QED BY <2>1, <2>2
  <1>5. ASSUME NEW j \in 1 .. n, j - 1 \in S PROVE j \in S
    <2>1. ASSUME NEW x \in 0 .. (R[j] - 1) PROVE \E i \in Seq(Nat) : reaches(i, j, x)
      <3> DEFINE r == x % R[j - 1]
      <3>1. /\ R[j - 1] \in Nat \ {0} /\ s[j] \in Nat \ {0} /\ x \in Nat /\ x < R[j - 1] * s[j]
            /\ R[j] = R[j - 1] * s[j]
        <4>1. j \in 0 .. n /\ j - 1 \in 0 .. n
          BY <1>1
        <4>2. R[j - 1] \in Nat \ {0} /\ R[j] \in Nat \ {0}
          BY <1>2, <4>1
        <4>3. x \in Nat /\ x < R[j]
          BY <4>2
        <4>4. R[j] = R[j - 1] * s[j]
          BY <1>2
        <4>5. s[j] \in Nat \ {0}
          BY <1>1
        <4> QED BY <4>2, <4>3, <4>4, <4>5
      <3>2. r \in 0 .. (R[j - 1] - 1)
        BY <3>1, Division
      <3>3. PICK q \in Nat : x = q * R[j - 1] + r
        BY <3>1, Division
      <3> HIDE DEF r
      <3>4. q \in 0 .. (s[j] - 1)
        <4>1. SUFFICES ASSUME s[j] <= q PROVE FALSE
          BY <3>1
        <4>2. PICK e \in Nat : q = s[j] + e
          <5>1. q - s[j] \in Nat /\ q = s[j] + (q - s[j])
            BY <3>1, <4>1
          <5> QED BY <5>1
        <4>3. \A a \in Nat \ {0}, d \in Nat \ {0} :
                 (d + e) * a = a * d + e * a /\ e * a \in Nat /\ a * d \in Nat
          OBVIOUS
        <4> DEFINE b == e * R[j - 1]
                   c == R[j - 1] * s[j]
        <4>4. q * R[j - 1] = c + b /\ b \in Nat /\ c \in Nat
          BY <3>1, <4>2, <4>3
        <4>5. x = c + b + r /\ r \in Nat /\ x \in Nat /\ x < c
          BY <3>1, <3>2, <3>3, <4>4
        <4> HIDE DEF b, c
        <4> QED BY <4>4, <4>5
      <3>5. PICK i \in Seq(Nat) : reaches(i, j - 1, r)
        BY <1>5, <3>2
      <3> DEFINE k == [i EXCEPT ![j] = q]
      <3>6. /\ Len(i) = n /\ Offset(s, i) = r
            /\ \A l \in 1 .. n : i[l] \in 0 .. (IF l <= j - 1 THEN s[l] - 1 ELSE 0)
        BY <3>5
      <3>7. k \in Seq(Nat) /\ Len(k) = n /\ k[j] = q /\ \A l \in 1 .. n : l # j => k[l] = i[l]
        BY <3>6
      <3>8. i[j] = 0
        <4>1. ~(j <= j - 1)
          BY <1>1
        <4> QED BY <3>6, <4>1
      <3> HIDE DEF k
      <3>9. Offset(s, k) = r + q * R[j - 1]
        BY <3>6, <3>7, <3>8, OffsetMoves
      <3>10. Offset(s, k) = x
        <4>1. q * R[j - 1] \in Nat /\ r \in Nat
          BY <3>1, <3>2
        <4> QED BY <3>3, <3>9, <4>1
      <3>11. ASSUME NEW l \in 1 .. n PROVE k[l] \in 0 .. (IF l <= j THEN s[l] - 1 ELSE 0)
        <4>1. CASE l = j
          BY <1>1, <3>4, <3>7, <4>1
        <4>2. CASE l # j
          <5>1. l <= j - 1 <=> l <= j
            BY <1>1, <4>2
          <5> QED BY <3>6, <3>7, <4>2, <5>1
        <4> QED BY <4>1, <4>2
      <3> QED BY <3>7, <3>10, <3>11
    <2> HIDE DEF reaches
    <2>2. j \in 0 .. n
      BY <1>1
    <2> QED BY <2>1, <2>2
  <1> HIDE DEF S
  <1>6. \A j \in 0 .. n : j \in S
    BY <1>1, <1>4, <1>5, UpwardTo
  <1>7. n \in S
    BY <1>1, <1>6
  <1>8. ASSUME NEW x \in 0 .. (Size(s) - 1) PROVE \E i \in Seq(Nat) : InShape(s, i) /\ Offset(s, i) = x
    <2>1. \A y \in 0 .. (R[n] - 1) : \E i \in Seq(Nat) : reaches(i, n, y)
      BY <1>7 DEF S
    <2>2. PICK i \in Seq(Nat) : reaches(i, n, x)
      BY <1>3, <1>8, <2>1
    <2>3. InShape(s, i)
      BY <1>1, <2>2 DEF InShape
    <2> QED BY <2>2, <2>3
  <1> QED BY <1>8

\* No dimension is longer than the block.
LEMMA DimensionFits ==
    ASSUME NEW s \in Seq(Nat \ {0}), NEW d \in 1 .. Len(s)
    PROVE  s[d] <= Size(s)
  <1> DEFINE n == Len(s)
             R == Radixes(s)
             S == {j \in 0 .. n : d <= j => s[d] <= R[j]}
  <1>1. n \in Nat /\ d \in 1 .. n /\ \A j \in 1 .. n : s[j] \in Nat \ {0}
    OBVIOUS
  <1>2. R \in [0 .. n -> Nat \ {0}] /\ \A j \in 1 .. n : R[j] = R[j - 1] * s[j]
    BY RadixesLoop
  <1>3. \A a, b \in Nat \ {0} : a <= a * b /\ b <= a * b
    <2>1. ASSUME NEW a \in Nat \ {0}, NEW b \in Nat \ {0} PROVE a <= a * b /\ b <= a * b
      <3>1. (a - 1) * b \in Nat /\ (b - 1) * a \in Nat
        <4>1. a - 1 \in Nat /\ b - 1 \in Nat /\ \A x, y \in Nat : x * y \in Nat
          OBVIOUS
        <4> QED BY <4>1
      <3>2. a * b = (a - 1) * b + b /\ a * b = (b - 1) * a + a
        OBVIOUS
      <3> QED BY <3>1, <3>2
    <2> QED BY <2>1
  <1> HIDE DEF n, R
  <1>4. 0 \in S
    BY <1>1
  <1>5. ASSUME NEW j \in 1 .. n, j - 1 \in S PROVE j \in S
    <2>1. j \in 0 .. n /\ j - 1 \in 0 .. n /\ R[j - 1] \in Nat \ {0} /\ s[j] \in Nat \ {0} /\ R[j] = R[j - 1] * s[j]
      BY <1>1, <1>2
    <2>2. R[j - 1] <= R[j] /\ s[j] <= R[j] /\ R[j] \in Nat
      BY <1>2, <1>3, <2>1
    <2>3. d <= j => d <= j - 1 \/ d = j
      BY <1>1
    <2>4. d <= j - 1 => s[d] <= R[j - 1]
      BY <1>5
    <2> QED BY <1>1, <2>1, <2>2, <2>3, <2>4
  <1> HIDE DEF S
  <1>6. \A j \in 0 .. n : j \in S
    BY <1>1, <1>4, <1>5, UpwardTo
  <1>7. n \in S
    BY <1>1, <1>6
  <1> QED BY <1>1, <1>7 DEF S, Size, R, n

LEMMA IndexesRight ==
    ASSUME shape \in Seq(Nat \ {0})
    PROVE  IndexesAreOffsets
  <1> DEFINE n == Len(shape)
             indexes == {i \in [1 .. n -> 0 .. (Size(shape) - 1)] : InShape(shape, i)}
  <1>1. n \in Nat /\ \A j \in 1 .. n : shape[j] \in Nat \ {0} /\ shape[j] <= Size(shape)
    BY DimensionFits
  <1>2. Size(shape) \in Nat \ {0}
    BY RadixesLoop DEF Size
  <1>3. ASSUME NEW i \in indexes PROVE i \in Seq(Nat) /\ InShape(shape, i)
    BY <1>1, <1>2
  <1>4. ASSUME NEW i \in Seq(Nat), InShape(shape, i) PROVE i \in indexes
    <2>1. Len(i) = n /\ \A j \in 1 .. n : i[j] \in 0 .. (shape[j] - 1)
      BY <1>4 DEF InShape
    <2>2. \A j \in 1 .. n : i[j] \in 0 .. (Size(shape) - 1)
      <3>1. ASSUME NEW j \in 1 .. n PROVE i[j] \in 0 .. (Size(shape) - 1)
        <4>1. i[j] \in 0 .. (shape[j] - 1) /\ shape[j] \in Nat /\ shape[j] <= Size(shape)
          BY <1>1, <2>1
        <4> QED BY <1>2, <4>1
      <3> QED BY <3>1
    <2>3. i = [j \in 1 .. n |-> i[j]]
      BY <2>1
    <2>4. i \in [1 .. n -> 0 .. (Size(shape) - 1)]
      BY <2>2, <2>3
    <2> QED BY <1>4, <2>4
  <1> HIDE DEF indexes
  <1>5. {Offset(shape, i) : i \in indexes} = 0 .. (Size(shape) - 1)
    <2>1. \A i \in indexes : Offset(shape, i) \in 0 .. (Size(shape) - 1)
      BY <1>3, OffsetInside
    <2>2. ASSUME NEW x \in 0 .. (Size(shape) - 1) PROVE \E i \in indexes : Offset(shape, i) = x
      <3>1. PICK i \in Seq(Nat) : InShape(shape, i) /\ Offset(shape, i) = x
        BY OffsetReached
      <3> QED BY <1>4, <3>1
    <2> QED BY <2>1, <2>2
  <1>6. \A i, k \in indexes : Offset(shape, i) = Offset(shape, k) => i = k
    BY <1>3, OffsetsDiffer
  <1> QED BY <1>5, <1>6 DEF IndexesAreOffsets, indexes

\* What a loop of pprint1 prints in front of which the loops above are at i.
Rounds1(s, j, h) ==
    [i \in Seq(Nat) |->
        [m \in 1 .. Radixes(s)[j] |->
            h[Elsewhere(i, (m - 1) \div Radixes(s)[j - 1])][((m - 1) % Radixes(s)[j - 1]) + 1]]]

LEMMA PrintedLoop ==
    ASSUME NEW s \in Seq(Nat \ {0})
    PROVE  \E f : /\ Printed(s) = f[Len(s)][<<>>]
                  /\ f[0] = [i \in Seq(Nat) |-> <<Offset(s, i)>>]
                  /\ \A j \in 1 .. Len(s) : f[j] = Rounds1(s, j, f[j - 1])
  <1> DEFINE n == Len(s)
             R == Radixes(s)
             Y == {Offset(s, i) : i \in Seq(Nat)}
             V == [j \in 0 .. n |-> [Seq(Nat) -> [1 .. R[j] -> Y]]]
             base == [i \in Seq(Nat) |-> <<Offset(s, i)>>]
             step == [j \in 1 .. n |-> [h \in V[j - 1] |-> Rounds1(s, j, h)]]
             round(j, g) == [i \in Seq(Nat) |->
                IF j = 0
                THEN <<Offset(s, i)>>
                ELSE [m \in 1 .. (s[j] * Radix(s, j)) |->
                        g[j - 1][Elsewhere(i, (m - 1) \div Radix(s, j))][((m - 1) % Radix(s, j)) + 1]]]
             body(g) == [j \in 0 .. n |-> round(j, g)]
             loop == CHOOSE g : g = body(g)
  <1>1. n \in Nat /\ \A j \in 1 .. n : s[j] \in Nat \ {0}
    OBVIOUS
  <1>2. R \in [0 .. n -> Nat \ {0}] /\ R[0] = 1 /\ \A j \in 1 .. n : R[j] = R[j - 1] * s[j]
    BY RadixesLoop
  <1>3. Printed(s) = loop[n][<<>>]
    BY Zenon DEF Printed
  <1>4. ASSUME NEW g, NEW j \in 1 .. n PROVE round(j, g) = Rounds1(s, j, g[j - 1])
    <2>1. j # 0 /\ Radix(s, j) = R[j - 1] /\ s[j] * R[j - 1] = R[j]
      <3>1. j - 1 \in 0 .. n /\ \A a, b \in Nat : a * b = b * a
        BY <1>1
      <3>2. j # 0 /\ R[j - 1] \in Nat /\ s[j] \in Nat /\ R[j] = R[j - 1] * s[j]
        <4> HIDE DEF n, R
        <4>1. j # 0 /\ s[j] \in Nat /\ R[j] = R[j - 1] * s[j]
          BY <1>1, <1>2
        <4>2. R[j - 1] \in Nat
          BY <1>2, <3>1
        <4> QED BY <4>1, <4>2
      <3>3. s[j] * R[j - 1] = R[j - 1] * s[j]
        BY <3>1, <3>2
      <3> QED BY <3>2, <3>3 DEF Radix
    <2> QED BY <2>1 DEF Rounds1
  <1>5. ASSUME NEW g PROVE round(0, g) = base
    OBVIOUS
  <1>6. base \in V[0]
    <2>1. ASSUME NEW i \in Seq(Nat) PROVE <<Offset(s, i)>> \in [1 .. R[0] -> Y]
      <3>1. Offset(s, i) \in Y
        OBVIOUS
      <3> HIDE DEF Y
      <3> QED BY <1>2, <3>1
    <2> HIDE DEF Y
    <2> QED BY <1>1, <2>1
  <1>7. ASSUME NEW j \in 1 .. n, NEW h \in V[j - 1] PROVE Rounds1(s, j, h) \in V[j]
    <2>0. j \in 0 .. n /\ j - 1 \in 0 .. n
      BY <1>1
    <2> HIDE DEF Y
    <2>1. h \in [Seq(Nat) -> [1 .. R[j - 1] -> Y]]
      BY <1>7, <2>0
    <2>2. ASSUME NEW i \in Seq(Nat), NEW m \in 1 .. R[j]
          PROVE  h[Elsewhere(i, (m - 1) \div R[j - 1])][((m - 1) % R[j - 1]) + 1] \in Y
      <3>1. R[j - 1] \in Nat \ {0} /\ m - 1 \in Nat
        <4>1. R[j - 1] \in Nat \ {0} /\ R[j] \in Nat \ {0}
          BY <1>2, <2>0
        <4> QED BY <4>1
      <3>2. (m - 1) \div R[j - 1] \in Nat /\ (m - 1) % R[j - 1] \in 0 .. (R[j - 1] - 1)
        BY <3>1, PartsOf
      <3>3. Elsewhere(i, (m - 1) \div R[j - 1]) \in Seq(Nat)
        BY <3>2 DEF Elsewhere
      <3>4. ((m - 1) % R[j - 1]) + 1 \in 1 .. R[j - 1]
        <4>1. \A d \in Nat \ {0} : \A r \in 0 .. (d - 1) : r + 1 \in 1 .. d
          OBVIOUS
        <4> QED BY <3>1, <3>2, <4>1
      <3> QED BY <2>1, <3>3, <3>4
    <2>3. Rounds1(s, j, h) \in [Seq(Nat) -> [1 .. R[j] -> Y]]
      BY <2>2 DEF Rounds1
    <2> QED BY <2>0, <2>3
  <1>8. \A j \in 1 .. n : step[j] \in [V[j - 1] -> V[j]]
    <2> HIDE DEF V
    <2> QED BY <1>7
  <1> HIDE DEF n, V, base
  <1>9. PICK g : IsLoopIn(g, n, V, base, step)
    <2> HIDE DEF step
    <2> QED BY <1>1, <1>6, <1>8, LoopInExists
  <1>10. g = body(g)
    <2>1. g = [k \in 0 .. n |-> g[k]] /\ g[0] = base
      BY <1>9 DEF IsLoopIn
    <2>2. ASSUME NEW k \in 1 .. n PROVE g[k] = round(k, g)
      <3>1. g[k] = step[k][g[k - 1]] /\ g[k - 1] \in V[k - 1]
        <4>1. k - 1 \in 0 .. n
          BY <1>1
        <4> QED BY <1>9, <4>1 DEF IsLoopIn
      <3>2. g[k] = Rounds1(s, k, g[k - 1])
        BY <3>1
      <3> QED BY <1>4, <3>2
    <2>3. g[0] = round(0, g)
      BY <1>5, <2>1
    <2> HIDE DEF round
    <2>4. \A k \in 0 .. n : g[k] = round(k, g)
      BY <1>1, <2>2, <2>3
    <2> QED BY <2>1, <2>4
  <1> HIDE DEF body
  <1>11. loop = body(loop)
    BY <1>10
  <1> HIDE DEF loop
  <1>12. \A k \in 0 .. n : loop[k] = round(k, loop)
    <2> HIDE DEF round
    <2> QED BY <1>11 DEF body
  <1>13. loop[0] = base /\ \A j \in 1 .. n : loop[j] = Rounds1(s, j, loop[j - 1])
    <2> HIDE DEF round
    <2>1. loop[0] = round(0, loop) /\ \A j \in 1 .. n : loop[j] = round(j, loop)
      BY <1>1, <1>12
    <2> QED BY <1>4, <1>5, <2>1
  <1> QED BY <1>3, <1>13 DEF n, base

\* The index of the first element that is printed when the loops above dimension j are
\* at i.
FirstIndex(s, j, i) == [l \in 1 .. Len(s) |-> IF l <= j THEN 0 ELSE i[l - j]]

\* The loops print the elements in the order of the memory: the loop of dimension j
\* prints as many in a row as the next radix says.
LEMMA PrintedRight ==
    ASSUME NEW s \in Seq(Nat \ {0})
    PROVE  Printed(s) = [m \in 1 .. Size(s) |-> m - 1]
  <1> DEFINE n == Len(s)
             R == Radixes(s)
             first(j, i) == Offset(s, FirstIndex(s, j, i))
             row(j, i) == [m \in 1 .. R[j] |-> first(j, i) + m - 1]
  <1>1. PICK f : /\ Printed(s) = f[n][<<>>]
                 /\ f[0] = [i \in Seq(Nat) |-> <<Offset(s, i)>>]
                 /\ \A j \in 1 .. n : f[j] = Rounds1(s, j, f[j - 1])
    BY PrintedLoop
  <1>2. n \in Nat /\ R \in [0 .. n -> Nat \ {0}] /\ R[0] = 1
    BY RadixesLoop
  <1>3. ASSUME NEW j \in 0 .. n, NEW i \in Seq(Nat), Len(i) = n - j
        PROVE  FirstIndex(s, j, i) \in Seq(Nat) /\ Len(FirstIndex(s, j, i)) = n /\ first(j, i) \in Nat
    <2>1. ASSUME NEW l \in 1 .. n, ~(l <= j) PROVE i[l - j] \in Nat
      <3>1. l - j \in 1 .. Len(i)
        BY <1>2, <1>3, <2>1
      <3> QED BY <3>1
    <2>2. FirstIndex(s, j, i) \in Seq(Nat) /\ Len(FirstIndex(s, j, i)) = n
      <3> HIDE DEF n
      <3>1. FirstIndex(s, j, i) \in [1 .. n -> Nat]
        BY <2>1 DEF FirstIndex, n
      <3> QED BY <1>2, <3>1
    <2>3. \E g \in [0 .. n -> Nat] : first(j, i) = g[n]
      BY <2>2, OffsetLoop
    <2>4. n \in 0 .. n
      BY <1>2
    <2> HIDE DEF first
    <2> QED BY <2>2, <2>3, <2>4
  <1> DEFINE S == {j \in 0 .. n : \A i \in Seq(Nat) : Len(i) = n - j => f[j][i] = row(j, i)}
  <1>4. 0 \in S
    <2>1. ASSUME NEW i \in Seq(Nat), Len(i) = n - 0 PROVE f[0][i] = row(0, i)
      <3>1. FirstIndex(s, 0, i) = i
        <4>1. Len(i) = n
          BY <1>2, <2>1
        <4>2. i = [l \in 1 .. n |-> i[l]]
          BY <4>1
        <4>3. \A l \in 1 .. n : ~(l <= 0) /\ l - 0 = l
          BY <1>2
        <4> QED BY <4>2, <4>3 DEF FirstIndex
      <3>2. first(0, i) = Offset(s, i) /\ first(0, i) \in Nat
        BY <1>2, <1>3, <2>1, <3>1
      <3>3. f[0][i] = <<first(0, i)>>
        BY <1>1, <3>2
      <3> HIDE DEF first
      <3>4. row(0, i) = <<first(0, i)>>
        BY <1>2, <3>2
      <3> QED BY <3>3, <3>4
    <2>2. 0 \in 0 .. n
      BY <1>2
    <2> HIDE DEF row
    <2> QED BY <2>1, <2>2
  <1>5. ASSUME NEW j \in 1 .. n, j - 1 \in S PROVE j \in S
    <2>0. j \in 0 .. n /\ j - 1 \in 0 .. n /\ R[j - 1] \in Nat \ {0} /\ R[j] \in Nat \ {0}
      BY <1>2
    <2>1. ASSUME NEW i \in Seq(Nat), Len(i) = n - j PROVE f[j][i] = row(j, i)
      <3>0. f[j][i] = [m \in 1 .. R[j] |->
                        f[j - 1][Elsewhere(i, (m - 1) \div R[j - 1])][((m - 1) % R[j - 1]) + 1]]
        <4>1. f[j] = Rounds1(s, j, f[j - 1])
          BY <1>1
        <4> QED BY <4>1 DEF Rounds1
      <3>1. ASSUME NEW m \in 1 .. R[j]
            PROVE  f[j][i][m] = first(j, i) + m - 1
        <4> DEFINE q == (m - 1) \div R[j - 1]
                   r == (m - 1) % R[j - 1]
                   k == Elsewhere(i, q)
        <4>1. q \in Nat /\ r \in 0 .. (R[j - 1] - 1) /\ m - 1 = q * R[j - 1] + r
          <5>1. m - 1 \in Nat
            BY <2>0
          <5> QED BY <2>0, <5>1, PartsOf
        <4>2. f[j][i][m] = f[j - 1][k][r + 1]
          BY <3>0
        <4> HIDE DEF q, r
        <4>3. /\ k \in Seq(Nat) /\ Len(k) = n - (j - 1) /\ k[1] = q
              /\ \A l \in 1 .. (n - j) : k[l + 1] = i[l]
          <5>1. k = <<q>> \o i
            BY DEF Elsewhere
          <5>2. k \in Seq(Nat) /\ Len(k) = Len(i) + 1 /\ k[1] = q /\ \A l \in 1 .. Len(i) : k[l + 1] = i[l]
            <6> HIDE DEF k
            <6> QED BY <4>1, <5>1
          <5> HIDE DEF k
          <5>3. Len(i) = n - j /\ (n - j) + 1 = n - (j - 1)
            BY <1>2, <2>0, <2>1
          <5> QED BY <5>2, <5>3
        <4> HIDE DEF k
        <4>4. f[j - 1][k] = row(j - 1, k)
          BY <1>5, <4>3
        <4>5. r + 1 \in 1 .. R[j - 1] /\ r \in Nat
          BY <2>0, <4>1
        <4>6. f[j - 1][k][r + 1] = first(j - 1, k) + (r + 1) - 1
          <5> HIDE DEF first
          <5> QED BY <4>4, <4>5
        <4>7. first(j - 1, k) = first(j, i) + q * R[j - 1]
          <5>1. /\ FirstIndex(s, j, i) \in Seq(Nat) /\ Len(FirstIndex(s, j, i)) = n
                /\ FirstIndex(s, j - 1, k) \in Seq(Nat) /\ Len(FirstIndex(s, j - 1, k)) = n
            BY <1>3, <2>0, <2>1, <4>3
          <5>2. FirstIndex(s, j, i)[j] = 0 /\ FirstIndex(s, j - 1, k)[j] = q
            <6>1. j <= j /\ ~(j <= j - 1) /\ j - (j - 1) = 1
              BY <1>2
            <6> QED BY <4>3, <6>1 DEF FirstIndex
          <5>3. ASSUME NEW l \in 1 .. n, l # j
                PROVE  FirstIndex(s, j - 1, k)[l] = FirstIndex(s, j, i)[l]
            <6>1. CASE l < j
              <7>1. l <= j - 1 /\ l <= j
                BY <1>2, <6>1
              <7> QED BY <7>1 DEF FirstIndex
            <6>2. CASE l > j
              <7>1. ~(l <= j - 1) /\ ~(l <= j) /\ l - j \in 1 .. (n - j) /\ (l - j) + 1 = l - (j - 1)
                BY <1>2, <6>2
              <7> QED BY <4>3, <7>1 DEF FirstIndex
            <6>3. l < j \/ l > j
              BY <1>2, <5>3
            <6> HIDE DEF n, R
            <6> QED BY <6>1, <6>2, <6>3
          <5> DEFINE before == FirstIndex(s, j, i)
                     after == FirstIndex(s, j - 1, k)
          <5>4. /\ before \in Seq(Nat) /\ Len(before) = Len(s) /\ before[j] = 0
                /\ after \in Seq(Nat) /\ Len(after) = Len(s) /\ after[j] = q
                /\ \A l \in 1 .. Len(s) : l # j => after[l] = before[l]
            BY <5>1, <5>2, <5>3
          <5> HIDE DEF before, after
          <5>5. Offset(s, after) = Offset(s, before) + q * Radixes(s)[j - 1]
            BY <4>1, <5>4, OffsetMoves
          <5> QED BY <5>5 DEF before, after
        <4>8. first(j, i) \in Nat
          BY <1>3, <2>0, <2>1
        <4> HIDE DEF first
        <4> DEFINE b == q * R[j - 1]
        <4>9. b \in Nat /\ m - 1 = b + r /\ first(j - 1, k) = first(j, i) + b
          BY <2>0, <4>1, <4>7
        <4> HIDE DEF b
        <4> QED BY <4>2, <4>5, <4>6, <4>8, <4>9
      <3>2. f[j][i] = [m \in 1 .. R[j] |-> f[j][i][m]]
        BY <3>0
      <3> HIDE DEF first
      <3> QED BY <3>1, <3>2
    <2> HIDE DEF row
    <2> QED BY <2>0, <2>1
  <1> HIDE DEF S
  <1>6. \A j \in 0 .. n : j \in S
    BY <1>2, <1>4, <1>5, UpwardTo
  <1>7. <<>> \in Seq(Nat) /\ Len(<<>>) = n - n /\ n \in 0 .. n
    BY <1>2
  <1>8. Printed(s) = row(n, <<>>)
    <2>1. n \in S
      BY <1>6, <1>7
    <2> HIDE DEF row
    <2> QED BY <1>1, <1>7, <2>1 DEF S
  <1>9. first(n, <<>>) = 0
    <2>1. FirstIndex(s, n, <<>>) = Zeros(s)
      <3>1. \A l \in 1 .. n : l <= n
        BY <1>2
      <3> QED BY <3>1 DEF FirstIndex, Zeros
    <2> QED BY <2>1, OffsetOfZeros
  <1>10. row(n, <<>>) = [m \in 1 .. Size(s) |-> m - 1]
    <2>1. Size(s) = R[n] /\ R[n] \in Nat
      BY <1>2 DEF Size
    <2>2. \A m \in 1 .. R[n] : first(n, <<>>) + m - 1 = m - 1
      <3> HIDE DEF first
      <3> QED BY <1>9, <2>1
    <2> HIDE DEF first
    <2> QED BY <2>1, <2>2
  <1> QED BY <1>8, <1>10

\* What argmax keeps in its loop.
Largest == [ret : Nat, max : Nat]

LEMMA ArgmaxLoop ==
    ASSUME NEW n \in Nat, NEW t \in [0 .. (n - 1) -> Int]
    PROVE  \E f \in [0 .. n -> Largest] :
              /\ Argmax(t, n) = f[n].ret
              /\ f[0] = [ret |-> 0, max |-> 0]
              /\ \A k \in 1 .. n : f[k] = IF t[k - 1] > f[k - 1].max
                                          THEN [ret |-> k - 1, max |-> t[k - 1]]
                                          ELSE f[k - 1]
  <1> DEFINE base == [ret |-> 0, max |-> 0]
             next(b, k) == IF t[k - 1] > b.max THEN [ret |-> k - 1, max |-> t[k - 1]] ELSE b
             step == [p \in Largest \X (1 .. n) |-> next(p[1], p[2])]
             body(f) == [k \in 0 .. n |-> IF k = 0 THEN base ELSE next(f[k - 1], k)]
             best == CHOOSE f : f = body(f)
  <1>1. ASSUME NEW b \in Largest, NEW k \in 1 .. n PROVE next(b, k) \in Largest
    <2>1. b.ret \in Nat /\ b.max \in Nat /\ t[k - 1] \in Int /\ k - 1 \in Nat
      BY DEF Largest
    <2> QED BY <2>1 DEF Largest
  <1>2. Argmax(t, n) = best[n].ret
    BY DEF Argmax
  <1>3. base \in Largest
    BY DEF Largest
  <1> HIDE DEF next, base
  <1>4. step \in [Largest \X (1 .. n) -> Largest]
    BY <1>1
  <1>5. ASSUME NEW b \in Largest, NEW k \in 1 .. n PROVE step[<<b, k>>] = next(b, k)
    OBVIOUS
  <1> HIDE DEF step
  <1>6. PICK g \in [0 .. n -> Largest] : g[0] = base /\ \A k \in 1 .. n : g[k] = step[<<g[k - 1], k>>]
    <2>1. \E g : IsLoop(g, n, Largest, base, step)
      BY <1>3, <1>4, LoopExists
    <2> QED BY <2>1 DEF IsLoop
  <1>7. g = body(g)
    <2>1. ASSUME NEW k \in 1 .. n PROVE g[k] = next(g[k - 1], k)
      <3>1. k - 1 \in 0 .. n
        OBVIOUS
      <3> QED BY <1>5, <1>6, <3>1
    <2> QED BY <1>6, <2>1
  <1>8. best = body(best)
    BY <1>7
  <1> HIDE DEF best
  <1>9. best[0] = base /\ \A k \in 1 .. n : best[k] = next(best[k - 1], k)
    BY <1>8
  <1>10. best \in [0 .. n -> Largest]
    <2> DEFINE S == {k \in 0 .. n : best[k] \in Largest}
    <2>1. 0 \in S
      BY <1>3, <1>9
    <2>2. \A k \in 1 .. n : k - 1 \in S => k \in S
      BY <1>1, <1>9
    <2> HIDE DEF S
    <2>3. \A k \in 0 .. n : k \in S
      BY <2>1, <2>2, UpwardTo
    <2>4. \A k \in 0 .. n : best[k] \in Largest
      BY <2>3 DEF S
    <2> QED BY <1>8, <2>4
  <1> QED BY <1>2, <1>9, <1>10 DEF base, next

LEMMA ArgmaxRight ==
    ASSUME NEW n \in Nat, NEW t \in [0 .. (n - 1) -> Int]
    PROVE  IF \E i \in 0 .. (n - 1) : t[i] > 0
           THEN \A i \in 0 .. (n - 1) : t[i] <= t[Argmax(t, n)] /\ (i < Argmax(t, n) => t[i] < t[Argmax(t, n)])
           ELSE Argmax(t, n) = 0
  <1>1. PICK f \in [0 .. n -> Largest] :
            /\ Argmax(t, n) = f[n].ret
            /\ f[0] = [ret |-> 0, max |-> 0]
            /\ \A k \in 1 .. n : f[k] = IF t[k - 1] > f[k - 1].max
                                        THEN [ret |-> k - 1, max |-> t[k - 1]]
                                        ELSE f[k - 1]
    BY ArgmaxLoop
  <1> DEFINE right(b, k) ==
                 /\ \A i \in 0 .. (k - 1) : t[i] <= b.max
                 /\ b.max = 0 => b.ret = 0
                 /\ b.max > 0 => /\ b.ret \in 0 .. (k - 1) /\ t[b.ret] = b.max
                                 /\ \A i \in 0 .. (b.ret - 1) : t[i] < b.max
             S == {k \in 0 .. n : right(f[k], k)}
  <1>2. \A i \in 0 .. (n - 1) : t[i] \in Int
    OBVIOUS
  <1>3. 0 \in S
    <2>1. f[0].ret = 0 /\ f[0].max = 0 /\ 0 .. (0 - 1) = {}
      BY <1>1
    <2> QED BY <2>1
  <1>4. ASSUME NEW k \in 1 .. n, k - 1 \in S PROVE k \in S
    <2> DEFINE b == f[k - 1]
               c == f[k]
    <2>1. /\ k - 1 \in 0 .. (n - 1) /\ k \in 0 .. n /\ k - 1 \in 0 .. n
          /\ b.max \in Nat /\ b.ret \in Nat /\ t[k - 1] \in Int /\ right(b, k - 1)
      BY <1>2, <1>4 DEF Largest
    <2>2. c = IF t[k - 1] > b.max THEN [ret |-> k - 1, max |-> t[k - 1]] ELSE b
      BY <1>1
    <2>3. \A i \in 0 .. (k - 1) : t[i] \in Int /\ (i = k - 1 \/ i \in 0 .. (k - 1 - 1))
      BY <1>2, <2>1
    <2> HIDE DEF b, c
    <2>4. CASE t[k - 1] > b.max
      <3>1. c.ret = k - 1 /\ c.max = t[k - 1] /\ c.max > 0
        BY <2>1, <2>2, <2>4
      <3>2. \A i \in 0 .. (k - 1 - 1) : t[i] < t[k - 1]
        BY <2>1, <2>3, <2>4
      <3>3. right(c, k)
        BY <2>1, <2>3, <3>1, <3>2
      <3> HIDE DEF right
      <3> QED BY <2>1, <3>3 DEF c
    <2>5. CASE ~(t[k - 1] > b.max)
      <3>1. c = b /\ t[k - 1] <= b.max
        BY <2>1, <2>2, <2>5
      <3>2. right(b, k)
        BY <2>1, <2>3, <3>1
      <3> HIDE DEF right
      <3> QED BY <2>1, <3>1, <3>2 DEF c
    <2> QED BY <2>4, <2>5
  <1> HIDE DEF S
  <1>5. \A k \in 0 .. n : k \in S
    BY <1>3, <1>4, UpwardTo
  <1>6. right(f[n], n) /\ f[n].max \in Nat /\ f[n].ret \in Nat
    <2>1. n \in S /\ f[n] \in Largest
      BY <1>5
    <2> QED BY <2>1 DEF S, Largest
  <1> DEFINE m == f[n].ret
             x == f[n].max
  <1>7. CASE x = 0
    <2>1. \A i \in 0 .. (n - 1) : ~(t[i] > 0)
      BY <1>2, <1>6, <1>7
    <2> QED BY <1>1, <1>6, <1>7, <2>1
  <1>8. CASE x > 0
    <2>1. m \in 0 .. (n - 1) /\ t[m] = x /\ \A i \in 0 .. (n - 1) : t[i] <= x /\ (i < m => t[i] < x)
      BY <1>6, <1>8
    <2> HIDE DEF x, m
    <2>2. t[m] > 0
      BY <1>8, <2>1
    <2>3. Argmax(t, n) = m
      BY <1>1 DEF m
    <2> QED BY <2>1, <2>2, <2>3
  <1> QED BY <1>6, <1>7, <1>8

-----------------------------------------------------------------------------

\* Only pprint2's end says what has been printed.
TensorInv ==
    /\ shape \in Shapes
    /\ elements \in [0 .. (Size(shape) - 1) -> Elements]
    /\ call \in {"none", "pprint2", "pprint", "all done", "undefined"}
    /\ call = "pprint2" => printed = [k \in 1 .. Size(shape) |-> k - 1] /\ Len(shape) > 1

LEMMA TensorInvInit == TensorInit => TensorInv
  BY DEF TensorInit, TensorInv

LEMMA TensorInvStep == TensorInv /\ [TensorNext]_tensorVars => TensorInv'
  <1> SUFFICES ASSUME TensorInv, [TensorNext]_tensorVars PROVE TensorInv'
    OBVIOUS
  <1>1. shape \in Seq(Nat \ {0}) /\ shape # <<>>
    BY TensorAssumption DEF TensorInv
  <1>2. CASE Pprint2
    <2>1. CASE Len(shape) = 1
      BY <1>2, <2>1 DEF Pprint2, TensorInv
    <2>2. CASE Len(shape) # 1
      <3>1. printed' = [k \in 1 .. Size(shape) |-> k - 1] /\ call' = "pprint2" /\ UNCHANGED <<shape, elements>>
        BY <1>1, <1>2, <2>2, PrintedRight DEF Pprint2
      <3>2. Len(shape) > 1
        <4>1. Len(shape) \in Nat /\ Len(shape) # 0
          BY <1>1
        <4>2. \A x \in Nat : x # 0 /\ x # 1 => x > 1
          OBVIOUS
        <4> QED BY <2>2, <4>1, <4>2
      <3>3. Size(shape)' = Size(shape) /\ Len(shape)' = Len(shape)
        BY <3>1 DEF Size, Radixes
      <3> QED BY <3>1, <3>2, <3>3 DEF TensorInv
    <2> QED BY <2>1, <2>2
  <1>3. CASE CallPprint \/ Pprint
    <2>1. call' \in {"pprint", "all done"} /\ UNCHANGED <<shape, elements>>
      BY <1>3 DEF CallPprint, Pprint
    <2>2. Size(shape)' = Size(shape)
      BY <2>1 DEF Size, Radixes
    <2> QED BY <2>1, <2>2 DEF TensorInv
  <1>5. CASE UNCHANGED tensorVars
    <2>1. UNCHANGED <<shape, elements, call, printed>>
      BY <1>5 DEF tensorVars
    <2>2. Size(shape)' = Size(shape)
      BY <2>1 DEF Size, Radixes
    <2> QED BY <2>1, <2>2 DEF TensorInv
  <1> QED BY <1>2, <1>3, <1>5 DEF TensorNext, TensorOver

\* In every tensor, of any shape, the elements and their indexes are one to one, pprint2
\* prints the elements in the order of the memory, and argmax finds the first of the
\* largest elements if there is one above zero (tensor.h, tensor.cpp).
THEOREM ElementsInOrder == TensorSpec => []PrintsInOrder
  <1>1. TensorInv => PrintsInOrder
    <2> SUFFICES ASSUME TensorInv PROVE PrintsInOrder
      OBVIOUS
    <2>1. shape \in Seq(Nat \ {0})
      BY TensorAssumption DEF TensorInv
    <2>2. IndexesAreOffsets
      BY <2>1, IndexesRight
    <2>3. FirstOfTheLargest
      <3> DEFINE n == Size(shape)
      <3>1. n \in Nat /\ elements \in [0 .. (n - 1) -> Int]
        <4>1. n \in Nat
          BY <2>1, RadixesLoop DEF Size
        <4> QED BY <4>1, TensorAssumption DEF TensorInv
      <3>2. IF \E i \in 0 .. (n - 1) : elements[i] > 0
            THEN \A i \in 0 .. (n - 1) :
                    /\ elements[i] <= elements[Argmax(elements, n)]
                    /\ i < Argmax(elements, n) => elements[i] < elements[Argmax(elements, n)]
            ELSE Argmax(elements, n) = 0
        <4> HIDE DEF n
        <4> QED BY <3>1, ArgmaxRight
      <3> QED BY <3>2 DEF FirstOfTheLargest
    <2> QED BY <2>2, <2>3 DEF TensorInv, PrintsInOrder
  <1> QED BY <1>1, TensorInvInit, TensorInvStep, PTL DEF TensorSpec

-----------------------------------------------------------------------------
(* The step of the layers follows the chain rule: first what sums are.       *)

AreWhole(f, n) == \A i \in 0 .. (n - 1) : f[i] \in Int

AddsUp(g, f, n) ==
    g \in [0 .. n -> Int] /\ g[0] = 0 /\ \A k \in 1 .. n : g[k] = g[k - 1] + f[k - 1]

LEMMA TotalLoop ==
    ASSUME NEW n \in Nat, NEW f, AreWhole(f, n)
    PROVE  \E g : AddsUp(g, f, n) /\ Total(n, f) = g[n]
  <1> DEFINE base == 0
             add(before, k) == before + f[k - 1]
             step == [p \in Int \X (1 .. n) |-> add(p[1], p[2])]
             body(g) == [k \in 0 .. n |-> IF k = 0 THEN base ELSE add(g[k - 1], k)]
             after == CHOOSE g : g = body(g)
  <1>1. ASSUME NEW s \in Int, NEW k \in 1 .. n PROVE add(s, k) \in Int
    <2>1. k - 1 \in 0 .. (n - 1)
      OBVIOUS
    <2> QED BY <2>1 DEF AreWhole
  <1>2. step \in [Int \X (1 .. n) -> Int]
    <2> HIDE DEF add
    <2> QED BY <1>1
  <1>3. ASSUME NEW s \in Int, NEW k \in 1 .. n PROVE step[<<s, k>>] = add(s, k)
    <2> HIDE DEF add
    <2> QED OBVIOUS
  <1>0. base \in Int
    OBVIOUS
  <1> HIDE DEF base, add, step
  <1>4. PICK g \in [0 .. n -> Int] : g[0] = base /\ \A k \in 1 .. n : g[k] = step[<<g[k - 1], k>>]
    <2>1. \E g : IsLoop(g, n, Int, base, step)
      BY <1>0, <1>2, LoopExists
    <2> QED BY <2>1 DEF IsLoop
  <1>5. g = body(g)
    <2>1. ASSUME NEW k \in 1 .. n PROVE g[k] = add(g[k - 1], k)
      <3>1. k - 1 \in 0 .. n
        OBVIOUS
      <3> QED BY <1>3, <1>4, <3>1
    <2> QED BY <1>4, <2>1
  <1>6. after = body(after)
    BY <1>5
  <1>7. Total(n, f) = after[n]
    BY DEF Total, base, add
  <1> HIDE DEF after
  <1>8. after[0] = base /\ \A k \in 1 .. n : after[k] = add(after[k - 1], k)
    BY <1>6
  <1>9. after \in [0 .. n -> Int]
    <2> DEFINE S == {k \in 0 .. n : after[k] \in Int}
    <2>1. 0 \in S
      BY <1>0, <1>8
    <2>2. ASSUME NEW k \in 1 .. n, k - 1 \in S PROVE k \in S
      <3>1. after[k] = add(after[k - 1], k) /\ after[k - 1] \in Int
        BY <1>8, <2>2
      <3>2. add(after[k - 1], k) \in Int
        BY <1>1, <3>1
      <3> QED BY <3>1, <3>2
    <2> HIDE DEF S
    <2>3. \A k \in 0 .. n : k \in S
      BY <2>1, <2>2, UpwardTo
    <2>4. \A k \in 0 .. n : after[k] \in Int
      BY <2>3 DEF S
    <2> QED BY <1>6, <2>4
  <1>10. after[0] = 0 /\ \A k \in 1 .. n : after[k] = after[k - 1] + f[k - 1]
    BY <1>8 DEF base, add
  <1> QED BY <1>7, <1>9, <1>10 DEF AddsUp

\* A sum is made element by element.
LEMMA TotalParts ==
    ASSUME NEW n \in Nat, NEW f, \A i \in 0 .. (n - 1) : f[i] \in Int
    PROVE  /\ Total(0, f) = 0
           /\ \A k \in 0 .. n : Total(k, f) \in Int
           /\ \A k \in 1 .. n : Total(k, f) = Total(k - 1, f) + f[k - 1]
  <1>1. PICK g : AddsUp(g, f, n) /\ Total(n, f) = g[n]
    BY TotalLoop DEF AreWhole
  <1>2. ASSUME NEW k \in 0 .. n PROVE Total(k, f) = g[k]
    <2>1. k \in Nat /\ AreWhole(f, k)
      BY DEF AreWhole
    <2>2. PICK h : AddsUp(h, f, k) /\ Total(k, f) = h[k]
      BY <2>1, TotalLoop
    <2> DEFINE S == {j \in 0 .. k : h[j] = g[j]}
    <2>3. 0 \in S
      BY <1>1, <2>2 DEF AddsUp
    <2>4. \A j \in 1 .. k : j - 1 \in S => j \in S
      <3>1. \A j \in 1 .. k : j \in 1 .. n
        OBVIOUS
      <3> QED BY <1>1, <2>2, <3>1 DEF AddsUp
    <2> HIDE DEF S
    <2>5. \A j \in 0 .. k : j \in S
      BY <2>1, <2>3, <2>4, UpwardTo
    <2>6. k \in S
      BY <2>5
    <2> QED BY <2>2, <2>6 DEF S
  <1>3. 0 \in 0 .. n /\ \A k \in 1 .. n : k \in 0 .. n /\ k - 1 \in 0 .. n
    OBVIOUS
  <1> QED BY <1>1, <1>2, <1>3 DEF AddsUp

\* Sums of the same thing, of a multiple, and of differences.
LEMMA TotalOfSame ==
    ASSUME NEW n \in Nat, NEW c \in Int, NEW f, \A i \in 0 .. (n - 1) : f[i] = c
    PROVE  Total(n, f) = n * c
  <1> DEFINE S == {k \in 0 .. n : Total(k, f) = k * c}
  <1>1. /\ Total(0, f) = 0
        /\ \A k \in 0 .. n : Total(k, f) \in Int
        /\ \A k \in 1 .. n : Total(k, f) = Total(k - 1, f) + f[k - 1]
    BY TotalParts
  <1>2. 0 \in S
    BY <1>1
  <1>3. ASSUME NEW k \in 1 .. n, k - 1 \in S PROVE k \in S
    <2>1. Total(k, f) = (k - 1) * c + c
      BY <1>1, <1>3
    <2>2. (k - 1) * c + c = k * c
      OBVIOUS
    <2> QED BY <2>1, <2>2
  <1> HIDE DEF S
  <1>4. \A k \in 0 .. n : k \in S
    BY <1>2, <1>3, UpwardTo
  <1>5. n \in S
    BY <1>4
  <1> QED BY <1>5 DEF S

\* Rows of n elements behind each other.
LEMMA InRow ==
    ASSUME NEW m \in Nat, NEW n \in Nat \ {0}, NEW b \in 0 .. (m - 1), NEW j \in 0 .. (n - 1)
    PROVE  /\ b * n + j \in 0 .. (m * n - 1)
           /\ (b * n + j) % n = j
           /\ (b * n + j) \div n = b
  <1> DEFINE p == b * n + j
  <1>1. b * n \in Nat /\ (b + 1) * n = b * n + n
    OBVIOUS
  <1>2. (b + 1) * n <= m * n
    <2>1. m - (b + 1) \in Nat /\ (m - (b + 1)) * n \in Nat
      OBVIOUS
    <2>2. m * n = (b + 1) * n + (m - (b + 1)) * n
      OBVIOUS
    <2> QED BY <1>1, <2>1, <2>2
  <1>3. p \in Nat /\ p <= m * n - 1 /\ m * n \in Int
    <2>1. m * n \in Int
      OBVIOUS
    <2> QED BY <1>1, <1>2, <2>1
  <1>4. p % n = j
    BY Remainder
  <1> HIDE DEF p
  <1>5. p = (p \div n) * n + (p % n) /\ p \div n \in Nat
    BY <1>3, PartsOf, Zenon
  <1>6. p \div n = b
    <2> DEFINE q == p \div n
    <2>1. q \in Nat /\ q * n + j = b * n + j /\ b \in Nat
      BY <1>4, <1>5 DEF p
    <2> HIDE DEF q
    <2>2. q = b
      BY <2>1, RoundsSeparate
    <2> QED BY <2>2 DEF q
  <1> QED BY <1>3, <1>4, <1>6 DEF p

LEMMA RowAndColumn ==
    ASSUME NEW m \in Nat, NEW n \in Nat \ {0}, NEW p \in 0 .. (m * n - 1)
    PROVE  /\ p \div n \in 0 .. (m - 1)
           /\ p % n \in 0 .. (n - 1)
           /\ p = (p \div n) * n + (p % n)
  <1> DEFINE q == p \div n
             whole == m * n
             below == q * n
             behind == p % n
  <1>1. p \in Nat /\ whole \in Int /\ p < whole
    <2>1. m * n \in Int
      OBVIOUS
    <2> QED BY <2>1
  <1>2. q \in Nat /\ p % n \in 0 .. (n - 1) /\ p = q * n + (p % n)
    BY <1>1, PartsOf, Zenon
  <1> HIDE DEF q
  <1>3. q < m
    <2> SUFFICES ASSUME q >= m PROVE FALSE
      BY <1>2
    <2> DEFINE more == (q - m) * n
    <2>1. q - m \in Nat /\ more \in Nat
      BY <1>2
    <2>2. below = whole + more
      BY <1>2
    <2>3. p = below + behind /\ behind \in Nat
      BY <1>2
    <2> HIDE DEF more, whole, below, behind
    <2> QED BY <1>1, <2>1, <2>2, <2>3
  <1> QED BY <1>2, <1>3 DEF q

-----------------------------------------------------------------------------
\* The mean of the same is the same.
LEMMA MeanOfSame ==
    ASSUME NEW n \in Nat \ {0}, NEW c \in Int
    PROVE  (n * c) \div n = c
  <1> DEFINE q == (n * c) \div n
             m == (n * c) % n
  <1>1. q \in Int /\ m \in 0 .. (n - 1) /\ n * c = n * q + m
    <2>1. n * c \in Int
      OBVIOUS
    <2> QED BY <2>1
  <1> HIDE DEF q, m
  <1>2. n * c = n * q + m /\ n * (c - q) = m
    BY <1>1
  <1>3. ~(c > q)
    <2> SUFFICES ASSUME c > q PROVE FALSE
      OBVIOUS
    <2>1. n * (c - q) = n + n * (c - q - 1) /\ c - q - 1 \in Nat /\ n * (c - q - 1) \in Nat
      BY <1>1
    <2> QED BY <1>1, <1>2, <2>1
  <1>4. ~(c < q)
    <2> SUFFICES ASSUME c < q PROVE FALSE
      OBVIOUS
    <2>1. n * (c - q) = -n - n * (q - c - 1) /\ q - c - 1 \in Nat /\ n * (q - c - 1) \in Nat
      BY <1>1
    <2> QED BY <1>1, <1>2, <2>1
  <1>5. q = c
    BY <1>1, <1>3, <1>4
  <1> QED BY <1>5 DEF q

-----------------------------------------------------------------------------
(* What the layers compute, of whole numbers.                                *)

WholeFn ==
    /\ \A x \in Int : Fn(x) \in Int
    /\ \A x, y \in Int : FnDerivative(x, y) \in Int

Arrays(n) == [0 .. (n - 1) -> Int]

Weights == NOut * (NIn + 1)

LEMMA BatchType ==
    ASSUME NEW s \in TrainSets, bs \in Nat \ {0}, NEW first \in Nat
    PROVE  Batch(s, first) \in Arrays(bs * NIn)
  <1>1. NIn \in Nat \ {0}
    BY LayersAssumption
  <1>2. Len(s) \in Nat \ {0} /\ \A k \in 1 .. Len(s) : s[k].image \in [0 .. (NIn - 1) -> Int]
    BY LayersAssumption
  <1>3. ASSUME NEW p \in 0 .. (bs * NIn - 1)
        PROVE  Cyclic(s, first + (p \div NIn)).image[p % NIn] \in Int
    <2>1. p \div NIn \in 0 .. (bs - 1) /\ p % NIn \in 0 .. (NIn - 1)
      BY <1>1, RowAndColumn
    <2> DEFINE offset == first + (p \div NIn)
    <2>2. offset \in Nat
      BY <2>1
    <2> HIDE DEF offset
    <2>3. offset % Len(s) \in 0 .. (Len(s) - 1)
      BY <1>2, <2>2, Division
    <2>4. (offset % Len(s)) + 1 \in 1 .. Len(s)
      BY <1>2, <2>3
    <2>5. Cyclic(s, offset).image \in [0 .. (NIn - 1) -> Int]
      BY <1>2, <2>4 DEF Cyclic
    <2> QED BY <2>1, <2>5 DEF offset
  <1> QED BY <1>3 DEF Batch, Arrays

\* The place of input i and of the bias of output o among the weights.
LEMMA WeightPlaces ==
    ASSUME NEW o \in 0 .. (NOut - 1), NEW i \in 0 .. NIn
    PROVE  /\ o * (NIn + 1) + i \in 0 .. (Weights - 1)
           /\ (o * (NIn + 1) + i) % (NIn + 1) = i
           /\ (o * (NIn + 1) + i) \div (NIn + 1) = o
  <1> DEFINE n == NIn + 1
  <1>1. NOut \in Nat /\ n \in Nat \ {0} /\ i \in 0 .. (n - 1)
    BY LayersAssumption
  <1> HIDE DEF n
  <1>2. /\ o * n + i \in 0 .. (NOut * n - 1)
        /\ (o * n + i) % n = i
        /\ (o * n + i) \div n = o
    BY <1>1, InRow
  <1> QED BY <1>2, Zenon DEF n, Weights

LEMMA WeightParts ==
    ASSUME NEW q \in 0 .. (Weights - 1)
    PROVE  /\ q \div (NIn + 1) \in 0 .. (NOut - 1)
           /\ q % (NIn + 1) \in 0 .. NIn
           /\ q = (q \div (NIn + 1)) * (NIn + 1) + (q % (NIn + 1))
  <1> DEFINE n == NIn + 1
  <1>1. NIn \in Nat /\ NOut \in Nat /\ n \in Nat \ {0} /\ n - 1 = NIn
    BY LayersAssumption
  <1>2. q \in 0 .. (NOut * n - 1)
    BY Zenon DEF Weights
  <1> HIDE DEF n
  <1>3. q \div n \in 0 .. (NOut - 1) /\ q % n \in 0 .. (n - 1) /\ q = (q \div n) * n + (q % n)
    BY <1>1, <1>2, RowAndColumn
  <1> QED BY <1>1, <1>3, Zenon DEF n

\* The products that InnerProduct adds up for element p of its output.
Products(w, x, p) ==
    [i \in 0 .. (NIn - 1) |-> x[(p \div NOut) * NIn + i] * w[(p % NOut) * (NIn + 1) + i]]

LEMMA ProductsType ==
    ASSUME NEW rows \in Nat, NEW w \in Arrays(Weights), NEW x \in Arrays(rows * NIn),
           NEW p \in 0 .. (rows * NOut - 1)
    PROVE  /\ AreWhole(Products(w, x, p), NIn)
           /\ w[(p % NOut) * (NIn + 1) + NIn] \in Int
           /\ Total(NIn, Products(w, x, p)) \in Int
  <1>1. NIn \in Nat \ {0} /\ NOut \in Nat \ {0}
    BY LayersAssumption
  <1>2. p \div NOut \in 0 .. (rows - 1) /\ p % NOut \in 0 .. (NOut - 1)
    BY <1>1, RowAndColumn
  <1>3. ASSUME NEW i \in 0 .. NIn PROVE w[(p % NOut) * (NIn + 1) + i] \in Int
    <2>1. (p % NOut) * (NIn + 1) + i \in 0 .. (Weights - 1)
      BY <1>2, WeightPlaces
    <2> QED BY <2>1 DEF Arrays
  <1>4. ASSUME NEW i \in 0 .. (NIn - 1) PROVE x[(p \div NOut) * NIn + i] \in Int
    <2>1. (p \div NOut) * NIn + i \in 0 .. (rows * NIn - 1)
      BY <1>1, <1>2, InRow
    <2> QED BY <2>1 DEF Arrays
  <1>5. ASSUME NEW i \in 0 .. (NIn - 1)
        PROVE  x[(p \div NOut) * NIn + i] * w[(p % NOut) * (NIn + 1) + i] \in Int
    <2>1. i \in 0 .. NIn
      BY <1>1
    <2> QED BY <1>3, <1>4, <2>1
  <1>6. AreWhole(Products(w, x, p), NIn)
    BY <1>5 DEF AreWhole, Products
  <1>7. NIn \in 0 .. NIn
    BY <1>1
  <1>8. Total(NIn, Products(w, x, p)) \in Int
    BY <1>1, <1>6, <1>7, TotalParts DEF AreWhole
  <1> QED BY <1>3, <1>6, <1>7, <1>8

LEMMA InnerProductType ==
    ASSUME NEW rows \in Nat, NEW w \in Arrays(Weights), NEW x \in Arrays(rows * NIn)
    PROVE  /\ InnerProduct(w, x, rows) \in Arrays(rows * NOut)
           /\ \A p \in 0 .. (rows * NOut - 1) :
                 InnerProduct(w, x, rows)[p] =
                     Total(NIn, Products(w, x, p)) + w[(p % NOut) * (NIn + 1) + NIn]
  <1> DEFINE y(p) == Total(NIn, Products(w, x, p)) + w[(p % NOut) * (NIn + 1) + NIn]
  <1>1. InnerProduct(w, x, rows) = [p \in 0 .. (rows * NOut - 1) |-> y(p)]
    BY DEF InnerProduct, SumOf, Products
  <1>2. ASSUME NEW p \in 0 .. (rows * NOut - 1) PROVE y(p) \in Int
    BY ProductsType
  <1> HIDE DEF y
  <1>3. InnerProduct(w, x, rows) \in Arrays(rows * NOut)
    BY <1>1, <1>2 DEF Arrays
  <1>4. \A p \in 0 .. (rows * NOut - 1) : InnerProduct(w, x, rows)[p] = y(p)
    BY <1>1
  <1> QED BY <1>3, <1>4 DEF y

LEMMA PureType ==
    ASSUME WholeFn, NEW n, NEW x \in Arrays(n)
    PROVE  /\ Pure(x) \in Arrays(n)
           /\ \A p \in 0 .. (n - 1) : Pure(x)[p] = Fn(x[p])
  BY DEF WholeFn, Pure, Arrays

LEMMA LabelType ==
    ASSUME NEW s, NEW offset, NEW o PROVE Label(s, offset, o) \in Int
  BY LayersAssumption DEF Label

LEMMA L2NormDfType ==
    ASSUME NEW n, NEW y \in Arrays(n), NEW first
    PROVE  /\ L2NormDf(y, first) \in Arrays(n)
           /\ \A p \in 0 .. (n - 1) :
                 L2NormDf(y, first)[p] = y[p] - Label(trainSet, first + (p \div NOut), p % NOut)
  <1> DEFINE e(p) == y[p] - Label(trainSet, first + (p \div NOut), p % NOut)
  <1>1. L2NormDf(y, first) = [p \in 0 .. (n - 1) |-> e(p)]
    BY DEF L2NormDf, Arrays
  <1>2. ASSUME NEW p \in 0 .. (n - 1) PROVE e(p) \in Int
    <2>1. y[p] \in Int
      BY DEF Arrays
    <2> QED BY <2>1, LabelType
  <1> HIDE DEF e
  <1>3. L2NormDf(y, first) \in Arrays(n) /\ \A p \in 0 .. (n - 1) : L2NormDf(y, first)[p] = e(p)
    BY <1>1, <1>2 DEF Arrays
  <1> QED BY <1>3 DEF e

LEMMA PureDfType ==
    ASSUME WholeFn, NEW n, NEW d \in Arrays(n), NEW x \in Arrays(n), NEW y \in Arrays(n)
    PROVE  /\ PureDf(d, x, y) \in Arrays(n)
           /\ \A p \in 0 .. (n - 1) : PureDf(d, x, y)[p] = FnDerivative(x[p], y[p]) * d[p]
  <1> DEFINE e(p) == FnDerivative(x[p], y[p]) * d[p]
  <1>1. PureDf(d, x, y) = [p \in 0 .. (n - 1) |-> e(p)]
    BY DEF PureDf, Arrays
  <1>2. ASSUME NEW p \in 0 .. (n - 1) PROVE e(p) \in Int
    <2>1. x[p] \in Int /\ y[p] \in Int /\ d[p] \in Int
      BY DEF Arrays
    <2>2. FnDerivative(x[p], y[p]) \in Int
      BY <2>1 DEF WholeFn
    <2> QED BY <2>1, <2>2
  <1> HIDE DEF e
  <1>3. PureDf(d, x, y) \in Arrays(n) /\ \A p \in 0 .. (n - 1) : PureDf(d, x, y)[p] = e(p)
    BY <1>1, <1>2 DEF Arrays
  <1> QED BY <1>3 DEF e

LEMMA AverageType ==
    ASSUME world \in Nat \ {0}, NEW n, NEW f, \A s \in Processes : f[s] \in Arrays(n)
    PROVE  \A r \in Processes : Average(f)[r] \in Arrays(n)
  <1> SUFFICES ASSUME NEW r \in Processes PROVE Average(f)[r] \in Arrays(n)
    OBVIOUS
  <1> DEFINE column(p) == [s \in 0 .. (world - 1) |-> f[s][p]]
             mean(p) == Total(world, column(p)) \div world
  <1>1. Average(f)[r] = [p \in 0 .. (n - 1) |-> mean(p)]
    BY DEF Average, SumOf, Arrays
  <1>2. ASSUME NEW p \in 0 .. (n - 1) PROVE mean(p) \in Int
    <2>1. \A i \in 0 .. (world - 1) : column(p)[i] \in Int
      BY DEF Processes, Arrays
    <2> HIDE DEF column
    <2>2. Total(world, column(p)) \in Int
      <3>1. world \in 0 .. world
        OBVIOUS
      <3> QED BY <2>1, <3>1, TotalParts
    <2> QED BY <2>2
  <1> HIDE DEF mean
  <1> QED BY <1>1, <1>2 DEF Arrays

\* An average over processes that have the same changes nothing.
LEMMA AverageOfSame ==
    ASSUME world \in Nat \ {0}, NEW n, NEW f, NEW r \in Processes, f[r] \in Arrays(n),
           \A s \in Processes : f[s] = f[r]
    PROVE  Average(f)[r] = f[r]
  <1> DEFINE column(p) == [s \in 0 .. (world - 1) |-> f[s][p]]
             mean(p) == Total(world, column(p)) \div world
  <1>1. Average(f)[r] = [p \in 0 .. (n - 1) |-> mean(p)]
    BY DEF Average, SumOf, Arrays
  <1>2. ASSUME NEW p \in 0 .. (n - 1) PROVE mean(p) = f[r][p]
    <2>1. f[r][p] \in Int
      BY DEF Arrays
    <2>2. \A i \in 0 .. (world - 1) : column(p)[i] = f[r][p]
      BY DEF Processes
    <2> HIDE DEF column
    <2>3. Total(world, column(p)) = world * f[r][p]
      BY <2>1, <2>2, TotalOfSame
    <2> QED BY <2>1, <2>3, MeanOfSame
  <1> HIDE DEF mean
  <1>3. f[r] = [p \in 0 .. (n - 1) |-> f[r][p]]
    BY DEF Arrays
  <1> QED BY <1>1, <1>2, <1>3

-----------------------------------------------------------------------------
(* What the processes have on the way from the forward pass to the update.    *)

\* The outputs of a forward pass with weights w of the items at source s.
OutputsOf(w, s) ==
    LET image == Batch(trainSet, s.images)
        fc    == InnerProduct(w, image, bs)
    IN  <<image, fc, Pure(fc)>>

OutputsInv ==
    at \in {"backward", "apply"} =>
        \A r \in Processes : source[r].images \in Nat /\ outputs[r] = OutputsOf(weights[r], source[r])

LossDfInv == at = "backward" /\ pass = 3 => \A r \in Processes : labelAt[r] = source[r].labels

\* Whether df of the loss, and of the function as well, have been made and averaged.
AfterLossDf == at = "apply" \/ (at = "backward" /\ pass < 3)

AfterPureDf == at = "apply" \/ (at = "backward" /\ pass < 2)

DiffsInv ==
    /\ \A r \in Processes : diffs[r] = [l \in 1 .. 3 |-> diffs[r][l]]
    /\ AfterLossDf =>
          \A r \in Processes :
             /\ diffs[r][3] \in Arrays(bs * NOut)
             /\ Together(r) => diffs[r][3] = L2NormDf(outputs[r][3], source[r].labels)
    /\ AfterPureDf =>
          \A r \in Processes :
             /\ diffs[r][2] \in Arrays(bs * NOut)
             /\ Together(r) => diffs[r][2] = PureDf(diffs[r][3], outputs[r][2], outputs[r][3])

WeightsInv ==
    \A r \in Processes :
        /\ weights[r] \in Arrays(Weights)
        /\ \A q \in 0 .. (Weights - 1) : IsBias(q) => weights[r][q] = 0

GradientInv ==
    /\ trainSet \in TrainSets
    /\ OutputsInv /\ LossDfInv /\ DiffsInv /\ WeightsInv

LEMMA GradientInvInit == LayersInit => GradientInv
  <1> SUFFICES ASSUME LayersInit PROVE GradientInv
    OBVIOUS
  <1>1. NOut \in Nat \ {0} /\ NIn \in Nat \ {0} /\ Weights \in Nat
    BY LayersAssumption DEF Weights
  <1>2. WeightsInv
    BY <1>1 DEF LayersInit, WeightsInv, Zero, Arrays, Weights
  <1>3. DiffsInv
    BY DEF LayersInit, DiffsInv, AfterLossDf, AfterPureDf
  <1> QED BY <1>2, <1>3 DEF LayersInit, GradientInv, OutputsInv, LossDfInv

\* The outputs of a forward pass are arrays of numbers.
LEMMA OutputsOfType ==
    ASSUME WholeFn, LayersTypeOK, trainSet \in TrainSets,
           NEW w \in Arrays(Weights), NEW s, s.images \in Nat
    PROVE  /\ OutputsOf(w, s)[1] = Batch(trainSet, s.images)
           /\ OutputsOf(w, s)[2] = InnerProduct(w, OutputsOf(w, s)[1], bs)
           /\ OutputsOf(w, s)[3] = Pure(OutputsOf(w, s)[2])
           /\ OutputsOf(w, s)[1] \in Arrays(bs * NIn)
           /\ OutputsOf(w, s)[2] \in Arrays(bs * NOut)
           /\ OutputsOf(w, s)[3] \in Arrays(bs * NOut)
  <1> DEFINE image == Batch(trainSet, s.images)
             fc == InnerProduct(w, image, bs)
  <1>1. bs \in Nat \ {0}
    BY DEF LayersTypeOK
  <1>2. image \in Arrays(bs * NIn)
    BY <1>1, BatchType
  <1>3. OutputsOf(w, s) = <<image, fc, Pure(fc)>>
    BY DEF OutputsOf
  <1> HIDE DEF image
  <1>4. fc \in Arrays(bs * NOut)
    BY <1>1, <1>2, InnerProductType
  <1> HIDE DEF fc
  <1>5. Pure(fc) \in Arrays(bs * NOut)
    BY <1>4, PureType
  <1>6. OutputsOf(w, s)[1] = image /\ OutputsOf(w, s)[2] = fc /\ OutputsOf(w, s)[3] = Pure(fc)
    BY <1>3
  <1>7. image = Batch(trainSet, s.images) /\ fc = InnerProduct(w, image, bs)
    BY DEF image, fc
  <1> QED BY <1>2, <1>4, <1>5, <1>6, <1>7, Zenon

\* Between the forward pass and the update.
LEMMA OutputsType ==
    ASSUME WholeFn, LayersTypeOK, GradientInv, at \in {"backward", "apply"}, NEW r \in Processes
    PROVE  /\ outputs[r][1] \in Arrays(bs * NIn)
           /\ outputs[r][2] \in Arrays(bs * NOut)
           /\ outputs[r][3] \in Arrays(bs * NOut)
           /\ outputs[r][2] = InnerProduct(weights[r], outputs[r][1], bs)
           /\ outputs[r][3] = Pure(outputs[r][2])
           /\ \A s \in Processes :
                 source[s] = source[r] /\ weights[s] = weights[r] => outputs[s] = outputs[r]
  <1>1. /\ weights[r] \in Arrays(Weights) /\ source[r].images \in Nat
        /\ trainSet \in TrainSets
        /\ \A s \in Processes : outputs[s] = OutputsOf(weights[s], source[s])
    BY DEF GradientInv, WeightsInv, OutputsInv
  <1> DEFINE f == OutputsOf(weights[r], source[r])
  <1>2. /\ f[2] = InnerProduct(weights[r], f[1], bs)
        /\ f[3] = Pure(f[2])
        /\ f[1] \in Arrays(bs * NIn)
        /\ f[2] \in Arrays(bs * NOut)
        /\ f[3] \in Arrays(bs * NOut)
    BY <1>1, OutputsOfType
  <1>3. outputs[r] = f
    BY <1>1
  <1> HIDE DEF f
  <1>4. \A s \in Processes : source[s] = source[r] /\ weights[s] = weights[r] => outputs[s] = outputs[r]
    BY <1>1
  <1> QED BY <1>2, <1>3, <1>4

\* What df of the loss and of the function give, and the averages of that.
LEMMA LossDfAverage ==
    ASSUME WholeFn, LayersTypeOK, GradientInv, at = "backward", pass = 3, NEW r \in Processes
    PROVE  LET average == Average([s \in Processes |-> Df(s)])[r]
           IN  /\ average \in Arrays(bs * NOut)
               /\ Together(r) => average = L2NormDf(outputs[r][3], source[r].labels)
  <1> DEFINE f == [s \in Processes |-> Df(s)]
             n == bs * NOut
  <1>1. world \in Nat \ {0}
    BY DEF LayersTypeOK
  <1>2. ASSUME NEW s \in Processes
        PROVE  f[s] = L2NormDf(outputs[s][3], source[s].labels) /\ f[s] \in Arrays(n)
    <2>1. labelAt[s] = source[s].labels
      BY DEF GradientInv, LossDfInv
    <2>2. outputs[s][3] \in Arrays(n)
      BY OutputsType
    <2>3. f[s] = L2NormDf(outputs[s][3], source[s].labels)
      BY <2>1 DEF Df
    <2> QED BY <2>2, <2>3, L2NormDfType
  <1> HIDE DEF f, n
  <1>3. Average(f)[r] \in Arrays(n)
    BY <1>1, <1>2, AverageType
  <1>4. ASSUME Together(r) PROVE Average(f)[r] = L2NormDf(outputs[r][3], source[r].labels)
    <2>1. ASSUME NEW s \in Processes PROVE f[s] = f[r]
      <3>1. source[s] = source[r] /\ weights[s] = weights[r]
        BY <1>4 DEF Together
      <3>2. outputs[s] = outputs[r]
        BY <3>1, OutputsType
      <3> QED BY <1>2, <3>1, <3>2
    <2>2. Average(f)[r] = f[r]
      BY <1>1, <1>2, <2>1, AverageOfSame
    <2> QED BY <1>2, <2>2
  <1> QED BY <1>3, <1>4 DEF f, n

LEMMA PureDfAverage ==
    ASSUME WholeFn, LayersTypeOK, GradientInv, at = "backward", pass = 2, NEW r \in Processes
    PROVE  LET average == Average([s \in Processes |-> Df(s)])[r]
           IN  /\ average \in Arrays(bs * NOut)
               /\ Together(r) => average = PureDf(diffs[r][3], outputs[r][2], outputs[r][3])
  <1> DEFINE f == [s \in Processes |-> Df(s)]
             n == bs * NOut
  <1>1. world \in Nat \ {0}
    BY DEF LayersTypeOK
  <1>2. ASSUME NEW s \in Processes
        PROVE  /\ diffs[s][3] \in Arrays(n)
               /\ Together(s) => diffs[s][3] = L2NormDf(outputs[s][3], source[s].labels)
    BY DEF GradientInv, DiffsInv, AfterLossDf
  <1>3. ASSUME NEW s \in Processes
        PROVE  f[s] = PureDf(diffs[s][3], outputs[s][2], outputs[s][3]) /\ f[s] \in Arrays(n)
    <2>1. outputs[s][2] \in Arrays(n) /\ outputs[s][3] \in Arrays(n)
      BY OutputsType
    <2>2. f[s] = PureDf(diffs[s][3], outputs[s][2], outputs[s][3])
      BY DEF Df
    <2> QED BY <1>2, <2>1, <2>2, PureDfType
  <1> HIDE DEF f, n
  <1>4. Average(f)[r] \in Arrays(n)
    BY <1>1, <1>3, AverageType
  <1>5. ASSUME Together(r) PROVE Average(f)[r] = PureDf(diffs[r][3], outputs[r][2], outputs[r][3])
    <2>1. ASSUME NEW s \in Processes PROVE f[s] = f[r]
      <3>1. source[s] = source[r] /\ weights[s] = weights[r] /\ Together(s)
        BY <1>5 DEF Together
      <3>2. outputs[s] = outputs[r]
        BY <3>1, OutputsType
      <3>3. diffs[s][3] = diffs[r][3]
        BY <1>2, <1>5, <3>1, <3>2
      <3> QED BY <1>3, <3>2, <3>3
    <2>2. Average(f)[r] = f[r]
      BY <1>1, <1>3, <2>1, AverageOfSame
    <2> QED BY <1>3, <2>2
  <1> QED BY <1>4, <1>5 DEF f, n

LEMMA BackwardKeeps ==
    ASSUME WholeFn, LayersTypeOK, GradientInv, BackwardAll PROVE GradientInv'
  <1> DEFINE average(r) == Average([s \in Processes |-> Df(s)])[r]
  <1>1. /\ at = "backward" /\ pass \in 1 .. 3
        /\ diffs' = [r \in Processes |-> [diffs[r] EXCEPT ![pass] = average(r)]]
        /\ pass > 1 => pass' = pass - 1 /\ at' = at
        /\ ~(pass > 1) => at' = "apply" /\ pass' = pass
        /\ UNCHANGED <<world, bs, trainSet, weights, outputs, source>>
        /\ Processes' = Processes
    BY DEF BackwardAll, LayersTypeOK, chosen, Processes
  <1>2. /\ pass = 3 => \A r \in Processes :
              /\ average(r) \in Arrays(bs * NOut)
              /\ Together(r) => average(r) = L2NormDf(outputs[r][3], source[r].labels)
        /\ pass = 2 => \A r \in Processes :
              /\ average(r) \in Arrays(bs * NOut)
              /\ Together(r) => average(r) = PureDf(diffs[r][3], outputs[r][2], outputs[r][3])
    BY <1>1, LossDfAverage, PureDfAverage
  <1> HIDE DEF average
  <1>3. \A r \in Processes : diffs[r] = [l \in 1 .. 3 |-> diffs[r][l]]
    BY DEF GradientInv, DiffsInv
  <1>4. ASSUME NEW r \in Processes
        PROVE  /\ diffs'[r] = [l \in 1 .. 3 |-> diffs'[r][l]]
               /\ diffs'[r][pass] = average(r)
               /\ \A l \in 1 .. 3 : l # pass => diffs'[r][l] = diffs[r][l]
    <2> DEFINE d == diffs[r]
    <2>1. d = [l \in 1 .. 3 |-> d[l]]
      BY <1>3
    <2> HIDE DEF d
    <2>2. diffs'[r] = [d EXCEPT ![pass] = average(r)]
      BY <1>1 DEF d
    <2>3. diffs'[r] = [l \in 1 .. 3 |-> IF l = pass THEN average(r) ELSE d[l]]
      BY <1>1, <2>1, <2>2
    <2> QED BY <1>1, <2>3 DEF d
  <1>5. \A r \in Processes : Together(r)' <=> Together(r)
    BY <1>1 DEF Together
  <1>6. OutputsInv' /\ LossDfInv' /\ WeightsInv' /\ trainSet' \in TrainSets
    <2>1. OutputsInv'
      <3>1. ASSUME NEW r \in Processes
            PROVE  OutputsOf(weights[r], source[r])' = OutputsOf(weights[r], source[r])
        BY <1>1 DEF OutputsOf, Batch
      <3> QED BY <1>1, <3>1 DEF GradientInv, OutputsInv
    <2>2. LossDfInv'
      BY <1>1 DEF LossDfInv
    <2>3. WeightsInv'
      BY <1>1 DEF GradientInv, WeightsInv
    <2> QED BY <1>1, <2>1, <2>2, <2>3 DEF GradientInv
  <1>7. ASSUME NEW r \in Processes
        PROVE  /\ diffs'[r][3] \in Arrays(bs * NOut)
               /\ Together(r) => diffs'[r][3] = L2NormDf(outputs[r][3], source[r].labels)
    <2>1. CASE pass = 3
      BY <1>2, <1>4, <2>1
    <2>2. CASE pass # 3
      <3>1. AfterLossDf
        BY <1>1, <2>2 DEF AfterLossDf
      <3>2. diffs'[r][3] = diffs[r][3]
        BY <1>1, <1>4, <2>2
      <3> QED BY <3>1, <3>2 DEF GradientInv, DiffsInv
    <2> QED BY <2>1, <2>2
  <1>8. ASSUME NEW r \in Processes, AfterPureDf'
        PROVE  /\ diffs'[r][2] \in Arrays(bs * NOut)
               /\ Together(r) => diffs'[r][2] = PureDf(diffs'[r][3], outputs[r][2], outputs[r][3])
    <2>1. pass # 3
      BY <1>1, <1>8 DEF AfterPureDf
    <2>2. diffs'[r][3] = diffs[r][3]
      BY <1>1, <1>4, <2>1
    <2>3. CASE pass = 2
      BY <1>2, <1>4, <2>2, <2>3
    <2>4. CASE pass = 1
      <3>1. AfterPureDf
        BY <1>1, <2>4 DEF AfterPureDf
      <3>2. diffs'[r][2] = diffs[r][2]
        BY <1>1, <1>4, <2>4
      <3> QED BY <2>2, <3>1, <3>2 DEF GradientInv, DiffsInv
    <2> QED BY <1>1, <2>1, <2>3, <2>4
  <1>9. DiffsInv'
    <2>2. ASSUME NEW r \in Processes
          PROVE  /\ L2NormDf(outputs[r][3], source[r].labels)' = L2NormDf(outputs[r][3], source[r].labels)
                 /\ PureDf(diffs[r][3], outputs[r][2], outputs[r][3])'
                      = PureDf(diffs'[r][3], outputs[r][2], outputs[r][3])
                 /\ Arrays(bs * NOut)' = Arrays(bs * NOut)
      BY <1>1 DEF L2NormDf, PureDf, Arrays, Label, Cyclic
    <2> QED BY <1>1, <1>4, <1>5, <1>7, <1>8, <2>2 DEF DiffsInv
  <1> QED BY <1>6, <1>9 DEF GradientInv

\* What applyUpdates adds up for weight q over the rows of a batch.
Updates(d, x, q) ==
    [b \in 0 .. (bs - 1) |-> d[b * NOut + q \div (NIn + 1)] * x[b * NIn + (q % (NIn + 1))]]

LEMMA UpdatesType ==
    ASSUME LayersTypeOK, NEW d \in Arrays(bs * NOut), NEW x \in Arrays(bs * NIn),
           NEW q \in 0 .. (Weights - 1), ~IsBias(q), NEW b \in 0 .. (bs - 1)
    PROVE  /\ b * NOut + q \div (NIn + 1) \in 0 .. (bs * NOut - 1)
           /\ b * NIn + (q % (NIn + 1)) \in 0 .. (bs * NIn - 1)
           /\ Updates(d, x, q)[b] \in Int
  <1>1. bs \in Nat /\ NIn \in Nat \ {0} /\ NOut \in Nat \ {0}
    BY LayersAssumption DEF LayersTypeOK
  <1> DEFINE o == q \div (NIn + 1)
             i == q % (NIn + 1)
  <1>2. o \in 0 .. (NOut - 1) /\ i \in 0 .. NIn /\ i # NIn
    BY WeightParts DEF IsBias
  <1>3. Updates(d, x, q)[b] = d[b * NOut + o] * x[b * NIn + i]
    BY DEF Updates
  <1> HIDE DEF o, i
  <1>4. i \in 0 .. (NIn - 1)
    BY <1>1, <1>2
  <1>5. b * NOut + o \in 0 .. (bs * NOut - 1) /\ b * NIn + i \in 0 .. (bs * NIn - 1)
    BY <1>1, <1>2, <1>4, InRow
  <1>6. d[b * NOut + o] \in Int /\ x[b * NIn + i] \in Int
    BY <1>5 DEF Arrays
  <1>7. Updates(d, x, q)[b] \in Int
    BY <1>3, <1>6
  <1> QED BY <1>5, <1>7 DEF o, i

LEMMA WeightDiffType ==
    ASSUME LayersTypeOK, NEW d \in Arrays(bs * NOut), NEW x \in Arrays(bs * NIn),
           NEW q \in 0 .. (Weights - 1)
    PROVE  /\ IsBias(q) => WeightDiff(d, x)[q] = 0
           /\ ~IsBias(q) => WeightDiff(d, x)[q] = Total(bs, Updates(d, x, q)) \div bs
           /\ WeightDiff(d, x)[q] \in Int
  <1>1. bs \in Nat \ {0}
    BY DEF LayersTypeOK
  <1>2. WeightDiff(d, x)[q] =
            (0 + IF IsBias(q) THEN 0 ELSE Total(bs, Updates(d, x, q))) \div bs
    BY DEF WeightDiff, Reset, BiasDiff, Weights, IsBias, SumOf, Updates
  <1>3. CASE IsBias(q)
    <2>1. (0 + 0) \div bs = 0
      BY <1>1
    <2> QED BY <1>2, <1>3, <2>1
  <1>4. CASE ~IsBias(q)
    <2>1. \A b \in 0 .. (bs - 1) : Updates(d, x, q)[b] \in Int
      BY <1>4, UpdatesType
    <2>2. bs \in Nat /\ bs \in 0 .. bs
      BY <1>1
    <2> DEFINE t == Total(bs, Updates(d, x, q))
    <2>3. t \in Int
      BY <2>1, <2>2, TotalParts
    <2> HIDE DEF t
    <2>4. WeightDiff(d, x)[q] = (0 + t) \div bs
      BY <1>2, <1>4 DEF t
    <2>5. WeightDiff(d, x)[q] = t \div bs /\ t \div bs \in Int
      BY <1>1, <2>3, <2>4
    <2> QED BY <1>4, <2>5 DEF t
  <1> QED BY <1>3, <1>4

\* What an update does to the weights.
LEMMA ApplyMoves ==
    ASSUME WholeFn, LayersTypeOK, GradientInv, Apply, NEW r \in Processes
    PROVE  /\ weights[r] \in Arrays(Weights)
           /\ weights'[r] \in Arrays(Weights)
           /\ \A q \in 0 .. (Weights - 1) :
                 /\ IsBias(q) => weights'[r][q] = 0
                 /\ ~IsBias(q) =>
                       weights'[r][q] =
                           weights[r][q] - (Total(bs, Updates(diffs[r][2], outputs[r][1], q)) \div bs)
  <1> DEFINE d == diffs[r][2]
             x == outputs[r][1]
             move == WeightDiff(d, x)
  <1>1. d \in Arrays(bs * NOut) /\ x \in Arrays(bs * NIn)
    BY OutputsType DEF Apply, GradientInv, DiffsInv, AfterPureDf
  <1>2. /\ weights[r] \in [0 .. (Weights - 1) -> Int]
        /\ \A q \in 0 .. (Weights - 1) : IsBias(q) => weights[r][q] = 0
    BY DEF GradientInv, WeightsInv, Arrays
  <1>3. weights'[r] = [q \in 0 .. (Weights - 1) |-> weights[r][q] - move[q]]
    BY <1>2 DEF Apply
  <1> HIDE DEF d, x
  <1>4. ASSUME NEW q \in 0 .. (Weights - 1)
        PROVE  /\ IsBias(q) => move[q] = 0
               /\ ~IsBias(q) => move[q] = Total(bs, Updates(d, x, q)) \div bs
               /\ move[q] \in Int
    BY <1>1, WeightDiffType
  <1> HIDE DEF move
  <1>5. weights'[r] \in [0 .. (Weights - 1) -> Int]
    <2>1. ASSUME NEW q \in 0 .. (Weights - 1) PROVE weights[r][q] - move[q] \in Int
      <3>1. weights[r][q] \in Int /\ move[q] \in Int
        BY <1>2, <1>4
      <3> QED BY <3>1
    <2> QED BY <1>3, <2>1
  <1>6. ASSUME NEW q \in 0 .. (Weights - 1)
        PROVE  /\ IsBias(q) => weights'[r][q] = 0
               /\ ~IsBias(q) => weights'[r][q] = weights[r][q] - (Total(bs, Updates(d, x, q)) \div bs)
    BY <1>2, <1>3, <1>4
  <1> QED BY <1>2, <1>5, <1>6 DEF Arrays, d, x

LEMMA ForwardKeeps ==
    ASSUME LayersTypeOK, GradientInv, ForwardAll PROVE GradientInv'
  <1>1. /\ at' = "backward" /\ pass' = 3
        /\ UNCHANGED <<world, bs, trainSet, weights, diffs, labelAt>>
        /\ Processes' = Processes
        /\ source' = [r \in Processes |-> [images |-> imageAt[r], labels |-> labelAt[r]]]
        /\ \A r \in Processes : imageAt[r] \in Nat
    BY DEF ForwardAll, LayersTypeOK, chosen, Processes
  <1>2. OutputsInv'
    <2>1. ASSUME NEW r \in Processes
          PROVE  /\ source'[r].images = imageAt[r]
                 /\ outputs'[r] = OutputsOf(weights[r], source'[r])
                 /\ OutputsOf(weights[r], source[r])' = OutputsOf(weights[r], source'[r])
      <3>1. source'[r].images = imageAt[r]
        BY <1>1
      <3>2. outputs'[r] = OutputsOf(weights[r], source'[r])
        BY <3>1 DEF ForwardAll, OutputsOf
      <3>3. OutputsOf(weights[r], source[r])' = OutputsOf(weights[r], source'[r])
        BY <1>1 DEF OutputsOf, Batch
      <3> QED BY <3>1, <3>2, <3>3
    <2> QED BY <1>1, <2>1 DEF OutputsInv
  <1>3. LossDfInv'
    BY <1>1 DEF LossDfInv
  <1>4. DiffsInv'
    BY <1>1 DEF GradientInv, DiffsInv, AfterLossDf, AfterPureDf
  <1>5. WeightsInv'
    BY <1>1 DEF GradientInv, WeightsInv
  <1> QED BY <1>1, <1>2, <1>3, <1>4, <1>5 DEF GradientInv

LEMMA GradientInvStep ==
    ASSUME WholeFn PROVE SourcesInv /\ GradientInv /\ [LayersNext]_layersVars => GradientInv'
  <1> SUFFICES ASSUME SourcesInv, GradientInv, [LayersNext]_layersVars PROVE GradientInv'
    OBVIOUS
  <1>1. LayersTypeOK
    BY DEF SourcesInv
  <1>2. CASE ForwardAll
    BY <1>1, <1>2, ForwardKeeps
  <1>3. CASE BackwardAll
    BY <1>1, <1>3, BackwardKeeps
  <1>4. CASE Apply
    <2>1. /\ at' = "iterate" /\ UNCHANGED <<world, bs, trainSet, diffs>> /\ Processes' = Processes
      BY <1>4 DEF Apply, chosen, Processes
    <2>2. WeightsInv'
      BY <1>1, <1>4, <2>1, ApplyMoves DEF WeightsInv
    <2>3. OutputsInv' /\ LossDfInv'
      BY <2>1 DEF OutputsInv, LossDfInv
    <2>4. DiffsInv'
      BY <2>1 DEF GradientInv, DiffsInv, AfterLossDf, AfterPureDf
    <2> QED BY <2>1, <2>2, <2>3, <2>4 DEF GradientInv
  <1>5. CASE Test
    <2>1. /\ at' \in {"iterate", "aborted"}
          /\ UNCHANGED <<world, bs, trainSet, weights, diffs>> /\ Processes' = Processes
      BY <1>5 DEF Test, chosen, Processes
    <2>2. WeightsInv'
      BY <2>1 DEF GradientInv, WeightsInv
    <2>3. OutputsInv' /\ LossDfInv'
      BY <2>1 DEF OutputsInv, LossDfInv
    <2>4. DiffsInv'
      BY <2>1 DEF GradientInv, DiffsInv, AfterLossDf, AfterPureDf
    <2> QED BY <2>1, <2>2, <2>3, <2>4 DEF GradientInv
  <1>6. CASE UNCHANGED layersVars
    <2>1. /\ UNCHANGED <<at, pass, world, bs, trainSet, weights, outputs, diffs, labelAt, source>>
          /\ Processes' = Processes
      BY <1>6 DEF layersVars, Processes
    <2>2. WeightsInv'
      BY <2>1 DEF GradientInv, WeightsInv
    <2>3. OutputsInv' /\ LossDfInv'
      BY <2>1 DEF GradientInv, OutputsInv, LossDfInv, OutputsOf, Batch
    <2>4. DiffsInv'
      BY <2>1 DEF GradientInv, DiffsInv, AfterLossDf, AfterPureDf, Together, L2NormDf, PureDf, Arrays
    <2> QED BY <2>1, <2>2, <2>3, <2>4 DEF GradientInv
  <1> QED BY <1>2, <1>3, <1>4, <1>5, <1>6 DEF LayersNext, LayersOver

-----------------------------------------------------------------------------
(* The gradient by the chain rule.                                           *)

\* The derivative of the loss by the weight of input i for output o, by the chain rule,
\* at the weights w and the items at source s.
Gradient(w, s, o, i) ==
    LET f == OutputsOf(w, s)
    IN  SumOf(bs, LAMBDA b :
            (FnDerivative(f[2][b * NOut + o], f[3][b * NOut + o])
                * (f[3][b * NOut + o] - Label(trainSet, s.labels + b, o)))
            * f[1][b * NIn + i])

StepFollowsChainRule ==
    [][at = "apply" /\ at' = "iterate" =>
           \A r \in Processes : Together(r) =>
               \A o \in 0 .. (NOut - 1), i \in 0 .. (NIn - 1) :
                   LET q == o * (NIn + 1) + i
                   IN  weights'[r][q] =
                           weights[r][q] - (Gradient(weights[r], source[r], o, i) \div bs)]_layersVars

\* What the derivatives are when they are applied.
LEMMA DiffsAtApply ==
    ASSUME WholeFn, LayersTypeOK, GradientInv, at = "apply", NEW r \in Processes, Together(r)
    PROVE  /\ diffs[r][2] \in Arrays(bs * NOut)
           /\ \A p \in 0 .. (bs * NOut - 1) :
                 diffs[r][2][p] =
                     FnDerivative(outputs[r][2][p], outputs[r][3][p])
                         * (outputs[r][3][p]
                                - Label(trainSet, source[r].labels + (p \div NOut), p % NOut))
  <1>1. /\ diffs[r][3] \in Arrays(bs * NOut) /\ diffs[r][2] \in Arrays(bs * NOut)
        /\ diffs[r][3] = L2NormDf(outputs[r][3], source[r].labels)
        /\ diffs[r][2] = PureDf(diffs[r][3], outputs[r][2], outputs[r][3])
    BY DEF GradientInv, DiffsInv, AfterLossDf, AfterPureDf
  <1>2. outputs[r][2] \in Arrays(bs * NOut) /\ outputs[r][3] \in Arrays(bs * NOut)
    BY OutputsType
  <1> DEFINE n == bs * NOut
  <1> HIDE DEF n
  <1>3. \A p \in 0 .. (n - 1) :
            diffs[r][3][p] =
                outputs[r][3][p] - Label(trainSet, source[r].labels + (p \div NOut), p % NOut)
    BY <1>1, <1>2, L2NormDfType DEF n
  <1>4. \A p \in 0 .. (n - 1) :
            diffs[r][2][p] = FnDerivative(outputs[r][2][p], outputs[r][3][p]) * diffs[r][3][p]
    BY <1>1, <1>2, PureDfType DEF n
  <1> QED BY <1>1, <1>3, <1>4 DEF n

LEMMA ChainRuleStep ==
    ASSUME WholeFn, SourcesInv, GradientInv, Apply, NEW r \in Processes, Together(r),
           NEW o \in 0 .. (NOut - 1), NEW i \in 0 .. (NIn - 1)
    PROVE  weights'[r][o * (NIn + 1) + i] =
               weights[r][o * (NIn + 1) + i] - (Gradient(weights[r], source[r], o, i) \div bs)
  <1> DEFINE q == o * (NIn + 1) + i
             d == diffs[r][2]
             f == outputs[r]
             x == f[1]
             label(b) == Label(trainSet, source[r].labels + b, o)
             term(b) == (FnDerivative(f[2][b * NOut + o], f[3][b * NOut + o])
                            * (f[3][b * NOut + o] - label(b))) * x[b * NIn + i]
  <1>1. LayersTypeOK /\ bs \in Nat \ {0} /\ at = "apply" /\ NIn \in Nat \ {0} /\ NOut \in Nat \ {0}
    BY LayersAssumption DEF SourcesInv, LayersTypeOK, Apply
  <1>2. i \in 0 .. NIn /\ i # NIn
    BY <1>1
  <1>3. q \in 0 .. (Weights - 1) /\ q % (NIn + 1) = i /\ q \div (NIn + 1) = o
    BY <1>2, WeightPlaces
  <1>4. outputs[r] = OutputsOf(weights[r], source[r])
    BY <1>1 DEF GradientInv, OutputsInv
  <1>5. Gradient(weights[r], source[r], o, i) = Total(bs, [b \in 0 .. (bs - 1) |-> term(b)])
    BY <1>4 DEF Gradient, SumOf
  <1>6. ASSUME NEW b \in 0 .. (bs - 1) PROVE d[b * NOut + o] * x[b * NIn + i] = term(b)
    <2>1. /\ b * NOut + o \in 0 .. (bs * NOut - 1)
          /\ (b * NOut + o) % NOut = o
          /\ (b * NOut + o) \div NOut = b
      <3>1. bs \in Nat
        BY <1>1
      <3> QED BY <1>1, <3>1, InRow
    <2> DEFINE p == b * NOut + o
    <2> HIDE DEF p, x, f
    <2>2. d[p] = FnDerivative(f[2][p], f[3][p])
                    * (f[3][p] - Label(trainSet, source[r].labels + (p \div NOut), p % NOut))
      BY <1>1, <2>1, DiffsAtApply DEF p, f
    <2>3. p % NOut = o /\ p \div NOut = b
      BY <2>1, Zenon DEF p
    <2>4. d[p] = FnDerivative(f[2][p], f[3][p]) * (f[3][p] - label(b))
      BY <2>2, <2>3, Zenon
    <2> QED BY <2>4, Zenon DEF p
  <1>7. Updates(d, x, q) = [b \in 0 .. (bs - 1) |-> term(b)]
    <2> HIDE DEF d, x, term, q
    <2>1. Updates(d, x, q) = [b \in 0 .. (bs - 1) |-> d[b * NOut + o] * x[b * NIn + i]]
      BY <1>3 DEF Updates
    <2> QED BY <1>6, <2>1
  <1> HIDE DEF term
  <1>8. weights'[r][q] = weights[r][q] - (Total(bs, Updates(d, x, q)) \div bs)
    <2>1. ~IsBias(q)
      <3> HIDE DEF q
      <3> QED BY <1>2, <1>3 DEF IsBias
    <2> HIDE DEF q
    <2> QED BY <1>1, <1>3, <2>1, ApplyMoves
  <1> HIDE DEF q
  <1>9. weights'[r][q] = weights[r][q] - (Gradient(weights[r], source[r], o, i) \div bs)
    BY <1>5, <1>7, <1>8
  <1> QED BY <1>9 DEF q

LEMMA WhenApplied == [LayersNext]_layersVars /\ at = "apply" /\ at' = "iterate" => Apply
  BY DEF LayersNext, ForwardAll, BackwardAll, Test, LayersOver, layersVars

\* A step of the weights is the gradient of the loss by the chain rule, for any
\* function of PureFunction and its derivative (net.cpp:44, inner_product.cpp:61): the
\* outputs and the derivatives kept in the layers are those of the weights that are
\* updated and of one batch.
THEOREM ChainRule ==
    ASSUME WholeFn PROVE LayersSpec => StepFollowsChainRule
  <1>1. ASSUME SourcesInv, GradientInv, [LayersNext]_layersVars
        PROVE  at = "apply" /\ at' = "iterate" =>
           \A r \in Processes : Together(r) =>
               \A o \in 0 .. (NOut - 1), i \in 0 .. (NIn - 1) :
                   LET q == o * (NIn + 1) + i
                   IN  weights'[r][q] =
                           weights[r][q] - (Gradient(weights[r], source[r], o, i) \div bs)
    BY <1>1, WhenApplied, ChainRuleStep
  <1>2. SourcesInv /\ GradientInv /\ [LayersNext]_layersVars =>
            [at = "apply" /\ at' = "iterate" =>
               \A r \in Processes : Together(r) =>
                   \A o \in 0 .. (NOut - 1), i \in 0 .. (NIn - 1) :
                       LET q == o * (NIn + 1) + i
                       IN  weights'[r][q] =
                               weights[r][q] - (Gradient(weights[r], source[r], o, i) \div bs)]_layersVars
    BY <1>1
  <1>3. LayersSpec => []SourcesInv
    BY SourcesInvInit, SourcesInvStep, PTL DEF LayersSpec
  <1>4. LayersSpec => []GradientInv
    BY <1>3, GradientInvInit, GradientInvStep, PTL DEF LayersSpec
  <1> QED BY <1>2, <1>3, <1>4, PTL DEF LayersSpec, StepFollowsChainRule

=============================================================================
