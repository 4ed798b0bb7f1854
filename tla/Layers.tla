-------------------------------- MODULE Layers --------------------------------
(* What the layers of the trainer compute (sgd-comm/src/functions and net.cpp): *)
(* Data -> InnerProduct -> PureFunction -> L2Norm, with whole numbers for the   *)
(* floats and the learning rate 1.  The processes go in step, a pass of a layer *)
(* is one step of all of them: Trainer shows that their collective calls match. *)
(*                                                                           *)
(* Arrays are functions of the offset, which starts with 0.  Element i of row b *)
(* of a batch is at b * n + i, the weight of input i for output o at            *)
(* o * (NIn + 1) + i, and the bias of output o at o * (NIn + 1) + NIn.          *)
EXTENDS Integers, Sequences, FiniteSets

CONSTANTS
    NIn,            \* n_in of InnerProduct: the pixels of an image
    NOut,           \* n_out of InnerProduct: the classes
    Fn(_),          \* fn of PureFunction
    FnDerivative(_, _), \* derivative of PureFunction, of its input and output
    One,            \* Dtype(1) of a label, in the unit of the whole numbers
    Worlds,         \* the numbers of processes
    BatchSizes,     \* the values of bs
    TrainSets,      \* sequences of records with an image and a label
    TestSet,        \* one of them
    Iterations      \* iters

ASSUME LayersAssumption ==
    /\ NIn \in Nat \ {0} /\ NOut \in Nat \ {0} /\ One \in Int
    /\ Worlds \subseteq Nat \ {0} /\ BatchSizes \subseteq Nat \ {0}
    /\ \A s \in TrainSets \cup {TestSet} :
          /\ Len(s) \in Nat \ {0}
          /\ \A k \in 1 .. Len(s) : s[k].image \in [0 .. (NIn - 1) -> Int]
    /\ Iterations \in Nat

VARIABLES
    world, bs, trainSet,    \* chosen at the start
    at,             \* where the processes are
    pass,           \* the layer the backward pass is at
    iteration,
    weights,        \* per process, weight_ of the InnerProduct
    outputs,        \* per process, output_ of Data, InnerProduct and PureFunction
    diffs,          \* per process, output_diff_ of the same
    imageAt,        \* per process, offset of Data
    labelAt,        \* per process, offset of L2Norm
    source,         \* per process, the offsets of the images and labels last used
    testOffset,     \* test_offset of Data
    correct         \* what L2Norm::test counted last, or -1

layersVars == <<world, bs, trainSet, at, pass, iteration, weights, outputs, diffs,
                imageAt, labelAt, source, testOffset, correct>>

chosen == <<world, bs, trainSet>>

Processes == 0 .. (world - 1)

\* The first n elements of an array, added up.
Total(n, array) ==
    LET total[k \in 0 .. n] == IF k = 0 THEN 0 ELSE total[k - 1] + array[k - 1]
    IN  total[n]

SumOf(n, term(_)) == Total(n, [i \in 0 .. (n - 1) |-> term(i)])

\* Element s[offset] of a sequence that goes on at its beginning.
Cyclic(s, offset) == s[(offset % Len(s)) + 1]

Batch(s, first) == [p \in 0 .. (bs * NIn - 1) |-> Cyclic(s, first + (p \div NIn)).image[p % NIn]]

Label(s, offset, o) == IF Cyclic(s, offset).label = o THEN One ELSE 0

-----------------------------------------------------------------------------
(* The layers.                                                               *)

\* InnerProduct::operator() on the given number of rows.
InnerProduct(w, x, rows) ==
    [p \in 0 .. (rows * NOut - 1) |->
        LET o == p % NOut
        IN  SumOf(NIn, LAMBDA i : x[(p \div NOut) * NIn + i] * w[o * (NIn + 1) + i])
                + w[o * (NIn + 1) + NIn]]

\* InnerProduct::df.
InnerProductDf(w, d) ==
    [p \in 0 .. (bs * NIn - 1) |->
        SumOf(NOut, LAMBDA o : d[(p \div NIn) * NOut + o] * w[o * (NIn + 1) + (p % NIn)])]

\* PureFunction::operator() and df.
Pure(x) == [p \in DOMAIN x |-> Fn(x[p])]

PureDf(d, x, y) == [p \in DOMAIN x |-> FnDerivative(x[p], y[p]) * d[p]]

\* Mutant of L2NormDf: the offset has been advanced before the labels are read.
L2NormDfAdvanced(y, first) ==
    [p \in DOMAIN y |-> y[p] - Label(trainSet, first + world * bs + (p \div NOut), p % NOut)]

\* L2Norm::df.
L2NormDf(y, first) ==
    [p \in DOMAIN y |-> y[p] - Label(trainSet, first + (p \div NOut), p % NOut)]

\* InnerProduct::applyUpdates writes the derivative by the bias first, of the
\* last row of the batch, and then resets all of weight_diff_.
BiasDiff(d) ==
    [q \in 0 .. (NOut * (NIn + 1) - 1) |->
        IF q % (NIn + 1) = NIn THEN d[(bs - 1) * NOut + q \div (NIn + 1)] ELSE 0]

Reset(diff) == [q \in DOMAIN diff |-> 0]

WeightDiff(d, x) ==
    LET reset == Reset(BiasDiff(d))
    IN  [q \in DOMAIN reset |->
            LET i == q % (NIn + 1)
                o == q \div (NIn + 1)
            IN  (reset[q] + IF i = NIn THEN 0
                            ELSE SumOf(bs, LAMBDA b : d[b * NOut + o] * x[b * NIn + i])) \div bs]

\* MPI_Allreduce and the division by world_size.
Average(f) ==
    [r \in Processes |-> [p \in DOMAIN f[r] |-> SumOf(world, LAMBDA s : f[s][p]) \div world]]

-----------------------------------------------------------------------------

Zero(n) == [p \in 0 .. (n - 1) |-> 0]

LayersInit ==
    /\ world \in Worlds /\ bs \in BatchSizes /\ trainSet \in TrainSets
    /\ at = "iterate"
    /\ pass = 3
    /\ iteration = 0
    /\ weights = [r \in Processes |-> Zero(NOut * (NIn + 1))]
    /\ outputs = [r \in Processes |-> [l \in 1 .. 3 |-> <<>>]]
    /\ diffs = outputs
    /\ imageAt = [r \in Processes |-> (r * bs) % Len(trainSet)]
    /\ labelAt = imageAt
    /\ source = [r \in Processes |-> [images |-> 0, labels |-> 0]]
    /\ testOffset = 0
    /\ correct = -1

Further(offsets) == [r \in Processes |-> (offsets[r] + world * bs) % Len(trainSet)]

\* Net::forward: Data, InnerProduct, PureFunction.  The sum that L2Norm::forward
\* makes of the output is only printed; TwiceTheLoss below is the same sum.
ForwardAll ==
    /\ at = "iterate" /\ iteration < Iterations
    /\ outputs' = [r \in Processes |->
            LET image == Batch(trainSet, imageAt[r])
                fc    == InnerProduct(weights[r], image, bs)
            IN  <<image, fc, Pure(fc)>>]
    /\ source' = [r \in Processes |->
            [images |-> imageAt[r], labels |-> labelAt[r]]]
    /\ imageAt' = Further(imageAt)
    /\ at' = "backward"
    /\ pass' = 3
    /\ UNCHANGED <<chosen, iteration, weights, diffs, labelAt, testOffset, correct>>

\* One round of Net::backward: df of a layer, whose result all processes average.
Df(r) ==
    LET x == outputs[r][pass]
    IN  CASE pass = 3 -> L2NormDf(x, labelAt[r])
          [] pass = 2 -> PureDf(diffs[r][3], x, outputs[r][3])
          [] pass = 1 -> InnerProductDf(weights[r], diffs[r][2])

BackwardAll ==
    /\ at = "backward"
    /\ LET averages == Average([r \in Processes |-> Df(r)])
       IN  diffs' = [r \in Processes |-> [diffs[r] EXCEPT ![pass] = averages[r]]]
    /\ labelAt' = IF pass = 3 THEN Further(labelAt) ELSE labelAt
    /\ IF pass > 1
       THEN pass' = pass - 1 /\ UNCHANGED at
       ELSE at' = "apply" /\ UNCHANGED pass
    /\ UNCHANGED <<chosen, iteration, weights, outputs, imageAt, source, testOffset, correct>>

\* Net::applyUpdate: only the InnerProduct is learnable.
Apply ==
    /\ at = "apply"
    /\ weights' = [r \in Processes |->
            LET diff == WeightDiff(diffs[r][2], outputs[r][1])
            IN  [q \in DOMAIN weights[r] |-> weights[r][q] - diff[q]]]
    /\ iteration' = iteration + 1
    /\ at' = "iterate"
    /\ UNCHANGED <<chosen, pass, outputs, diffs, imageAt, labelAt, source, testOffset, correct>>

\* Data::test puts one image into every row of a batch, by index; the shape has bs
\* and the pixels the other way round than Data's output, so that its pixels lie
\* bs apart, and InnerProduct takes NIn for the number of rows.  It asserts that
\* the offsets it reads and writes are in the batch and in its output.
TestBatch(image) == [p \in 0 .. (bs * NIn - 1) |-> image[p \div bs]]

TestFits == NIn * NIn <= bs * NIn /\ NIn * NOut <= bs * NOut

Prediction(y) ==
    LET best == {o \in 0 .. (NOut - 1) : y[o] > 0 /\ \A k \in 0 .. (NOut - 1) : y[k] <= y[o]}
    IN  IF best = {} THEN 0 ELSE CHOOSE o \in best : \A k \in best : o <= k

\* Mutant of AfterTest: the offset is advanced as df advances it.
AfterTestAdvanced(offset) == (offset + bs) % Len(TestSet)

\* offset %= test_labels.size()
AfterTest(offset) == offset % Len(TestSet)

\* Net::test of all processes, of which process 0 counts; the expression
\* input[i_bs*n_in, i_in] of L2Norm::test is input[i_in], the first row, for every
\* row.  One test is followed.
Test ==
    /\ at = "iterate" /\ iteration > 0 /\ correct = -1
    /\ IF TestFits
       THEN LET fc == InnerProduct(weights[0], TestBatch(Cyclic(TestSet, testOffset).image), NIn)
            IN  /\ correct' = Cardinality({b \in 0 .. (bs - 1) :
                        Cyclic(TestSet, labelAt[0] + b).label = Prediction(Pure(fc))})
                /\ labelAt' = [r \in Processes |-> AfterTest(labelAt[r])]
                /\ UNCHANGED at
       ELSE at' = "aborted" /\ UNCHANGED <<correct, labelAt>>
    /\ testOffset' = (testOffset + bs) % Len(TestSet)
    /\ UNCHANGED <<chosen, pass, iteration, weights, outputs, diffs, imageAt, source>>

LayersOver ==
    /\ at = "aborted" \/ (at = "iterate" /\ iteration = Iterations)
    /\ UNCHANGED layersVars

LayersNext == ForwardAll \/ BackwardAll \/ Apply \/ Test \/ LayersOver

LayersSpec == LayersInit /\ [][LayersNext]_layersVars

-----------------------------------------------------------------------------

\* Twice the loss of process r's batch with the weights w: what L2Norm::forward
\* sums up, computed from the definition of the net.
TwiceTheLoss(w, r) ==
    LET y == Pure(InnerProduct(w, Batch(trainSet, source[r].images), bs))
    IN  SumOf(bs * NOut, LAMBDA p :
            LET error == y[p] - Label(trainSet, source[r].labels + (p \div NOut), p % NOut)
            IN  error * error)

IsBias(q) == q % (NIn + 1) = NIn

\* All processes have the batch and the weights of process r.
Together(r) == \A s \in Processes : source[s] = source[r] /\ weights[s] = weights[r]

\* Twice the derivative of process r's loss by weight q, times 12: differences of the
\* loss at four points, exact if it is a polynomial of degree four in the weight, as
\* it is if Fn is one of degree two.
LossDifferences(r, q) ==
    LET moved(c) == TwiceTheLoss([weights[r] EXCEPT ![q] = @ + c], r)
    IN  moved(-2) - 8 * moved(-1) + 8 * moved(1) - moved(2)

\* Of a step: the backward pass is the derivative of the forward pass.  A process
\* alone, or processes with the same batches and weights, move every weight by the
\* gradient of the loss, rounded once as whole numbers are: the derivatives are taken
\* at the outputs of these weights, with the labels of this batch, and the averages
\* over the processes change nothing about that.  The biases are part of the output
\* but never move: their derivative is computed and then reset.
StepIsGradient ==
    [][at = "apply" /\ at' = "iterate" =>
           \A r \in Processes : Together(r) =>
               \A q \in DOMAIN weights[r] :
                   IF IsBias(q)
                   THEN weights'[r][q] = 0
                   ELSE weights[r][q] - weights'[r][q] =
                           LossDifferences(r, q) \div (24 * bs)]_layersVars

\* Whatever L2Norm::test does to the offset of the training labels, the labels
\* stay those of the images if there are no fewer test labels than training
\* labels, or if no test is made; with MNIST there are fewer, and main makes none.
LabelsOfImages ==
    correct = -1 \/ Len(TestSet) >= Len(trainSet) =>
        \A r \in Processes : source[r].images = source[r].labels
=============================================================================
