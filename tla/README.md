# TLA+ models of dirty-linux-experiments

The repository is a collection of experiments. Many show something the compiler, the linker or the
processor does. The programs with most logic of their own are the caches of `sgd-comm` that read training
images from a file server, the hash table and the trainer of the same directory, and the futex demo; seven
smaller programs have a state worth following too. This directory holds their TLA+ models, the TLC configurations that check them, and TLAPS proofs.

    tlc -config MCSgdComm.cfg MCSgdComm.tla      # a run (all are listed under "What the runs show")
    tlapm DistributedCacheProofs.tla             # a module of proofs

## 1. Inventory

| component | state | operations | how it meets the others |
|---|---|---|---|
| placement, `DefaultDistributionHash` (`sgd-comm/cache.hpp:175-201`) | none: a function of the numbers of processes, nodes, images per process and images | which ranks cache an image | called by `DistributedCache::Get` through the lambda of `mpi_win.cpp:121` |
| local cache, `RetrieveFromSeaweedFS` and `IOCache` (`cache.hpp:20-173`) | the buffer, `hash_data_`, `current_offset`, the round-robin counter | `GetOrRetrieve`, `Exists`, `Perform` | one per process; its buffer is exposed to the other ranks by MPI |
| distributed cache, `DistributedCache` (`cache.hpp:205-359`) | `global_index_`, the window, its `IOCache` | `Get`, `Sync` | reads other ranks' buffers by `MPI_Get`; sums the index by `MPI_Allreduce` |
| driver, `mpi_win.cpp` | the epoch, the image, `hit_type`, the hit counters | `epoch_loop` with its reductions, the decode check | calls `Get`, `Sync` |
| distributed hash table, `distributedhash.c` | one slice of the table and of the counts per rank | `hashlookup`, `main`'s rounds, the reduction | MPI windows under exclusive locks |
| trainer, `asgd.cpp` and `sgd-comm/src` | per process the offsets of data and labels, the weights and the derivatives | forward, backward, update, test | `MPI_Allreduce` of the loss, the accuracy and each layer's derivatives |
| the trainer's tensors and benchmark (`tensor.*`, `utils/benchmark.*`) | a block of numbers and its shape; the time points of each metric | indexes, `pprint`, `pprint2`; `tick`, `print` | the layers keep their numbers in tensors; `Net` ticks around their work |
| futex demo, `linux-futex/futex_demo.c` | two futexes in shared memory | `fwait`, `fpost`, the loops of parent and child | shared memory, `futex(2)`, `wait` |
| HTTP benchmark in Go (`golang-http`) | a buffer of points, the start and end times | `Tick`, `Reset`, `Print`, quantiles | goroutines, a mutex |
| random numbers, `debug/src/rng.cpp` | an atomic counter, a vector | `push_back` by several threads | threads without a lock |
| `effective-modern-c++/eat-cpu.cpp` | per worker its times; a stream with its lock | the duty cycle, the printing threads | threads, one lock |
| filter and primes (`misc`) | a state, a stringstream | `process`, the sieve, the factors | - |
| NCCL over Open MPI (`nccl-ompi`) | the communicator, a stream | `ncclInit`, `allReduce` | MPI broadcast and barrier, CUDA |
| price search, `optimizer/simple.py` | an iterator, the list of selections | four nested loops | - |
| clock in the frame buffer, `linux-graphics/fb.cpp` | the text, the round | drawing, one round a second | the mapped device |
| everything else | - | demonstrations and micro-benchmarks | - |

What is hard, and what makes each component right:

* **Placement.** Integer arithmetic with remainders. No process may be given more than its budget,
  no slot may be left empty, and replication must be even, for every combination of the five numbers.
* **Local cache.** The buffer fills up and is never emptied. A file that no longer fits is passed through,
  one that fits exactly is stored, a failed download leaves no trace.
* **Distributed cache.** The index is exchanged once and the caches go on changing; owners copy into
  buffers that others read; downloads fail on some ranks only; all ranks must make the same
  collective calls. The cache must be invisible: every rank is given the images themselves, in order.
* **Hash table.** Look and insertion are two lock epochs, and ranks overwrite each other's insertions.
  Probe sequences must stay whole and end.
* **Trainer.** Images and labels are read at two offsets in two classes, advanced in different passes;
  they must stay together, and the batches must use the images evenly. What the layers compute must be
  the gradient of the loss, through a reduction in the middle of the backward pass.
* **Tensors, benchmark.** Indexes overflow from one dimension into the next; several processes print
  to one terminal.
* **Futex demo.** The turn goes from one futex to the other by two compare-and-exchanges, between which
  a process may go to sleep, be interrupted, or wake for no reason.
* **HTTP benchmark.** Requests go on while the buffer is copied and emptied: each must be in one report.
* **Smaller programs.** A counter that is tested and incremented in two operations, `push_back` without a
  lock into memory that is replaced, processes that go on after a failure as if there had been none, an `int` that changes its sign, a
  parser that writes a number when the character behind it comes, an iterator that is used twice,
  unsigned offsets into a frame buffer.

`PROJECT.json` lists every hazard of this kind with its line and the properties that would catch it.

## 2. Modules

| module | models | state and actions |
|---|---|---|
| `DistributionHash` | `DefaultDistributionHash` | operators: `Start`, `Count`, `Slots`, `TargetRanks`, with the names of the code |
| `PlacementSweep` | epoch 0 as the placement sees it | `load[r]` counts the images given to rank r; `VisitImage` is one round of the loop |
| `CacheBuffer` | the storage of an `IOCache` | a record `hash_data`, `buffer`, `current_offset`; a memcpy is two steps, `BeginCopy` and `FinishCopy` |
| `ReadThroughCache` | abstract: what a caller of a local cache may rely on | the set of files placed, the bytes used, the last reply |
| `IOCache` | `GetOrRetrieve` | one action per way through the function: `Hit`, `FetchFails`, `FetchWithoutPlacing`, `FetchAndBeginPlacing`, `FinishPlacing` |
| `LockstepReaders` | abstract: what the epochs promise | how many images each rank has been given, and the last one |
| `DistributedCache` | `DistributedCache` driven by `mpi_win.cpp` | per rank: program counter, epoch, image, cache, index, counters; one action per branch of `Get`, per step of the one-sided read (`WinLock`, `GetClusterRead`) and per collective call |
| `DistributedHashTable` | `distributedhash.c` | table and counts, and per rank the slot it is at; one action per lock epoch of `hashlookup` |
| `Alternation` | abstract: the header comment of `futex_demo.c` | the lines each process has written |
| `FutexDemo` | `futex_demo.c` | the futexes and program counters; one action per atomic step of `fwait`, `fpost` and the loops, and the kernel's `SpuriousWake` and `Interrupted` |
| `Trainer` | `asgd.cpp`, `net.cpp`, `data.cpp`, `loss.cpp`: the processes | per process its offsets, its layer and, per layer, the batches that went into the derivatives; one action per pass or collective call, with and without MPI |
| `Layers` | the same and `inner_product.cpp`, `pure_function.*`: the numbers | weights, outputs and derivatives of all processes, in step; a pass of a layer is one action; `Net::test` |
| `Tensor` | `tensor.h`, `tensor.cpp` | a tensor, the elements printed, and the loop of `pprint` |
| `NetBenchmark` | `utils/benchmark.*`, the ticks of `Net` and `Net::print` | the clock and the time points; the processes print in turn |
| `Orders` | the sorts of Go and Python | operators: what is known of a list and its sorted copy |
| `HttpBenchmark` | `golang-http/stats`, `client` | the workers and main against one buffer; a section under `stat.mu` is one action |
| `RandomNumbers` | `debug/src/rng.cpp` | the counter, the vector's size and capacity; test, increment and the parts of `push_back` are actions. Once one thread has replaced the memory under another's hands (`wild`) the vector's pointers may be into different blocks: its size is any of `WildSizes`, and the program may end |
| `EatCpu` | `effective-modern-c++/eat-cpu.cpp` | a worker's cycles; the printing threads and their stream |
| `NumberFilter` | `misc/decomposefilt.cpp`, `libprime.hpp` | the parser, one action per character; sieve and factors as recursive functions; a numeral saturates at `LongMax` |
| `NcclAllReduce` | `nccl-ompi/main.cpp`, `allreduce.cu` | per process its place, identifier, communicator and memory; any stream, communicator or allocation may fail, and the process goes on |
| `PriceSearch` | `optimizer/simple.py` | the loops, one action per combination and machine |
| `FrameBuffer` | `linux-graphics/fb.cpp` | the words drawn, the clock and the rounds |
| `MCSgdComm`, `MCTrainer`, `MCExperiments` | placement, local cache and hash table; the parts of the trainer; the small programs, the futex demo among them | their disjoint unions: they extend the modules of the parts, an execution follows the one that `part` (`program`) names, the variables of the others stay as they are |
| other `MC...` | constants for TLC | |
| `...Proofs` | theorems and their proofs | |

`DistributedCache` extends `CacheBuffer` as `IOCache` does: the two share the definition of the storage
and of each step on it. `MCDistributedCache` takes the placement of its three ranks from
`DistributionHash`, and assumes the table of `test_hash.cpp` of it, which TLC evaluates.

Abstractions. A byte of a buffer is a pair of a file and a position, or `Torn` while a memcpy is writing
it; an image is its file; time, rates and printed text are left out, except for the hit counters that are
printed. `MPI_Get` delivers the bytes the target's buffer holds at the moment of the unlock; because a
rank reads a region only after its entry was made, which `IndexPointsAtImages` states, an earlier moment
would give the same bytes. A collective call is left when all ranks have entered their call of the same number;
every reduction of an 8-byte number is such a call. In `DistributedHashTable` a lock epoch is one step,
and an object is its first word, which is all the table stores. Definitions introduced as "Mutant" in a
comment are no part of the models: they are slips that somebody might make in the code, put in the place of the
definition behind them to see that a property notices.

In `Layers` floats are whole numbers and the learning rate is 1. The activation function of the run is `x*x + x`,
whose slope is another one at every input; the loss is then of degree four in a weight, and the differences at four points of
`LossDifferences` are its exact derivative. The sigmoid of `asgd.cpp:64` is no function of whole numbers. The processes of `Layers`
go in step, which `Trainer` justifies: it shows that their collective calls match. `Trainer` keeps of
the derivatives only which batches they come from, `Layers` their values. In `EatCpu`, `NetBenchmark` and `FrameBuffer` times and
sizes are small numbers and an integer has few bits (`IntLimit`, `CountModulus`, `WordModulus`), so that they overflow in small
instances as they do in the code after seconds or on odd screens; `LongMax` of the filter's run is 1023, so that numerals of four
digits saturate. The theorems hold for any such limit.

## 3. What the runs show

| run | module, configuration | bounds | result |
|---|---|---|---|
| `sgd_comm_parts` | `MCSgdComm` | placement: all 720 configurations of up to 5 processes, 3 nodes, 5 images per process, 7 images; local cache: files of 0, 1, 2 and 3 bytes, a buffer of 4, 3 masters; hash table: 3 ranks with an object each, 2 rounds, 27 hash functions that make them collide, an MPI that checks window bounds and one that does not | within budget, full, even; stored files stay intact, implements `ReadThroughCache`; one slot per object, whole probe sequences, all finish |
| `distributed_cache` | `MCDistributedCache` | 3 ranks, 4 images of 3 files, 2 bytes per buffer, 3 epochs, a comparison every 3 images, `should_yield_cluster_cache` either way, no failure | implements `LockstepReaders`, hits counted right, indexes agree |
| `distributed_cache_faults` | `MCDistributedCache`, `MCDistributedCacheFaults` | 2 epochs, any download may fail, with and without `do_decode` (`DecodeChoices`) | no foreign or torn bytes, collectives matched; without `do_decode` everybody finishes, with it no empty cluster hit: a failure has ended the job before |
| `empty_cluster_hit` | `MCDistributedCache`, `MCClusterHitEmpty` | failures, no `do_decode` | **violated**, see below |
| `hits_miscounted` | same, `MCHitsMiscounted` | failures | **violated** |
| `index_overflow` | same, `MCIndexOverflow` | an `int` of 4 bits | **violated** |
| `hash_race` | `MCDistributedHashTable`, `MCHashTableRace` | 2 ranks, all hash functions | **violated** |
| `trainer` | `MCTrainer` | processes: 3, batches of 2 from 11 images, 12 iterations, 4 layers, with and without MPI; layers: 1 or 2 processes, 2 pixels, 2 classes, all training sets of 1 or 2 images and some of 3, 2 iterations and a test; tensors of 1 to 3 dimensions; 2 metrics, up to 3 printing processes | labels stay with images, even use, matched reductions, the step is the gradient, reports in order |
| `pprint_ends` | `MCTrainer`, `MCPprintEnds` | tensors of 1 to 3 dimensions, also of length 1 | **violated** |
| `ends_without_mpi` | `Trainer`, `MCEndsWithoutMpi` | 2 iterations, batches of 2 from 5 images | **violated** |
| `experiments` | `MCExperiments` | futex demo: the default of 5 loops, 2 signals, spurious returns at will; 2 workers, 2 requests, 2 reports; 3 threads, 3 numbers, 0 or 9 for the size of a broken vector; 3 processes with failing streams, communicators and memory; 3 cycles at shares of 1/4, 1/2, 3/4, 2 printers; all texts of up to 5 characters; 8 combinations of 4 machines, all price tables; 25 screens, 12 fonts | one turn, no lost wake-up, implements `Alternation`, both come to the end; the others see below |
| `combinations_searched` | same, `MCCombinations` | the same | **violated** |

Why the bounds are enough. Three ranks give an owner, a second owner and a reader of the same image.
The list and the buffers are chosen so that one rank has room for all its images and two have not, one
file is used by two images, and some images are replicated; two epochs are the one that fills the
caches and one that uses them, a third shows that nothing changes. Eleven images and batches of two
make each of the trainer's offsets take every value, and wrap at each, within twelve iterations. In the hash table three
objects that collide at the last slot, at the first and at a boundary of ranks make every probe wrap. Counters of
collective calls are bounded by the epochs and iterations. For the layers, three images in batches of
up to three make the offsets wrap within a batch, and a test set smaller and not smaller than the training set
is what `LabelsOfImages` distinguishes. In the filter five characters
hold two numbers with a point or another character on either side of them. The screens include those narrower and lower than
the text with its border, and fonts with short or no rows.

What the code does and what it does not shows best in the following properties:

* `StepIsGradient`: processes that have the same batch and weights move every weight by the gradient of the loss, rounded once
  as whole numbers are, with the derivatives taken at the outputs of these weights; the biases never move: their derivative is
  computed into `weight_diff_` and then reset (`inner_product.cpp:64-74`). It says nothing of processes with different
  images: what is averaged are the derivatives by the layers' outputs, each process multiplies them by its own
  inputs, and their weights move apart (`net.cpp:56`).
* `LabelsOfImages`: `L2Norm::test` reduces the offset of the training labels modulo the number of test labels; main
  makes no test.
* `TrainingEnds`: with MPI all processes come to the end of their last iteration.
* `PrintsInOrder`: `pprint2` prints each element once, in the order of the memory; indexes and offsets are one to one.
* `ReportsInOrder`: the processes' reports do not mix and their minimum and maximum are right, but the average divides a signed sum
  by a `size_t`: after a clock that went back it exceeds the maximum.
* `RequestsReportedOnce`: a request is in the report of its round, but one that ends between `Print`'s copy and the next `Reset` is in none.
* `NumbersPrinted`: each thread but the last to test may add one number too many; `push_back`s that get in each other's way lose
  some, but one is left, unless one of them has used memory that another had in hand: then nothing is claimed of the size.
* `AllOrNoneReduced`: behind the barrier all processes that have a stream hold rank 0's identifier, communicators are of one identifier,
  and a job that ends has its reduction made by all processes or by none. Processes may pass the barrier without a communicator,
  since nobody looks at the result of `ncclCommInitRank`; the others' reductions then wait for ever (`NcclRests`).
* `KeepsItsShare`: the share of the time is kept up to one half, and lost when a pause does not fit an `int`.
* `WritesFactors`, `DrawsTheMinute`: a number at the end of the text is lost and a numeral with a
  point comes out of order; the minute on the screen lags by what the rounds were late.
* `ListIsRight`: of any combination in the list, it has all machines that serve the load, the cheapest first.

The violated properties are disagreements between the code and what it says of itself:

* `ClusterHitsAreImages`: when an owner's download failed in epoch 0, its index entry stays `(0, 0)`;
  `clusterCacheHit` takes only a negative offset for "failed to retrieve from cluster cache"
  (`cache.hpp:313`), so other ranks get an image of no bytes and count a cluster hit.
* `HitsCountSources`: on a failed download `Get` returns before it assigns `*hit_type`, and
  `mpi_win.cpp:149` counts the type of the image before, or indexes with an uninitialised variable.
* `IndexAgreed`: `int(image_count*2*total_procs)` loses high bits, and the sum covers a part of the index.
* `NoRepetitions`: two ranks insert into the same empty slot, one object is lost, and its look-ups return
  too small a number. (While exploring the model it also turned out that a look-up that has found its object may
  increment the count of one that has just overwritten it, so that a number can be too large as well.)

* `PprintEnds`: `Tensor::pprint` reduces an index modulo its dimension before it takes the overflow from it (`tensor.cpp:60`), so the
  branch of the comment `// all done` is never taken. From the second round on the loop changes nothing but its output: the
  counterexample ends in stuttering, which is the loop going on.
* `EndsWithoutMpi`: `asgd.cpp:52` starts without MPI unless there is a third argument, and `net.cpp:24` and `:37` provide for it, but
  `InnerProduct::applyUpdates` calls `MPI_Comm_rank` all the same (`inner_product.cpp:88`), which ends the program.
* `AllCombinationsSearched`: the loop of `simple.py:252` runs over a `map` object that gives its rows once, so only the first
  combination of the outer loops is tried.

Not made into runs of their own: with `EagerGet = FALSE`, an MPI that completes `MPI_Get` only at the unlock,
`NoRepetitions` fails for a single rank too, because `localCount` is incremented before
(`distributedhash.c:167`); with window bounds checked (`RangeChecks`), the upper half of each rank's slots is out of range.

## 4. Fairness

* `DistributedCache`, `DistributedHashTable`, `Trainer`: weak fairness of each rank's `Step`. Each rank is one thread
  that never waits except in MPI; curl returns an error when a transfer fails; MPI completes a
  collective that all have entered and grants a free lock. A lock is never asked for while one is held, so weak
  fairness is enough in these instances. With `do_decode` a failed download ends the job, and `AllFinishUndecoded` is about the
  program without it; in the disjoint unions fairness is assumed while the part is followed.
* `FutexDemo`: weak fairness of each process's own steps. Signals and spurious returns are never owed,
  and `BothExit` assumes that no signal comes.
* `Tensor`: weak fairness of the loop of `pprint`, for `PprintEnds` only; no other process has a part in it.
* The other specifications are checked for safety only.

## 5. Proofs

All are proved for every value of the constants that satisfies the assumptions named in the modules
(`ConstantsAssumption`, `TrainerAssumption` and so on, which TLC evaluates in every run); a theorem that needs more says so. Each
inductive invariant below was a TLC invariant of a run before it was proved, but for the parts that speak of infinite sets.
Every invariant and every action property of the passing runs is stated by a theorem, but for `StepIsGradient`: its differences are
exact for functions of degree two only, and `ChainRule` says of any function what a step is.

| module | theorem | argument |
|---|---|---|
| `PlacementSweepProofs` | `TypeCorrect`, `BudgetRespected` | The budget is not inductive: how full a rank is depends on its number. The invariant `RoundsInv` says that after the first s slots have been dealt a rank has at most the number of slots below s that are congruent to it; the last slot is the product of processes and budget, so that number is at most the budget. |
| | `SlotsUsedUp` | `FilledInv` is the other direction: no slot below s of a rank was passed over, unless the rank has every image. With the bound above a rank holds exactly its budget in the end. |
| | `CopiesAreEven` | As many slots in a row as there are processes belong to different ranks, so that an image's copies are as many as its slots, or one per process; `Count` gives two images numbers of slots that differ by at most one. |
| `IOCacheProofs` (with `CacheBufferProofs`) | `TypeCorrect`, `FilesStayIntact`, `Implements` | `Intact` needs that a copy writes behind `current_offset` only and that the file being placed is not there yet and fits. The refinement uses `Intact` to know that a hit returns the file. |
| `DistributedCacheProofs` | `TypeCorrect`, `CachesStayIntact`, `IndexIsRight`, `NeverTheWrongBytes` | The strengthening adds, for each rank, that its own row of the index is true of its buffer, that the other rows are true or still zero, and that the sum is made of rows as they were entered, each once. A region once entered never changes because copies go behind it. From this every read yields the image or, from a zero entry, nothing. |
| | `SameCollective` | The number of calls a rank has entered is a function of its epoch, its image and its place (`CountedInv`), in which the reductions after every so many images are counted by a cardinality; on the places in a collective call the function is one-to-one. |
| | `IndicesAgree` | A rank that waits in the exchange has its rows in it (`SyncWaits`, `RowsEntered`), and one that has left it holds the sum of all rows (`IndexIsSum`). Assumes `CountFits`, that the `int` count loses no bits. |
| | `HitsAreImages` | After Sync every placed image has a true entry in its owner's row. Assumes `CountFits` and `FailureEndsJob`: no download fails, or the decode check ends the job of a rank whose download did. |
| | `DecodedHits` | The same with any downloads failing, of the program that decodes: the strengthening (`HitsInv`) says that a job that is still running has had no failure. Assumes `CountFits`. |
| | `ImplementsReaders` | The safety part of `ImplementsLockstepReaders`: each delivery is one step of a reader, all others are none. That a reader is at most one epoch's meeting ahead follows from the numbers of calls (`WaitInv`, `DoneInv`, `MeetingPassed`). Assumes `CountFits` and that no download fails. |
| | `HitsAreCounted` | The type that is counted is that of the image just given, if no download fails. |
| `DistributedHashTableProofs` | `TypeCorrect`, `OneSlotForEach`, `ChainsAreWhole` | Neither property is inductive alone: they are proved together with what a look-up knows. The slots it has passed are used, and by other objects (`VisitedInv`); when it has come to a free one its object is nowhere in the table (`NowhereInv`), since it would have passed it by `ProbeChain`; and nothing is stored behind the last hash value (`UsedInv`). A slot may be overwritten by another rank's object, never freed. |
| `FutexDemoProofs` | `TypeCorrect`, `TurnIsUnique`, `WakeupsArrive`, `Alternate` | The loop counters follow the lines (`CountersInv`), and whose turn it is follows from them (`TurnInv`); each step is a step of `Alternation` or none. |
| `TrainerProofs` | `TypeCorrect`, `LabelsStayWithImages`, `SameCollective` | From the forward pass until df of the loss the labels are exactly one stride behind the data, else the offsets are equal (`OffsetsInv`). With MPI the number of calls a process has entered is a function of its iteration, place and layer (`EnteredInv`), and that function is one-to-one on the collective calls. |
| | `DiffsAgree` | The reduction is in place, so a process that leaves it finds in each other process either the batch that one came with or already the full sum. `OthersAtReduce` derives that from the numbers of calls (`EnteredInv`, `WaitInv`); `DiffInv` says what the derivatives are at each place, `AloneInv` the same without MPI. |
| | `UsedEvenly` | All batches are laid out in one stream that repeats the training set: the offset of `Data` is the beginning of the process's next batch in it, modulo the size (`PlaceInv`), and an image has been used as often as it has places in the batches copied so far (`TakenInv`), which nobody has taken twice (`PlacesApart`). Equally many batches fill a beginning of the stream (`TakenIsPrefix`), in which each place of an image but the first has one of any other image a little before it (`PrefixIsEven`). |
| | `LabelsAreOfImages` | In every process the offset of the labels follows that of the images as in `OffsetsInv`, with the numbers in it (`SourcesInv`), until a test reduces it. |
| | `ElementsInOrder` | The remainders that `operator[]` takes of an offset are the digits of a number in mixed radix (`RadixesLoop`, `IndexesRight`), which makes indexes and offsets one to one. `TensorInv` is that what `pprint2` has printed is the memory. |
| | `PrintedInTurn` | `BenchmarkInv`: starts and ends alternate in each metric, a process is in the barrier of its number or has left it, and nobody is behind a barrier that the printing process has not entered (`BarrierInv`), so that the lines of a report are together. The statistics are loops over the durations. Assumes (`BenchmarkAssumption`) that the sums of durations have room in their integers. |
| | `ChainRule` | `GradientInv`: on the way from the forward pass to the update the outputs in the layers are those of the present weights on the batch at `source` (`OutputsInv`), the derivatives of processes that are `Together` are df of these (`DiffsInv`): an average of the same is the same, also when divided as whole numbers are. Then a step is the derivative by the chain rule. Of the function and its derivative only that they yield numbers is assumed (`WholeFn`), so that it holds of any activation. |
| `ExperimentProofs` | `ReducedByAllOrNone` | `NcclInv`: a process without a stream takes no part in the broadcast, the identifier is rank 0's or nobody's, a communicator means that all have a stream, nobody is behind a barrier that one has not entered, and nobody leaves a stream that holds a reduction before all have enqueued theirs. |
| | `NumbersAreBounded` | `RngInv`: every thread but one may have passed the test when the counter reaches its limit, so that the counter and the threads on their way are bounded together. While nobody has used memory that another had in hand, what a `push_back` is going to make the size is bounded by what has been counted and is on its way; a thread alone never does and loses none. |
| | `ShareIsKept`, `LinesStayWhole` | `WorkerInv`: what is owed in a cycle is the work that goes with the sleep and the time kept, and the share is held before it. `LineInv`: what the stream holds past the last line is what the owner of the lock has written. |
| | `EveryRequestOnce`, `QuantilesAreRight` | `HttpInv`: where a request is follows from main's place and the round in which it ended, and it is there once. The index of a quantile is compared with the number of durations up to it (`Orders`). |
| | `ListedRight` | `SearchInv`: the iterator gives every row to one combination, so that the selections are the machines of that one which fit, each once; sorting keeps them (`Orders`). |
| | `MinuteIsDrawn` | `FbInv`: the clock is ahead of the time that is drawn by the rounds and delays since. That every word drawn is in the mapping is arithmetic with the remainders of 32 bits. Assumes that the size of the mapping has room in them (`ScreensAssumption`). |
| | `FactorsWritten` | `FilterInv`: the output is what the characters so far call for, and the stringstream holds the numeral before the position without its fraction; the sieve finds the primes and the factors multiply to the number, for any limit. |

`DistributedCacheProofs` covers failing downloads, any placement, any number of ranks, images and epochs
and any conversion of the count that leaves it non-negative. The assumptions `CountFits` and on failing downloads
are the ones without which the violated runs of the cache refute the properties. The type invariants
are proved and not given to TLC again.

Loops over data (sums, minima, sieves, factors, digits) are recursive functions on a range of numbers. That such
a function exists and what it returns is proved by a smallest counterexample: `SmallestOf`, `UpwardTo` and `LoopExists` state that for sets of
numbers, where the induction theorems of the library would need an operator for a parameter.

Only model-checked: liveness (`AllFinishUndecoded`, `BothExit`, `AllDone`, `TrainingEnds` and the liveness part of
`ImplementsLockstepReaders`), which the prover cannot do. The seven violated properties are TLC's as well; the theorems about
the two of the cache's index name the assumption that the run drops, `HitsAreCounted` the one about downloads, and the others have none.

## 6. Not modelled

* `disable_cache`: no caller sets it. `cache_test.cpp`: it calls an interface the class no longer has.
* `CrossEntropy` (never constructed), the reading of the MNIST files, the element-wise operators of `Tensor` that no layer calls, `endian.h`.
* `sgd.cpp` and `mmpl_main.cu`, whose loops are measurements, and the wording of `check.h`.
* `sgd_comm.cpp`: starts MPI and prints. `prime.cpp` prints the primes of the sieve that `NumberFilter` has.
* Of the Go benchmark the bytes and rates in a report, the servers, and `http.cpp`: arithmetic on one copy of the
  points, and input and output.
* Of `eat-cpu.cpp` the share of 1, a loop without a pause, and its unlocked reads of counters that are only printed.
* `thread-sanitizer.cpp`, `unexpected_write.cpp`, `use-after-free.cpp`: one wrong access each, there to be reported by a tool.
* `timer.cpp`, `test.cpp` of `cxx11`: one system call each. The reading of a font by `fb.cpp`: a file format.
* `ecs.js` and its table of machines, the input of the price search.
* The buffer of `nccl-ompi/main.cpp:36`: `alloc(size)` is given a number of floats where it takes bytes, so that it is a quarter
  of what is sent. Sizes of device memory are no part of `NcclAllReduce`.
* Micro-benchmarks, drawings, and demonstrations of the language, the linker and the compiler: they keep no state.

## 7. Plan and status

1. (done) placement, local cache, distributed cache, futex demo, hash table, trainer.
2. (done) the trainer's numbers, tensors and benchmark, and the seven smaller programs.
3. (done) failing downloads with and without the decode check; refinement of `LockstepReaders`, `ReadThroughCache` and `Alternation`.
4. (done) every safety property of the passing runs but `StepIsGradient` as a theorem.
5. (open) that a waiting process is waited for by none (no deadlock), as an invariant with the guards written out, and that every
   step of a process makes a measure smaller: what can be proved of the liveness properties.
6. (open) what remains true when two ranks of the hash table insert at once.
