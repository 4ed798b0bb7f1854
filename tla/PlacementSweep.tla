--------------------------- MODULE PlacementSweep ---------------------------
(* One epoch of mpi_win's epoch_loop seen from the placement alone: the      *)
(* images are visited in order and each rank that TargetRanks names for an   *)
(* image keeps a copy of it (DistributedCache::Get, the branch of the local  *)
(* cache).  load[r] is the number of images rank r has been given so far.    *)
EXTENDS DistributionHash, FiniteSets

CONSTANT Configs    \* the configurations the program may be started with

ASSUME ConfigsAssumption == Configs \subseteq Config

VARIABLES
    config,         \* the configuration of this execution
    image,          \* the next image of the sweep
    load            \* per rank, the images it holds

sweepVars == <<config, image, load>>

SweepRanks == 0 .. (config.nprocs - 1)

SweepTypeOK ==
    /\ config \in Configs
    /\ image \in 0 .. config.total
    /\ load \in [SweepRanks -> Nat]

SweepInit ==
    /\ config \in Configs
    /\ image = 0
    /\ load = [r \in 0 .. (config.nprocs - 1) |-> 0]

VisitImage ==
    /\ image < config.total
    /\ load' = [r \in SweepRanks |->
                  IF r \in TargetRanks(config, image) THEN load[r] + 1 ELSE load[r]]
    /\ image' = image + 1
    /\ UNCHANGED config

EndOfSweep ==
    /\ image = config.total
    /\ UNCHANGED sweepVars

SweepNext == VisitImage \/ EndOfSweep

SweepSpec == SweepInit /\ [][SweepNext]_sweepVars

-----------------------------------------------------------------------------

\* No rank is ever asked to keep more images than the images_per_proc the
\* user gave on the command line (argument cached_images_per_process).
LoadWithinBudget == \A r \in SweepRanks : load[r] <= config.cached

\* When the sweep ends the slots are used to the last one: every process that
\* takes part holds exactly its budget, or every image if there are fewer.
\* (Ranks beyond nodes * processes-per-node hold nothing.)
Least(a, b) == IF a <= b THEN a ELSE b

FullAtTheEnd ==
    image = config.total =>
        \A r \in SweepRanks :
            load[r] = IF r < Processes(config) THEN Least(config.cached, config.total) ELSE 0

\* Replication is even: no image has two copies more than another one, and an
\* image is left without a copy only if no image has two.
EvenReplication ==
    \A i, j \in 0 .. (image - 1) :
        Cardinality(TargetRanks(config, i)) <= Cardinality(TargetRanks(config, j)) + 1
=============================================================================
