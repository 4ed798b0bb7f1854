-------------------------- MODULE DistributionHash --------------------------
(* DefaultDistributionHash (sgd-comm/cache.hpp): which ranks keep a copy of *)
(* which image.  The slots of all processes, TotalCached of them, are dealt  *)
(* to the images in order: the first MoreReplicated images get one slot more *)
(* than the others, and slot number s belongs to rank s % Processes.         *)
(*                                                                           *)
(* A configuration is what mpi_win's main passes to the function: the number *)
(* of MPI processes and of nodes, the images each process may cache, and the *)
(* number of images in the list.  The code divides in double precision and   *)
(* takes the floor, which is \div while the products stay below 2^53.        *)
EXTENDS Integers

Config == [nprocs : Nat \ {0}, nodes : Nat \ {0}, cached : Nat, total : Nat]

Processes(c) == (c.nprocs \div c.nodes) * c.nodes

TotalCached(c) == Processes(c) * c.cached

MoreReplicated(c) == TotalCached(c) % c.total

ReplicationCount(c) == TotalCached(c) \div c.total

\* Mutants (not part of the model): the larger images' slots are counted
\* without the extra one, one image too many gets the extra slot, and the last
\* image takes the whole remainder.
StartWithoutExtra(c, image) ==
    IF image >= MoreReplicated(c)
    THEN MoreReplicated(c) * (ReplicationCount(c) + 1)
           + (image - MoreReplicated(c)) * ReplicationCount(c)
    ELSE image * ReplicationCount(c)

CountOffByOne(c, image) ==
    IF image > MoreReplicated(c) THEN ReplicationCount(c) ELSE ReplicationCount(c) + 1

CountRestToLast(c, image) ==
    IF image = c.total - 1 THEN ReplicationCount(c) + MoreReplicated(c) ELSE ReplicationCount(c)

\* The slots dealt to an image: its first one, and how many there are.
Start(c, image) ==
    IF image >= MoreReplicated(c)
    THEN MoreReplicated(c) * (ReplicationCount(c) + 1)
           + (image - MoreReplicated(c)) * ReplicationCount(c)
    ELSE image * (ReplicationCount(c) + 1)

Count(c, image) ==
    IF image >= MoreReplicated(c) THEN ReplicationCount(c) ELSE ReplicationCount(c) + 1

Slots(c, image) == Start(c, image) .. (Start(c, image) + Count(c, image) - 1)

TargetRanks(c, image) ==
    IF c.total = 0 \/ image >= TotalCached(c)
    THEN {}
    ELSE { slot % Processes(c) : slot \in Slots(c, image) }
=============================================================================
