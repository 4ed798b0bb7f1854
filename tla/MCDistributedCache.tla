------------------------- MODULE MCDistributedCache -------------------------
(* A list of four images, the last of which has the file of the first, and   *)
(* three ranks.  DefaultDistributionHash gives image 0 to ranks 0 and 1,     *)
(* image 1 to ranks 0 and 2, image 2 to rank 1 and image 3 to rank 2.  The   *)
(* buffer has two bytes: rank 0 has no room left for image 1, nor rank 2 for *)
(* image 3, and rank 1 holds all of its images.                              *)
EXTENDS DistributedCache

CONSTANTS small, other, large

Placement == INSTANCE DistributionHash

\* The table of sgd-comm/test_hash.cpp: per row, the image, the processes per
\* node, the nodes, the images per process and in all, and the ranks expected.
TestTable ==
    { <<90, 8, 1, 2, 100, {}>>,
      <<0, 2, 1, 2, 4, {0}>>, <<1, 2, 1, 2, 4, {1}>>,
      <<2, 2, 1, 2, 4, {0}>>, <<3, 2, 1, 2, 4, {1}>>,
      <<0, 3, 1, 4, 6, {0, 1}>>, <<1, 3, 1, 4, 6, {2, 0}>>, <<2, 3, 1, 4, 6, {1, 2}>>,
      <<3, 3, 1, 4, 6, {0, 1}>>, <<4, 3, 1, 4, 6, {2, 0}>>, <<5, 3, 1, 4, 6, {1, 2}>>,
      <<0, 3, 1, 3, 4, {0, 1, 2}>>, <<1, 3, 1, 3, 4, {0, 1}>>,
      <<2, 3, 1, 3, 4, {2, 0}>>, <<3, 3, 1, 3, 4, {1, 2}>>,
      <<0, 5, 1, 2, 4, {0, 1, 2}>>, <<1, 5, 1, 2, 4, {3, 4, 0}>>,
      <<2, 5, 1, 2, 4, {1, 2}>>, <<3, 5, 1, 2, 4, {3, 4}>> }

ASSUME TestHash ==
    \A row \in TestTable :
        LET c == [nprocs |-> row[2] * row[3], nodes |-> row[3],
                  cached |-> row[4], total |-> row[5]]
        IN  Placement!TargetRanks(c, row[1]) = row[6]

MCConfig == [nprocs |-> NProcs, nodes |-> 1, cached |-> 2, total |-> ImageCount]

MCTargets == [i \in Images |-> Placement!TargetRanks(MCConfig, i)]

MCFiles == {small, other, large}

MCSizeOf == [f \in MCFiles |-> IF f = large THEN 2 ELSE 1]

MCFileOf == [i \in Images |-> CASE i = 1 -> large [] i = 2 -> other [] OTHER -> small]
=============================================================================
