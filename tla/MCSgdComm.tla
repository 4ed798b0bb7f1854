------------------------------ MODULE MCSgdComm ------------------------------
(* Parts of sgd-comm that run without the rest: the placement of the images, the   *)
(* cache of one process and the distributed hash table.  An execution follows one  *)
(* of them; the others stay where they start, with one input.                       *)
EXTENDS PlacementSweep, IOCache, MCDistributedHashTable

VARIABLE part           \* the one that is followed

MCConfigs == [nprocs : 1 .. 5, nodes : 1 .. 3, cached : 0 .. 5, total : 0 .. 7]

\* An empty file, a file that fills the buffer but for one byte, and two that
\* fit together: whether a file still fits depends on the order of the calls.
CONSTANTS empty, small, medium, large

MCFiles == {empty, small, medium, large}

MCSizeOf == [f \in MCFiles |->
                CASE f = empty -> 0 [] f = small -> 1 [] f = medium -> 2 [] f = large -> 3]

\* The hash table while another part is followed: MPI has refused the first access
\* of rank 0, to the last slot of its window, and ended the job.
JobRefused ==
    /\ hash = [o \in AllObjects |-> Nobj - 1]
    /\ rangeChecked = TRUE
    /\ hashtab = [s \in TableSlots |-> Empty] /\ hashcount = [s \in TableSlots |-> 0]
    /\ pc = [r \in Ranks |-> IF r = 0 THEN "aborted" ELSE "get"]
    /\ round = [r \in Ranks |-> 1]
    /\ nth = [r \in Ranks |-> 0] /\ repeats = nth
    /\ v = [r \in Ranks |-> Nobj - 1]

MCInit ==
    /\ part \in {"placement", "cache", "table"}
    /\ part # "placement" => config = [nprocs |-> 1, nodes |-> 1, cached |-> 0, total |-> 0]
    /\ SweepInit
    /\ part # "cache" => rr_counter = 0
    /\ IOCacheInit
    /\ IF part = "table" THEN Init ELSE JobRefused

MCNext ==
    /\ UNCHANGED part
    /\ \/ part = "placement" /\ SweepNext
       \/ part # "placement" /\ UNCHANGED sweepVars
    /\ \/ part = "cache" /\ IOCacheNext
       \/ part # "cache" /\ UNCHANGED ioVars
    /\ \/ part = "table" /\ Next
       \/ part # "table" /\ UNCHANGED vars

MCVars == <<part, sweepVars, ioVars, vars>>

\* Every rank of the hash table keeps running and MPI grants a lock that is free.
MCSpec == MCInit /\ [][MCNext]_MCVars /\ \A r \in Ranks : WF_vars(part = "table" /\ Step(r))
=============================================================================
