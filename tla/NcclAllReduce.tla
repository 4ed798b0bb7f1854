---------------------------- MODULE NcclAllReduce ----------------------------
(* nccl-ompi/main.cpp and allreduce.cu: MPI processes that agree on an NCCL       *)
(* identifier, make a communicator with it and add up one buffer.  The creation   *)
(* of a process's stream may fail; ncclInit then returns before the broadcast and  *)
(* the process goes on without stream and communicator.  What cudaSetDevice and     *)
(* ncclCommInitRank return is not looked at: without a device of its own a process   *)
(* stays on the first one, and where NCCL refuses it, as it does when two ranks are   *)
(* on one device, it goes on without a communicator.                            *)
(*                                                                           *)
(* MPI and NCCL are external: the root of MPI_Bcast need not wait for the others,  *)
(* ncclCommInitRank makes a communicator when as many ranks as it is told have called *)
(* it with one identifier and may fail at any time, and a stream is done with the     *)
(* reduction when all ranks are.                                               *)
EXTENDS Integers

CONSTANTS WorldSizes    \* the sizes of MPI_COMM_WORLD

ASSUME NcclAssumption == WorldSizes \subseteq Nat \ {0}

VARIABLES
    procSize,       \* proc_size
    streams,        \* the processes that can create a stream
    at,             \* per process, its next call
    commId,         \* per process, comm_id: whose identifier it has
    comm,           \* per process, the identifier of its communicator, or -1
    buf,            \* per process, whether alloc has given it memory
    enqueued        \* the processes whose reduction is in their stream

ncclVars == <<procSize, streams, at, commId, comm, buf, enqueued>>

NcclRanks == 0 .. (procSize - 1)

NcclInit ==
    /\ procSize \in WorldSizes
    /\ streams \in SUBSET NcclRanks
    /\ at = [r \in NcclRanks |-> "stream"]
    /\ commId = [r \in NcclRanks |-> -1]
    /\ comm = [r \in NcclRanks |-> -1]
    /\ buf = [r \in NcclRanks |-> FALSE]
    /\ enqueued = {}

NextCall(r, place) == at' = [at EXCEPT ![r] = place]

-----------------------------------------------------------------------------

\* cudaStreamCreateWithPriority, and ncclGetUniqueId of every process.
CreateStream(r) ==
    /\ at[r] = "stream"
    /\ IF r \in streams
       THEN NextCall(r, "bcast") /\ commId' = [commId EXCEPT ![r] = r]
       ELSE NextCall(r, "alloc") /\ UNCHANGED commId
    /\ UNCHANGED <<procSize, streams, comm, buf, enqueued>>

\* A process receives what the root sends in its own MPI_Bcast.
Bcast(r) ==
    /\ at[r] = "bcast"
    /\ r = 0 \/ (0 \in streams /\ at[0] \notin {"stream", "bcast"})
    /\ commId' = [commId EXCEPT ![r] = commId[0]]
    /\ NextCall(r, "commInit")
    /\ UNCHANGED <<procSize, streams, comm, buf, enqueued>>

\* A process that is not given a communicator, at once or after it has waited for
\* the others, goes on like one that is.
CommInit(r) ==
    /\ at[r] = "commInit"
    /\ \/ /\ \A s \in NcclRanks : /\ s \in streams /\ at[s] \notin {"stream", "bcast"}
                                 /\ commId[s] = commId[r]
          /\ comm' = [comm EXCEPT ![r] = commId[r]]
       \/ UNCHANGED comm
    /\ NextCall(r, "alloc")
    /\ UNCHANGED <<procSize, streams, commId, buf, enqueued>>

\* A failure is printed and gives a null pointer, which main does not look at.
Alloc(r) ==
    /\ at[r] = "alloc"
    /\ \E success \in BOOLEAN : buf' = [buf EXCEPT ![r] = success]
    /\ NextCall(r, "barrier")
    /\ UNCHANGED <<procSize, streams, commId, comm, enqueued>>

\* Mutant: no process waits.
NoBarrier(r) ==
    /\ at[r] = "barrier"
    /\ NextCall(r, "allReduce")
    /\ UNCHANGED <<procSize, streams, commId, comm, buf, enqueued>>

LeaveBarrier(r) ==
    /\ at[r] = "barrier"
    /\ \A s \in NcclRanks : at[s] \notin {"stream", "bcast", "commInit", "alloc"}
    /\ NextCall(r, "allReduce")
    /\ UNCHANGED <<procSize, streams, commId, comm, buf, enqueued>>

\* ncclAllReduce puts the reduction into the stream; an error is printed.  What it
\* makes of a communicator that was never written is undefined: an error, or the
\* end of the process; of one that was refused it is an error.
AllReduce(r) ==
    /\ at[r] = "allReduce"
    /\ IF comm[r] # -1
       THEN /\ enqueued' = IF buf[r] THEN enqueued \cup {r} ELSE enqueued
            /\ NextCall(r, "sync")
       ELSE /\ UNCHANGED enqueued
            /\ NextCall(r, "sync") \/ NextCall(r, "crashed")
    /\ UNCHANGED <<procSize, streams, commId, comm, buf>>

\* cudaStreamSynchronize waits for the reduction, if the stream has one.
Sync(r) ==
    /\ at[r] = "sync"
    /\ r \in enqueued => enqueued = NcclRanks
    /\ NextCall(r, "finalize")
    /\ UNCHANGED <<procSize, streams, commId, comm, buf, enqueued>>

LeaveFinalize(r) ==
    /\ at[r] = "finalize" /\ \A s \in NcclRanks : at[s] \in {"finalize", "done"}
    /\ NextCall(r, "done")
    /\ UNCHANGED <<procSize, streams, commId, comm, buf, enqueued>>

NcclStep(r) ==
    \/ CreateStream(r) \/ Bcast(r) \/ CommInit(r) \/ Alloc(r) \/ LeaveBarrier(r)
    \/ AllReduce(r) \/ Sync(r) \/ LeaveFinalize(r)

\* The states in which the job rests: it has come to its end, or a part of it waits
\* for rank 0, which failed to create its stream, for the reductions of processes
\* that got no communicator or no memory, or for those that have crashed.
NcclRests ==
    \/ \A r \in NcclRanks : at[r] = "done"
    \/ /\ 0 \notin streams /\ streams # {}
       /\ \A r \in NcclRanks : at[r] = IF r \in streams THEN "bcast" ELSE "barrier"
    \/ /\ \A r \in NcclRanks : at[r] \in IF r \in enqueued THEN {"sync"} ELSE {"finalize", "crashed"}
       /\ \E r \in NcclRanks : at[r] # "finalize"
       /\ enqueued # NcclRanks

NcclOver == NcclRests /\ UNCHANGED ncclVars

NcclNext == (\E r \in NcclRanks : NcclStep(r)) \/ NcclOver

NcclSpec == NcclInit /\ [][NcclNext]_ncclVars

-----------------------------------------------------------------------------

\* Whoever fails, and wherever: behind the barrier either no process has a stream,
\* or rank 0 has one and all that do have its identifier; a single communicator
\* means that all processes have a stream and that all communicators are of one
\* identifier; and when the job ends normally the reduction was made by all, each
\* with a communicator and memory, or by none.
AllOrNoneReduced ==
    \A r \in NcclRanks :
        /\ at[r] \in {"allReduce", "sync", "finalize", "done", "crashed"} /\ streams # {} =>
              0 \in streams /\ \A s \in streams : commId[s] = 0
        /\ comm[r] # -1 =>
              streams = NcclRanks /\ \A s \in NcclRanks : commId[s] = 0 /\ comm[s] \in {-1, 0}
        /\ at[r] = "done" /\ enqueued # {} =>
              \A s \in NcclRanks : s \in enqueued /\ comm[s] = 0 /\ buf[s]
=============================================================================
