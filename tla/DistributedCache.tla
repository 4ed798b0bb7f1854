--------------------------- MODULE DistributedCache ---------------------------
(* DistributedCache (sgd-comm/cache.hpp) as mpi_win.cpp drives it.  Every MPI *)
(* rank reads the whole image list once per epoch.  In epoch 0 the ranks that *)
(* the placement names for an image put it in their own cache and enter its   *)
(* place in their row of global_index_; Sync then sums the rows of all ranks *)
(* and exposes the buffers for one-sided reads; in the later epochs a rank    *)
(* without a copy of its own reads the buffer of one that should have it.     *)
(* disable_cache is not modelled: no caller sets it.                          *)
EXTENDS CacheBuffer, FiniteSets

CONSTANTS
    NProcs,         \* the size of MPI_COMM_WORLD
    ImageCount,     \* the length of the image list
    FileOf,         \* the image list: the file name of each image
    Targets,    \* f: per image, the ranks that cache it
    Epochs,         \* total_epochs; the program runs epochs 0 .. Epochs - 1
    PrintSize,      \* print_size: how often the ranks compare their rates
    DecodeChoices,  \* the values of the argument do_decode that are considered
    YieldChoices,   \* what should_yield_cluster_cache may return
    FetchMayFail,   \* whether a download may fail
    CountModulus,   \* 2^w where an int has w bits
    NoRank          \* stands for the absence of a rank

Ranks == 0 .. (NProcs - 1)

Images == 0 .. (ImageCount - 1)

\* Mutant: MPI_Allreduce is given the number of entries, not of elements.
CountOfEntries == ImageCount * NProcs

\* int(image_count*2*total_procs): the conversion keeps the low w bits.
AllreduceCount ==
    LET low == (ImageCount * 2 * NProcs) % CountModulus
    IN  IF low < CountModulus \div 2 THEN low ELSE low - CountModulus

ASSUME ConstantsAssumption ==
    /\ NProcs \in Nat \ {0} /\ ImageCount \in Nat \ {0} /\ PrintSize \in Nat \ {0}
    /\ Epochs \in Nat \ {0}
    /\ FileOf \in [Images -> Files]
    /\ Targets \in [Images -> SUBSET Ranks]
    /\ YieldChoices \in (SUBSET BOOLEAN) \ {{}}
    /\ DecodeChoices \subseteq BOOLEAN /\ FetchMayFail \in BOOLEAN
    /\ CountModulus \in Nat \ {0}
    /\ AllreduceCount >= 0      \* MPI rejects a negative count
    /\ NoRank \notin Ranks

HitTypes == {"Local", "Cluster", "Miss"}

\* The value of an enum variable nobody has assigned: an out-of-range index.
Unset == "unset"

VARIABLES
    do_decode,      \* main's argument: abort on an image that does not decode
    pc,             \* per rank, where it is
    epoch,          \* per rank, the epoch it is in
    image,          \* per rank, the image it is at (image_id)
    cache,          \* per rank, its IOCache (see CacheBuffer)
    index,          \* per rank, its global_index_: index[r][t][i] = offset and size
    entered,        \* per rank, the number of collective calls it has entered
    sum,            \* the sum of the rows that entered MPI_Allreduce in Sync
    holder,         \* per target, the rank that holds the exclusive lock of its window
    hitType,        \* per rank, main's variable hit_type
    hits,           \* per rank, main's counters hits[hit_type]
    answer          \* per rank, what its last Get returned, and from where

vars == <<do_decode, pc, epoch, image, cache, index, entered, sum, holder, hitType, hits, answer>>

\* Where a rank may be: inside Get, or blocked in a collective call.
Collectives == {"iops", "throughput", "epochIops", "sync", "winCreate", "fence"}

Locations == {"get", "copy", "lock", "read", "done", "aborted"} \cup Collectives

IndexEntry == [off : Nat \cup {-1}, size : Nat]

Index == [Ranks -> [Images -> IndexEntry]]

NoEntry == [off |-> 0, size |-> 0]      \* what calloc leaves in the index

NoAnswer == [image |-> 0, from |-> "nowhere", ok |-> FALSE, data |-> <<>>]

File(r) == FileOf[image[r]]

OwnImage(r) == r \in Targets[image[r]]

\* *target_ranks.begin(): a std::set is sorted.
Chosen(i) == CHOOSE t \in Targets[i] : \A u \in Targets[i] : t <= u

\* Mutant: a rank looks in its own row of the index.
EntryOfOwnRow(r) == index[r][r][image[r]]

EntryOfTarget(r) == index[r][Chosen(image[r])][image[r]]

InitialIndex == [t \in Ranks |-> [i \in Images |-> NoEntry]]

Init ==
    /\ do_decode \in DecodeChoices
    /\ pc = [r \in Ranks |-> "get"]
    /\ epoch = [r \in Ranks |-> 0]
    /\ image = [r \in Ranks |-> 0]
    /\ cache = [r \in Ranks |-> EmptyCache]
    /\ index = [r \in Ranks |-> InitialIndex]
    /\ entered = [r \in Ranks |-> 0]
    /\ sum = InitialIndex
    /\ holder = [t \in Ranks |-> NoRank]
    /\ hitType = [r \in Ranks |-> Unset]
    /\ hits = [r \in Ranks |-> [h \in HitTypes \cup {Unset} |-> 0]]
    /\ answer = [r \in Ranks |-> NoAnswer]

-----------------------------------------------------------------------------
(* What happens after Get: main counts the hit, decodes the image, and goes   *)
(* on to the next image, through a comparison of rates every PrintSize images *)
(* and another one at the end of the epoch.                                   *)

\* Mutant: the rates are compared before the image that should have been
\* waited for.
AtPrintShifted(i) == (i + 1) % PrintSize = 0

AtPrint(i) == i % PrintSize = 0

LastImage(i) == i = ImageCount - 1

\* Sync's Allreduce takes the row of a rank when the rank enters it.
AddRows(a, b) ==
    [t \in Ranks |-> [i \in Images |->
        [off |-> a[t][i].off + b[t][i].off, size |-> a[t][i].size + b[t][i].size]]]

EnterCollective(r, call) ==
    /\ pc' = [pc EXCEPT ![r] = call]
    /\ entered' = [entered EXCEPT ![r] = @ + 1]

\* The end of the body of epoch_loop's for statement, after the comparison.
NextImage(r) ==
    IF LastImage(image[r])
    THEN EnterCollective(r, "epochIops") /\ UNCHANGED image
    ELSE /\ pc' = [pc EXCEPT ![r] = "get"]
         /\ image' = [image EXCEPT ![r] = @ + 1]
         /\ UNCHANGED entered

\* Mutant: the image that does not decode is left out.
AbortIgnored(r) == NextImage(r)

\* use_data: assert(img.data) raises SIGABRT, and mpirun ends the other processes with
\* the one that is aborted.  A build with NDEBUG has no such check: for it, as for a
\* process that does not decode, do_decode is FALSE.
Abort(r) ==
    /\ pc' = [pc EXCEPT ![r] = "aborted"]
    /\ UNCHANGED <<image, entered>>

\* Mutant: an image that could not be read is skipped, and with it the
\* comparison of rates that was due.
ReturnSkipping(r, from, ok, data, type) ==
    /\ answer' = [answer EXCEPT ![r] = [image |-> image[r], from |-> from, ok |-> ok, data |-> data]]
    /\ IF epoch[r] = 0
       THEN UNCHANGED <<hitType, hits>>
       ELSE LET counted == IF type = Unset THEN hitType[r] ELSE type
            IN  /\ hitType' = [hitType EXCEPT ![r] = counted]
                /\ hits' = [hits EXCEPT ![r][counted] = @ + 1]
    /\ IF do_decode /\ data # Content(File(r))
       THEN Abort(r)
       ELSE IF AtPrint(image[r]) /\ ok
            THEN EnterCollective(r, "iops") /\ UNCHANGED image
            ELSE NextImage(r)
    /\ UNCHANGED epoch

\* Get returns ok and data; from says where the data came from, and type what
\* Get stored in *hit_type ("unset" if it left the variable alone).  Epoch 0
\* passes a variable of its own and counts nothing.
Return(r, from, ok, data, type) ==
    /\ answer' = [answer EXCEPT ![r] = [image |-> image[r], from |-> from, ok |-> ok, data |-> data]]
    /\ IF epoch[r] = 0
       THEN UNCHANGED <<hitType, hits>>
       ELSE LET counted == IF type = Unset THEN hitType[r] ELSE type
            IN  /\ hitType' = [hitType EXCEPT ![r] = counted]
                /\ hits' = [hits EXCEPT ![r][counted] = @ + 1]
    /\ IF do_decode /\ data # Content(File(r))
       THEN Abort(r)
       ELSE IF AtPrint(image[r])
            THEN EnterCollective(r, "iops") /\ UNCHANGED image
            ELSE NextImage(r)
    /\ UNCHANGED epoch

ReturnFile(r, from) == Return(r, from, TRUE, Content(File(r)), from)

-----------------------------------------------------------------------------
(* DistributedCache::Get, the branch of a rank that caches the image itself.  *)

InGet(r) == pc[r] = "get"

\* Mutant: the offset entered is the one behind the image.
FillIndexBehind(r, off, size) ==
    index' = IF epoch[r] = 0
             THEN [index EXCEPT ![r][r][image[r]] = [off |-> off + size, size |-> size]]
             ELSE index

\* fill_global_index is set in epoch 0 only.
FillIndex(r, off, size) ==
    index' = IF epoch[r] = 0
             THEN [index EXCEPT ![r][r][image[r]] = [off |-> off, size |-> size]]
             ELSE index

GetLocalHit(r) ==
    LET place == cache[r].hash_data[File(r)]
    IN  /\ InGet(r)
        /\ OwnImage(r)
        /\ Exists(cache[r], File(r))
        /\ FillIndex(r, place.off, place.size)
        /\ Return(r, "Local", TRUE, ReadFile(cache[r], File(r)), "Local")
        /\ UNCHANGED <<cache, sum, holder>>

\* GetOrRetrieve reports !ok: Get returns before it sets *hit_type.
GetLocalFetchFails(r) ==
    /\ InGet(r)
    /\ OwnImage(r)
    /\ ~Exists(cache[r], File(r))
    /\ FetchMayFail
    /\ Return(r, "nowhere", FALSE, <<>>, Unset)
    /\ UNCHANGED <<cache, index, sum, holder>>

\* The cache is full: GetOrRetrieve returns -1, which is entered as offset.
GetLocalNoRoom(r) ==
    /\ InGet(r)
    /\ OwnImage(r)
    /\ ~Exists(cache[r], File(r))
    /\ ~Fits(cache[r], File(r))
    /\ FillIndex(r, -1, SizeOf[File(r)])
    /\ ReturnFile(r, "Miss")
    /\ UNCHANGED <<cache, sum, holder>>

GetLocalBeginPlacing(r) ==
    /\ InGet(r)
    /\ OwnImage(r)
    /\ ~Exists(cache[r], File(r))
    /\ Fits(cache[r], File(r))
    /\ cache' = [cache EXCEPT ![r] = BeginCopy(@, File(r))]
    /\ pc' = [pc EXCEPT ![r] = "copy"]
    /\ UNCHANGED <<epoch, image, index, entered, sum, holder, hitType, hits, answer>>

GetLocalFinishPlacing(r) ==
    /\ pc[r] = "copy"
    /\ cache' = [cache EXCEPT ![r] = FinishCopy(@, File(r))]
    /\ FillIndex(r, cache[r].current_offset, SizeOf[File(r)])
    /\ ReturnFile(r, "Miss")
    /\ UNCHANGED <<sum, holder>>

-----------------------------------------------------------------------------
(* Get, the other branches: cacheMiss asks the local cache all the same, with *)
(* cache_placement = false, so an image whose file another image of the list  *)
(* shares may be found there.  Main counts it as a miss.                      *)

\* Mutant: cacheMiss does not set *hit_type.
CacheMissUncounted(r) ==
    \/ Exists(cache[r], File(r))
         /\ Return(r, "Miss", TRUE, ReadFile(cache[r], File(r)), Unset)
    \/ ~Exists(cache[r], File(r)) /\ Return(r, "Miss", TRUE, Content(File(r)), Unset)
    \/ ~Exists(cache[r], File(r)) /\ FetchMayFail /\ Return(r, "Miss", FALSE, <<>>, Unset)

CacheMiss(r) ==
    \/ Exists(cache[r], File(r))
         /\ Return(r, "Miss", TRUE, ReadFile(cache[r], File(r)), "Miss")
    \/ ~Exists(cache[r], File(r)) /\ ReturnFile(r, "Miss")
    \/ ~Exists(cache[r], File(r)) /\ FetchMayFail /\ Return(r, "Miss", FALSE, <<>>, "Miss")

UsesCluster(r) == epoch[r] > 0

\* No rank caches the image, the epoch does not use the cluster cache, or
\* should_yield_cluster_cache decides for the file server.
GetDirectly(r) ==
    /\ InGet(r)
    /\ ~OwnImage(r)
    /\ Targets[image[r]] = {} \/ ~UsesCluster(r) \/ TRUE \in YieldChoices
    /\ CacheMiss(r)
    /\ UNCHANGED <<cache, index, sum, holder>>

AsksCluster(r) ==
    /\ InGet(r)
    /\ ~OwnImage(r)
    /\ Targets[image[r]] # {}
    /\ UsesCluster(r)
    /\ FALSE \in YieldChoices

\* A negative offset in the index: the target had no room for the image.
GetClusterFull(r) ==
    /\ AsksCluster(r)
    /\ EntryOfTarget(r).off < 0
    /\ CacheMiss(r)
    /\ UNCHANGED <<cache, index, sum, holder>>

GetClusterBegin(r) ==
    /\ AsksCluster(r)
    /\ EntryOfTarget(r).off >= 0
    /\ pc' = [pc EXCEPT ![r] = "lock"]
    /\ UNCHANGED <<epoch, image, cache, index, entered, sum, holder, hitType, hits, answer>>

\* MPI_Win_lock(MPI_LOCK_EXCLUSIVE, target_rank)
WinLock(r) ==
    LET t == Chosen(image[r])
    IN  /\ pc[r] = "lock"
        /\ holder[t] = NoRank
        /\ holder' = [holder EXCEPT ![t] = r]
        /\ pc' = [pc EXCEPT ![r] = "read"]
        /\ UNCHANGED <<epoch, image, cache, index, entered, sum, hitType, hits, answer>>

\* Mutant: a rank repeats the read until it gets some bytes.
GetClusterReadRetrying(r) ==
    LET t == Chosen(image[r])
        place == EntryOfTarget(r)
    IN  /\ pc[r] = "read"
        /\ holder' = [holder EXCEPT ![t] = NoRank]
        /\ IF place.size = 0
           THEN /\ pc' = [pc EXCEPT ![r] = "lock"]
                /\ UNCHANGED <<epoch, image, entered, hitType, hits, answer>>
           ELSE Return(r, "Cluster", TRUE, Read(cache[t], place.off, place.size), "Cluster")
        /\ UNCHANGED <<cache, index, sum>>

\* MPI_Get and MPI_Win_unlock, which completes it: the bytes are those of the
\* target's buffer at some moment before the unlock.
GetClusterRead(r) ==
    LET t == Chosen(image[r])
        place == EntryOfTarget(r)
    IN  /\ pc[r] = "read"
        /\ holder' = [holder EXCEPT ![t] = NoRank]
        /\ Return(r, "Cluster", TRUE, Read(cache[t], place.off, place.size), "Cluster")
        /\ UNCHANGED <<cache, index, sum>>

-----------------------------------------------------------------------------
(* The collective calls.  A rank leaves its k-th one when every rank has      *)
(* entered its k-th one.                                                      *)

AllEntered(r) == \A s \in Ranks : entered[s] >= entered[r]

Quiet == UNCHANGED <<cache, index, holder, hitType, hits, answer>>

LeaveIops(r) ==
    /\ pc[r] = "iops" /\ AllEntered(r)
    /\ EnterCollective(r, "throughput")
    /\ UNCHANGED <<epoch, image, sum>> /\ Quiet

LeaveThroughput(r) ==
    /\ pc[r] = "throughput" /\ AllEntered(r)
    /\ NextImage(r)
    /\ UNCHANGED <<epoch, sum>> /\ Quiet

StartEpoch(r, e) ==
    IF e < Epochs
    THEN /\ pc' = [pc EXCEPT ![r] = "get"]
         /\ epoch' = [epoch EXCEPT ![r] = e]
         /\ image' = [image EXCEPT ![r] = 0]
    ELSE /\ pc' = [pc EXCEPT ![r] = "done"]
         /\ UNCHANGED <<epoch, image>>

\* After epoch 0 comes Sync, whose first call is the MPI_Allreduce of the index.
LeaveEpochIops(r) ==
    /\ pc[r] = "epochIops" /\ AllEntered(r)
    /\ IF epoch[r] = 0
       THEN /\ EnterCollective(r, "sync")
            /\ sum' = AddRows(sum, index[r])
            /\ UNCHANGED <<epoch, image>>
       ELSE StartEpoch(r, epoch[r] + 1) /\ UNCHANGED <<sum, entered>>
    /\ Quiet

\* The entries beyond the count that was passed keep their local value.  An
\* entry takes two elements of the array.
Reduced(t, i) == (t * ImageCount + i + 1) * 2 <= AllreduceCount

LeaveSync(r) ==
    /\ pc[r] = "sync" /\ AllEntered(r)
    /\ index' = [index EXCEPT ![r] =
           [t \in Ranks |-> [i \in Images |->
               IF Reduced(t, i) THEN sum[t][i] ELSE index[r][t][i]]]]
    /\ EnterCollective(r, "winCreate")
    /\ UNCHANGED <<epoch, image, sum, cache, holder, hitType, hits, answer>>

LeaveWinCreate(r) ==
    /\ pc[r] = "winCreate" /\ AllEntered(r)
    /\ EnterCollective(r, "fence")
    /\ UNCHANGED <<epoch, image, sum>> /\ Quiet

LeaveFence(r) ==
    /\ pc[r] = "fence" /\ AllEntered(r)
    /\ StartEpoch(r, 1)
    /\ UNCHANGED <<entered, sum>> /\ Quiet

-----------------------------------------------------------------------------

Get(r) ==
    \/ GetLocalHit(r) \/ GetLocalFetchFails(r) \/ GetLocalNoRoom(r)
    \/ GetLocalBeginPlacing(r) \/ GetLocalFinishPlacing(r)
    \/ GetDirectly(r)
    \/ GetClusterFull(r) \/ GetClusterBegin(r) \/ WinLock(r) \/ GetClusterRead(r)

LeaveCollective(r) ==
    \/ LeaveIops(r) \/ LeaveThroughput(r) \/ LeaveEpochIops(r)
    \/ LeaveSync(r) \/ LeaveWinCreate(r) \/ LeaveFence(r)

\* Every rank has finished, or one has aborted, which ends the MPI job.
JobOver ==
    /\ (\A r \in Ranks : pc[r] = "done") \/ (\E r \in Ranks : pc[r] = "aborted")
    /\ UNCHANGED vars

Step(r) ==
    /\ \A s \in Ranks : pc[s] # "aborted"
    /\ Get(r) \/ LeaveCollective(r)
    /\ UNCHANGED do_decode

Next == (\E r \in Ranks : Step(r)) \/ JobOver

Spec == Init /\ [][Next]_vars

\* Every process keeps running, every download returns (curl reports an error
\* if it fails), MPI completes a collective that all have entered, and a
\* window lock that is free is granted.
FairSpec == Spec /\ \A r \in Ranks : WF_vars(Step(r))

-----------------------------------------------------------------------------

TypeOK ==
    /\ do_decode \in BOOLEAN
    /\ pc \in [Ranks -> Locations]
    /\ epoch \in [Ranks -> 0 .. (Epochs - 1)]
    /\ image \in [Ranks -> Images]
    /\ cache \in [Ranks -> Storage]
    /\ index \in [Ranks -> Index]
    /\ sum \in Index
    /\ entered \in [Ranks -> Nat]
    /\ holder \in [Ranks -> Ranks \cup {NoRank}]
    /\ hitType \in [Ranks -> HitTypes \cup {Unset}]
    /\ hits \in [Ranks -> [HitTypes \cup {Unset} -> Nat]]
    /\ DOMAIN answer = Ranks

\* The local caches stay intact under all ranks' steps: a rank's buffer holds,
\* for each file in its hash_data_, exactly that file.
CachesIntact == \A r \in Ranks : Intact(cache[r])

\* Whatever a rank finds in its copy of the index is true of the target's
\* buffer from then on, although the target goes on placing files: the region
\* holds the image, or is the (0, 0) that calloc left.
IndexPointsAtImages ==
    \A r, t \in Ranks, i \in Images :
        LET entry == index[r][t][i]
        IN  entry.off >= 0 /\ entry # NoEntry =>
                entry.size = SizeOf[FileOf[i]] /\ Holds(cache[t], FileOf[i], entry.off)

\* Get never returns the bytes of another image, nor bytes the target is just
\* writing (the exclusive lock of the window does not exclude the target's own
\* memcpy): it returns the image, or nothing at all.
NeverAnotherImage ==
    \A r \in Ranks :
        answer[r].ok =>
            \/ answer[r].data = Content(FileOf[answer[r].image])
            \/ DOMAIN answer[r].data = {}

\* A cluster hit is the image (clusterCacheHit takes a negative offset for
\* "failed to retrieve from cluster cache", sgd-comm/cache.hpp:313, and every
\* other entry for a hit).
ClusterHitsAreImages ==
    \A r \in Ranks :
        answer[r].from = "Cluster" => answer[r].data = Content(FileOf[answer[r].image])

\* A download that fails in epoch 0 leaves an empty entry in every rank's
\* index.  With do_decode the rank that met the failure aborts the job there
\* and then, so that no rank reaches an epoch in which it could take the entry
\* for a cluster hit of no bytes (sgd-comm/cache.hpp:312).
DecodedHitsAreImages == do_decode => ClusterHitsAreImages

\* What main counts and prints as "cache hit rate: local, cluster, miss"
\* (sgd-comm/mpi_win.cpp:158) is where Get found the image.
HitsCountSources ==
    [][\A r \in Ranks, h \in HitTypes \cup {Unset} :
          hits'[r][h] # hits[r][h] => answer'[r].from = h]_vars

\* Two ranks that are in the same collective call of MPI_COMM_WORLD, counted
\* from the start, have made the same call in the program: no rank's index is
\* ever summed with another rank's rate.
CollectivesMatch ==
    \A r, s \in Ranks :
        /\ pc[r] \in Collectives
        /\ pc[s] \in Collectives
        /\ entered[r] = entered[s]
        => pc[r] = pc[s] /\ epoch[r] = epoch[s] /\ image[r] = image[s]

\* After Sync no row is missing from the sum: every rank holds the same index,
\* and in it every rank finds the rows the others filled.
IndexAgreed ==
    \A r, s \in Ranks :
        pc[r] \in {"winCreate", "fence"} \/ epoch[r] > 0 => index[r][s] = index[s][s]

\* Unless it decodes the images, no failed download keeps any rank from its end:
\* it makes the same collective calls as the others (sgd-comm/mpi_win.cpp:34-69).
AllFinishUndecoded == do_decode \/ <>(\A r \in Ranks : pc[r] = "done")

-----------------------------------------------------------------------------
(* The cache is invisible: if no download fails, the ranks are readers that   *)
(* get every image in order, in step with each other.                         *)

\* Get has returned for the image at which the rank is.
Returned(r) == pc[r] \notin {"get", "copy", "lock", "read"}

Delivered(r) == epoch[r] * ImageCount + image[r] + (IF Returned(r) THEN 1 ELSE 0)

\* Between the fence that ends Sync and epoch 0's last image nothing happens
\* that the readers could see.
Readers == INSTANCE LockstepReaders
           WITH delivered <- [r \in Ranks |-> Delivered(r)],
                data      <- [r \in Ranks |-> answer[r].data],
                Expected  <- LAMBDA i : Content(FileOf[i])

ImplementsLockstepReaders == Readers!Spec
=============================================================================
