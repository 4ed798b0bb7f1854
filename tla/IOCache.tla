------------------------------- MODULE IOCache -------------------------------
(* IOCache<RetrieveFromSeaweedFS> (sgd-comm/cache.hpp): the cache of one      *)
(* process, called by its only thread.  GetOrRetrieve answers from the buffer *)
(* or asks the next SeaweedFS master in turn and, if cache_placement is set  *)
(* and the file fits, copies the file behind the ones it holds.              *)
EXTENDS CacheBuffer

CONSTANT Masters    \* how many masters the server list has

ASSUME MastersAssumption == Masters \in Nat \ {0}

VARIABLES
    cache,          \* the storage, see CacheBuffer
    rr_counter,     \* which master is asked next; never initialised
    placing,        \* the file a call is copying into the buffer, or NoFile
    reply           \* of the last call that returned: cache_placement, ok, hit, data

ioVars == <<cache, rr_counter, placing, reply>>

Reply(cache_placement, ok, hit, data) ==
    [placement |-> cache_placement, ok |-> ok, hit |-> hit, data |-> data]

Idle == placing = NoFile

IOCacheTypeOK ==
    /\ cache \in Storage
    /\ rr_counter \in 0 .. (Masters - 1)
    /\ placing \in Files \cup {NoFile}
    /\ {reply.placement, reply.ok, reply.hit} \subseteq BOOLEAN

IOCacheInit ==
    /\ cache = EmptyCache
    /\ rr_counter \in 0 .. (Masters - 1)
    /\ placing = NoFile
    /\ reply = Reply(FALSE, FALSE, FALSE, <<>>)

\* Perform moves on to the next master at every request, answered or not.
AskNextMaster == rr_counter' = (rr_counter + 1) % Masters

Hit(f, cache_placement) ==
    /\ Idle
    /\ Exists(cache, f)
    /\ reply' = Reply(cache_placement, TRUE, TRUE, ReadFile(cache, f))
    /\ UNCHANGED <<cache, rr_counter, placing>>

\* The transfer failed (status_code stays 0) or the status was not 2xx.
FetchFails(f, cache_placement) ==
    /\ Idle
    /\ ~Exists(cache, f)
    /\ AskNextMaster
    /\ reply' = Reply(cache_placement, FALSE, FALSE, <<>>)
    /\ UNCHANGED <<cache, placing>>

FetchWithoutPlacing(f, cache_placement) ==
    /\ Idle
    /\ ~Exists(cache, f)
    /\ ~cache_placement \/ ~Fits(cache, f)
    /\ AskNextMaster
    /\ reply' = Reply(cache_placement, TRUE, FALSE, Content(f))
    /\ UNCHANGED <<cache, placing>>

FetchAndBeginPlacing(f) ==
    /\ Idle
    /\ ~Exists(cache, f)
    /\ Fits(cache, f)
    /\ AskNextMaster
    /\ cache' = BeginCopy(cache, f)
    /\ placing' = f
    /\ UNCHANGED reply

FinishPlacing ==
    /\ ~Idle
    /\ cache' = FinishCopy(cache, placing)
    /\ placing' = NoFile
    /\ reply' = Reply(TRUE, TRUE, FALSE, Content(placing))
    /\ UNCHANGED rr_counter

GetOrRetrieve(f, cache_placement) ==
    \/ Hit(f, cache_placement)
    \/ FetchFails(f, cache_placement)
    \/ FetchWithoutPlacing(f, cache_placement)
    \/ cache_placement /\ FetchAndBeginPlacing(f)

IOCacheNext ==
    \/ \E f \in Files, cache_placement \in BOOLEAN : GetOrRetrieve(f, cache_placement)
    \/ FinishPlacing

IOCacheSpec == IOCacheInit /\ [][IOCacheNext]_ioVars

-----------------------------------------------------------------------------

\* What hash_data_ says is what the buffer holds: the region of every file
\* lies below current_offset and contains that file's bytes, none overwritten
\* by a file placed later and none touched by the copy under way.
StoredFilesIntact == Intact(cache)

\* The cache is a read-through cache without eviction, as the comment of
\* GetOrRetrieve describes it.
Abstract == INSTANCE ReadThroughCache
            WITH placed <- Placed(cache), used <- cache.current_offset

ImplementsReadThroughCache == Abstract!Spec
=============================================================================
