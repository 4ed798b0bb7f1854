---------------------------- MODULE IOCacheProofs ----------------------------
(* Proofs about one IOCache, for every set of files, every size of files and  *)
(* buffer and every number of masters: its state is type-correct, the files  *)
(* it holds stay intact, and it implements the read-through cache.            *)
EXTENDS IOCache, CacheBufferProofs

\* The inductive invariant: besides what it says of the storage, a file that
\* is being placed is not there yet and has its room.
Inv ==
    /\ IOCacheTypeOK
    /\ Intact(cache)
    /\ placing # NoFile => ~Exists(cache, placing) /\ Fits(cache, placing)

LEMMA InvInit == IOCacheInit => Inv
  <1> SUFFICES ASSUME IOCacheInit PROVE Inv
    OBVIOUS
  <1>1. IOCacheTypeOK
    BY EmptyCacheOK DEF IOCacheInit, IOCacheTypeOK, Reply
  <1> QED BY <1>1, EmptyCacheOK DEF IOCacheInit, Inv

LEMMA NextMaster == rr_counter \in 0 .. (Masters - 1) /\ AskNextMaster
                      => rr_counter' \in 0 .. (Masters - 1)
  <1>1. \A n \in Nat, d \in Nat \ {0} : n % d \in 0 .. (d - 1)
    BY SMT
  <1> QED BY <1>1, MastersAssumption DEF AskNextMaster

LEMMA InvStep == Inv /\ [IOCacheNext]_ioVars => Inv'
  <1> SUFFICES ASSUME Inv, [IOCacheNext]_ioVars PROVE Inv'
    OBVIOUS
  <1> USE DEF Inv, IOCacheTypeOK
  <1>1. ASSUME NEW f \in Files, NEW p \in BOOLEAN, Hit(f, p) PROVE Inv'
    BY <1>1 DEF Hit, Reply
  <1>2. ASSUME NEW f \in Files, NEW p \in BOOLEAN, FetchFails(f, p) PROVE Inv'
    BY <1>2, NextMaster DEF FetchFails, Reply
  <1>3. ASSUME NEW f \in Files, NEW p \in BOOLEAN, FetchWithoutPlacing(f, p) PROVE Inv'
    BY <1>3, NextMaster DEF FetchWithoutPlacing, Reply
  <1>4. ASSUME NEW f \in Files, FetchAndBeginPlacing(f) PROVE Inv'
    <2>1. cache' \in Storage /\ Intact(cache')
      BY <1>4, BeginCopyOK DEF FetchAndBeginPlacing
    <2>2. ~Exists(cache', f) /\ Fits(cache', f)
      BY <1>4 DEF FetchAndBeginPlacing, BeginCopy, Exists, Fits
    <2> QED BY <1>4, <2>1, <2>2, NextMaster DEF FetchAndBeginPlacing
  <1>5. ASSUME FinishPlacing PROVE Inv'
    <2>1. placing \in Files /\ Fits(cache, placing)
      BY <1>5 DEF FinishPlacing, Idle
    <2>2. cache' \in Storage /\ Intact(cache')
      BY <1>5, <2>1, FinishCopyOK DEF FinishPlacing
    <2> QED BY <1>5, <2>2 DEF FinishPlacing, Reply
  <1>6. ASSUME UNCHANGED ioVars PROVE Inv'
    BY <1>6 DEF ioVars
  <1> QED BY <1>1, <1>2, <1>3, <1>4, <1>5, <1>6 DEF IOCacheNext, GetOrRetrieve

THEOREM Invariance == IOCacheSpec => []Inv
  BY InvInit, InvStep, PTL DEF IOCacheSpec

\* The state of the cache keeps its type.
THEOREM TypeCorrect == IOCacheSpec => []IOCacheTypeOK
  <1>1. Inv => IOCacheTypeOK
    BY DEF Inv
  <1> QED BY <1>1, Invariance, PTL

\* No sequence of calls makes the buffer disagree with hash_data_: no file is
\* ever overwritten, wholly or in part, by one that is placed later.
THEOREM FilesStayIntact == IOCacheSpec => []StoredFilesIntact
  <1>1. Inv => StoredFilesIntact
    BY DEF Inv, StoredFilesIntact
  <1> QED BY <1>1, Invariance, PTL

-----------------------------------------------------------------------------
(* The implementation of the read-through cache.                              *)

\* A hit returns the file.
LEMMA HitReadsFile ==
    ASSUME Inv, NEW f \in Files, Exists(cache, f)
    PROVE  ReadFile(cache, f) = Content(f)
  BY DEF Inv, Intact, Placed, ReadFile, Holds

LEMMA InitImplements == IOCacheInit => Abstract!Init
  BY DEF IOCacheInit, Abstract!Init, Placed, Exists, EmptyCache, Reply, Abstract!Reply

LEMMA StepImplements == Inv /\ [IOCacheNext]_ioVars => [Abstract!Next]_(Abstract!vars)
  <1> SUFFICES ASSUME Inv, [IOCacheNext]_ioVars PROVE [Abstract!Next]_(Abstract!vars)
    OBVIOUS
  <1> USE DEF Reply, Abstract!Reply
  <1>1. ASSUME NEW f \in Files, NEW p \in BOOLEAN, Hit(f, p) PROVE Abstract!Hit(f, p)
    BY <1>1, HitReadsFile DEF Hit, Abstract!Hit, Placed
  <1>2. ASSUME NEW f \in Files, NEW p \in BOOLEAN, FetchFails(f, p) PROVE Abstract!Fail(f, p)
    BY <1>2 DEF FetchFails, Abstract!Fail, Placed
  <1>3. ASSUME NEW f \in Files, NEW p \in BOOLEAN, FetchWithoutPlacing(f, p)
        PROVE  Abstract!ReadThrough(f, p)
    <2>1. cache.current_offset \in Nat /\ BufferSize \in Nat /\ SizeOf[f] \in Nat
      BY StorageAssumption, StorageFields DEF Inv, IOCacheTypeOK
    <2> QED BY <1>3, <2>1 DEF FetchWithoutPlacing, Abstract!ReadThrough, Placed, Fits
  <1>4. ASSUME NEW f \in Files, FetchAndBeginPlacing(f) PROVE UNCHANGED Abstract!vars
    <2>1. Placed(cache') = Placed(cache)
      BY <1>4 DEF FetchAndBeginPlacing, BeginCopy, Placed, Exists
    <2>2. cache'.current_offset = cache.current_offset
      BY <1>4 DEF FetchAndBeginPlacing, BeginCopy
    <2> QED BY <1>4, <2>1, <2>2 DEF FetchAndBeginPlacing, Abstract!vars
  <1>5. ASSUME FinishPlacing PROVE placing \in Files /\ Abstract!Place(placing)
    <2>1. placing \in Files /\ ~Exists(cache, placing) /\ Fits(cache, placing)
      BY <1>5 DEF FinishPlacing, Idle, Inv, IOCacheTypeOK
    <2>2. Placed(cache') = Placed(cache) \cup {placing}
      <3>1. cache.hash_data \in [Files -> Entry \cup {Absent}]
        BY StorageFields DEF Inv, IOCacheTypeOK
      <3>2. cache.current_offset # -1
        BY StorageFields DEF Inv, IOCacheTypeOK
      <3>3. [off |-> cache.current_offset, size |-> SizeOf[placing]] # Absent
        BY <3>2 DEF Absent
      <3> QED BY <1>5, <2>1, <3>1, <3>3 DEF FinishPlacing, FinishCopy, Placed, Exists
    <2>3. cache'.current_offset = cache.current_offset + SizeOf[placing]
      BY <1>5 DEF FinishPlacing, FinishCopy
    <2> QED BY <1>5, <2>1, <2>2, <2>3 DEF FinishPlacing, Abstract!Place, Placed, Fits
  <1> QED BY <1>1, <1>2, <1>3, <1>4, <1>5
          DEF IOCacheNext, GetOrRetrieve, Abstract!Next, ioVars, Abstract!vars, Placed

\* An IOCache is a read-through cache without eviction.
THEOREM Implements == IOCacheSpec => ImplementsReadThroughCache
  BY InitImplements, StepImplements, Invariance, PTL
     DEF IOCacheSpec, ImplementsReadThroughCache, Abstract!Spec
=============================================================================
