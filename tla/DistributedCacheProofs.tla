------------------------ MODULE DistributedCacheProofs ------------------------
(* Proofs about the distributed cache, for every number of ranks, images and  *)
(* epochs, every placement and file list, whether or not downloads fail and   *)
(* whatever count MPI_Allreduce is given.                                     *)
(*                                                                           *)
(* The first argument does not rest on the ranks being in step: an entry of   *)
(* an index is right, or says that there is no room, or is the (0, 0) of      *)
(* calloc, and summing the rows keeps it so because only rank t ever fills    *)
(* row t.                                                                     *)
EXTENDS DistributedCache, CacheBufferProofs, WellFoundedInduction, FiniteSetTheorems

LEMMA Constants ==
    /\ NProcs \in Nat \ {0} /\ ImageCount \in Nat \ {0} /\ Epochs \in Nat \ {0}
    /\ FileOf \in [Images -> Files]
    /\ SizeOf \in [Files -> Nat]
    /\ BufferSize \in Nat
    /\ 0 \in Images
    /\ 0 \in 0 .. (Epochs - 1)
  BY ConstantsAssumption, StorageAssumption DEF Images

\* A set of natural numbers has a least element ...
LEMMA Least == ASSUME NEW S \in SUBSET Nat, S # {} PROVE \E x \in S : \A y \in S : x <= y
  <1>1. IsWellFoundedOn(OpToRel(<, Nat), Nat)
    BY NatLessThanWellFounded
  <1>2. PICK x \in S : \A y \in S : ~(<<y, x>> \in OpToRel(<, Nat))
    BY <1>1, WFMin
  <1>3. OpToRel(<, Nat) = {ss \in Nat \X Nat : ss[1] < ss[2]}
    BY DEF OpToRel
  <1>4. ASSUME NEW y \in S PROVE x <= y
    <2>1. ~(<<y, x>> \in {ss \in Nat \X Nat : ss[1] < ss[2]})
      BY <1>2, <1>3
    <2>2. <<y, x>> \in Nat \X Nat
      OBVIOUS
    <2>3. ~(y < x)
      BY <2>1, <2>2
    <2> QED BY <2>3
  <1> QED BY <1>4

\* ... so the chosen rank is one of the ranks that have the image.
LEMMA ChosenIsTarget ==
    ASSUME NEW i \in Images, Targets[i] # {}
    PROVE  Chosen(i) \in Targets[i] /\ Chosen(i) \in Ranks
  <1>1. Targets[i] \subseteq Ranks
    BY ConstantsAssumption
  <1>2. Targets[i] \in SUBSET Nat
    BY <1>1 DEF Ranks
  <1>3. \E t \in Targets[i] : \A u \in Targets[i] : t <= u
    BY <1>2, Least
  <1> QED BY <1>1, <1>3 DEF Chosen

-----------------------------------------------------------------------------
(* The inductive invariant.                                                   *)

\* An entry for image i of a row that belongs to rank t.
Right(entry, t, i) ==
    \/ entry = NoEntry
    \/ entry.off = -1
    \/ /\ entry.off \in Nat
       /\ entry.size = SizeOf[FileOf[i]]
       /\ Holds(cache[t], FileOf[i], entry.off)

\* The rank's index has entered the sum; it has been replaced by the sum.
Contributed(r) == epoch[r] > 0 \/ pc[r] \in {"sync", "winCreate", "fence", "done"}

Synced(r) == epoch[r] > 0 \/ pc[r] \in {"winCreate", "fence", "done"}

CopyHasRoom ==
    \A r \in Ranks : pc[r] = "copy" => ~Exists(cache[r], File(r)) /\ Fits(cache[r], File(r))

ReadHasEntry ==
    \A r \in Ranks :
        pc[r] \in {"lock", "read"} => Targets[image[r]] # {} /\ EntryOfTarget(r).off >= 0

IndexRight == \A r, t \in Ranks, i \in Images : Right(index[r][t][i], t, i)

SumRight == \A t \in Ranks, i \in Images : Right(sum[t][i], t, i)

OwnRowOnly ==
    \A r, t \in Ranks, i \in Images : r # t /\ ~Synced(r) => index[r][t][i] = NoEntry

SumOfContributors ==
    \A t \in Ranks, i \in Images : ~Contributed(t) => sum[t][i] = NoEntry

Inv ==
    /\ TypeOK
    /\ CachesIntact
    /\ CopyHasRoom
    /\ ReadHasEntry
    /\ IndexRight
    /\ SumRight
    /\ OwnRowOnly
    /\ SumOfContributors
    /\ NeverAnotherImage

-----------------------------------------------------------------------------
(* What a step does to the control state.                                     *)

\* Only rank r moves.
Moves(r) ==
    /\ pc' \in [Ranks -> Locations]
    /\ epoch' \in [Ranks -> 0 .. (Epochs - 1)]
    /\ image' \in [Ranks -> Images]
    /\ entered' \in [Ranks -> Nat]
    /\ \A s \in Ranks \ {r} : pc'[s] = pc[s] /\ epoch'[s] = epoch[s] /\ image'[s] = image[s]

LEMMA EnterMoves ==
    ASSUME TypeOK, NEW r \in Ranks, NEW call \in Collectives, EnterCollective(r, call)
    PROVE  /\ pc' \in [Ranks -> Locations]
           /\ pc'[r] = call
           /\ \A s \in Ranks \ {r} : pc'[s] = pc[s]
           /\ entered' \in [Ranks -> Nat]
  <1>1. call \in Locations
    BY DEF Locations
  <1>2. pc \in [Ranks -> Locations] /\ pc' = [pc EXCEPT ![r] = call]
    BY DEF TypeOK, EnterCollective
  <1>3. entered \in [Ranks -> Nat] /\ entered' = [entered EXCEPT ![r] = @ + 1]
    BY DEF TypeOK, EnterCollective
  <1> QED BY <1>1, <1>2, <1>3

LEMMA NextImageMoves ==
    ASSUME TypeOK, NEW r \in Ranks, NextImage(r), epoch' = epoch
    PROVE  Moves(r) /\ pc'[r] \in {"get", "epochIops"}
  <1>1. CASE LastImage(image[r])
    <2>1. EnterCollective(r, "epochIops") /\ image' = image /\ "epochIops" \in Collectives
      BY <1>1 DEF NextImage, Collectives
    <2> QED BY <2>1, EnterMoves DEF TypeOK, Moves
  <1>2. CASE ~LastImage(image[r])
    <2>1. image[r] + 1 \in Images
      BY <1>2, Constants DEF TypeOK, LastImage, Images
    <2> QED BY <1>2, <2>1 DEF NextImage, TypeOK, Moves, Locations
  <1> QED BY <1>1, <1>2

\* What Get's return does, whatever it returns.
LEMMA ReturnMoves ==
    ASSUME TypeOK, NEW r \in Ranks, NEW from, NEW ok, NEW data,
           NEW type \in HitTypes \cup {Unset}, Return(r, from, ok, data, type)
    PROVE  /\ Moves(r)
           /\ pc'[r] \in {"get", "iops", "epochIops", "aborted"}
           /\ epoch' = epoch
           /\ hitType' \in [Ranks -> HitTypes \cup {Unset}]
           /\ hits' \in [Ranks -> [HitTypes \cup {Unset} -> Nat]]
           /\ DOMAIN answer' = Ranks
           /\ answer'[r] = [image |-> image[r], from |-> from, ok |-> ok, data |-> data]
           /\ \A s \in Ranks \ {r} : answer'[s] = answer[s]
  <1>1. epoch' = epoch
    BY DEF Return
  <1>2. Moves(r) /\ pc'[r] \in {"get", "iops", "epochIops", "aborted"}
    <2>1. CASE do_decode /\ data # Content(File(r))
      BY <1>1, <2>1 DEF Return, Abort, TypeOK, Moves, Locations
    <2>2. CASE ~(do_decode /\ data # Content(File(r))) /\ AtPrint(image[r])
      <3>1. EnterCollective(r, "iops") /\ image' = image /\ "iops" \in Collectives
        BY <2>2 DEF Return, Collectives
      <3> QED BY <1>1, <3>1, EnterMoves DEF TypeOK, Moves
    <2>3. CASE ~(do_decode /\ data # Content(File(r))) /\ ~AtPrint(image[r])
      BY <1>1, <2>3, NextImageMoves DEF Return
    <2> QED BY <2>1, <2>2, <2>3
  <1>3. /\ hitType' \in [Ranks -> HitTypes \cup {Unset}]
        /\ hits' \in [Ranks -> [HitTypes \cup {Unset} -> Nat]]
    <2> DEFINE counted == IF type = Unset THEN hitType[r] ELSE type
    <2>1. counted \in HitTypes \cup {Unset}
      BY DEF TypeOK
    <2>2. CASE epoch[r] = 0
      BY <2>2 DEF Return, TypeOK
    <2>3. CASE epoch[r] # 0
      <3>1. /\ hitType' = [hitType EXCEPT ![r] = counted]
            /\ hits' = [hits EXCEPT ![r][counted] = @ + 1]
        BY <2>3 DEF Return
      <3> HIDE DEF counted
      <3>2. hits[r] \in [HitTypes \cup {Unset} -> Nat]
        BY DEF TypeOK
      <3>3. [hits[r] EXCEPT ![counted] = @ + 1] \in [HitTypes \cup {Unset} -> Nat]
        BY <2>1, <3>2
      <3>4. hits' = [hits EXCEPT ![r] = [hits[r] EXCEPT ![counted] = @ + 1]]
        BY <3>1 DEF TypeOK
      <3>5. hits \in [Ranks -> [HitTypes \cup {Unset} -> Nat]]
        BY DEF TypeOK
      <3>6. hits' \in [Ranks -> [HitTypes \cup {Unset} -> Nat]]
        BY <3>3, <3>4, <3>5
      <3>7. hitType \in [Ranks -> HitTypes \cup {Unset}]
        BY DEF TypeOK
      <3> QED BY <2>1, <3>1, <3>6, <3>7
    <2> QED BY <2>2, <2>3
  <1>4. /\ DOMAIN answer' = Ranks
        /\ answer'[r] = [image |-> image[r], from |-> from, ok |-> ok, data |-> data]
        /\ \A s \in Ranks \ {r} : answer'[s] = answer[s]
    BY DEF Return, TypeOK
  <1> QED BY <1>1, <1>2, <1>3, <1>4

-----------------------------------------------------------------------------
(* What a step does to the caches and to the entries that point into them.    *)

\* The cache of rank t still holds what it held.
Keeps(t) == \A f \in Files, off \in Nat : Holds(cache[t], f, off) => Holds(cache'[t], f, off)

RightAfter(entry, t, i) ==
    \/ entry = NoEntry
    \/ entry.off = -1
    \/ /\ entry.off \in Nat
       /\ entry.size = SizeOf[FileOf[i]]
       /\ Holds(cache'[t], FileOf[i], entry.off)

LEMMA StaysRight ==
    ASSUME NEW entry, NEW t \in Ranks, NEW i \in Images, Keeps(t), Right(entry, t, i)
    PROVE  RightAfter(entry, t, i)
  BY Constants DEF Right, RightAfter, Keeps

\* The steps by which no rank enters or leaves Sync.
SameSync ==
    \A s \in Ranks : (Contributed(s)' <=> Contributed(s)) /\ (Synced(s)' <=> Synced(s))

OutsideSync == {"get", "copy", "lock", "read", "iops", "throughput", "epochIops", "aborted"}

LEMMA MoveOutsideSync ==
    ASSUME NEW r \in Ranks, Moves(r), epoch' = epoch,
           pc[r] \in OutsideSync, pc'[r] \in OutsideSync
    PROVE  SameSync
  BY DEF Moves, SameSync, Contributed, Synced, OutsideSync

\* An index changes only where a rank fills its own row, and then rightly.
OwnEntryOnly(r) ==
    /\ index' \in [Ranks -> Index]
    /\ \A s, t \in Ranks, i \in Images :
          \/ index'[s][t][i] = index[s][t][i]
          \/ s = r /\ t = r /\ RightAfter(index'[s][t][i], t, i)

LEMMA EntriesStayRight ==
    ASSUME Inv, NEW r \in Ranks, \A t \in Ranks : Keeps(t), sum' = sum,
           SameSync, OwnEntryOnly(r)
    PROVE  IndexRight' /\ SumRight' /\ OwnRowOnly' /\ SumOfContributors'
  <1>1. ASSUME NEW s \in Ranks, NEW t \in Ranks, NEW i \in Images
        PROVE  RightAfter(index'[s][t][i], t, i)
    <2>1. Right(index[s][t][i], t, i)
      BY DEF Inv, IndexRight
    <2>2. RightAfter(index[s][t][i], t, i)
      BY <2>1, StaysRight
    <2> QED BY <2>2 DEF OwnEntryOnly
  <1>2. IndexRight'
    BY <1>1 DEF IndexRight, Right, RightAfter
  <1>3. ASSUME NEW t \in Ranks, NEW i \in Images
        PROVE  RightAfter(sum[t][i], t, i)
    BY StaysRight DEF Inv, SumRight
  <1>4. SumRight'
    BY <1>3 DEF SumRight, Right, RightAfter
  <1>5. OwnRowOnly'
    <2>1. ASSUME NEW s \in Ranks, NEW t \in Ranks, NEW i \in Images, s # t, ~Synced(s)'
          PROVE  index'[s][t][i] = NoEntry
      <3>1. ~Synced(s)
        BY <2>1 DEF SameSync
      <3>2. index[s][t][i] = NoEntry
        BY <2>1, <3>1 DEF Inv, OwnRowOnly
      <3> QED BY <2>1, <3>2 DEF OwnEntryOnly
    <2> QED BY <2>1 DEF OwnRowOnly
  <1>6. SumOfContributors'
    <2>1. ASSUME NEW t \in Ranks, NEW i \in Images, ~Contributed(t)'
          PROVE  sum[t][i] = NoEntry
      BY <2>1 DEF SameSync, Inv, SumOfContributors
    <2> QED BY <2>1 DEF SumOfContributors
  <1> QED BY <1>2, <1>4, <1>5, <1>6

LEMMA FillsOwnEntry ==
    ASSUME Inv, NEW r \in Ranks, NEW off \in Nat \cup {-1}, NEW size \in Nat,
           FillIndex(r, off, size),
           RightAfter([off |-> off, size |-> size], r, image[r])
    PROVE  OwnEntryOnly(r)
  <1> DEFINE entry == [off |-> off, size |-> size]
  <1>1. image[r] \in Images /\ index \in [Ranks -> Index]
    BY DEF Inv, TypeOK
  <1>2. CASE epoch[r] = 0
    <2>1. index' = [index EXCEPT ![r] = [index[r] EXCEPT ![r] = [index[r][r] EXCEPT ![image[r]] = entry]]]
      BY <1>1, <1>2 DEF FillIndex, Index
    <2>2. entry \in IndexEntry
      BY DEF IndexEntry
    <2> HIDE DEF entry
    <2>3. [index[r][r] EXCEPT ![image[r]] = entry] \in [Images -> IndexEntry]
      BY <1>1, <2>2 DEF Index
    <2>4. [index[r] EXCEPT ![r] = [index[r][r] EXCEPT ![image[r]] = entry]] \in Index
      BY <1>1, <2>3 DEF Index
    <2>5. index' \in [Ranks -> Index]
      BY <1>1, <2>1, <2>4
    <2>6. ASSUME NEW s \in Ranks, NEW t \in Ranks, NEW i \in Images
          PROVE  \/ index'[s][t][i] = index[s][t][i]
                 \/ s = r /\ t = r /\ i = image[r] /\ index'[s][t][i] = entry
      BY <1>1, <2>1 DEF Index
    <2>7. RightAfter(entry, r, image[r])
      BY DEF entry
    <2> QED BY <2>5, <2>6, <2>7 DEF OwnEntryOnly
  <1>3. CASE epoch[r] # 0
    BY <1>1, <1>3 DEF FillIndex, OwnEntryOnly
  <1> QED BY <1>2, <1>3

LEMMA UnchangedIndex == Inv /\ index' = index => \A r \in Ranks : OwnEntryOnly(r)
  BY DEF Inv, TypeOK, OwnEntryOnly

LEMMA UnchangedCache == cache' = cache => \A t \in Ranks : Keeps(t)
  BY DEF Keeps

\* The buffer of rank r takes in the file the rank is at.
LEMMA PlacingKeeps ==
    ASSUME Inv, NEW r \in Ranks,
           \/ cache' = [cache EXCEPT ![r] = BeginCopy(@, File(r))]
           \/ Fits(cache[r], File(r)) /\ cache' = [cache EXCEPT ![r] = FinishCopy(@, File(r))]
    PROVE  /\ cache' \in [Ranks -> Storage]
           /\ CachesIntact'
           /\ \A t \in Ranks : Keeps(t)
           /\ \A s \in Ranks \ {r} : cache'[s] = cache[s]
  <1>1. /\ cache \in [Ranks -> Storage]
        /\ \A t \in Ranks : Intact(cache[t])
        /\ File(r) \in Files
    BY Constants DEF Inv, TypeOK, CachesIntact, File
  <1>2. /\ cache'[r] \in Storage
        /\ Intact(cache'[r])
        /\ \A f \in Files, off \in Nat : Holds(cache[r], f, off) => Holds(cache'[r], f, off)
    <2>1. CASE cache' = [cache EXCEPT ![r] = BeginCopy(@, File(r))]
      <3>1. cache'[r] = BeginCopy(cache[r], File(r))
        BY <1>1, <2>1
      <3> QED BY <1>1, <3>1, BeginCopyOK
    <2>2. CASE Fits(cache[r], File(r)) /\ cache' = [cache EXCEPT ![r] = FinishCopy(@, File(r))]
      <3>1. cache'[r] = FinishCopy(cache[r], File(r))
        BY <1>1, <2>2
      <3> QED BY <1>1, <2>2, <3>1, FinishCopyOK
    <2> QED BY <2>1, <2>2
  <1>3. cache' = [cache EXCEPT ![r] = cache'[r]]
    BY <1>1
  <1>4. \A s \in Ranks \ {r} : cache'[s] = cache[s]
    BY <1>1
  <1>5. cache' \in [Ranks -> Storage]
    BY <1>1, <1>2, <1>3
  <1>6. \A t \in Ranks : Keeps(t) /\ Intact(cache'[t])
    BY <1>1, <1>2, <1>4 DEF Keeps
  <1> QED BY <1>4, <1>5, <1>6 DEF CachesIntact

-----------------------------------------------------------------------------
(* The steps of Get preserve the invariant.                                   *)

\* The step in which Get returns to main.
LEMMA GetReturns ==
    ASSUME Inv, NEW r \in Ranks, UNCHANGED do_decode, pc[r] \in {"get", "copy", "read"},
           NEW from, NEW ok, NEW data, NEW type \in HitTypes \cup {Unset},
           Return(r, from, ok, data, type),
           ok => data = Content(File(r)) \/ DOMAIN data = {},
           cache' \in [Ranks -> Storage], CachesIntact',
           \A t \in Ranks : Keeps(t),
           \A s \in Ranks \ {r} : cache'[s] = cache[s],
           OwnEntryOnly(r), sum' = sum,
           holder' \in [Ranks -> Ranks \cup {NoRank}]
    PROVE  Inv'
  <1>0. TypeOK
    BY DEF Inv
  <1>1. /\ Moves(r)
        /\ pc'[r] \in {"get", "iops", "epochIops", "aborted"}
        /\ epoch' = epoch
        /\ hitType' \in [Ranks -> HitTypes \cup {Unset}]
        /\ hits' \in [Ranks -> [HitTypes \cup {Unset} -> Nat]]
        /\ DOMAIN answer' = Ranks
        /\ answer'[r] = [image |-> image[r], from |-> from, ok |-> ok, data |-> data]
        /\ \A s \in Ranks \ {r} : answer'[s] = answer[s]
    BY <1>0, ReturnMoves
  <1>2. SameSync
    BY <1>1, MoveOutsideSync DEF OutsideSync
  <1>3. IndexRight' /\ SumRight' /\ OwnRowOnly' /\ SumOfContributors'
    BY <1>2, EntriesStayRight
  <1>4. TypeOK'
    BY <1>0, <1>1 DEF TypeOK, Moves, OwnEntryOnly
  <1>5. CopyHasRoom'
    <2>1. ASSUME NEW s \in Ranks, pc'[s] = "copy"
          PROVE  ~Exists(cache'[s], FileOf[image'[s]]) /\ Fits(cache'[s], FileOf[image'[s]])
      <3>1. s # r
        BY <1>1, <2>1
      <3>2. pc[s] = "copy" /\ image'[s] = image[s] /\ cache'[s] = cache[s]
        BY <1>1, <2>1, <3>1 DEF Moves
      <3> QED BY <3>2 DEF Inv, CopyHasRoom, File
    <2> QED BY <2>1 DEF CopyHasRoom, File
  <1>7. ReadHasEntry'
    <2>1. ASSUME NEW s \in Ranks, pc'[s] \in {"lock", "read"}
          PROVE  Targets[image'[s]] # {} /\ index'[s][Chosen(image'[s])][image'[s]].off >= 0
      <3>1. s # r
        BY <1>1, <2>1
      <3>2. pc[s] \in {"lock", "read"} /\ image'[s] = image[s] /\ image[s] \in Images
        BY <1>0, <1>1, <2>1, <3>1 DEF Moves, TypeOK
      <3>3. Targets[image[s]] # {} /\ index[s][Chosen(image[s])][image[s]].off >= 0
        BY <3>2 DEF Inv, ReadHasEntry, EntryOfTarget
      <3>4. index'[s][Chosen(image[s])][image[s]] = index[s][Chosen(image[s])][image[s]]
        BY <3>1, <3>2, <3>3, ChosenIsTarget DEF OwnEntryOnly
      <3> QED BY <3>2, <3>3, <3>4
    <2> QED BY <2>1 DEF ReadHasEntry, EntryOfTarget
  <1>6. NeverAnotherImage'
    <2>1. ASSUME NEW s \in Ranks, answer'[s].ok
          PROVE  \/ answer'[s].data = Content(FileOf[answer'[s].image])
                 \/ DOMAIN answer'[s].data = {}
      <3>1. CASE s = r
        BY <1>1, <2>1, <3>1 DEF File
      <3>2. CASE s # r
        BY <1>1, <2>1, <3>2 DEF Inv, NeverAnotherImage
      <3> QED BY <3>1, <3>2
    <2> QED BY <2>1 DEF NeverAnotherImage
  <1> QED BY <1>3, <1>4, <1>5, <1>6, <1>7 DEF Inv

\* A step inside Get: neither the index nor the answer changes.
LEMMA GetGoesOn ==
    ASSUME Inv, NEW r \in Ranks, UNCHANGED do_decode,
           pc[r] \in OutsideSync, pc' = [pc EXCEPT ![r] = pc'[r]],
           pc'[r] \in {"copy", "lock", "read"},
           UNCHANGED <<epoch, image, index, entered, sum, hitType, hits, answer>>,
           cache' \in [Ranks -> Storage], CachesIntact',
           \A t \in Ranks : Keeps(t),
           \A s \in Ranks \ {r} : cache'[s] = cache[s],
           pc'[r] = "copy" => ~Exists(cache'[r], File(r)) /\ Fits(cache'[r], File(r)),
           pc'[r] \in {"lock", "read"} =>
               Targets[image[r]] # {} /\ EntryOfTarget(r).off >= 0,
           holder' \in [Ranks -> Ranks \cup {NoRank}]
    PROVE  Inv'
  <1>1. Moves(r)
    BY DEF Inv, TypeOK, Moves, Locations
  <1>2. SameSync
    BY <1>1, MoveOutsideSync DEF OutsideSync
  <1>3. IndexRight' /\ SumRight' /\ OwnRowOnly' /\ SumOfContributors'
    BY <1>2, EntriesStayRight, UnchangedIndex
  <1>4. TypeOK'
    BY <1>1 DEF Inv, TypeOK, Moves
  <1>5. CopyHasRoom'
    BY <1>1 DEF Inv, CopyHasRoom, Moves, File
  <1>6. NeverAnotherImage'
    BY DEF Inv, NeverAnotherImage
  <1>7. ReadHasEntry'
    BY <1>1 DEF Inv, ReadHasEntry, Moves, EntryOfTarget
  <1> QED BY <1>3, <1>4, <1>5, <1>6, <1>7 DEF Inv

LEMMA Typing ==
    ASSUME Inv, NEW r \in Ranks
    PROVE  /\ cache \in [Ranks -> Storage]
           /\ CachesIntact
           /\ index \in [Ranks -> Index]
           /\ image[r] \in Images
           /\ File(r) \in Files
           /\ SizeOf[File(r)] \in Nat
           /\ holder \in [Ranks -> Ranks \cup {NoRank}]
  BY Constants DEF Inv, TypeOK, File

\* What a rank finds in its own cache is the file.
LEMMA StoredFile ==
    ASSUME Inv, NEW r \in Ranks, Exists(cache[r], File(r))
    PROVE  LET place == cache[r].hash_data[File(r)]
           IN  /\ place.off \in Nat
               /\ place.size = SizeOf[File(r)]
               /\ Holds(cache[r], File(r), place.off)
               /\ ReadFile(cache[r], File(r)) = Content(File(r))
  <1>1. File(r) \in Placed(cache[r]) /\ cache[r] \in Storage
    BY Typing DEF Placed
  <1>2. cache[r].hash_data[File(r)] \in Entry
    BY <1>1, StorageFields
  <1>3. Intact(cache[r])
    BY DEF Inv, CachesIntact
  <1> QED BY <1>1, <1>2, <1>3 DEF Intact, Holds, ReadFile, Entry

LEMMA StepLocalHit ==
    ASSUME Inv, NEW r \in Ranks, GetLocalHit(r), UNCHANGED do_decode
    PROVE  Inv'
  <1> DEFINE place == cache[r].hash_data[File(r)]
  <1>1. /\ pc[r] = "get"
        /\ Exists(cache[r], File(r))
        /\ FillIndex(r, place.off, place.size)
        /\ Return(r, "Local", TRUE, ReadFile(cache[r], File(r)), "Local")
        /\ cache' = cache /\ sum' = sum /\ holder' = holder
    BY DEF GetLocalHit, InGet
  <1>2. /\ place.off \in Nat
        /\ place.size = SizeOf[File(r)]
        /\ Holds(cache[r], File(r), place.off)
        /\ ReadFile(cache[r], File(r)) = Content(File(r))
    BY <1>1, StoredFile
  <1> HIDE DEF place
  <1>3. RightAfter([off |-> place.off, size |-> place.size], r, image[r])
    BY <1>1, <1>2 DEF RightAfter, File
  <1>4. OwnEntryOnly(r)
    BY <1>1, <1>2, <1>3, FillsOwnEntry, Typing
  <1>5. CachesIntact' /\ cache' \in [Ranks -> Storage] /\ \A t \in Ranks : Keeps(t)
    BY <1>1, Typing, UnchangedCache DEF CachesIntact
  <1> QED BY <1>1, <1>2, <1>4, <1>5, GetReturns, Typing DEF HitTypes

LEMMA StepFetchFails ==
    ASSUME Inv, NEW r \in Ranks, GetLocalFetchFails(r), UNCHANGED do_decode
    PROVE  Inv'
  <1>1. /\ pc[r] = "get"
        /\ Return(r, "nowhere", FALSE, <<>>, Unset)
        /\ cache' = cache /\ index' = index /\ sum' = sum /\ holder' = holder
    BY DEF GetLocalFetchFails, InGet
  <1>2. CachesIntact' /\ cache' \in [Ranks -> Storage] /\ \A t \in Ranks : Keeps(t)
    BY <1>1, Typing, UnchangedCache DEF CachesIntact
  <1> QED BY <1>1, <1>2, GetReturns, Typing, UnchangedIndex

LEMMA StepNoRoom ==
    ASSUME Inv, NEW r \in Ranks, GetLocalNoRoom(r), UNCHANGED do_decode
    PROVE  Inv'
  <1>1. /\ pc[r] = "get"
        /\ FillIndex(r, -1, SizeOf[File(r)])
        /\ Return(r, "Miss", TRUE, Content(File(r)), "Miss")
        /\ cache' = cache /\ sum' = sum /\ holder' = holder
    BY DEF GetLocalNoRoom, InGet, ReturnFile
  <1>2. OwnEntryOnly(r)
    BY <1>1, FillsOwnEntry, Typing DEF RightAfter
  <1>3. CachesIntact' /\ cache' \in [Ranks -> Storage] /\ \A t \in Ranks : Keeps(t)
    BY <1>1, Typing, UnchangedCache DEF CachesIntact
  <1> QED BY <1>1, <1>2, <1>3, GetReturns, Typing DEF HitTypes

LEMMA StepBeginPlacing ==
    ASSUME Inv, NEW r \in Ranks, GetLocalBeginPlacing(r), UNCHANGED do_decode
    PROVE  Inv'
  <1>1. /\ pc[r] = "get"
        /\ ~Exists(cache[r], File(r)) /\ Fits(cache[r], File(r))
        /\ cache' = [cache EXCEPT ![r] = BeginCopy(@, File(r))]
        /\ pc' = [pc EXCEPT ![r] = "copy"]
        /\ UNCHANGED <<epoch, image, index, entered, sum, holder, hitType, hits, answer>>
    BY DEF GetLocalBeginPlacing, InGet
  <1>2. pc'[r] = "copy"
    BY <1>1 DEF Inv, TypeOK
  <1>3. ~Exists(cache'[r], File(r)) /\ Fits(cache'[r], File(r))
    <2>1. cache'[r] = BeginCopy(cache[r], File(r))
      BY <1>1, Typing
    <2> QED BY <1>1, <2>1 DEF BeginCopy, Exists, Fits
  <1> QED BY <1>1, <1>2, <1>3, PlacingKeeps, GetGoesOn, Typing DEF OutsideSync

LEMMA StepFinishPlacing ==
    ASSUME Inv, NEW r \in Ranks, GetLocalFinishPlacing(r), UNCHANGED do_decode
    PROVE  Inv'
  <1>1. /\ pc[r] = "copy"
        /\ cache' = [cache EXCEPT ![r] = FinishCopy(@, File(r))]
        /\ FillIndex(r, cache[r].current_offset, SizeOf[File(r)])
        /\ Return(r, "Miss", TRUE, Content(File(r)), "Miss")
        /\ sum' = sum /\ holder' = holder
    BY DEF GetLocalFinishPlacing, ReturnFile
  <1>2. Fits(cache[r], File(r))
    BY <1>1 DEF Inv, CopyHasRoom
  <1>3. Holds(cache'[r], File(r), cache[r].current_offset) /\ cache[r].current_offset \in Nat
    <2>1. cache[r] \in Storage /\ Intact(cache[r]) /\ File(r) \in Files
      BY Typing DEF CachesIntact
    <2>2. cache'[r] = FinishCopy(cache[r], File(r))
      BY <1>1, Typing
    <2> QED BY <1>2, <2>1, <2>2, FinishCopyOK, StorageFields
  <1>4. RightAfter([off |-> cache[r].current_offset, size |-> SizeOf[File(r)]], r, image[r])
    BY <1>3 DEF RightAfter, File
  <1>5. OwnEntryOnly(r)
    BY <1>1, <1>3, <1>4, FillsOwnEntry, Typing
  <1>6. /\ cache' \in [Ranks -> Storage]
        /\ CachesIntact'
        /\ \A t \in Ranks : Keeps(t)
        /\ \A s \in Ranks \ {r} : cache'[s] = cache[s]
    BY <1>1, <1>2, PlacingKeeps
  <1> QED BY <1>1, <1>5, <1>6, GetReturns, Typing DEF HitTypes

\* cacheMiss, from wherever it is called.
LEMMA StepCacheMiss ==
    ASSUME Inv, NEW r \in Ranks, UNCHANGED do_decode, pc[r] = "get", CacheMiss(r),
           UNCHANGED <<cache, index, sum, holder>>
    PROVE  Inv'
  <1>1. CachesIntact' /\ cache' \in [Ranks -> Storage] /\ \A t \in Ranks : Keeps(t)
    BY Typing, UnchangedCache DEF CachesIntact
  <1>2. OwnEntryOnly(r)
    BY UnchangedIndex
  <1>3. CASE Exists(cache[r], File(r)) /\ Return(r, "Miss", TRUE, ReadFile(cache[r], File(r)), "Miss")
    <2>1. ReadFile(cache[r], File(r)) = Content(File(r))
      BY <1>3, StoredFile
    <2> QED BY <1>1, <1>2, <1>3, <2>1, GetReturns, Typing DEF HitTypes
  <1>4. CASE Return(r, "Miss", TRUE, Content(File(r)), "Miss")
    BY <1>1, <1>2, <1>4, GetReturns, Typing DEF HitTypes
  <1>5. CASE Return(r, "Miss", FALSE, <<>>, "Miss")
    BY <1>1, <1>2, <1>5, GetReturns, Typing DEF HitTypes
  <1> QED BY <1>3, <1>4, <1>5 DEF CacheMiss, ReturnFile

LEMMA StepDirectly ==
    ASSUME Inv, NEW r \in Ranks, GetDirectly(r), UNCHANGED do_decode
    PROVE  Inv'
  BY StepCacheMiss DEF GetDirectly, InGet

LEMMA StepClusterFull ==
    ASSUME Inv, NEW r \in Ranks, GetClusterFull(r), UNCHANGED do_decode
    PROVE  Inv'
  BY StepCacheMiss DEF GetClusterFull, AsksCluster, InGet

LEMMA StepClusterBegin ==
    ASSUME Inv, NEW r \in Ranks, GetClusterBegin(r), UNCHANGED do_decode
    PROVE  Inv'
  <1>1. /\ pc[r] = "get"
        /\ Targets[image[r]] # {} /\ EntryOfTarget(r).off >= 0
        /\ pc' = [pc EXCEPT ![r] = "lock"]
        /\ UNCHANGED <<epoch, image, cache, index, entered, sum, holder, hitType, hits, answer>>
    BY DEF GetClusterBegin, AsksCluster, InGet
  <1>2. pc'[r] = "lock"
    BY <1>1 DEF Inv, TypeOK
  <1>3. CachesIntact' /\ cache' \in [Ranks -> Storage] /\ \A t \in Ranks : Keeps(t)
    BY <1>1, Typing, UnchangedCache DEF CachesIntact
  <1> QED BY <1>1, <1>2, <1>3, GetGoesOn, Typing DEF OutsideSync

LEMMA StepWinLock ==
    ASSUME Inv, NEW r \in Ranks, WinLock(r), UNCHANGED do_decode
    PROVE  Inv'
  <1>1. /\ pc[r] = "lock"
        /\ pc' = [pc EXCEPT ![r] = "read"]
        /\ holder' = [holder EXCEPT ![Chosen(image[r])] = r]
        /\ UNCHANGED <<epoch, image, cache, index, entered, sum, hitType, hits, answer>>
    BY DEF WinLock
  <1>2. pc'[r] = "read"
    BY <1>1 DEF Inv, TypeOK
  <1>3. Targets[image[r]] # {} /\ EntryOfTarget(r).off >= 0
    BY <1>1 DEF Inv, ReadHasEntry
  <1>4. holder' \in [Ranks -> Ranks \cup {NoRank}]
    BY <1>1, Typing
  <1>5. CachesIntact' /\ cache' \in [Ranks -> Storage] /\ \A t \in Ranks : Keeps(t)
    BY <1>1, Typing, UnchangedCache DEF CachesIntact
  <1> QED BY <1>1, <1>2, <1>3, <1>4, <1>5, GetGoesOn DEF OutsideSync

LEMMA StepClusterRead ==
    ASSUME Inv, NEW r \in Ranks, GetClusterRead(r), UNCHANGED do_decode
    PROVE  Inv'
  <1> DEFINE t == Chosen(image[r])
             place == EntryOfTarget(r)
  <1>1. /\ pc[r] = "read"
        /\ holder' = [holder EXCEPT ![t] = NoRank]
        /\ Return(r, "Cluster", TRUE, Read(cache[t], place.off, place.size), "Cluster")
        /\ cache' = cache /\ index' = index /\ sum' = sum
    BY DEF GetClusterRead
  <1>2. Targets[image[r]] # {} /\ place.off >= 0
    BY <1>1 DEF Inv, ReadHasEntry
  <1>3. t \in Ranks /\ image[r] \in Images
    BY <1>2, Typing, ChosenIsTarget
  <1>4. Right(place, t, image[r])
    BY <1>3 DEF Inv, IndexRight, EntryOfTarget
  <1>5. \/ Read(cache[t], place.off, place.size) = Content(File(r))
        \/ DOMAIN Read(cache[t], place.off, place.size) = {}
    <2>1. CASE place = NoEntry
      <3>1. place.size = 0
        BY <2>1 DEF NoEntry
      <3>2. DOMAIN Read(cache[t], place.off, place.size) = 0 .. (0 - 1)
        BY <3>1 DEF Read
      <3> QED BY <3>2
    <2>2. CASE place.size = SizeOf[File(r)] /\ Holds(cache[t], File(r), place.off)
      BY <2>2 DEF Holds
    <2> QED BY <1>2, <1>4, <2>1, <2>2 DEF Right, File
  <1>6. holder' \in [Ranks -> Ranks \cup {NoRank}]
    BY <1>1, Typing
  <1>7. CachesIntact' /\ cache' \in [Ranks -> Storage] /\ \A s \in Ranks : Keeps(s)
    BY <1>1, Typing, UnchangedCache DEF CachesIntact
  <1> HIDE DEF t, place
  <1> QED BY <1>1, <1>5, <1>6, <1>7, GetReturns, UnchangedIndex DEF HitTypes

-----------------------------------------------------------------------------
(* The steps of the collective calls preserve the invariant.                  *)

\* A step that leaves caches, indices, answers and locks alone, and the sum
\* too or else rightly changed.
LEMMA CollectiveStep ==
    ASSUME Inv, NEW r \in Ranks, UNCHANGED do_decode, Moves(r),
           pc'[r] \notin {"copy", "lock", "read"},
           UNCHANGED <<cache, holder, hitType, hits, answer>>,
           index' \in [Ranks -> Index], sum' \in Index,
           \A s \in Ranks \ {r} : index'[s] = index[s],
           IndexRight', SumRight', OwnRowOnly', SumOfContributors'
    PROVE  Inv'
  <1>1. TypeOK'
    BY DEF Inv, TypeOK, Moves
  <1>2. CachesIntact' /\ NeverAnotherImage'
    BY DEF Inv, CachesIntact, NeverAnotherImage
  <1>3. CopyHasRoom'
    <2>1. ASSUME NEW s \in Ranks, pc'[s] = "copy"
          PROVE  ~Exists(cache[s], FileOf[image'[s]]) /\ Fits(cache[s], FileOf[image'[s]])
      BY <2>1 DEF Inv, CopyHasRoom, Moves, File
    <2> QED BY <2>1 DEF CopyHasRoom, File
  <1>4. ReadHasEntry'
    <2>1. ASSUME NEW s \in Ranks, pc'[s] \in {"lock", "read"}
          PROVE  Targets[image'[s]] # {} /\ index'[s][Chosen(image'[s])][image'[s]].off >= 0
      <3>1. s # r /\ pc[s] = pc'[s] /\ image'[s] = image[s] /\ index'[s] = index[s]
        BY <2>1 DEF Moves
      <3> QED BY <2>1, <3>1 DEF Inv, ReadHasEntry, EntryOfTarget
    <2> QED BY <2>1 DEF ReadHasEntry, EntryOfTarget
  <1> QED BY <1>1, <1>2, <1>3, <1>4 DEF Inv

\* ... in particular one that changes neither index nor sum, by which the rank
\* does not go back before Sync.
LEMMA QuietStep ==
    ASSUME Inv, NEW r \in Ranks, UNCHANGED do_decode, Moves(r),
           pc'[r] \notin {"copy", "lock", "read"},
           UNCHANGED <<cache, index, sum, holder, hitType, hits, answer>>,
           Contributed(r) => Contributed(r)', Synced(r) => Synced(r)'
    PROVE  Inv'
  <1>1. \A s \in Ranks : (Contributed(s) => Contributed(s)') /\ (Synced(s) => Synced(s)')
    BY DEF Moves, Contributed, Synced
  <1>2. IndexRight' /\ SumRight'
    BY DEF Inv, IndexRight, SumRight, Right
  <1>3. OwnRowOnly' /\ SumOfContributors'
    BY <1>1 DEF Inv, OwnRowOnly, SumOfContributors
  <1>4. index' \in [Ranks -> Index] /\ sum' \in Index
    BY DEF Inv, TypeOK
  <1> QED BY <1>2, <1>3, <1>4, CollectiveStep

LEMMA StepIops ==
    ASSUME Inv, NEW r \in Ranks, LeaveIops(r), UNCHANGED do_decode
    PROVE  Inv'
  <1>1. /\ EnterCollective(r, "throughput") /\ "throughput" \in Collectives
        /\ UNCHANGED <<epoch, image, sum>> /\ Quiet /\ pc[r] = "iops"
    BY DEF LeaveIops, Collectives
  <1>2. Moves(r) /\ pc'[r] = "throughput"
    BY <1>1, EnterMoves DEF Inv, TypeOK, Moves
  <1> QED BY <1>1, <1>2, QuietStep DEF Quiet, Contributed, Synced

LEMMA StepThroughput ==
    ASSUME Inv, NEW r \in Ranks, LeaveThroughput(r), UNCHANGED do_decode
    PROVE  Inv'
  <1>1. /\ NextImage(r)
        /\ UNCHANGED <<epoch, sum>> /\ Quiet /\ pc[r] = "throughput"
    BY DEF LeaveThroughput
  <1>2. Moves(r) /\ pc'[r] \in {"get", "epochIops"}
    BY <1>1, NextImageMoves DEF Inv
  <1> QED BY <1>1, <1>2, QuietStep DEF Quiet, Contributed, Synced

LEMMA StartEpochMoves ==
    ASSUME TypeOK, NEW r \in Ranks, NEW e \in Nat, e > 0, StartEpoch(r, e), entered' = entered
    PROVE  /\ Moves(r)
           /\ pc'[r] \in {"get", "done"}
           /\ epoch'[r] > 0 \/ pc'[r] = "done"
  <1>1. CASE e < Epochs
    <2>1. e \in 0 .. (Epochs - 1) /\ 0 \in Images
      BY <1>1, Constants
    <2>2. /\ pc' = [pc EXCEPT ![r] = "get"]
          /\ epoch' = [epoch EXCEPT ![r] = e]
          /\ image' = [image EXCEPT ![r] = 0]
      BY <1>1 DEF StartEpoch
    <2>3. /\ pc \in [Ranks -> Locations] /\ epoch \in [Ranks -> 0 .. (Epochs - 1)]
          /\ image \in [Ranks -> Images] /\ entered \in [Ranks -> Nat]
      BY DEF TypeOK
    <2> QED BY <2>1, <2>2, <2>3 DEF Moves, Locations
  <1>2. CASE ~(e < Epochs)
    BY <1>2 DEF StartEpoch, TypeOK, Moves, Locations
  <1> QED BY <1>1, <1>2

LEMMA StepFence ==
    ASSUME Inv, NEW r \in Ranks, LeaveFence(r), UNCHANGED do_decode
    PROVE  Inv'
  <1>1. StartEpoch(r, 1) /\ UNCHANGED <<entered, sum>> /\ Quiet
    BY DEF LeaveFence
  <1>2. /\ Moves(r)
        /\ pc'[r] \in {"get", "done"}
        /\ epoch'[r] > 0 \/ pc'[r] = "done"
    BY <1>1, StartEpochMoves DEF Inv
  <1> QED BY <1>1, <1>2, QuietStep DEF Quiet, Contributed, Synced

LEMMA StepWinCreate ==
    ASSUME Inv, NEW r \in Ranks, LeaveWinCreate(r), UNCHANGED do_decode
    PROVE  Inv'
  <1>1. /\ EnterCollective(r, "fence") /\ "fence" \in Collectives
        /\ UNCHANGED <<epoch, image, sum>> /\ Quiet /\ pc[r] = "winCreate"
    BY DEF LeaveWinCreate, Collectives
  <1>2. Moves(r) /\ pc'[r] = "fence"
    BY <1>1, EnterMoves DEF Inv, TypeOK, Moves
  <1> QED BY <1>1, <1>2, QuietStep DEF Quiet, Contributed, Synced

\* Summing two entries of which one is empty gives the other one.
LEMMA SumWithEmpty ==
    ASSUME NEW a \in IndexEntry, NEW b \in IndexEntry, a = NoEntry \/ b = NoEntry
    PROVE  LET c == [off |-> a.off + b.off, size |-> a.size + b.size]
           IN  c \in IndexEntry /\ (c = a \/ c = b)
  BY DEF IndexEntry, NoEntry

LEMMA StepEpochIops ==
    ASSUME Inv, NEW r \in Ranks, LeaveEpochIops(r), UNCHANGED do_decode
    PROVE  Inv'
  <1>1. pc[r] = "epochIops" /\ Quiet
    BY DEF LeaveEpochIops
  <1>2. CASE epoch[r] # 0
    <2>1. StartEpoch(r, epoch[r] + 1) /\ UNCHANGED <<sum, entered>>
      BY <1>2 DEF LeaveEpochIops
    <2>2. epoch[r] + 1 \in Nat /\ epoch[r] + 1 > 0
      BY Constants DEF Inv, TypeOK
    <2>3. /\ Moves(r)
          /\ pc'[r] \in {"get", "done"}
          /\ epoch'[r] > 0 \/ pc'[r] = "done"
      BY <2>1, <2>2, StartEpochMoves DEF Inv
    <2> QED BY <1>1, <2>1, <2>3, QuietStep DEF Quiet, Contributed, Synced
  <1>3. CASE epoch[r] = 0
    <2>1. /\ EnterCollective(r, "sync") /\ "sync" \in Collectives
          /\ sum' = AddRows(sum, index[r])
          /\ UNCHANGED <<epoch, image>>
      BY <1>3 DEF LeaveEpochIops, Collectives
    <2>2. Moves(r) /\ pc'[r] = "sync"
      BY <2>1, EnterMoves DEF Inv, TypeOK, Moves
    <2>3. ~Contributed(r) /\ ~Synced(r)
      BY <1>1, <1>3 DEF Contributed, Synced
    <2>4. \A s \in Ranks : (Contributed(s) => Contributed(s)') /\ (Synced(s)' => Synced(s))
                            /\ (Synced(s) => Synced(s)')
      BY <1>3, <2>1, <2>2, <2>3 DEF Moves, Contributed, Synced
    <2>5. ASSUME NEW t \in Ranks, NEW i \in Images
          PROVE  /\ sum'[t][i] \in IndexEntry
                 /\ Right(sum'[t][i], t, i)
                 /\ t # r => sum'[t][i] = sum[t][i]
      <3> DEFINE a == sum[t][i]
                 b == index[r][t][i]
      <3>1. a \in IndexEntry /\ b \in IndexEntry
        BY DEF Inv, TypeOK, Index
      <3>2. t = r => a = NoEntry
        BY <2>3 DEF Inv, SumOfContributors
      <3>3. t # r => b = NoEntry
        BY <2>3 DEF Inv, OwnRowOnly
      <3>4. sum'[t][i] = [off |-> a.off + b.off, size |-> a.size + b.size]
        BY <2>1 DEF AddRows
      <3>5. Right(a, t, i) /\ Right(b, t, i)
        BY DEF Inv, SumRight, IndexRight
      <3>6. b = NoEntry => sum'[t][i] = a
        BY <3>1, <3>4 DEF IndexEntry, NoEntry
      <3> HIDE DEF a, b
      <3>7. sum'[t][i] \in IndexEntry /\ (sum'[t][i] = a \/ sum'[t][i] = b)
        BY <3>1, <3>2, <3>3, <3>4, SumWithEmpty
      <3>8. Right(sum'[t][i], t, i)
        BY <3>5, <3>7
      <3> QED BY <3>3, <3>6, <3>7, <3>8 DEF a
    <2>6. sum' \in Index
      <3>1. sum' = [t \in Ranks |-> [i \in Images |-> sum'[t][i]]]
        BY <2>1 DEF AddRows
      <3> QED BY <2>5, <3>1 DEF Index
    <2>7. SumRight' /\ IndexRight'
      BY <1>1, <2>5 DEF SumRight, IndexRight, Right, Quiet, Inv
    <2>8. OwnRowOnly'
      BY <1>1, <2>4 DEF OwnRowOnly, Quiet, Inv
    <2>9. SumOfContributors'
      <3>1. ASSUME NEW t \in Ranks, NEW i \in Images, ~Contributed(t)'
            PROVE  sum'[t][i] = NoEntry
        <4>1. t # r
          BY <2>2, <3>1 DEF Contributed
        <4>2. ~Contributed(t)
          BY <2>4, <3>1
        <4> QED BY <2>5, <4>1, <4>2 DEF Inv, SumOfContributors
      <3> QED BY <3>1 DEF SumOfContributors
    <2>10. index' \in [Ranks -> Index] /\ \A s \in Ranks \ {r} : index'[s] = index[s]
      BY <1>1 DEF Inv, TypeOK, Quiet
    <2> QED BY <1>1, <2>2, <2>6, <2>7, <2>8, <2>9, <2>10, CollectiveStep DEF Quiet
  <1> QED BY <1>2, <1>3

LEMMA StepSync ==
    ASSUME Inv, NEW r \in Ranks, LeaveSync(r), UNCHANGED do_decode
    PROVE  Inv'
  <1>1. /\ pc[r] = "sync"
        /\ index' = [index EXCEPT ![r] =
               [t \in Ranks |-> [i \in Images |->
                   IF Reduced(t, i) THEN sum[t][i] ELSE index[r][t][i]]]]
        /\ EnterCollective(r, "winCreate") /\ "winCreate" \in Collectives
        /\ UNCHANGED <<epoch, image, sum, cache, holder, hitType, hits, answer>>
    BY DEF LeaveSync, Collectives
  <1>2. Moves(r) /\ pc'[r] = "winCreate"
    BY <1>1, EnterMoves DEF Inv, TypeOK, Moves
  <1>3. index \in [Ranks -> Index] /\ sum \in Index
    BY DEF Inv, TypeOK
  <1>4. /\ \A s \in Ranks \ {r} : index'[s] = index[s]
        /\ index'[r] = [t \in Ranks |-> [i \in Images |->
                          IF Reduced(t, i) THEN sum[t][i] ELSE index[r][t][i]]]
    BY <1>1, <1>3
  <1>5. ASSUME NEW t \in Ranks, NEW i \in Images
        PROVE  index'[r][t][i] = sum[t][i] \/ index'[r][t][i] = index[r][t][i]
    BY <1>4
  <1>6. index' \in [Ranks -> Index]
    <2>1. index'[r] \in Index
      BY <1>3, <1>4 DEF Index
    <2>2. index' = [index EXCEPT ![r] = index'[r]]
      BY <1>1, <1>3
    <2> QED BY <1>3, <2>1, <2>2
  <1>7. IndexRight' /\ SumRight'
    <2>1. ASSUME NEW s \in Ranks, NEW t \in Ranks, NEW i \in Images
          PROVE  Right(index'[s][t][i], t, i)
      <3>1. CASE s = r
        BY <1>5, <3>1 DEF Inv, IndexRight, SumRight
      <3>2. CASE s # r
        BY <1>4, <3>2 DEF Inv, IndexRight
      <3> QED BY <3>1, <3>2
    <2> QED BY <1>1, <2>1 DEF IndexRight, SumRight, Right, Inv
  <1>8. \A s \in Ranks : (Contributed(s) => Contributed(s)') /\ (Synced(s) => Synced(s)')
    BY <1>1, <1>2 DEF Moves, Contributed, Synced
  <1>9. OwnRowOnly' /\ SumOfContributors'
    <2>1. Synced(r)'
      BY <1>2 DEF Synced
    <2>2. ASSUME NEW s \in Ranks, NEW t \in Ranks, NEW i \in Images, s # t, ~Synced(s)'
          PROVE  index'[s][t][i] = NoEntry
      <3>1. s # r /\ ~Synced(s)
        BY <1>8, <2>1, <2>2
      <3> QED BY <1>4, <2>2, <3>1 DEF Inv, OwnRowOnly
    <2>3. OwnRowOnly'
      BY <2>2 DEF OwnRowOnly
    <2>4. SumOfContributors'
      BY <1>1, <1>8 DEF Inv, SumOfContributors
    <2> QED BY <2>3, <2>4
  <1>10. sum' \in Index
    BY <1>1, <1>3
  <1> QED BY <1>1, <1>2, <1>4, <1>6, <1>7, <1>9, <1>10, CollectiveStep

-----------------------------------------------------------------------------
(* The theorems.                                                              *)

LEMMA InvInit == Init => Inv
  <1> SUFFICES ASSUME Init PROVE Inv
    OBVIOUS
  <1>1. /\ NoEntry \in IndexEntry
        /\ InitialIndex \in Index
        /\ \A t \in Ranks, i \in Images : InitialIndex[t][i] = NoEntry
    BY DEF NoEntry, IndexEntry, InitialIndex, Index
  <1>2. \A r \in Ranks : cache[r] = EmptyCache /\ index[r] = InitialIndex /\ pc[r] = "get"
                           /\ answer[r] = NoAnswer
    BY DEF Init
  <1>3. TypeOK
    BY <1>1, EmptyCacheOK, Constants, ConstantsAssumption DEF Init, TypeOK, Locations
  <1>4. CachesIntact
    BY <1>2, EmptyCacheOK DEF CachesIntact
  <1>5. CopyHasRoom /\ ReadHasEntry
    BY <1>2 DEF CopyHasRoom, ReadHasEntry
  <1>6. IndexRight /\ OwnRowOnly
    BY <1>1, <1>2 DEF IndexRight, OwnRowOnly, Right
  <1>7. SumRight /\ SumOfContributors
    BY <1>1 DEF SumRight, SumOfContributors, Right, Init
  <1>8. NeverAnotherImage
    BY <1>2 DEF NeverAnotherImage, NoAnswer
  <1> QED BY <1>3, <1>4, <1>5, <1>6, <1>7, <1>8 DEF Inv

LEMMA InvStutter == Inv /\ UNCHANGED vars => Inv'
  <1> SUFFICES ASSUME Inv, UNCHANGED vars PROVE Inv'
    OBVIOUS
  <1>1. /\ pc' = pc /\ epoch' = epoch /\ image' = image /\ cache' = cache /\ index' = index
        /\ entered' = entered /\ sum' = sum /\ holder' = holder /\ hitType' = hitType
        /\ hits' = hits /\ answer' = answer /\ do_decode' = do_decode
    BY DEF vars
  <1>2. TypeOK' /\ CachesIntact' /\ NeverAnotherImage'
    BY <1>1 DEF Inv, TypeOK, CachesIntact, NeverAnotherImage
  <1>3. CopyHasRoom' /\ ReadHasEntry'
    BY <1>1 DEF Inv, CopyHasRoom, ReadHasEntry, File, EntryOfTarget
  <1>4. IndexRight' /\ SumRight'
    BY <1>1 DEF Inv, IndexRight, SumRight, Right
  <1>5. OwnRowOnly' /\ SumOfContributors'
    BY <1>1 DEF Inv, OwnRowOnly, SumOfContributors, Synced, Contributed
  <1> QED BY <1>2, <1>3, <1>4, <1>5 DEF Inv

LEMMA InvStep == Inv /\ [Next]_vars => Inv'
  <1> SUFFICES ASSUME Inv, [Next]_vars PROVE Inv'
    OBVIOUS
  <1>1. ASSUME NEW r \in Ranks, Get(r), UNCHANGED do_decode PROVE Inv'
    BY <1>1, StepLocalHit, StepFetchFails, StepNoRoom, StepBeginPlacing, StepFinishPlacing,
       StepDirectly, StepClusterFull, StepClusterBegin, StepWinLock, StepClusterRead
       DEF Get
  <1>2. ASSUME NEW r \in Ranks, LeaveCollective(r), UNCHANGED do_decode PROVE Inv'
    BY <1>2, StepIops, StepThroughput, StepEpochIops, StepSync, StepWinCreate, StepFence
       DEF LeaveCollective
  <1>3. ASSUME JobOver \/ UNCHANGED vars PROVE Inv'
    BY <1>3, InvStutter DEF JobOver
  <1> QED BY <1>1, <1>2, <1>3 DEF Next, Step

THEOREM Invariance == Spec => []Inv
  BY InvInit, InvStep, PTL DEF Spec

\* The state of the program keeps its type.
THEOREM TypeCorrect == Spec => []TypeOK
  <1>1. Inv => TypeOK
    BY DEF Inv
  <1> QED BY <1>1, Invariance, PTL

\* No rank's buffer ever disagrees with its hash_data_.
THEOREM CachesStayIntact == Spec => []CachesIntact
  <1>1. Inv => CachesIntact
    BY DEF Inv
  <1> QED BY <1>1, Invariance, PTL

\* What a rank reads in its index about another rank's buffer is true, at any
\* time and however far apart the two ranks are.
THEOREM IndexIsRight == Spec => []IndexPointsAtImages
  <1>1. Inv => IndexPointsAtImages
    <2> SUFFICES ASSUME Inv, NEW r \in Ranks, NEW t \in Ranks, NEW i \in Images,
                        index[r][t][i].off >= 0, index[r][t][i] # NoEntry
                 PROVE  /\ index[r][t][i].size = SizeOf[FileOf[i]]
                        /\ Holds(cache[t], FileOf[i], index[r][t][i].off)
      BY DEF IndexPointsAtImages
    <2>1. Right(index[r][t][i], t, i)
      BY DEF Inv, IndexRight
    <2> QED BY <2>1 DEF Right
  <1> QED BY <1>1, Invariance, PTL

\* Get returns the image it was asked for, or no bytes at all.
THEOREM NeverTheWrongBytes == Spec => []NeverAnotherImage
  <1>1. Inv => NeverAnotherImage
    BY DEF Inv
  <1> QED BY <1>1, Invariance, PTL
-----------------------------------------------------------------------------
(* From here on the proofs are about the ranks staying in agreement: they     *)
(* make the same collective calls, Sync leaves them with the same index, and  *)
(* so a cluster hit is the image.  If no download fails, they implement       *)
(* LockstepReaders.                                                           *)


-----------------------------------------------------------------------------
(* How many comparisons of rates there are before image i.                    *)

PrintsBefore(i) == {j \in 0 .. (i - 1) : AtPrint(j)}

Prints(i) == Cardinality(PrintsBefore(i))

LEMMA PrintsType == \A i \in Nat : IsFiniteSet(PrintsBefore(i)) /\ Prints(i) \in Nat
  <1> SUFFICES ASSUME NEW i \in Nat PROVE IsFiniteSet(PrintsBefore(i)) /\ Prints(i) \in Nat
    OBVIOUS
  <1>1. IsFiniteSet(0 .. (i - 1))
    BY FS_Interval
  <1>2. PrintsBefore(i) \in SUBSET (0 .. (i - 1))
    BY DEF PrintsBefore
  <1>3. IsFiniteSet(PrintsBefore(i))
    BY <1>1, <1>2, FS_Subset
  <1> QED BY <1>3, FS_CardinalityType DEF Prints

LEMMA PrintsStart == Prints(0) = 0
  <1>1. PrintsBefore(0) = {}
    BY DEF PrintsBefore
  <1> QED BY <1>1, FS_EmptySet DEF Prints

LEMMA PrintsNext ==
    ASSUME NEW i \in Nat
    PROVE  Prints(i + 1) = Prints(i) + (IF AtPrint(i) THEN 1 ELSE 0)
  <1>1. CASE AtPrint(i)
    <2>1. PrintsBefore(i + 1) = PrintsBefore(i) \cup {i} /\ i \notin PrintsBefore(i)
      BY <1>1 DEF PrintsBefore
    <2> QED BY <1>1, <2>1, PrintsType, FS_AddElement DEF Prints
  <1>2. CASE ~AtPrint(i)
    <2>1. PrintsBefore(i + 1) = PrintsBefore(i)
      BY <1>2 DEF PrintsBefore
    <2> QED BY <1>2, <2>1, PrintsType DEF Prints
  <1> QED BY <1>1, <1>2

LEMMA PrintsGrow == ASSUME NEW i \in Nat, NEW k \in Nat, i <= k PROVE Prints(i) <= Prints(k)
  <1>1. PrintsBefore(i) \in SUBSET PrintsBefore(k)
    BY DEF PrintsBefore
  <1> QED BY <1>1, PrintsType, FS_Subset DEF Prints

\* Two images before which the rates are compared equally often, and after
\* which they are compared, are the same.
LEMMA PrintsSeparate ==
    ASSUME NEW i \in Nat, NEW k \in Nat, AtPrint(i), i < k
    PROVE  Prints(i) + 1 <= Prints(k)
  <1>1. Prints(i + 1) = Prints(i) + 1
    BY PrintsNext
  <1>2. Prints(i + 1) <= Prints(k)
    BY PrintsGrow
  <1> QED BY <1>1, <1>2

-----------------------------------------------------------------------------
(* The number of collective calls a rank has entered follows from where it is.*)

\* The calls of one epoch_loop, and those before epoch e (Sync has three).
CallsOfEpoch == 2 * Prints(ImageCount) + 1

CallsBefore(e) == e * CallsOfEpoch + (IF e > 0 THEN 3 ELSE 0)

InLoop == {"get", "copy", "lock", "read"}

CallInEpoch(where, i) ==
    CASE where \in InLoop       -> 2 * Prints(i)
      [] where = "iops"         -> 2 * Prints(i) + 1
      [] where = "throughput"   -> 2 * Prints(i) + 2
      [] where = "epochIops"    -> CallsOfEpoch
      [] where = "sync"         -> CallsOfEpoch + 1
      [] where = "winCreate"    -> CallsOfEpoch + 2
      [] where = "fence"        -> CallsOfEpoch + 3

InSync == {"sync", "winCreate", "fence"}

Counted(r) ==
    /\ pc[r] \notin {"done", "aborted"} =>
          entered[r] = CallsBefore(epoch[r]) + CallInEpoch(pc[r], image[r])
    /\ pc[r] \in {"iops", "throughput"} => AtPrint(image[r])
    /\ pc[r] \in InSync \cup {"epochIops", "done"} => image[r] = ImageCount - 1
    /\ pc[r] \in InSync => epoch[r] = 0

CountedInv == \A r \in Ranks : Counted(r)

LEMMA EpochNumbers ==
    /\ CallsOfEpoch \in Nat \ {0}
    /\ \A e \in Nat : CallsBefore(e) \in Nat
    /\ \A e \in Nat : e > 0 => CallsBefore(e + 1) = CallsBefore(e) + CallsOfEpoch
    /\ CallsBefore(0) = 0
    /\ CallsBefore(1) = CallsOfEpoch + 3
  <1>1. Prints(ImageCount) \in Nat
    BY PrintsType, Constants
  <1>2. CallsOfEpoch \in Nat \ {0}
    BY <1>1 DEF CallsOfEpoch
  <1> HIDE DEF CallsOfEpoch
  <1>3. \A e \in Nat : e * CallsOfEpoch \in Nat /\ (e + 1) * CallsOfEpoch = e * CallsOfEpoch + CallsOfEpoch
    BY <1>2
  <1>4. 0 * CallsOfEpoch = 0 /\ 1 * CallsOfEpoch = CallsOfEpoch
    BY <1>2
  <1> QED BY <1>2, <1>3, <1>4 DEF CallsBefore

\* The rank goes on behind the image it is at.
LEMMA CountedNextImage ==
    ASSUME TypeOK, NEW r \in Ranks, NextImage(r), epoch' = epoch,
           entered[r] + 1 = CallsBefore(epoch[r]) + 2 * Prints(image[r] + 1) + 1
    PROVE  Counted(r)'
  <1>1. image[r] \in Nat /\ epoch[r] \in Nat /\ entered[r] \in Nat /\ image[r] + 1 \in Nat
    BY Constants DEF TypeOK, Images
  <1>2. /\ CallsBefore(epoch[r]) \in Nat /\ Prints(image[r] + 1) \in Nat
    BY <1>1, EpochNumbers, PrintsType
  <1>3. CASE LastImage(image[r])
    <2>1. /\ pc'[r] = "epochIops" /\ entered'[r] = entered[r] + 1
          /\ image'[r] = image[r] /\ epoch'[r] = epoch[r]
      BY <1>3 DEF NextImage, EnterCollective, TypeOK
    <2>2. image[r] + 1 = ImageCount
      BY <1>1, <1>3, Constants DEF LastImage
    <2> QED BY <1>1, <1>2, <1>3, <2>1, <2>2
            DEF Counted, CallInEpoch, InLoop, InSync, LastImage, CallsOfEpoch
  <1>4. CASE ~LastImage(image[r])
    <2>1. /\ pc'[r] = "get" /\ entered'[r] = entered[r]
          /\ image'[r] = image[r] + 1 /\ epoch'[r] = epoch[r]
      BY <1>4 DEF NextImage, TypeOK
    <2> QED BY <1>1, <1>2, <2>1 DEF Counted, CallInEpoch, InLoop, InSync
  <1> QED BY <1>3, <1>4

LEMMA CountedReturn ==
    ASSUME TypeOK, NEW r \in Ranks, Counted(r), pc[r] \in {"get", "copy", "read"},
           NEW from, NEW ok, NEW data, NEW type, Return(r, from, ok, data, type)
    PROVE  Counted(r)'
  <1>1. image[r] \in Nat /\ epoch[r] \in Nat /\ entered[r] \in Nat
    BY Constants DEF TypeOK, Images
  <1>2. /\ CallsBefore(epoch[r]) \in Nat /\ Prints(image[r]) \in Nat
        /\ epoch' = epoch
        /\ entered[r] = CallsBefore(epoch[r]) + 2 * Prints(image[r])
    BY <1>1, EpochNumbers, PrintsType DEF Counted, CallInEpoch, InLoop, Return
  <1>3. CASE do_decode /\ data # Content(File(r))
    <2>1. pc'[r] = "aborted"
      BY <1>3 DEF Return, Abort, TypeOK
    <2> QED BY <2>1 DEF Counted, InSync
  <1>4. CASE ~(do_decode /\ data # Content(File(r))) /\ AtPrint(image[r])
    <2>1. /\ pc'[r] = "iops" /\ entered'[r] = entered[r] + 1
          /\ image'[r] = image[r] /\ epoch'[r] = epoch[r]
      BY <1>4 DEF Return, EnterCollective, TypeOK
    <2> QED BY <1>1, <1>2, <1>4, <2>1 DEF Counted, CallInEpoch, InLoop, InSync
  <1>5. CASE ~(do_decode /\ data # Content(File(r))) /\ ~AtPrint(image[r])
    <2>1. Prints(image[r] + 1) = Prints(image[r])
      BY <1>1, <1>2, <1>5, PrintsNext
    <2> QED BY <1>1, <1>2, <1>5, <2>1, CountedNextImage DEF Return
  <1> QED BY <1>3, <1>4, <1>5

LEMMA CountedStartEpoch ==
    ASSUME TypeOK, NEW r \in Ranks, NEW e \in Nat, e > 0, StartEpoch(r, e),
           entered' = entered, image[r] = ImageCount - 1, entered[r] = CallsBefore(e)
    PROVE  Counted(r)'
  <1>1. CASE e < Epochs
    <2>1. pc'[r] = "get" /\ epoch'[r] = e /\ image'[r] = 0 /\ entered'[r] = entered[r]
      BY <1>1 DEF StartEpoch, TypeOK
    <2>2. CallsBefore(e) \in Nat
      BY EpochNumbers
    <2> QED BY <2>1, <2>2, PrintsStart DEF Counted, CallInEpoch, InLoop, InSync
  <1>2. CASE ~(e < Epochs)
    <2>1. pc'[r] = "done" /\ image'[r] = image[r]
      BY <1>2 DEF StartEpoch, TypeOK
    <2> QED BY <2>1 DEF Counted, InSync
  <1> QED BY <1>1, <1>2

\* A step inside Get, by which no collective call is entered.
LEMMA CountedGoesOn ==
    ASSUME TypeOK, NEW r \in Ranks, Counted(r), pc[r] \in InLoop, NEW where \in InLoop,
           pc' = [pc EXCEPT ![r] = where], UNCHANGED <<epoch, image, entered>>
    PROVE  Counted(r)'
  <1>1. pc'[r] = where
    BY DEF TypeOK
  <1> QED BY <1>1 DEF Counted, CallInEpoch, InLoop, InSync

LEMMA CountedGet ==
    ASSUME TypeOK, NEW r \in Ranks, Counted(r), Get(r)
    PROVE  Counted(r)'
  <1>1. ASSUME NEW from, NEW ok, NEW data, NEW type, Return(r, from, ok, data, type),
               pc[r] \in {"get", "copy", "read"}
        PROVE  Counted(r)'
    BY <1>1, CountedReturn
  <1>2. CASE GetLocalHit(r)
    BY <1>1, <1>2 DEF GetLocalHit, InGet
  <1>3. CASE GetLocalFetchFails(r)
    BY <1>1, <1>3 DEF GetLocalFetchFails, InGet
  <1>4. CASE GetLocalNoRoom(r)
    BY <1>1, <1>4 DEF GetLocalNoRoom, InGet, ReturnFile
  <1>5. CASE GetLocalBeginPlacing(r)
    BY <1>5, CountedGoesOn DEF GetLocalBeginPlacing, InGet, InLoop
  <1>6. CASE GetLocalFinishPlacing(r)
    BY <1>1, <1>6 DEF GetLocalFinishPlacing, ReturnFile
  <1>7. ASSUME CacheMiss(r), InGet(r) PROVE Counted(r)'
    BY <1>1, <1>7 DEF CacheMiss, ReturnFile, InGet
  <1>8. CASE GetDirectly(r)
    BY <1>7, <1>8 DEF GetDirectly
  <1>9. CASE GetClusterFull(r)
    BY <1>7, <1>9 DEF GetClusterFull, AsksCluster
  <1>10. CASE GetClusterBegin(r)
    BY <1>10, CountedGoesOn DEF GetClusterBegin, AsksCluster, InGet, InLoop
  <1>11. CASE WinLock(r)
    BY <1>11, CountedGoesOn DEF WinLock, InLoop
  <1>12. CASE GetClusterRead(r)
    BY <1>1, <1>12 DEF GetClusterRead
  <1> QED BY <1>2, <1>3, <1>4, <1>5, <1>6, <1>8, <1>9, <1>10, <1>11, <1>12 DEF Get

LEMMA CountedCollective ==
    ASSUME TypeOK, NEW r \in Ranks, Counted(r), LeaveCollective(r)
    PROVE  Counted(r)'
  <1>1. /\ image[r] \in Nat /\ epoch[r] \in Nat /\ entered[r] \in Nat
        /\ CallsBefore(epoch[r]) \in Nat /\ Prints(image[r]) \in Nat
        /\ CallsOfEpoch \in Nat
    <2>1. image[r] \in Nat /\ epoch[r] \in Nat /\ entered[r] \in Nat
      BY Constants DEF TypeOK, Images
    <2> QED BY <2>1, EpochNumbers, PrintsType
  <1>2. CASE LeaveIops(r)
    <2>1. /\ pc[r] = "iops" /\ pc'[r] = "throughput" /\ entered'[r] = entered[r] + 1
          /\ image'[r] = image[r] /\ epoch'[r] = epoch[r]
      BY <1>2 DEF LeaveIops, EnterCollective, TypeOK
    <2> QED BY <1>1, <2>1 DEF Counted, CallInEpoch, InLoop, InSync
  <1>3. CASE LeaveThroughput(r)
    <2>1. pc[r] = "throughput" /\ NextImage(r) /\ epoch' = epoch /\ AtPrint(image[r])
      BY <1>3 DEF LeaveThroughput, Counted
    <2>2. Prints(image[r] + 1) = Prints(image[r]) + 1
      BY <1>1, <2>1, PrintsNext
    <2>3. entered[r] = CallsBefore(epoch[r]) + 2 * Prints(image[r]) + 2
      BY <1>1, <2>1 DEF Counted, CallInEpoch, InLoop
    <2> QED BY <1>1, <2>1, <2>2, <2>3, CountedNextImage
  <1>4. CASE LeaveEpochIops(r)
    <2>1. /\ pc[r] = "epochIops" /\ image[r] = ImageCount - 1
          /\ entered[r] = CallsBefore(epoch[r]) + CallsOfEpoch
      BY <1>4 DEF LeaveEpochIops, Counted, CallInEpoch, InLoop
    <2>2. CASE epoch[r] = 0
      <3>1. /\ pc'[r] = "sync" /\ entered'[r] = entered[r] + 1
            /\ image'[r] = image[r] /\ epoch'[r] = epoch[r]
        BY <1>4, <2>2 DEF LeaveEpochIops, EnterCollective, TypeOK
      <3> QED BY <1>1, <2>1, <2>2, <3>1 DEF Counted, CallInEpoch, InLoop, InSync
    <2>3. CASE epoch[r] # 0
      <3>1. StartEpoch(r, epoch[r] + 1) /\ entered' = entered
        BY <1>4, <2>3 DEF LeaveEpochIops
      <3>2. entered[r] = CallsBefore(epoch[r] + 1)
        BY <1>1, <2>1, <2>3, EpochNumbers
      <3> QED BY <1>1, <2>1, <3>1, <3>2, CountedStartEpoch
    <2> QED BY <2>2, <2>3
  <1>5. CASE LeaveSync(r)
    <2>1. /\ pc[r] = "sync" /\ pc'[r] = "winCreate" /\ entered'[r] = entered[r] + 1
          /\ image'[r] = image[r] /\ epoch'[r] = epoch[r]
      BY <1>5 DEF LeaveSync, EnterCollective, TypeOK
    <2> QED BY <1>1, <2>1 DEF Counted, CallInEpoch, InLoop, InSync
  <1>6. CASE LeaveWinCreate(r)
    <2>1. /\ pc[r] = "winCreate" /\ pc'[r] = "fence" /\ entered'[r] = entered[r] + 1
          /\ image'[r] = image[r] /\ epoch'[r] = epoch[r]
      BY <1>6 DEF LeaveWinCreate, EnterCollective, TypeOK
    <2> QED BY <1>1, <2>1 DEF Counted, CallInEpoch, InLoop, InSync
  <1>7. CASE LeaveFence(r)
    <2>1. pc[r] = "fence" /\ StartEpoch(r, 1) /\ entered' = entered
      BY <1>7 DEF LeaveFence
    <2>2. image[r] = ImageCount - 1 /\ epoch[r] = 0
      BY <2>1 DEF Counted, InSync
    <2>3. entered[r] = CallsBefore(0) + CallsOfEpoch + 3
      BY <1>1, <2>1, <2>2 DEF Counted, CallInEpoch, InLoop
    <2> QED BY <1>1, <2>1, <2>2, <2>3, EpochNumbers, CountedStartEpoch
  <1> QED BY <1>2, <1>3, <1>4, <1>5, <1>6, <1>7 DEF LeaveCollective

\* A step of one rank leaves the control state of the others alone.
LEMMA OthersStay ==
    ASSUME TypeOK, NEW r \in Ranks, Get(r) \/ LeaveCollective(r), NEW s \in Ranks, s # r
    PROVE  UNCHANGED <<pc[s], epoch[s], image[s], entered[s]>>
  <1>1. ASSUME NextImage(r) PROVE UNCHANGED <<pc[s], image[s], entered[s]>>
    BY <1>1 DEF NextImage, EnterCollective, TypeOK
  <1>2. ASSUME NEW from, NEW ok, NEW data, NEW type, Return(r, from, ok, data, type)
        PROVE  UNCHANGED <<pc[s], epoch[s], image[s], entered[s]>>
    BY <1>1, <1>2 DEF Return, Abort, EnterCollective, TypeOK
  <1>3. CASE Get(r)
    BY <1>2, <1>3 DEF Get, GetLocalHit, GetLocalFetchFails, GetLocalNoRoom, GetLocalBeginPlacing,
       GetLocalFinishPlacing, GetDirectly, GetClusterFull, CacheMiss, GetClusterBegin, WinLock,
       GetClusterRead, ReturnFile, TypeOK
  <1>4. CASE LeaveCollective(r)
    BY <1>1, <1>4 DEF LeaveCollective, LeaveIops, LeaveThroughput, LeaveEpochIops, LeaveSync,
       LeaveWinCreate, LeaveFence, EnterCollective, StartEpoch, TypeOK
  <1> QED BY <1>3, <1>4

LEMMA CountedStep == TypeOK /\ CountedInv /\ [Next]_vars => CountedInv'
  <1> SUFFICES ASSUME TypeOK, CountedInv, [Next]_vars PROVE CountedInv'
    OBVIOUS
  <1>1. ASSUME NEW s \in Ranks, UNCHANGED <<pc[s], epoch[s], image[s], entered[s]>>
        PROVE  Counted(s)'
    BY <1>1 DEF CountedInv, Counted
  <1>2. ASSUME NEW r \in Ranks, Get(r) \/ LeaveCollective(r) PROVE CountedInv'
    <2>1. Counted(r)'
      BY <1>2, CountedGet, CountedCollective DEF CountedInv
    <2>2. \A s \in Ranks \ {r} : Counted(s)'
      BY <1>1, <1>2, OthersStay
    <2> QED BY <2>1, <2>2 DEF CountedInv
  <1>3. ASSUME UNCHANGED vars PROVE CountedInv'
    BY <1>1, <1>3 DEF vars, CountedInv
  <1> QED BY <1>2, <1>3 DEF Next, Step, JobOver

LEMMA CountedInit == Init => CountedInv
  <1> SUFFICES ASSUME Init, NEW r \in Ranks PROVE Counted(r)
    BY DEF CountedInv
  <1>1. pc[r] = "get" /\ epoch[r] = 0 /\ image[r] = 0 /\ entered[r] = 0
    BY DEF Init
  <1> QED BY <1>1, EpochNumbers, PrintsStart DEF Counted, CallInEpoch, InLoop, InSync

LEMMA EpochsApart ==
    ASSUME NEW d \in Nat, NEW e \in Nat, d < e
    PROVE  CallsBefore(d) + CallsOfEpoch + (IF d = 0 THEN 3 ELSE 0) <= CallsBefore(e)
  <1>1. PICK k \in Nat : e = d + 1 + k
    <2>1. e - d - 1 \in Nat
      OBVIOUS
    <2> QED BY <2>1
  <1>2. CallsOfEpoch \in Nat
    BY EpochNumbers
  <1>3. /\ (d + 1 + k) * CallsOfEpoch = d * CallsOfEpoch + CallsOfEpoch + k * CallsOfEpoch
        /\ d * CallsOfEpoch \in Nat /\ k * CallsOfEpoch \in Nat
    BY <1>2
  <1> HIDE DEF CallsOfEpoch
  <1> QED BY <1>1, <1>2, <1>3 DEF CallsBefore

\* The number of calls tells the epoch of the rank that waits in the last one ...
LEMMA SameEpoch ==
    ASSUME TypeOK, CountedInv, NEW r \in Ranks, NEW s \in Ranks,
           pc[r] \in Collectives, pc[s] \in Collectives, entered[r] = entered[s]
    PROVE  epoch[r] = epoch[s]
  <1>1. ASSUME NEW q \in Ranks, pc[q] \in Collectives
        PROVE  /\ CallsBefore(epoch[q]) < entered[q]
               /\ epoch[q] \in Nat /\ entered[q] \in Nat
               /\ entered[q] <= CallsBefore(epoch[q]) + CallsOfEpoch + (IF epoch[q] = 0 THEN 3 ELSE 0)
    <2>1. image[q] \in Nat /\ image[q] < ImageCount /\ epoch[q] \in Nat /\ entered[q] \in Nat
      BY Constants DEF TypeOK, Images
    <2>2. /\ CallsBefore(epoch[q]) \in Nat /\ Prints(image[q]) \in Nat /\ Prints(ImageCount) \in Nat
          /\ CallsOfEpoch \in Nat \ {0} /\ CallsOfEpoch = 2 * Prints(ImageCount) + 1
      BY <2>1, EpochNumbers, PrintsType, Constants DEF CallsOfEpoch
    <2>3. AtPrint(image[q]) => Prints(image[q]) + 1 <= Prints(ImageCount)
      BY <2>1, PrintsSeparate, Constants
    <2>4. Counted(q)
      BY DEF CountedInv
    <2> HIDE DEF CallsOfEpoch, CallsBefore
    <2> QED BY <1>1, <2>1, <2>2, <2>3, <2>4 DEF Counted, CallInEpoch, InLoop, InSync, Collectives
  <1>2. ASSUME NEW p \in Ranks, NEW q \in Ranks, pc[p] \in Collectives, pc[q] \in Collectives,
               epoch[p] < epoch[q]
        PROVE  entered[p] < entered[q]
    <2>1. CallsBefore(epoch[q]) \in Nat /\ CallsBefore(epoch[p]) \in Nat /\ CallsOfEpoch \in Nat
      BY <1>1, <1>2, EpochNumbers
    <2>2. CallsBefore(epoch[p]) + CallsOfEpoch + (IF epoch[p] = 0 THEN 3 ELSE 0)
             <= CallsBefore(epoch[q])
      BY <1>1, <1>2, EpochsApart
    <2>3. entered[p] <= CallsBefore(epoch[p]) + CallsOfEpoch + (IF epoch[p] = 0 THEN 3 ELSE 0)
      BY <1>1, <1>2
    <2>4. CallsBefore(epoch[q]) < entered[q] /\ entered[q] \in Nat /\ entered[p] \in Nat
      BY <1>1, <1>2
    <2> QED BY <2>1, <2>2, <2>3, <2>4
  <1>3. epoch[r] \in Nat /\ epoch[s] \in Nat /\ entered[r] \in Nat
    BY <1>1
  <1>4. ~(epoch[r] < epoch[s]) /\ ~(epoch[s] < epoch[r])
    BY <1>2, <1>3
  <1> QED BY <1>3, <1>4

\* ... and then the call and the image.
LEMMA SameCall == TypeOK /\ CountedInv => CollectivesMatch
  <1> SUFFICES ASSUME TypeOK, CountedInv, NEW r \in Ranks, NEW s \in Ranks,
                      pc[r] \in Collectives, pc[s] \in Collectives, entered[r] = entered[s]
               PROVE  pc[r] = pc[s] /\ epoch[r] = epoch[s] /\ image[r] = image[s]
    BY DEF CollectivesMatch
  <1>1. epoch[r] = epoch[s]
    BY SameEpoch
  <1>2. ASSUME NEW q \in Ranks, pc[q] \in Collectives
        PROVE  /\ entered[q] - CallsBefore(epoch[q]) = CallInEpoch(pc[q], image[q])
               /\ image[q] \in Nat /\ Prints(image[q]) \in Nat
               /\ pc[q] \in {"iops", "throughput"} =>
                      AtPrint(image[q]) /\ Prints(image[q]) + 1 <= Prints(ImageCount)
               /\ pc[q] \notin {"iops", "throughput"} => image[q] = ImageCount - 1
    <2>1. image[q] \in Nat /\ image[q] < ImageCount /\ epoch[q] \in Nat /\ entered[q] \in Nat
      BY Constants DEF TypeOK, Images
    <2>2. CallsBefore(epoch[q]) \in Nat /\ Prints(image[q]) \in Nat /\ CallsOfEpoch \in Nat
      BY <2>1, EpochNumbers, PrintsType
    <2>3. AtPrint(image[q]) => Prints(image[q]) + 1 <= Prints(ImageCount)
      BY <2>1, PrintsSeparate, Constants
    <2>4. Counted(q)
      BY DEF CountedInv
    <2>5. CallInEpoch(pc[q], image[q]) \in Nat
      BY <1>2, <2>2 DEF CallInEpoch, InLoop, Collectives
    <2> QED BY <1>2, <2>1, <2>2, <2>3, <2>4, <2>5 DEF Counted, InSync, Collectives
  <1>3. CallInEpoch(pc[r], image[r]) = CallInEpoch(pc[s], image[s])
    BY <1>1, <1>2
  <1>4. /\ Prints(ImageCount) \in Nat /\ CallsOfEpoch = 2 * Prints(ImageCount) + 1
    BY PrintsType, Constants DEF CallsOfEpoch
  <1>5. pc[r] = pc[s]
    BY <1>2, <1>3, <1>4 DEF CallInEpoch, InLoop, Collectives
  <1>6. CASE pc[r] \in {"iops", "throughput"}
    <2>1. Prints(image[r]) = Prints(image[s])
      BY <1>2, <1>3, <1>5, <1>6 DEF CallInEpoch, InLoop
    <2>2. ~(image[r] < image[s]) /\ ~(image[s] < image[r])
      BY <1>2, <1>5, <1>6, <2>1, PrintsSeparate
    <2> QED BY <1>1, <1>2, <1>5, <2>2
  <1>7. CASE pc[r] \notin {"iops", "throughput"}
    BY <1>1, <1>2, <1>5, <1>7
  <1> QED BY <1>6, <1>7

\* No rank's rate is ever summed with another rank's index, nor with the rate
\* of another image or epoch: ranks that have entered equally many collective
\* calls wait in the same call of the program, whatever Get returned to them.
THEOREM SameCollective == Spec => []CollectivesMatch
  <1>1. Spec => []TypeOK
    BY TypeCorrect
  <1>2. TypeOK /\ CountedInv /\ [Next]_vars => CountedInv'
    BY CountedStep
  <1> QED BY <1>1, <1>2, CountedInit, SameCall, PTL DEF Spec

-----------------------------------------------------------------------------
(* Sync: the rows that enter the sum are final, and every rank takes them.    *)

\* A rank leaves MPI_Allreduce when all rows are in the sum.
SyncWaits == \A r, s \in Ranks : Synced(r) => Contributed(s)

RowsEntered == \A s \in Ranks, i \in Images : Contributed(s) => sum[s][i] = index[s][s][i]

IndexIsSum == \A r, t \in Ranks, i \in Images : Synced(r) => index[r][t][i] = sum[t][i]

\* Other ranks' buffers are read in the later epochs, for images of theirs.
ReadsForeign == \A r \in Ranks : pc[r] \in {"lock", "read"} => epoch[r] > 0 /\ ~OwnImage(r)

\* int(image_count*2*total_procs) loses no bits.
CountFits == AllreduceCount = ImageCount * 2 * NProcs

\* What Return does to the place of the rank.
LEMMA ReturnAdvances ==
    ASSUME TypeOK, NEW r \in Ranks, NEW from, NEW ok, NEW data, NEW type,
           Return(r, from, ok, data, type)
    PROVE  /\ epoch' = epoch
           /\ \/ pc'[r] = "get" /\ image'[r] = image[r] + 1
              \/ pc'[r] \in {"iops", "epochIops", "aborted"} /\ image'[r] = image[r]
           /\ answer'[r] = [image |-> image[r], from |-> from, ok |-> ok, data |-> data]
           /\ \A s \in Ranks \ {r} : answer'[s] = answer[s]
  <1>1. NextImage(r) => \/ pc'[r] = "get" /\ image'[r] = image[r] + 1
                        \/ pc'[r] = "epochIops" /\ image'[r] = image[r]
    BY DEF NextImage, EnterCollective, TypeOK
  <1>2. \/ pc'[r] = "get" /\ image'[r] = image[r] + 1
        \/ pc'[r] \in {"iops", "epochIops", "aborted"} /\ image'[r] = image[r]
    BY <1>1 DEF Return, Abort, EnterCollective, TypeOK
  <1> QED BY <1>2 DEF Return, TypeOK

LEMMA FillsOwnOnly ==
    ASSUME TypeOK, NEW r \in Ranks, NEW off, NEW size, FillIndex(r, off, size)
    PROVE  /\ \A s, t \in Ranks, i \in Images :
                 index'[s][t][i] # index[s][t][i] => s = r /\ t = r /\ i = image[r] /\ epoch[r] = 0
           /\ epoch[r] = 0 => index'[r][r][image[r]] = [off |-> off, size |-> size]
  <1> DEFINE entry == [off |-> off, size |-> size]
  <1>1. index \in [Ranks -> [Ranks -> [Images -> IndexEntry]]] /\ image[r] \in Images
    BY DEF TypeOK, Index
  <1>2. index' = IF epoch[r] = 0 THEN [index EXCEPT ![r][r][image[r]] = entry] ELSE index
    BY DEF FillIndex
  <1> HIDE DEF entry
  <1>3. /\ \A s, t \in Ranks, i \in Images :
              index'[s][t][i] # index[s][t][i] => s = r /\ t = r /\ i = image[r] /\ epoch[r] = 0
        /\ epoch[r] = 0 => index'[r][r][image[r]] = entry
    BY <1>1, <1>2
  <1> QED BY <1>3 DEF entry

\* A step of Get, whichever.
LEMMA GetEffect ==
    ASSUME Inv, NEW r \in Ranks, Get(r)
    PROVE  /\ pc[r] \in InLoop
           /\ epoch' = epoch /\ sum' = sum
           /\ \/ pc'[r] = "get" /\ image'[r] = image[r] + 1
              \/ pc'[r] \in {"iops", "epochIops", "aborted"} /\ image'[r] = image[r]
              \/ pc'[r] \in {"copy", "lock", "read"} /\ image'[r] = image[r]
           /\ pc'[r] \in {"copy", "get", "iops", "epochIops", "aborted"} \/
              (pc'[r] \in {"lock", "read"} /\ (pc[r] = "lock" \/ (~OwnImage(r) /\ epoch[r] > 0)))
           /\ \A s, t \in Ranks, i \in Images :
                 index'[s][t][i] # index[s][t][i] => s = r /\ t = r /\ i = image[r] /\ epoch[r] = 0
           /\ \A t \in Ranks : Keeps(t)
  <1>0. TypeOK
    BY DEF Inv
  <1>1. ASSUME NEW from, NEW ok, NEW data, NEW type, Return(r, from, ok, data, type)
        PROVE  /\ epoch' = epoch
               /\ \/ pc'[r] = "get" /\ image'[r] = image[r] + 1
                  \/ pc'[r] \in {"iops", "epochIops", "aborted"} /\ image'[r] = image[r]
    BY <1>0, <1>1, ReturnAdvances
  <1>2. CASE GetLocalHit(r)
    <2> DEFINE place == cache[r].hash_data[File(r)]
               data == ReadFile(cache[r], File(r))
    <2>1. /\ pc[r] = "get" /\ FillIndex(r, place.off, place.size)
          /\ Return(r, "Local", TRUE, data, "Local") /\ cache' = cache /\ sum' = sum
      BY <1>2 DEF GetLocalHit, InGet
    <2> HIDE DEF place, data
    <2> QED BY <1>0, <1>1, <2>1, FillsOwnOnly, UnchangedCache DEF InLoop
  <1>3. CASE GetLocalFetchFails(r)
    BY <1>1, <1>3, UnchangedCache DEF GetLocalFetchFails, InGet, InLoop
  <1>4. CASE GetLocalNoRoom(r)
    BY <1>0, <1>1, <1>4, FillsOwnOnly, UnchangedCache DEF GetLocalNoRoom, InGet, InLoop, ReturnFile
  <1>5. CASE GetLocalBeginPlacing(r)
    <2>1. /\ pc[r] = "get" /\ cache' = [cache EXCEPT ![r] = BeginCopy(@, File(r))]
          /\ pc' = [pc EXCEPT ![r] = "copy"]
          /\ UNCHANGED <<epoch, image, index, sum>>
      BY <1>5 DEF GetLocalBeginPlacing, InGet
    <2>2. pc'[r] = "copy"
      BY <1>0, <2>1 DEF TypeOK
    <2> QED BY <2>1, <2>2, PlacingKeeps DEF InLoop
  <1>6. CASE GetLocalFinishPlacing(r)
    <2>1. Fits(cache[r], File(r))
      BY <1>6 DEF GetLocalFinishPlacing, Inv, CopyHasRoom
    <2>2. \A t \in Ranks : Keeps(t)
      BY <1>6, <2>1, PlacingKeeps DEF GetLocalFinishPlacing
    <2> QED BY <1>0, <1>1, <1>6, <2>2, FillsOwnOnly DEF GetLocalFinishPlacing, InLoop, ReturnFile
  <1>7. ASSUME InGet(r), CacheMiss(r), UNCHANGED <<cache, index, sum>>
        PROVE  /\ pc[r] \in InLoop
               /\ epoch' = epoch
               /\ \/ pc'[r] = "get" /\ image'[r] = image[r] + 1
                  \/ pc'[r] \in {"iops", "epochIops", "aborted"} /\ image'[r] = image[r]
               /\ \A t \in Ranks : Keeps(t)
    BY <1>1, <1>7, UnchangedCache DEF CacheMiss, ReturnFile, InGet, InLoop
  <1>8. CASE GetDirectly(r)
    BY <1>7, <1>8 DEF GetDirectly
  <1>9. CASE GetClusterFull(r)
    BY <1>7, <1>9 DEF GetClusterFull, AsksCluster
  <1>10. CASE GetClusterBegin(r)
    <2>1. pc[r] = "get" /\ pc' = [pc EXCEPT ![r] = "lock"] /\ ~OwnImage(r) /\ epoch[r] > 0
          /\ UNCHANGED <<epoch, image, cache, index, sum>>
      BY <1>10 DEF GetClusterBegin, AsksCluster, InGet, UsesCluster
    <2>2. pc'[r] = "lock"
      BY <1>0, <2>1 DEF TypeOK
    <2> QED BY <2>1, <2>2, UnchangedCache DEF InLoop
  <1>11. CASE WinLock(r)
    <2>1. pc[r] = "lock" /\ pc' = [pc EXCEPT ![r] = "read"]
          /\ UNCHANGED <<epoch, image, cache, index, sum>>
      BY <1>11 DEF WinLock
    <2>2. pc'[r] = "read"
      BY <1>0, <2>1 DEF TypeOK
    <2> QED BY <2>1, <2>2, UnchangedCache DEF InLoop
  <1>12. CASE GetClusterRead(r)
    BY <1>1, <1>12, UnchangedCache DEF GetClusterRead, InLoop
  <1> QED BY <1>2, <1>3, <1>4, <1>5, <1>6, <1>8, <1>9, <1>10, <1>11, <1>12 DEF Get

\* A step of the collective calls: only entering and leaving Sync change more
\* than the place of the rank.
LEMMA CollectiveEffect ==
    ASSUME Inv, CountedInv, NEW r \in Ranks, LeaveCollective(r)
    PROVE  /\ cache' = cache /\ answer' = answer
           /\ pc[r] \notin InLoop
           /\ pc'[r] \notin {"copy", "lock", "read", "aborted"}
           /\ \/ /\ LeaveEpochIops(r) /\ epoch[r] = 0 /\ epoch' = epoch /\ pc[r] = "epochIops"
                 /\ pc'[r] = "sync" /\ sum' = AddRows(sum, index[r]) /\ index' = index
              \/ LeaveSync(r) /\ pc[r] = "sync" /\ pc'[r] = "winCreate" /\ sum' = sum /\ epoch' = epoch
              \/ /\ UNCHANGED <<index, sum>>
                 /\ Contributed(r) <=> Contributed(r)'
                 /\ Synced(r) <=> Synced(r)'
  <1>0. TypeOK /\ Counted(r)
    BY DEF Inv, CountedInv
  <1>1. CASE LeaveIops(r)
    BY <1>0, <1>1 DEF LeaveIops, EnterCollective, Quiet, InLoop, Contributed, Synced, TypeOK
  <1>2. CASE LeaveThroughput(r)
    BY <1>0, <1>2 DEF LeaveThroughput, NextImage, EnterCollective, Quiet, InLoop, Contributed, Synced,
                      TypeOK
  <1>3. CASE LeaveEpochIops(r) /\ epoch[r] = 0
    BY <1>0, <1>3 DEF LeaveEpochIops, EnterCollective, Quiet, InLoop, TypeOK
  <1>4. CASE LeaveEpochIops(r) /\ epoch[r] # 0
    <2>1. /\ StartEpoch(r, epoch[r] + 1) /\ UNCHANGED <<index, sum, cache, answer>>
          /\ pc[r] = "epochIops" /\ epoch[r] \in Nat
      BY <1>0, <1>4, Constants DEF LeaveEpochIops, Quiet, TypeOK
    <2> QED BY <1>0, <1>4, <2>1 DEF StartEpoch, InLoop, Contributed, Synced, TypeOK
  <1>5. CASE LeaveSync(r)
    BY <1>0, <1>5 DEF LeaveSync, EnterCollective, InLoop, TypeOK
  <1>6. CASE LeaveWinCreate(r)
    BY <1>0, <1>6 DEF LeaveWinCreate, EnterCollective, Quiet, InLoop, Contributed, Synced, TypeOK
  <1>7. CASE LeaveFence(r)
    BY <1>0, <1>7 DEF LeaveFence, StartEpoch, Quiet, InLoop, Contributed, Synced, TypeOK
  <1> QED BY <1>1, <1>2, <1>3, <1>4, <1>5, <1>6, <1>7 DEF LeaveCollective

\* What a rank has contributed it has contributed for good; and only the two
\* steps named make a rank a contributor, or give it the sum.
LEMMA SyncOrder ==
    ASSUME Inv, CountedInv, NEW r \in Ranks, Get(r) \/ LeaveCollective(r), NEW s \in Ranks
    PROVE  /\ Contributed(s) => Contributed(s)'
           /\ Synced(s) => Synced(s)'
           /\ Contributed(s)' /\ ~Contributed(s) =>
                 s = r /\ LeaveEpochIops(r) /\ epoch[r] = 0 /\ sum' = AddRows(sum, index[r]) /\ index' = index
           /\ Synced(s)' /\ ~Synced(s) => s = r /\ LeaveSync(r) /\ pc[r] = "sync"
  <1>1. CASE s # r
    <2>1. pc'[s] = pc[s] /\ epoch'[s] = epoch[s]
      BY <1>1, OthersStay DEF Inv
    <2> QED BY <2>1 DEF Contributed, Synced
  <1>2. CASE s = r /\ Get(r)
    <2>1. /\ pc[r] \in InLoop /\ epoch'[r] = epoch[r]
          /\ pc'[r] \in {"get", "copy", "lock", "read", "iops", "epochIops", "aborted"}
      BY <1>2, GetEffect
    <2> QED BY <1>2, <2>1 DEF Contributed, Synced, InLoop
  <1>3. CASE s = r /\ LeaveCollective(r)
    <2>1. /\ \/ /\ LeaveEpochIops(r) /\ epoch[r] = 0 /\ epoch' = epoch /\ pc[r] = "epochIops"
                /\ pc'[r] = "sync" /\ sum' = AddRows(sum, index[r]) /\ index' = index
             \/ LeaveSync(r) /\ pc[r] = "sync" /\ pc'[r] = "winCreate" /\ epoch' = epoch
             \/ /\ Contributed(r) <=> Contributed(r)'
                /\ Synced(r) <=> Synced(r)'
      BY <1>3, CollectiveEffect
    <2> QED BY <1>3, <2>1 DEF Contributed, Synced
  <1> QED BY <1>1, <1>2, <1>3

LEMMA SyncWaitsStep ==
    ASSUME Inv, CountedInv, SyncWaits, NEW r \in Ranks, Step(r)
    PROVE  SyncWaits'
  <1>1. Get(r) \/ LeaveCollective(r)
    BY DEF Step
  <1> SUFFICES ASSUME NEW q \in Ranks, NEW s \in Ranks, Synced(q)' PROVE Contributed(s)'
    BY DEF SyncWaits
  <1>2. CASE Synced(q)
    BY <1>1, <1>2, SyncOrder DEF SyncWaits
  <1>3. CASE ~Synced(q)
    <2>1. q = r /\ LeaveSync(r) /\ pc[r] = "sync"
      BY <1>1, <1>3, SyncOrder
    <2>2. Counted(r) /\ Counted(s) /\ pc[s] # "aborted"
      BY DEF CountedInv, Step
    <2>3. CallsOfEpoch \in Nat /\ CallsBefore(0) = 0 /\ CallsOfEpoch = 2 * Prints(ImageCount) + 1
      BY EpochNumbers DEF CallsOfEpoch
    <2>4. entered[s] >= CallsOfEpoch + 1
      <3>1. entered[s] >= entered[r]
        BY <2>1 DEF LeaveSync, AllEntered
      <3>2. entered[r] = CallsOfEpoch + 1
        BY <2>1, <2>2, <2>3 DEF Counted, CallInEpoch, InLoop, InSync
      <3> QED BY <3>1, <3>2
    <2>5. ASSUME ~Contributed(s) PROVE FALSE
      <3>1. /\ epoch[s] = 0 /\ pc[s] \in InLoop \cup {"iops", "throughput", "epochIops"}
        BY <2>2, <2>5, Constants DEF Contributed, Inv, TypeOK, Locations, Collectives, InLoop
      <3>2. image[s] \in Nat /\ image[s] <= ImageCount /\ image[s] < ImageCount
        BY Constants DEF Inv, TypeOK, Images
      <3>3. /\ Prints(image[s]) \in Nat /\ Prints(ImageCount) \in Nat
            /\ Prints(image[s]) <= Prints(ImageCount)
            /\ AtPrint(image[s]) => Prints(image[s]) + 1 <= Prints(ImageCount)
        BY <3>2, PrintsType, PrintsGrow, PrintsSeparate, Constants
      <3>4. entered[s] = CallInEpoch(pc[s], image[s])
        <4>1. CallInEpoch(pc[s], image[s]) \in Nat
          BY <2>3, <3>1, <3>3 DEF CallInEpoch, InLoop
        <4>2. entered[s] = CallsBefore(0) + CallInEpoch(pc[s], image[s])
          BY <2>2, <3>1 DEF Counted, InLoop
        <4> QED BY <2>3, <4>1, <4>2
      <3>5. CallInEpoch(pc[s], image[s]) <= CallsOfEpoch
        BY <2>2, <2>3, <3>1, <3>3 DEF CallInEpoch, InLoop, Counted
      <3>6. CallInEpoch(pc[s], image[s]) \in Nat
        BY <2>3, <3>1, <3>3 DEF CallInEpoch, InLoop
      <3> QED BY <2>3, <2>4, <3>4, <3>5, <3>6
    <2> QED BY <1>1, <2>5, SyncOrder
  <1> QED BY <1>2, <1>3

\* The row of a rank that contributes is added to empty entries; the others'
\* entries of a row that is in the sum are empty.
LEMMA SumStep ==
    ASSUME Inv, NEW r \in Ranks, ~Contributed(r), ~Synced(r), sum' = AddRows(sum, index[r]),
           NEW t \in Ranks, NEW i \in Images
    PROVE  /\ t = r => sum'[t][i] = index[t][t][i]
           /\ t # r => sum'[t][i] = sum[t][i]
  <1> DEFINE a == sum[t][i]
             b == index[r][t][i]
  <1>1. a \in IndexEntry /\ b \in IndexEntry
    BY DEF Inv, TypeOK, Index
  <1>2. sum'[t][i] = [off |-> a.off + b.off, size |-> a.size + b.size]
    BY DEF AddRows
  <1>3. CASE t = r
    <2>1. a = NoEntry
      BY <1>3 DEF Inv, SumOfContributors
    <2> QED BY <1>1, <1>2, <1>3, <2>1 DEF IndexEntry, NoEntry
  <1>4. CASE t # r
    <2>1. b = NoEntry
      BY <1>4 DEF Inv, OwnRowOnly
    <2> QED BY <1>1, <1>2, <1>4, <2>1 DEF IndexEntry, NoEntry
  <1> QED BY <1>3, <1>4

\* What LeaveSync puts into the index.
LEMMA SyncedRow ==
    ASSUME Inv, NEW r \in Ranks, LeaveSync(r)
    PROVE  /\ \A s \in Ranks \ {r} : index'[s] = index[s]
           /\ \A t \in Ranks, i \in Images :
                 index'[r][t][i] = IF Reduced(t, i) THEN sum[t][i] ELSE index[r][t][i]
  BY DEF LeaveSync, Inv, TypeOK

LEMMA RowsEnteredStep ==
    ASSUME Inv, CountedInv, RowsEntered, NEW r \in Ranks, Get(r) \/ LeaveCollective(r)
    PROVE  RowsEntered'
  <1> SUFFICES ASSUME NEW s \in Ranks, NEW i \in Images, Contributed(s)'
               PROVE  sum'[s][i] = index'[s][s][i]
    BY DEF RowsEntered
  <1>1. CASE ~Contributed(s)
    <2>1. s = r /\ LeaveEpochIops(r) /\ epoch[r] = 0 /\ sum' = AddRows(sum, index[r]) /\ index' = index
      BY <1>1, SyncOrder
    <2>2. ~Synced(r)
      BY <1>1, <2>1 DEF Synced, Contributed
    <2> QED BY <1>1, <2>1, <2>2, SumStep
  <1>2. CASE Contributed(s)
    <2>1. sum[s][i] = index[s][s][i]
      BY <1>2 DEF RowsEntered
    <2>2. CASE Get(r)
      <3>1. sum' = sum /\ (index'[s][s][i] # index[s][s][i] => s = r /\ epoch[r] = 0) /\ pc[r] \in InLoop
        BY <2>2, GetEffect
      <3>2. s = r /\ pc[r] \in InLoop => epoch[r] # 0
        BY <1>2 DEF Contributed, InLoop
      <3> QED BY <2>1, <3>1, <3>2
    <2>3. CASE /\ LeaveEpochIops(r) /\ epoch[r] = 0 /\ pc[r] = "epochIops"
               /\ sum' = AddRows(sum, index[r]) /\ index' = index
      <3>1. ~Contributed(r) /\ ~Synced(r) /\ s # r
        BY <1>2, <2>3 DEF Contributed, Synced
      <3> QED BY <2>1, <2>3, <3>1, SumStep
    <2>4. CASE LeaveSync(r) /\ sum' = sum
      BY <2>1, <2>4, SyncedRow
    <2>5. CASE UNCHANGED <<index, sum>>
      BY <2>1, <2>5
    <2> QED BY <2>2, <2>3, <2>4, <2>5, CollectiveEffect
  <1> QED BY <1>1, <1>2

\* With a count that fits, the reduction covers the whole index.
LEMMA WholeIndex ==
    ASSUME CountFits, NEW t \in Ranks, NEW i \in Images
    PROVE  Reduced(t, i)
  <1>1. t \in Nat /\ i \in Nat /\ i + 1 <= ImageCount /\ ImageCount \in Nat /\ NProcs \in Nat
    BY Constants DEF Ranks, Images
  <1>2. PICK d \in Nat : NProcs = t + 1 + d
    <2>1. NProcs - t - 1 \in Nat
      BY <1>1 DEF Ranks
    <2> QED BY <1>1, <2>1
  <1>3. ImageCount * NProcs = t * ImageCount + ImageCount + d * ImageCount
        /\ t * ImageCount \in Nat /\ d * ImageCount \in Nat /\ ImageCount * NProcs \in Nat
    BY <1>1, <1>2
  <1>4. AllreduceCount = 2 * (ImageCount * NProcs)
    BY <1>1 DEF CountFits
  <1> QED BY <1>1, <1>3, <1>4 DEF Reduced

LEMMA IndexIsSumStep ==
    ASSUME CountFits, Inv, CountedInv, SyncWaits, IndexIsSum, NEW r \in Ranks, Get(r) \/ LeaveCollective(r)
    PROVE  IndexIsSum'
  <1> SUFFICES ASSUME NEW q \in Ranks, NEW t \in Ranks, NEW i \in Images, Synced(q)'
               PROVE  index'[q][t][i] = sum'[t][i]
    BY DEF IndexIsSum
  <1>1. CASE ~Synced(q)
    <2>1. q = r /\ LeaveSync(r)
      BY <1>1, SyncOrder
    <2>2. sum' = sum
      BY <2>1 DEF LeaveSync
    <2> QED BY <2>1, <2>2, SyncedRow, WholeIndex
  <1>2. CASE Synced(q)
    <2>1. index[q][t][i] = sum[t][i] /\ \A s \in Ranks : Contributed(s)
      BY <1>2 DEF IndexIsSum, SyncWaits
    <2>2. CASE Get(r)
      <3>1. sum' = sum /\ (index'[q][t][i] # index[q][t][i] => q = r /\ epoch[r] = 0) /\ pc[r] \in InLoop
        BY <2>2, GetEffect
      <3>2. pc[r] \in InLoop => epoch[r] # 0
        BY <2>1 DEF Contributed, InLoop
      <3> QED BY <2>1, <3>1, <3>2
    <2>3. CASE LeaveEpochIops(r) /\ epoch[r] = 0 /\ pc[r] = "epochIops"
      <3>1. ~Contributed(r)
        BY <2>3 DEF Contributed
      <3> QED BY <2>1, <3>1
    <2>4. CASE LeaveSync(r) /\ sum' = sum /\ pc[r] = "sync"
      BY <2>1, <2>4, SyncedRow, WholeIndex
    <2>5. CASE UNCHANGED <<index, sum>>
      BY <2>1, <2>5
    <2> QED BY <2>2, <2>3, <2>4, <2>5, CollectiveEffect
  <1> QED BY <1>1, <1>2

LEMMA ReadsForeignStep ==
    ASSUME Inv, CountedInv, ReadsForeign, NEW r \in Ranks, Get(r) \/ LeaveCollective(r)
    PROVE  ReadsForeign'
  <1> SUFFICES ASSUME NEW s \in Ranks, pc'[s] \in {"lock", "read"}
               PROVE  epoch'[s] > 0 /\ s \notin Targets[image'[s]]
    BY DEF ReadsForeign, OwnImage
  <1>1. CASE s # r
    <2>1. UNCHANGED <<pc[s], epoch[s], image[s]>>
      BY <1>1, OthersStay DEF Inv
    <2> QED BY <2>1 DEF ReadsForeign, OwnImage
  <1>2. CASE s = r /\ Get(r)
    <2>1. /\ epoch'[r] = epoch[r] /\ image'[r] = image[r]
          /\ pc[r] = "lock" \/ (~OwnImage(r) /\ epoch[r] > 0)
      BY <1>2, GetEffect
    <2> QED BY <1>2, <2>1 DEF ReadsForeign, OwnImage
  <1>3. CASE s = r /\ LeaveCollective(r)
    BY <1>3, CollectiveEffect
  <1> QED BY <1>1, <1>2, <1>3

AgreeInv ==
    /\ Inv
    /\ CountedInv
    /\ SyncWaits
    /\ RowsEntered
    /\ IndexIsSum
    /\ ReadsForeign

LEMMA AgreeInit == Init => AgreeInv
  <1> SUFFICES ASSUME Init PROVE AgreeInv
    OBVIOUS
  <1>1. \A r \in Ranks : pc[r] = "get" /\ epoch[r] = 0
    BY DEF Init
  <1>2. \A r \in Ranks : ~Contributed(r) /\ ~Synced(r)
    BY <1>1 DEF Contributed, Synced
  <1> QED BY <1>1, <1>2, InvInit, CountedInit
          DEF AgreeInv, SyncWaits, RowsEntered, IndexIsSum, ReadsForeign

LEMMA AgreeStep ==
    ASSUME CountFits, AgreeInv, [Next]_vars
    PROVE  AgreeInv'
  <1>1. Inv' /\ CountedInv'
    BY InvStep, CountedStep DEF AgreeInv, Inv
  <1>2. ASSUME NEW r \in Ranks, Step(r) PROVE AgreeInv'
    <2>1. Get(r) \/ LeaveCollective(r)
      BY <1>2 DEF Step
    <2> QED BY <1>1, <1>2, <2>1, SyncWaitsStep, RowsEnteredStep, IndexIsSumStep, ReadsForeignStep
            DEF AgreeInv
  <1>3. ASSUME UNCHANGED vars PROVE AgreeInv'
    <2>1. UNCHANGED <<pc, epoch, image, index, sum>>
      BY <1>3 DEF vars
    <2>2. SyncWaits' /\ RowsEntered' /\ IndexIsSum' /\ ReadsForeign'
      BY <2>1 DEF AgreeInv, SyncWaits, RowsEntered, IndexIsSum, ReadsForeign, Contributed, Synced, OwnImage
    <2> QED BY <1>1, <2>2 DEF AgreeInv
  <1> QED BY <1>2, <1>3 DEF Next, JobOver

LEMMA AgreedIndex == AgreeInv => IndexAgreed
  <1> SUFFICES ASSUME AgreeInv, NEW r \in Ranks, NEW s \in Ranks,
                      pc[r] \in {"winCreate", "fence"} \/ epoch[r] > 0
               PROVE  index[r][s] = index[s][s]
    BY DEF IndexAgreed
  <1>1. Synced(r) /\ Contributed(s)
    BY DEF Synced, AgreeInv, SyncWaits
  <1>2. \A i \in Images : index[r][s][i] = index[s][s][i]
    BY <1>1 DEF AgreeInv, IndexIsSum, RowsEntered
  <1>3. index[r][s] \in [Images -> IndexEntry] /\ index[s][s] \in [Images -> IndexEntry]
    BY DEF AgreeInv, Inv, TypeOK, Index
  <1> QED BY <1>2, <1>3

\* After Sync every rank holds the same index, and in it the rows as their
\* owners filled them, provided the count of the reduction covers the index
\* (index_overflow shows what happens otherwise).
THEOREM IndicesAgree == ASSUME CountFits PROVE Spec => []IndexAgreed
  <1>1. AgreeInv /\ [Next]_vars => AgreeInv'
    BY AgreeStep
  <1> QED BY <1>1, AgreeInit, AgreedIndex, PTL DEF Spec

-----------------------------------------------------------------------------
(* If a rank that failed to fetch an image does not go on, every entry of the *)
(* index that a rank will look at is the place of its image, or says that     *)
(* there was no room.                                                         *)

FailureEndsJob == do_decode \/ ~FetchMayFail

Filled(entry, t, i) ==
    \/ entry.off = -1
    \/ /\ entry.off \in Nat
       /\ entry.size = SizeOf[FileOf[i]]
       /\ Holds(cache[t], FileOf[i], entry.off)

FilledAfter(entry, t, i) ==
    \/ entry.off = -1
    \/ /\ entry.off \in Nat
       /\ entry.size = SizeOf[FileOf[i]]
       /\ Holds(cache'[t], FileOf[i], entry.off)

\* In epoch 0 Get has returned image i to rank t, which has gone on.
Finished(t, i) ==
    \/ epoch[t] > 0
    \/ i < image[t]
    \/ i = image[t] /\ pc[t] \notin InLoop \cup {"aborted"}

FilledInv ==
    \A t \in Ranks, i \in Images :
        t \in Targets[i] /\ Finished(t, i) => Filled(index[t][t][i], t, i)

\* A failed download leaves the entry of an empty file as it should be.
LEMMA EmptyFile ==
    ASSUME Inv, NEW t \in Ranks, NEW f \in Files, Content(f) = <<>>
    PROVE  SizeOf[f] = 0 /\ Holds(cache[t], f, 0)
  <1>1. SizeOf[f] \in Nat
    BY Constants
  <1>2. DOMAIN Content(f) = 0 .. (SizeOf[f] - 1)
    BY DEF Content
  <1>3. DOMAIN Content(f) = {}
    <2>1. DOMAIN <<>> = {}
      OBVIOUS
    <2> QED BY <2>1
  <1>4. SizeOf[f] = 0
    <2>1. SizeOf[f] > 0 => 0 \in 0 .. (SizeOf[f] - 1)
      BY <1>1
    <2> QED BY <1>1, <1>2, <1>3, <2>1
  <1>5. Read(cache[t], 0, SizeOf[f]) = Content(f)
    BY <1>4 DEF Read, Content
  <1>6. cache[t].current_offset \in Nat
    BY Typing, StorageFields, Constants
  <1> QED BY <1>4, <1>5, <1>6 DEF Holds

\* A rank that returns from Get with an image it caches itself has filled the
\* entry, or ends the job.
LEMMA GetFills ==
    ASSUME Inv, ReadsForeign, FailureEndsJob, NEW r \in Ranks, Get(r), epoch[r] = 0, OwnImage(r),
           pc'[r] \notin {"copy", "lock", "read", "aborted"}
    PROVE  FilledAfter(index'[r][r][image[r]], r, image[r])
  <1>0. TypeOK /\ image[r] \in Images /\ File(r) \in Files
    BY Typing DEF Inv
  <1>1. CASE GetLocalHit(r)
    <2> DEFINE place == cache[r].hash_data[File(r)]
    <2>1. /\ FillIndex(r, place.off, place.size) /\ cache' = cache
          /\ place.off \in Nat /\ place.size = SizeOf[File(r)]
          /\ Holds(cache[r], File(r), place.off)
      BY <1>1, StoredFile DEF GetLocalHit
    <2> HIDE DEF place
    <2>2. index'[r][r][image[r]] = [off |-> place.off, size |-> place.size]
      BY <1>0, <2>1, FillsOwnOnly
    <2> QED BY <2>1, <2>2 DEF FilledAfter, File
  <1>2. CASE GetLocalFetchFails(r)
    <2>1. /\ FetchMayFail /\ Return(r, "nowhere", FALSE, <<>>, Unset)
          /\ UNCHANGED <<cache, index>>
      BY <1>2 DEF GetLocalFetchFails
    <2>2. Content(File(r)) = <<>>
      <3>1. do_decode
        BY <2>1 DEF FailureEndsJob
      <3>2. ASSUME <<>> # Content(File(r)) PROVE pc'[r] = "aborted"
        BY <1>0, <2>1, <3>1, <3>2 DEF Return, Abort, TypeOK
      <3> QED BY <3>2
    <2>3. SizeOf[File(r)] = 0 /\ Holds(cache[r], File(r), 0)
      BY <1>0, <2>2, EmptyFile
    <2>4. Right(index[r][r][image[r]], r, image[r])
      BY <1>0 DEF Inv, IndexRight
    <2> QED BY <2>1, <2>3, <2>4 DEF Right, FilledAfter, NoEntry, File
  <1>3. CASE GetLocalNoRoom(r)
    <2>1. FillIndex(r, -1, SizeOf[File(r)])
      BY <1>3 DEF GetLocalNoRoom
    <2>2. index'[r][r][image[r]] = [off |-> -1, size |-> SizeOf[File(r)]]
      BY <1>0, <2>1, FillsOwnOnly
    <2> QED BY <2>2 DEF FilledAfter
  <1>4. CASE GetLocalBeginPlacing(r)
    BY <1>0, <1>4 DEF GetLocalBeginPlacing, TypeOK
  <1>5. CASE GetLocalFinishPlacing(r)
    <2>1. /\ cache' = [cache EXCEPT ![r] = FinishCopy(@, File(r))]
          /\ FillIndex(r, cache[r].current_offset, SizeOf[File(r)])
          /\ Fits(cache[r], File(r))
      BY <1>5 DEF GetLocalFinishPlacing, Inv, CopyHasRoom
    <2>2. cache[r] \in Storage /\ Intact(cache[r]) /\ cache'[r] = FinishCopy(cache[r], File(r))
      BY <2>1, Typing DEF CachesIntact
    <2>3. Holds(cache'[r], File(r), cache[r].current_offset) /\ cache[r].current_offset \in Nat
      BY <1>0, <2>1, <2>2, FinishCopyOK, StorageFields, Constants
    <2>4. index'[r][r][image[r]] = [off |-> cache[r].current_offset, size |-> SizeOf[File(r)]]
      BY <1>0, <2>1, FillsOwnOnly
    <2> QED BY <2>3, <2>4 DEF FilledAfter, File
  <1>6. CASE GetDirectly(r)
    BY <1>6 DEF GetDirectly
  <1>7. CASE GetClusterFull(r) \/ GetClusterBegin(r)
    BY <1>7 DEF GetClusterFull, GetClusterBegin, AsksCluster
  <1>8. CASE WinLock(r) \/ GetClusterRead(r)
    BY <1>8 DEF WinLock, GetClusterRead, ReadsForeign
  <1> QED BY <1>1, <1>2, <1>3, <1>4, <1>5, <1>6, <1>7, <1>8 DEF Get

\* A rank finishes an image by returning from Get with it.
LEMMA FinishedStep ==
    ASSUME Inv, CountedInv, NEW r \in Ranks, Get(r) \/ LeaveCollective(r),
           NEW t \in Ranks, NEW i \in Images, Finished(t, i)', ~Finished(t, i)
    PROVE  /\ t = r /\ i = image[r] /\ epoch[r] = 0 /\ Get(r)
           /\ pc'[r] \notin {"copy", "lock", "read", "aborted"}
  <1>0. TypeOK /\ Counted(r)
    BY DEF Inv, CountedInv
  <1>1. i \in Nat /\ i <= ImageCount - 1 /\ image[r] \in Nat /\ epoch[r] \in Nat
    BY <1>0, Constants DEF TypeOK, Images
  <1>2. t = r
    <2>1. ASSUME t # r PROVE FALSE
      <3>1. UNCHANGED <<pc[t], epoch[t], image[t]>>
        BY <1>0, <2>1, OthersStay
      <3> QED BY <3>1 DEF Finished
    <2> QED BY <2>1
  <1>3. epoch[r] = 0 /\ ~(i < image[r]) /\ ~(i = image[r] /\ pc[r] \notin InLoop \cup {"aborted"})
    BY <1>1, <1>2 DEF Finished
  <1>4. CASE Get(r)
    <2>1. /\ epoch'[r] = epoch[r]
          /\ \/ pc'[r] = "get" /\ image'[r] = image[r] + 1
             \/ pc'[r] \in {"iops", "epochIops", "aborted"} /\ image'[r] = image[r]
             \/ pc'[r] \in {"copy", "lock", "read"} /\ image'[r] = image[r]
      BY <1>4, GetEffect
    <2>2. i < image'[r] \/ (i = image'[r] /\ pc'[r] \notin InLoop \cup {"aborted"})
      BY <1>2, <1>3, <2>1 DEF Finished
    <2> QED BY <1>1, <1>2, <1>3, <1>4, <2>1, <2>2 DEF InLoop
  <1>5. CASE LeaveCollective(r)
    <2>1. pc[r] \notin InLoop \cup {"aborted"}
      BY <1>0, <1>5 DEF LeaveCollective, LeaveIops, LeaveThroughput, LeaveEpochIops, LeaveSync,
                        LeaveWinCreate, LeaveFence, InLoop
    <2>2. i > image[r]
      BY <1>1, <1>3, <2>1
    <2>3. CASE LeaveThroughput(r)
      <3>1. /\ epoch' = epoch
            /\ \/ pc'[r] = "get" /\ image'[r] = image[r] + 1
               \/ pc'[r] = "epochIops" /\ image'[r] = image[r]
        BY <1>0, <2>3 DEF LeaveThroughput, NextImage, EnterCollective, TypeOK
      <3> QED BY <1>1, <1>2, <1>3, <2>2, <3>1 DEF Finished, InLoop
    <2>4. CASE LeaveIops(r)
      BY <1>1, <1>2, <1>3, <2>2, <2>4 DEF LeaveIops, Finished
    <2>5. CASE ~LeaveThroughput(r) /\ ~LeaveIops(r)
      <3>1. image[r] = ImageCount - 1
        BY <1>0, <1>5, <2>5 DEF LeaveCollective, LeaveEpochIops, LeaveSync, LeaveWinCreate, LeaveFence,
                                Counted, InSync
      <3> QED BY <1>1, <2>2, <3>1, Constants
    <2> QED BY <2>3, <2>4, <2>5
  <1> QED BY <1>4, <1>5

LEMMA FilledStep ==
    ASSUME Inv, CountedInv, RowsEntered, ReadsForeign, FailureEndsJob, FilledInv,
           NEW r \in Ranks, Get(r) \/ LeaveCollective(r)
    PROVE  FilledInv'
  <1> SUFFICES ASSUME NEW t \in Ranks, NEW i \in Images, t \in Targets[i], Finished(t, i)'
               PROVE  FilledAfter(index'[t][t][i], t, i)
    BY DEF FilledInv, Filled, FilledAfter
  <1>1. CASE ~Finished(t, i)
    <2>1. /\ t = r /\ i = image[r] /\ epoch[r] = 0 /\ Get(r)
          /\ pc'[r] \notin {"copy", "lock", "read", "aborted"}
      BY <1>1, FinishedStep
    <2> QED BY <2>1, GetFills DEF OwnImage
  <1>2. CASE Finished(t, i)
    <2>1. Filled(index[t][t][i], t, i)
      BY <1>2 DEF FilledInv
    <2>2. /\ Keeps(t)
          /\ index'[t][t][i] = index[t][t][i]
      <3>1. CASE Get(r)
        <4>1. /\ Keeps(t) /\ pc[r] \in InLoop
              /\ index'[t][t][i] # index[t][t][i] => t = r /\ i = image[r] /\ epoch[r] = 0
          BY <3>1, GetEffect
        <4>2. ~(t = r /\ i = image[r] /\ epoch[r] = 0)
          <5>1. image[r] \in Nat
            BY Constants DEF Inv, TypeOK, Images
          <5> QED BY <1>2, <4>1, <5>1 DEF Finished
        <4> QED BY <4>1, <4>2
      <3>2. CASE LeaveCollective(r)
        <4>1. Keeps(t)
          BY <3>2, CollectiveEffect, UnchangedCache
        <4>2. CASE LeaveSync(r) /\ pc[r] = "sync"
          <5>1. t = r => sum[t][i] = index[t][t][i]
            BY <4>2 DEF RowsEntered, Contributed
          <5> QED BY <4>1, <4>2, <5>1, SyncedRow
        <4> QED BY <3>2, <4>1, <4>2, CollectiveEffect
      <3> QED BY <3>1, <3>2
    <2> QED BY <2>1, <2>2, Constants DEF Filled, FilledAfter, Keeps
  <1> QED BY <1>1, <1>2

\* A rank that is in a later epoch reads the image.
LEMMA ReadsImage ==
    ASSUME AgreeInv, FilledInv, NEW r \in Ranks, pc[r] = "read"
    PROVE  Read(cache[Chosen(image[r])], EntryOfTarget(r).off, EntryOfTarget(r).size) = Content(File(r))
  <1> DEFINE i == image[r]
             t == Chosen(i)
  <1>1. /\ Targets[i] # {} /\ EntryOfTarget(r).off >= 0 /\ epoch[r] > 0 /\ i \in Images
    BY Typing DEF AgreeInv, Inv, ReadHasEntry, ReadsForeign
  <1>2. t \in Targets[i] /\ t \in Ranks
    BY <1>1, ChosenIsTarget
  <1>3. Synced(r) /\ Contributed(t)
    BY <1>1, <1>2 DEF Synced, AgreeInv, SyncWaits
  <1>4. EntryOfTarget(r) = index[t][t][i]
    BY <1>1, <1>2, <1>3 DEF AgreeInv, IndexIsSum, RowsEntered, EntryOfTarget
  <1>5. Finished(t, i)
    <2>1. Counted(t) /\ i \in Nat /\ i <= ImageCount - 1
      BY <1>1, <1>2, Constants DEF AgreeInv, CountedInv, Images
    <2> QED BY <1>3, <2>1, Constants DEF Contributed, Counted, Finished, InSync, InLoop
  <1>6. Filled(EntryOfTarget(r), t, i)
    BY <1>1, <1>2, <1>4, <1>5 DEF FilledInv
  <1> QED BY <1>1, <1>6 DEF Filled, Holds, File

LEMMA HitsStep ==
    ASSUME AgreeInv, FilledInv, ClusterHitsAreImages, NEW r \in Ranks, Get(r) \/ LeaveCollective(r)
    PROVE  ClusterHitsAreImages'
  <1>0. TypeOK
    BY DEF AgreeInv, Inv
  <1>1. ASSUME NEW from, NEW ok, NEW data, NEW type, Return(r, from, ok, data, type),
               from = "Cluster" => data = Content(File(r))
        PROVE  ClusterHitsAreImages'
    <2>1. /\ answer'[r] = [image |-> image[r], from |-> from, ok |-> ok, data |-> data]
          /\ \A s \in Ranks \ {r} : answer'[s] = answer[s]
      BY <1>0, <1>1, ReturnAdvances
    <2> QED BY <1>1, <2>1 DEF ClusterHitsAreImages, File
  <1>2. ASSUME answer' = answer PROVE ClusterHitsAreImages'
    BY <1>2 DEF ClusterHitsAreImages
  <1>3. CASE Get(r)
    <2>1. CASE GetLocalHit(r) \/ GetLocalFetchFails(r) \/ GetLocalNoRoom(r) \/ GetLocalFinishPlacing(r)
      BY <1>1, <2>1 DEF GetLocalHit, GetLocalFetchFails, GetLocalNoRoom, GetLocalFinishPlacing, ReturnFile
    <2>2. CASE GetLocalBeginPlacing(r) \/ GetClusterBegin(r) \/ WinLock(r)
      BY <1>2, <2>2 DEF GetLocalBeginPlacing, GetClusterBegin, WinLock
    <2>3. CASE GetDirectly(r) \/ GetClusterFull(r)
      BY <1>1, <2>3 DEF GetDirectly, GetClusterFull, CacheMiss, ReturnFile
    <2>4. CASE GetClusterRead(r)
      BY <1>1, <2>4, ReadsImage DEF GetClusterRead
    <2> QED BY <1>3, <2>1, <2>2, <2>3, <2>4 DEF Get
  <1>4. CASE LeaveCollective(r)
    BY <1>2, <1>4, CollectiveEffect DEF AgreeInv
  <1> QED BY <1>3, <1>4

HitsInv == AgreeInv /\ (FailureEndsJob => FilledInv /\ ClusterHitsAreImages)

LEMMA HitsInvInit == Init => HitsInv
  <1> SUFFICES ASSUME Init PROVE HitsInv
    OBVIOUS
  <1>1. \A r \in Ranks : pc[r] = "get" /\ epoch[r] = 0 /\ image[r] = 0 /\ answer[r] = NoAnswer
    BY DEF Init
  <1>2. ClusterHitsAreImages
    BY <1>1 DEF ClusterHitsAreImages, NoAnswer
  <1>3. \A t \in Ranks, i \in Images : ~Finished(t, i)
    BY <1>1, Constants DEF Finished, InLoop, Images
  <1> QED BY <1>2, <1>3, AgreeInit DEF HitsInv, FilledInv

LEMMA HitsInvStep == ASSUME CountFits, HitsInv, [Next]_vars PROVE HitsInv'
  <1>1. AgreeInv'
    BY AgreeStep DEF HitsInv
  <1>2. FailureEndsJob' <=> FailureEndsJob
    <2>1. do_decode' = do_decode
      BY DEF Next, Step, JobOver, vars
    <2> QED BY <2>1 DEF FailureEndsJob
  <1>3. ASSUME FailureEndsJob, NEW r \in Ranks, Get(r) \/ LeaveCollective(r)
        PROVE  FilledInv' /\ ClusterHitsAreImages'
    BY <1>3, FilledStep, HitsStep DEF HitsInv, AgreeInv
  <1>4. ASSUME FailureEndsJob, UNCHANGED vars PROVE FilledInv' /\ ClusterHitsAreImages'
    <2>1. UNCHANGED <<pc, epoch, image, index, cache, answer>>
      BY <1>4 DEF vars
    <2> QED BY <1>4, <2>1 DEF HitsInv, FilledInv, Filled, Finished, ClusterHitsAreImages
  <1> QED BY <1>1, <1>2, <1>3, <1>4 DEF HitsInv, Next, Step, JobOver

LEMMA HitsInvAlways == ASSUME CountFits PROVE Spec => []HitsInv
  <1>1. HitsInv /\ [Next]_vars => HitsInv'
    BY HitsInvStep
  <1> QED BY <1>1, HitsInvInit, PTL DEF Spec

\* A cluster hit is the image if no download fails; empty_cluster_hit shows
\* that it need not be otherwise.
THEOREM HitsAreImages == ASSUME CountFits, ~FetchMayFail PROVE Spec => []ClusterHitsAreImages
  <1>1. HitsInv => ClusterHitsAreImages
    BY DEF HitsInv, FailureEndsJob
  <1> QED BY <1>1, HitsInvAlways, PTL

\* A cluster hit is the image, whatever download fails, in a program that
\* decodes the images: the failure ends the job before any rank reads the
\* entry it leaves in the index (sgd-comm/cache.hpp:312, mpi_win.cpp:29).
THEOREM DecodedHits == ASSUME CountFits PROVE Spec => []DecodedHitsAreImages
  <1>1. HitsInv => DecodedHitsAreImages
    BY DEF HitsInv, FailureEndsJob, DecodedHitsAreImages
  <1> QED BY <1>1, HitsInvAlways, PTL

-----------------------------------------------------------------------------
(* The cache is invisible: every step is a delivery of LockstepReaders or one *)
(* that the readers do not see.  First, that no rank goes ahead of a meeting. *)

\* A rank that waits in a call has entered one more than all have, at most.
WaitInv ==
    \A r, s \in Ranks :
        entered[s] >= entered[r] - (IF pc[r] \in Collectives THEN 1 ELSE 0)

DoneInv == \A r \in Ranks : pc[r] = "done" => epoch[r] = Epochs - 1

\* A rank enters a call when it comes to one, and leaves one when all have entered it.
LEMMA CallsStep ==
    ASSUME TypeOK, NEW r \in Ranks, Get(r) \/ LeaveCollective(r)
    PROVE  /\ entered'[r] = entered[r] + (IF pc'[r] \in Collectives THEN 1 ELSE 0)
           /\ pc[r] \in Collectives => AllEntered(r)
  <1>0. entered[r] \in Nat /\ entered \in [Ranks -> Nat] /\ pc \in [Ranks -> Locations]
    BY DEF TypeOK
  <1>1. ASSUME NextImage(r)
        PROVE  entered'[r] = entered[r] + (IF pc'[r] \in Collectives THEN 1 ELSE 0)
    BY <1>0, <1>1 DEF NextImage, EnterCollective, Collectives
  <1>2. ASSUME NEW from, NEW ok, NEW data, NEW type, Return(r, from, ok, data, type)
        PROVE  entered'[r] = entered[r] + (IF pc'[r] \in Collectives THEN 1 ELSE 0)
    BY <1>0, <1>1, <1>2 DEF Return, Abort, EnterCollective, Collectives
  <1>3. ASSUME NEW where \in InLoop, pc' = [pc EXCEPT ![r] = where], entered' = entered
        PROVE  entered'[r] = entered[r] + (IF pc'[r] \in Collectives THEN 1 ELSE 0)
    BY <1>0, <1>3 DEF InLoop, Collectives
  <1>4. ASSUME NEW e, StartEpoch(r, e), entered' = entered
        PROVE  entered'[r] = entered[r] + (IF pc'[r] \in Collectives THEN 1 ELSE 0)
    BY <1>0, <1>4 DEF StartEpoch, Collectives
  <1>5. ASSUME NEW call \in Collectives, EnterCollective(r, call)
        PROVE  entered'[r] = entered[r] + (IF pc'[r] \in Collectives THEN 1 ELSE 0)
    BY <1>0, <1>5 DEF EnterCollective
  <1>6. CASE Get(r)
    <2>1. pc[r] \notin Collectives
      BY <1>6 DEF Get, GetLocalHit, GetLocalFetchFails, GetLocalNoRoom, GetLocalBeginPlacing,
         GetLocalFinishPlacing, GetDirectly, GetClusterFull, AsksCluster, GetClusterBegin, WinLock,
         GetClusterRead, InGet, Collectives
    <2>2. CASE GetLocalHit(r) \/ GetLocalFetchFails(r) \/ GetLocalNoRoom(r) \/ GetLocalFinishPlacing(r)
      BY <1>2, <2>1, <2>2 DEF GetLocalHit, GetLocalFetchFails, GetLocalNoRoom, GetLocalFinishPlacing,
                             ReturnFile
    <2>3. CASE GetLocalBeginPlacing(r) \/ GetClusterBegin(r) \/ WinLock(r)
      BY <1>3, <2>1, <2>3 DEF GetLocalBeginPlacing, GetClusterBegin, WinLock, InLoop
    <2>4. CASE GetDirectly(r) \/ GetClusterFull(r)
      BY <1>2, <2>1, <2>4 DEF GetDirectly, GetClusterFull, CacheMiss, ReturnFile
    <2>5. CASE GetClusterRead(r)
      BY <1>2, <2>1, <2>5 DEF GetClusterRead
    <2> QED BY <1>6, <2>2, <2>3, <2>4, <2>5 DEF Get
  <1>7. CASE LeaveCollective(r)
    <2>1. AllEntered(r)
      BY <1>7 DEF LeaveCollective, LeaveIops, LeaveThroughput, LeaveEpochIops, LeaveSync,
         LeaveWinCreate, LeaveFence
    <2>2. CASE LeaveThroughput(r)
      BY <1>1, <2>1, <2>2 DEF LeaveThroughput
    <2>3. CASE LeaveEpochIops(r) \/ LeaveFence(r)
      BY <1>4, <1>5, <2>1, <2>3 DEF LeaveEpochIops, LeaveFence, Collectives
    <2>4. CASE LeaveIops(r) \/ LeaveSync(r) \/ LeaveWinCreate(r)
      BY <1>5, <2>1, <2>4 DEF LeaveIops, LeaveSync, LeaveWinCreate, Collectives
    <2> QED BY <1>7, <2>2, <2>3, <2>4 DEF LeaveCollective
  <1> QED BY <1>6, <1>7

LEMMA WaitStep ==
    ASSUME TypeOK, WaitInv, NEW r \in Ranks, Get(r) \/ LeaveCollective(r)
    PROVE  WaitInv'
  <1> SUFFICES ASSUME NEW p \in Ranks, NEW q \in Ranks
               PROVE  entered'[q] >= entered'[p] - (IF pc'[p] \in Collectives THEN 1 ELSE 0)
    BY DEF WaitInv
  <1>0. /\ \A s \in Ranks : entered[s] \in Nat
        /\ \A s \in Ranks \ {r} : entered'[s] = entered[s] /\ pc'[s] = pc[s]
        /\ entered'[r] = entered[r] + (IF pc'[r] \in Collectives THEN 1 ELSE 0)
        /\ \A s \in Ranks : entered[s] >= entered[r]
        /\ \A s, t \in Ranks : entered[t] >= entered[s] - (IF pc[s] \in Collectives THEN 1 ELSE 0)
    <2>1. pc[r] \notin Collectives => \A s \in Ranks : entered[s] >= entered[r]
      BY DEF WaitInv, TypeOK
    <2> QED BY <2>1, CallsStep, OthersStay DEF TypeOK, WaitInv, AllEntered
  <1>1. CASE p = r
    BY <1>0, <1>1
  <1>2. CASE p # r
    BY <1>0, <1>2
  <1> QED BY <1>1, <1>2

LEMMA DoneStep ==
    ASSUME TypeOK, CountedInv, DoneInv, NEW r \in Ranks, Get(r) \/ LeaveCollective(r)
    PROVE  DoneInv'
  <1> SUFFICES ASSUME NEW s \in Ranks, pc'[s] = "done" PROVE epoch'[s] = Epochs - 1
    BY DEF DoneInv
  <1>0. epoch[r] \in Nat /\ epoch[r] <= Epochs - 1 /\ Epochs \in Nat /\ Counted(r)
    BY Constants DEF TypeOK, CountedInv
  <1>1. CASE s # r
    BY <1>1, OthersStay DEF DoneInv
  <1>2. CASE s = r /\ (LeaveEpochIops(r) \/ LeaveFence(r))
    <2>1. \/ EnterCollective(r, "sync")
          \/ StartEpoch(r, epoch[r] + 1) /\ epoch[r] \in Nat
      BY <1>0, <1>2 DEF LeaveEpochIops, LeaveFence, Counted, InSync
    <2>2. ~EnterCollective(r, "sync")
      BY <1>2 DEF EnterCollective, TypeOK
    <2>3. CASE epoch[r] + 1 < Epochs
      <3>1. pc'[r] = "get"
        BY <2>1, <2>2, <2>3 DEF StartEpoch, TypeOK
      <3> QED BY <1>2, <3>1
    <2>4. CASE ~(epoch[r] + 1 < Epochs)
      BY <1>0, <1>2, <2>1, <2>2, <2>4 DEF StartEpoch
    <2> QED BY <2>3, <2>4
  <1>3. ASSUME s = r, LeaveIops(r) \/ LeaveThroughput(r) \/ LeaveSync(r) \/ LeaveWinCreate(r)
        PROVE  FALSE
    BY <1>3 DEF LeaveIops, LeaveThroughput, LeaveSync, LeaveWinCreate, NextImage, EnterCollective, TypeOK
  <1>4. ASSUME s = r, Get(r) PROVE FALSE
    <2>1. ASSUME NEW from, NEW ok, NEW data, NEW type, Return(r, from, ok, data, type) PROVE FALSE
      BY <1>4, <2>1, ReturnAdvances
    <2>2. ASSUME NEW where \in InLoop, pc' = [pc EXCEPT ![r] = where] PROVE FALSE
      BY <1>4, <2>2 DEF InLoop, TypeOK
    <2> QED BY <1>4, <2>1, <2>2 DEF Get, GetLocalHit, GetLocalFetchFails, GetLocalNoRoom,
        GetLocalBeginPlacing, GetLocalFinishPlacing, GetDirectly, GetClusterFull, CacheMiss,
        GetClusterBegin, WinLock, GetClusterRead, ReturnFile, InLoop
  <1> QED BY <1>1, <1>2, <1>3, <1>4 DEF LeaveCollective

-----------------------------------------------------------------------------
(* Places in the list, in the order in which they are read.                   *)

LEMMA EarlierPlace ==
    ASSUME NEW d \in Nat, NEW e \in Nat, d < e, NEW j \in Images, NEW i \in Images
    PROVE  d * ImageCount + j < e * ImageCount + i
  <1>1. PICK k \in Nat : e = d + 1 + k
    <2>1. e - d - 1 \in Nat
      OBVIOUS
    <2> QED BY <2>1
  <1>2. /\ (d + 1 + k) * ImageCount = d * ImageCount + ImageCount + k * ImageCount
        /\ d * ImageCount \in Nat /\ k * ImageCount \in Nat
    BY Constants
  <1> QED BY <1>1, <1>2, Constants DEF Images

LEMMA PlaceOrder ==
    ASSUME NEW d \in Nat, NEW e \in Nat, NEW j \in Images, NEW i \in Images,
           d * ImageCount + j < e * ImageCount + i
    PROVE  d < e \/ (d = e /\ j < i)
  <1>1. d * ImageCount \in Nat /\ e * ImageCount \in Nat /\ i \in Nat /\ j \in Nat
    BY Constants DEF Images
  <1>2. ~(e < d)
    BY <1>1, EarlierPlace
  <1>3. d = e => d * ImageCount = e * ImageCount
    OBVIOUS
  <1> QED BY <1>1, <1>2, <1>3

LEMMA PlaceBound ==
    ASSUME NEW e \in 0 .. (Epochs - 1), NEW i \in Images
    PROVE  /\ e * ImageCount + i < Epochs * ImageCount
           /\ (e + 1) * ImageCount = e * ImageCount + ImageCount
  <1>1. Epochs \in Nat /\ e \in Nat /\ e < Epochs /\ 0 \in Images /\ ImageCount \in Nat
    BY Constants
  <1>2. e * ImageCount + i < Epochs * ImageCount + 0
    BY <1>1, EarlierPlace
  <1>3. Epochs * ImageCount \in Nat
    BY <1>1
  <1> QED BY <1>1, <1>2, <1>3

LEMMA PlaceOf ==
    ASSUME NEW m \in Nat
    PROVE  \E d \in Nat, j \in Images : m = d * ImageCount + j /\ m % ImageCount = j
  <1>1. ImageCount \in Nat \ {0}
    BY Constants
  <1>2. /\ m = ImageCount * (m \div ImageCount) + (m % ImageCount)
        /\ m \div ImageCount \in Nat /\ m % ImageCount \in 0 .. (ImageCount - 1)
    BY <1>1
  <1>3. ImageCount * (m \div ImageCount) = (m \div ImageCount) * ImageCount
    BY <1>1, <1>2
  <1> QED BY <1>2, <1>3 DEF Images

LEMMA PlaceIsUnique ==
    ASSUME NEW e \in Nat, NEW i \in Images
    PROVE  (e * ImageCount + i) % ImageCount = i
  <1>1. e * ImageCount + i \in Nat
    BY Constants DEF Images
  <1>2. PICK d \in Nat, j \in Images :
            e * ImageCount + i = d * ImageCount + j /\ (e * ImageCount + i) % ImageCount = j
    BY <1>1, PlaceOf
  <1>3. /\ d * ImageCount \in Nat /\ e * ImageCount \in Nat
        /\ i \in Nat /\ j \in Nat
    BY Constants DEF Images
  <1>4. ~(d < e) /\ ~(e < d)
    BY <1>2, <1>3, EarlierPlace
  <1>5. d = e
    BY <1>4
  <1> QED BY <1>2, <1>3, <1>5

\* A rank that has been given at most the image at place j of epoch d has
\* entered no call behind that image.
LEMMA CallsUpTo ==
    ASSUME TypeOK, CountedInv, NEW s \in Ranks, pc[s] \notin {"done", "aborted"},
           NEW d \in Nat, NEW j \in Images, Delivered(s) <= d * ImageCount + j
    PROVE  entered[s] <= CallsBefore(d) + 2 * Prints(j)
  <1> DEFINE e == epoch[s]
             i == image[s]
  <1>1. /\ e \in Nat /\ i \in Images /\ entered[s] \in Nat
        /\ Counted(s) /\ pc[s] \in Locations
    BY DEF TypeOK, CountedInv
  <1>2. /\ i \in Nat /\ i < ImageCount /\ j \in Nat /\ j < ImageCount
        /\ e * ImageCount \in Nat /\ d * ImageCount \in Nat /\ ImageCount \in Nat
    BY <1>1, Constants DEF Images
  <1>3. /\ CallsBefore(e) \in Nat /\ CallsBefore(d) \in Nat /\ CallsOfEpoch \in Nat
        /\ Prints(i) \in Nat /\ Prints(j) \in Nat /\ Prints(ImageCount) \in Nat
        /\ CallsOfEpoch = 2 * Prints(ImageCount) + 1
    <2>1. CallsOfEpoch = 2 * Prints(ImageCount) + 1
      BY DEF CallsOfEpoch
    <2> QED BY <1>1, <1>2, <2>1, EpochNumbers, PrintsType
  <1>4. e * ImageCount + i <= d * ImageCount + j
    BY <1>2 DEF Delivered
  <1>5. ~(d < e)
    BY <1>1, <1>2, <1>4, EarlierPlace
  <1>6. entered[s] = CallsBefore(e) + CallInEpoch(pc[s], i)
    BY <1>1 DEF Counted
  <1> HIDE DEF CallsOfEpoch, CallsBefore
  <1>7. CASE e < d
    <2>1. CallsBefore(e) + CallsOfEpoch + (IF e = 0 THEN 3 ELSE 0) <= CallsBefore(d)
      BY <1>1, <1>7, EpochsApart
    <2>2. AtPrint(i) => Prints(i) + 1 <= Prints(ImageCount)
      BY <1>2, PrintsSeparate
    <2>3. Prints(i) <= Prints(ImageCount)
      BY <1>2, PrintsGrow
    <2>4. CallInEpoch(pc[s], i) <= CallsOfEpoch + (IF e = 0 THEN 3 ELSE 0)
      BY <1>1, <1>3, <2>2, <2>3 DEF CallInEpoch, Counted, InLoop, InSync, Locations, Collectives
    <2>5. CallInEpoch(pc[s], i) \in Nat
      BY <1>1, <1>3 DEF CallInEpoch, InLoop, Locations, Collectives
    <2> QED BY <1>3, <1>6, <2>1, <2>4, <2>5
  <1>8. CASE e = d
    <2>1. i <= j /\ (i = j => ~Returned(s))
      BY <1>2, <1>4, <1>8 DEF Delivered
    <2>2. CASE i = j
      <3>1. pc[s] \in InLoop
        BY <2>1, <2>2 DEF Returned, InLoop
      <3> QED BY <1>3, <1>6, <1>8, <2>2, <3>1 DEF CallInEpoch, InLoop
    <2>3. CASE i < j
      <3>1. AtPrint(i) => Prints(i) + 1 <= Prints(j)
        BY <1>2, <2>3, PrintsSeparate
      <3>2. Prints(i) <= Prints(j)
        BY <1>2, <2>3, PrintsGrow
      <3>3. pc[s] \in InLoop \cup {"iops", "throughput"}
        BY <1>1, <1>2, <2>3 DEF Counted, InSync, InLoop, Locations, Collectives
      <3>4. CallInEpoch(pc[s], i) <= 2 * Prints(j) /\ CallInEpoch(pc[s], i) \in Nat
        BY <1>1, <1>3, <3>1, <3>2, <3>3 DEF CallInEpoch, Counted, InLoop
      <3> QED BY <1>3, <1>6, <1>8, <3>4
    <2> QED BY <1>2, <2>1, <2>2, <2>3
  <1> QED BY <1>1, <1>5, <1>7, <1>8

LEMMA DeliveredType ==
    ASSUME TypeOK, NEW r \in Ranks
    PROVE  Delivered(r) \in Nat /\ epoch[r] \in Nat /\ image[r] \in Images
  <1>1. epoch[r] \in Nat /\ image[r] \in Images
    BY DEF TypeOK
  <1>2. epoch[r] * ImageCount \in Nat /\ image[r] \in Nat
    BY <1>1, Constants DEF Images
  <1> QED BY <1>1, <1>2 DEF Delivered

\* A rank that asks for an image has every meeting before it behind it, and so
\* have all the others.
LEMMA MeetingPassed ==
    ASSUME TypeOK, CountedInv, WaitInv, DoneInv,
           NEW r \in Ranks, pc[r] \in InLoop, NEW s \in Ranks, pc[s] # "aborted",
           NEW m \in Nat, m < Delivered(r),
           AtPrint(m % ImageCount) \/ LastImage(m % ImageCount)
    PROVE  Delivered(s) > m
  <1> DEFINE e == epoch[r]
             i == image[r]
  <1>1. PICK d \in Nat, j \in Images : m = d * ImageCount + j /\ m % ImageCount = j
    BY PlaceOf
  <1>2. /\ e \in Nat /\ i \in Images /\ i \in Nat /\ i < ImageCount
        /\ j \in Nat /\ j < ImageCount /\ ImageCount \in Nat \ {0}
        /\ Delivered(s) \in Nat
    BY DeliveredType, Constants DEF Images
  <1>3. d * ImageCount + j < e * ImageCount + i
    <2>1. Delivered(r) = e * ImageCount + i
      <3>1. e * ImageCount \in Nat
        BY <1>2
      <3> QED BY <1>2, <3>1 DEF Delivered, Returned, InLoop
    <2> QED BY <1>1, <2>1
  <1>4. d < e \/ (d = e /\ j < i)
    BY <1>1, <1>2, <1>3, PlaceOrder
  <1>5. /\ CallsBefore(e) \in Nat /\ CallsBefore(d) \in Nat /\ CallsOfEpoch \in Nat
        /\ Prints(i) \in Nat /\ Prints(j) \in Nat /\ Prints(ImageCount) \in Nat
        /\ CallsOfEpoch = 2 * Prints(ImageCount) + 1
    <2>1. CallsOfEpoch = 2 * Prints(ImageCount) + 1
      BY DEF CallsOfEpoch
    <2> QED BY <1>1, <1>2, <2>1, EpochNumbers, PrintsType
  <1>6. entered[r] = CallsBefore(e) + 2 * Prints(i)
    BY DEF CountedInv, Counted, CallInEpoch, InLoop
  <1> HIDE DEF CallsOfEpoch, CallsBefore
  <1>7. entered[r] > CallsBefore(d) + 2 * Prints(j)
    <2>1. CASE d < e
      <3>1. CallsBefore(d) + CallsOfEpoch + (IF d = 0 THEN 3 ELSE 0) <= CallsBefore(e)
        BY <1>1, <1>2, <2>1, EpochsApart
      <3>2. Prints(j) <= Prints(ImageCount)
        BY <1>2, PrintsGrow
      <3> QED BY <1>5, <1>6, <3>1, <3>2
    <2>2. CASE d = e /\ j < i
      <3>1. j < i
        BY <2>2
      <3>2. AtPrint(j)
        BY <1>1, <1>2, <3>1 DEF LastImage
      <3>3. Prints(j) + 1 <= Prints(i)
        BY <1>2, <3>1, <3>2, PrintsSeparate
      <3> QED BY <1>5, <1>6, <2>2, <3>3
    <2> QED BY <1>4, <2>1, <2>2
  <1>8. CASE pc[s] = "done"
    <2>1. Counted(s) /\ epoch[s] = Epochs - 1 /\ image[s] = ImageCount - 1
      BY <1>8 DEF CountedInv, Counted, DoneInv
    <2>2. Epochs - 1 \in 0 .. (Epochs - 1) /\ Epochs - 1 + 1 = Epochs /\ e \in 0 .. (Epochs - 1)
      BY Constants DEF TypeOK
    <2>3. Epochs * ImageCount = (Epochs - 1) * ImageCount + ImageCount
      BY <1>2, <2>2, PlaceBound
    <2>4. (Epochs - 1) * ImageCount \in Nat
      BY <1>2, <2>2
    <2>5. Delivered(s) = Epochs * ImageCount
      BY <1>2, <1>8, <2>1, <2>3, <2>4 DEF Delivered, Returned
    <2>6. e * ImageCount + i < Epochs * ImageCount
      BY <1>2, <2>2, PlaceBound
    <2>7. d * ImageCount \in Nat /\ e * ImageCount \in Nat /\ Epochs * ImageCount \in Nat
      BY <1>1, <1>2, Constants
    <2> QED BY <1>1, <1>2, <1>3, <2>5, <2>6, <2>7
  <1>9. CASE pc[s] # "done"
    <2>1. entered[s] >= entered[r] /\ entered[s] \in Nat /\ entered[r] \in Nat
      BY DEF WaitInv, InLoop, Collectives, TypeOK
    <2>2. ~(Delivered(s) <= d * ImageCount + j)
      <3>1. ~(entered[s] <= CallsBefore(d) + 2 * Prints(j))
        BY <1>5, <1>7, <2>1
      <3>2. pc[s] \notin {"done", "aborted"}
        BY <1>9
      <3> QED BY <1>1, <3>1, <3>2, CallsUpTo
    <2> QED BY <1>1, <1>2, <2>2
  <1> QED BY <1>8, <1>9

-----------------------------------------------------------------------------
(* What the readers see of a step.                                            *)

LEMMA NextImageDelivers ==
    ASSUME TypeOK, NEW r \in Ranks, NextImage(r), epoch' = epoch
    PROVE  Delivered(r)' = epoch[r] * ImageCount + image[r] + 1
  <1>1. epoch'[r] = epoch[r] /\ image[r] \in Nat /\ epoch[r] * ImageCount \in Nat
    <2>1. epoch'[r] = epoch[r] /\ epoch[r] \in Nat /\ image[r] \in Nat
      BY Constants DEF TypeOK, Images
    <2> QED BY <2>1, Constants
  <1>2. CASE LastImage(image[r])
    <2>1. pc'[r] = "epochIops" /\ image'[r] = image[r]
      BY <1>2 DEF NextImage, EnterCollective, TypeOK
    <2> QED BY <1>1, <2>1 DEF Delivered, Returned
  <1>3. CASE ~LastImage(image[r])
    <2>1. pc'[r] = "get" /\ image'[r] = image[r] + 1
      BY <1>3 DEF NextImage, TypeOK
    <2> QED BY <1>1, <2>1 DEF Delivered, Returned
  <1> QED BY <1>2, <1>3

LEMMA StartEpochDelivers ==
    ASSUME TypeOK, NEW r \in Ranks, StartEpoch(r, epoch[r] + 1), image[r] = ImageCount - 1, Returned(r)
    PROVE  Delivered(r)' = Delivered(r)
  <1>1. /\ epoch[r] \in Nat /\ ImageCount \in Nat /\ image[r] \in Images
        /\ epoch[r] \in 0 .. (Epochs - 1)
    BY Constants DEF TypeOK
  <1>2. epoch[r] * ImageCount \in Nat
    BY <1>1
  <1>3. CASE epoch[r] + 1 < Epochs
    <2>1. pc'[r] = "get" /\ epoch'[r] = epoch[r] + 1 /\ image'[r] = 0
      BY <1>3 DEF StartEpoch, TypeOK
    <2>2. (epoch[r] + 1) * ImageCount = epoch[r] * ImageCount + ImageCount
      BY <1>1, PlaceBound
    <2>3. Delivered(r)' = (epoch[r] + 1) * ImageCount + 0 + 0
      BY <2>1 DEF Delivered, Returned
    <2>4. Delivered(r) = epoch[r] * ImageCount + (ImageCount - 1) + 1
      BY DEF Delivered
    <2> QED BY <1>1, <1>2, <2>2, <2>3, <2>4
  <1>4. CASE ~(epoch[r] + 1 < Epochs)
    <2>1. pc'[r] = "done" /\ epoch'[r] = epoch[r] /\ image'[r] = image[r]
      BY <1>4 DEF StartEpoch, TypeOK
    <2> QED BY <2>1 DEF Delivered, Returned
  <1> QED BY <1>3, <1>4

LEMMA OthersDelivered ==
    ASSUME TypeOK, NEW r \in Ranks, Get(r) \/ LeaveCollective(r), NEW s \in Ranks, s # r
    PROVE  Delivered(s)' = Delivered(s)
  <1>1. UNCHANGED <<pc[s], epoch[s], image[s], entered[s]>>
    BY OthersStay
  <1> QED BY <1>1 DEF Delivered, Returned

\* Nothing is delivered by a collective call.
LEMMA CollectiveDelivers ==
    ASSUME TypeOK, CountedInv, NEW r \in Ranks, LeaveCollective(r)
    PROVE  Delivered(r)' = Delivered(r)
  <1>1. pc[r] \in Collectives /\ Returned(r) /\ Counted(r)
    BY DEF LeaveCollective, LeaveIops, LeaveThroughput, LeaveEpochIops, LeaveSync, LeaveWinCreate,
           LeaveFence, Collectives, Returned, CountedInv
  <1>2. ASSUME NEW call \in Collectives, EnterCollective(r, call), image' = image, epoch' = epoch
        PROVE  Delivered(r)' = Delivered(r)
    <2>1. pc'[r] = call
      BY <1>2 DEF EnterCollective, TypeOK
    <2> QED BY <1>1, <1>2, <2>1 DEF Delivered, Returned, Collectives
  <1>3. CASE LeaveIops(r) \/ LeaveSync(r) \/ LeaveWinCreate(r)
    BY <1>2, <1>3 DEF LeaveIops, LeaveSync, LeaveWinCreate, Collectives
  <1>4. CASE LeaveThroughput(r)
    <2>1. Delivered(r)' = epoch[r] * ImageCount + image[r] + 1
      BY <1>4, NextImageDelivers DEF LeaveThroughput
    <2> QED BY <1>1, <2>1 DEF Delivered
  <1>5. CASE LeaveEpochIops(r)
    <2>1. image[r] = ImageCount - 1
      BY <1>1, <1>5 DEF LeaveEpochIops, Counted
    <2> QED BY <1>1, <1>2, <1>5, <2>1, StartEpochDelivers DEF LeaveEpochIops, Collectives
  <1>6. CASE LeaveFence(r)
    <2>1. image[r] = ImageCount - 1 /\ epoch[r] = 0
      BY <1>1, <1>6 DEF LeaveFence, Counted, InSync
    <2>2. StartEpoch(r, epoch[r] + 1)
      BY <1>6, <2>1 DEF LeaveFence
    <2> QED BY <1>1, <2>1, <2>2, StartEpochDelivers
  <1> QED BY <1>3, <1>4, <1>5, <1>6 DEF LeaveCollective

RefInv ==
    /\ AgreeInv
    /\ FilledInv
    /\ WaitInv
    /\ DoneInv
    /\ \A r \in Ranks : pc[r] # "aborted"

\* Get's return of an image is a delivery.
LEMMA ReturnDelivers ==
    ASSUME RefInv, NEW r \in Ranks, pc[r] \in InLoop, Get(r),
           NEW from, NEW ok, NEW type, Return(r, from, ok, Content(File(r)), type)
    PROVE  Readers!Deliver(r) /\ pc'[r] # "aborted"
  <1> DEFINE n == Delivered(r)
  <1>1. TypeOK /\ CountedInv /\ WaitInv /\ DoneInv
    BY DEF RefInv, AgreeInv, Inv
  <1>2. /\ epoch[r] \in Nat /\ epoch[r] \in 0 .. (Epochs - 1)
        /\ image[r] \in Images /\ image[r] \in Nat /\ n \in Nat
        /\ epoch[r] * ImageCount \in Nat
    <2>1. epoch[r] \in 0 .. (Epochs - 1) /\ image[r] \in Nat
      BY <1>1, Constants DEF TypeOK, Images
    <2> QED BY <1>1, <2>1, DeliveredType, Constants
  <1>3. n = epoch[r] * ImageCount + image[r]
    BY <1>2 DEF Delivered, Returned, InLoop
  <1>4. n < Epochs * ImageCount /\ n % ImageCount = image[r]
    BY <1>2, <1>3, PlaceBound, PlaceIsUnique
  <1>5. ASSUME NEW m \in 0 .. (n - 1), Readers!Meeting(m), NEW s \in Ranks
        PROVE  Delivered(s) > m
    <2>1. AtPrint(m % ImageCount) \/ LastImage(m % ImageCount)
      BY <1>5 DEF Readers!Meeting, Readers!ImageOf, AtPrint, LastImage
    <2>2. m \in Nat /\ m < n /\ pc[s] # "aborted"
      BY <1>2 DEF RefInv
    <2> QED BY <1>1, <2>1, <2>2, MeetingPassed
  <1>6. Delivered(r)' = n + 1 /\ pc'[r] # "aborted"
    <2>1. CASE AtPrint(image[r])
      <3>1. pc'[r] = "iops" /\ image'[r] = image[r] /\ epoch'[r] = epoch[r]
        BY <1>1, <2>1 DEF Return, EnterCollective, TypeOK
      <3> QED BY <1>2, <1>3, <3>1 DEF Delivered, Returned
    <2>2. CASE ~AtPrint(image[r])
      <3>1. NextImage(r) /\ epoch' = epoch
        BY <2>2 DEF Return
      <3>2. pc'[r] # "aborted"
        BY <1>1, <3>1, NextImageMoves
      <3> QED BY <1>1, <1>3, <3>1, <3>2, NextImageDelivers
    <2> QED BY <2>1, <2>2
  <1>7. \A s \in Ranks \ {r} : Delivered(s)' = Delivered(s)
    BY <1>1, OthersDelivered
  <1>8. /\ answer'[r].data = Content(FileOf[image[r]])
        /\ \A s \in Ranks \ {r} : answer'[s].data = answer[s].data
    <2>1. /\ answer'[r] = [image |-> image[r], from |-> from, ok |-> ok, data |-> Content(File(r))]
          /\ \A s \in Ranks \ {r} : answer'[s] = answer[s]
      BY <1>1, ReturnAdvances
    <2> QED BY <2>1 DEF File
  <1>9. [s \in Ranks |-> Delivered(s)]' = [[s \in Ranks |-> Delivered(s)] EXCEPT ![r] = n + 1]
    BY <1>6, <1>7
  <1>10. [s \in Ranks |-> answer[s].data]'
            = [[s \in Ranks |-> answer[s].data] EXCEPT ![r] = Content(FileOf[n % ImageCount])]
    BY <1>4, <1>8
  <1> QED BY <1>4, <1>5, <1>6, <1>9, <1>10 DEF Readers!Deliver, Readers!ImageOf

\* A step inside Get, before it returns.
LEMMA GoesOnUnseen ==
    ASSUME TypeOK, NEW r \in Ranks, Get(r), pc[r] \in InLoop, NEW where \in InLoop,
           pc' = [pc EXCEPT ![r] = where], UNCHANGED <<epoch, image, answer>>
    PROVE  UNCHANGED Readers!vars /\ pc'[r] # "aborted"
  <1>1. pc'[r] = where
    BY DEF TypeOK
  <1>2. Delivered(r)' = Delivered(r)
    BY <1>1 DEF Delivered, Returned, InLoop
  <1>3. \A s \in Ranks : Delivered(s)' = Delivered(s)
    BY <1>2, OthersDelivered
  <1>4. [s \in Ranks |-> Delivered(s)]' = [s \in Ranks |-> Delivered(s)]
    BY <1>3
  <1> QED BY <1>1, <1>4 DEF Readers!vars, InLoop

LEMMA GetRefines ==
    ASSUME RefInv, ~FetchMayFail, NEW r \in Ranks, Get(r)
    PROVE  (Readers!Deliver(r) \/ UNCHANGED Readers!vars) /\ pc'[r] # "aborted"
  <1>1. Inv /\ TypeOK /\ AgreeInv /\ FilledInv /\ pc[r] \in InLoop
    BY GetEffect DEF RefInv, AgreeInv, Inv
  <1>2. ASSUME NEW from, NEW ok, NEW type, Return(r, from, ok, Content(File(r)), type)
        PROVE  Readers!Deliver(r) /\ pc'[r] # "aborted"
    BY <1>1, <1>2, ReturnDelivers
  <1>3. Exists(cache[r], File(r)) => ReadFile(cache[r], File(r)) = Content(File(r))
    BY <1>1, StoredFile
  <1>4. CASE GetLocalHit(r)
    BY <1>2, <1>3, <1>4 DEF GetLocalHit
  <1>5. CASE GetLocalFetchFails(r)
    BY <1>5 DEF GetLocalFetchFails
  <1>6. CASE GetLocalNoRoom(r) \/ GetLocalFinishPlacing(r)
    BY <1>2, <1>6 DEF GetLocalNoRoom, GetLocalFinishPlacing, ReturnFile
  <1>7. CASE GetDirectly(r) \/ GetClusterFull(r)
    BY <1>2, <1>3, <1>7 DEF GetDirectly, GetClusterFull, CacheMiss, ReturnFile
  <1>8. CASE GetLocalBeginPlacing(r) \/ GetClusterBegin(r) \/ WinLock(r)
    <2>1. ASSUME NEW where \in InLoop, pc' = [pc EXCEPT ![r] = where], UNCHANGED <<epoch, image, answer>>
          PROVE  UNCHANGED Readers!vars /\ pc'[r] # "aborted"
      BY <1>1, <2>1, GoesOnUnseen
    <2> QED BY <1>8, <2>1 DEF GetLocalBeginPlacing, GetClusterBegin, WinLock, InLoop
  <1>9. CASE GetClusterRead(r)
    BY <1>1, <1>2, <1>9, ReadsImage DEF GetClusterRead
  <1> QED BY <1>4, <1>5, <1>6, <1>7, <1>8, <1>9 DEF Get

LEMMA CollectiveRefines ==
    ASSUME RefInv, NEW r \in Ranks, LeaveCollective(r)
    PROVE  UNCHANGED Readers!vars /\ pc'[r] # "aborted"
  <1>1. TypeOK /\ CountedInv /\ Inv
    BY DEF RefInv, AgreeInv, Inv
  <1>2. answer' = answer /\ pc'[r] # "aborted"
    BY <1>1, CollectiveEffect
  <1>3. \A s \in Ranks : Delivered(s)' = Delivered(s)
    <2>1. Delivered(r)' = Delivered(r)
      BY <1>1, CollectiveDelivers
    <2>2. \A s \in Ranks : s # r => Delivered(s)' = Delivered(s)
      BY <1>1, OthersDelivered
    <2> QED BY <2>1, <2>2
  <1>4. [s \in Ranks |-> Delivered(s)]' = [s \in Ranks |-> Delivered(s)]
    BY <1>3
  <1> QED BY <1>2, <1>4 DEF Readers!vars

\* The caches, the index and the one-sided reads are invisible: if no download
\* fails, every rank is given all images of its list, in order and unaltered,
\* in step with the other ranks.
THEOREM ImplementsReaders ==
    ASSUME CountFits, ~FetchMayFail
    PROVE  Spec => Readers!Init /\ [][Readers!Next]_(Readers!vars)
  <1>1. Init => Readers!Init /\ RefInv
    <2> SUFFICES ASSUME Init PROVE Readers!Init /\ RefInv
      OBVIOUS
    <2>1. \A r \in Ranks : /\ pc[r] = "get" /\ epoch[r] = 0 /\ image[r] = 0 /\ entered[r] = 0
                           /\ answer[r] = NoAnswer
      BY DEF Init
    <2>2. \A r \in Ranks : Delivered(r) = 0 /\ answer[r].data = <<>>
      <3>1. 0 * ImageCount = 0
        BY Constants
      <3> QED BY <2>1, <3>1 DEF Delivered, Returned, NoAnswer
    <2>3. FilledInv
      <3>1. \A t \in Ranks, i \in Images : ~Finished(t, i)
        BY <2>1, Constants DEF Finished, InLoop, Images
      <3> QED BY <3>1 DEF FilledInv
    <2>4. WaitInv /\ DoneInv /\ \A r \in Ranks : pc[r] # "aborted"
      BY <2>1 DEF WaitInv, DoneInv, Collectives
    <2> QED BY <2>2, <2>3, <2>4, AgreeInit DEF RefInv, Readers!Init
  <1>2. RefInv /\ [Next]_vars => RefInv' /\ [Readers!Next]_(Readers!vars)
    <2> SUFFICES ASSUME RefInv, [Next]_vars PROVE RefInv' /\ [Readers!Next]_(Readers!vars)
      OBVIOUS
    <2>1. AgreeInv'
      BY AgreeStep DEF RefInv
    <2>2. ASSUME NEW r \in Ranks, Get(r) \/ LeaveCollective(r)
          PROVE  RefInv' /\ [Readers!Next]_(Readers!vars)
      <3>1. /\ Inv /\ TypeOK /\ CountedInv /\ RowsEntered /\ ReadsForeign /\ FilledInv
            /\ WaitInv /\ DoneInv /\ FailureEndsJob
        BY DEF RefInv, AgreeInv, Inv, FailureEndsJob
      <3>2. FilledInv' /\ WaitInv' /\ DoneInv'
        BY <2>2, <3>1, FilledStep, WaitStep, DoneStep
      <3>3. (Readers!Deliver(r) \/ UNCHANGED Readers!vars) /\ pc'[r] # "aborted"
        BY <2>2, GetRefines, CollectiveRefines
      <3>4. \A s \in Ranks : pc'[s] # "aborted"
        BY <2>2, <3>1, <3>3, OthersStay DEF RefInv
      <3> QED BY <2>1, <3>2, <3>3, <3>4 DEF RefInv, Readers!Next
    <2>3. ASSUME UNCHANGED vars PROVE RefInv' /\ [Readers!Next]_(Readers!vars)
      <3>1. UNCHANGED <<pc, epoch, image, index, cache, answer, entered>>
        BY <2>3 DEF vars
      <3>2. FilledInv' /\ WaitInv' /\ DoneInv' /\ \A s \in Ranks : pc'[s] # "aborted"
        BY <3>1 DEF RefInv, FilledInv, Filled, Finished, WaitInv, DoneInv
      <3>3. UNCHANGED Readers!vars
        BY <3>1 DEF Readers!vars, Delivered, Returned
      <3> QED BY <2>1, <3>2, <3>3 DEF RefInv
    <2> QED BY <2>2, <2>3 DEF Next, Step, JobOver
  <1> QED BY <1>1, <1>2, PTL DEF Spec

-----------------------------------------------------------------------------
(* The hit rates that main prints.                                            *)

LEMMA ReturnCounts ==
    ASSUME TypeOK, NEW r \in Ranks, NEW from \in HitTypes, NEW ok, NEW data, Return(r, from, ok, data, from),
           NEW s \in Ranks, NEW h \in HitTypes \cup {Unset}, hits'[s][h] # hits[s][h]
    PROVE  answer'[s].from = h
  <1>1. from # Unset
    BY DEF HitTypes, Unset
  <1>2. CASE epoch[r] = 0
    BY <1>2 DEF Return
  <1>3. CASE epoch[r] # 0
    <2>1. hits' = [hits EXCEPT ![r][from] = @ + 1]
      BY <1>1, <1>3 DEF Return
    <2>2. s = r /\ h = from
      BY <2>1 DEF TypeOK
    <2>3. answer'[r] = [image |-> image[r], from |-> from, ok |-> ok, data |-> data]
      BY ReturnAdvances
    <2> QED BY <2>2, <2>3
  <1> QED BY <1>2, <1>3

\* What main counts is where the image came from, if no download fails;
\* hits_miscounted shows what happens if one does (mpi_win.cpp:146-158).
THEOREM HitsAreCounted == ASSUME ~FetchMayFail PROVE Spec => HitsCountSources
  <1>1. TypeOK /\ [Next]_vars =>
            [\A r \in Ranks, h \in HitTypes \cup {Unset} :
                hits'[r][h] # hits[r][h] => answer'[r].from = h]_vars
    <2> SUFFICES ASSUME TypeOK, NEW r \in Ranks, Get(r) \/ LeaveCollective(r) \/ UNCHANGED hits,
                        NEW s \in Ranks, NEW h \in HitTypes \cup {Unset}, hits'[s][h] # hits[s][h]
                 PROVE  answer'[s].from = h
      BY DEF Next, Step, JobOver
    <2>1. ASSUME NEW from \in HitTypes, NEW ok, NEW data, Return(r, from, ok, data, from)
          PROVE  answer'[s].from = h
      BY <2>1, ReturnCounts
    <2>2. {"Local", "Cluster", "Miss"} = HitTypes
      BY DEF HitTypes
    <2>3. CASE UNCHANGED hits \/ LeaveCollective(r)
      BY <2>3 DEF LeaveCollective, LeaveIops, LeaveThroughput, LeaveEpochIops, LeaveSync,
                  LeaveWinCreate, LeaveFence, Quiet
    <2>4. CASE GetLocalHit(r) \/ GetLocalNoRoom(r) \/ GetLocalFinishPlacing(r)
      BY <2>1, <2>2, <2>4 DEF GetLocalHit, GetLocalNoRoom, GetLocalFinishPlacing, ReturnFile
    <2>5. CASE GetLocalBeginPlacing(r) \/ GetClusterBegin(r) \/ WinLock(r)
      BY <2>5 DEF GetLocalBeginPlacing, GetClusterBegin, WinLock
    <2>6. CASE GetDirectly(r) \/ GetClusterFull(r)
      BY <2>1, <2>2, <2>6 DEF GetDirectly, GetClusterFull, CacheMiss, ReturnFile
    <2>7. CASE GetClusterRead(r)
      BY <2>1, <2>2, <2>7 DEF GetClusterRead
    <2> QED BY <2>3, <2>4, <2>5, <2>6, <2>7 DEF Get, GetLocalFetchFails
  <1> QED BY <1>1, TypeCorrect, PTL DEF Spec, HitsCountSources
=============================================================================
