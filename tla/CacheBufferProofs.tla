-------------------------- MODULE CacheBufferProofs --------------------------
(* Lemmas about the storage of an IOCache, used by the proofs about a single  *)
(* cache and by those about the caches of all ranks.                          *)
EXTENDS CacheBuffer, TLAPS

\* A region that holds a file, byte by byte.
LEMMA HoldsBytes ==
    ASSUME NEW c, NEW f \in Files, NEW off \in Nat
    PROVE  Holds(c, f, off) <=>
             /\ off + SizeOf[f] <= c.current_offset
             /\ \A j \in 0 .. (SizeOf[f] - 1) : c.buffer[off + j] = [file |-> f, pos |-> j]
  <1>1. Read(c, off, SizeOf[f]) = Content(f)
          <=> \A j \in 0 .. (SizeOf[f] - 1) : c.buffer[off + j] = [file |-> f, pos |-> j]
    BY DEF Read, Content
  <1> QED BY <1>1 DEF Holds

LEMMA EmptyCacheOK == EmptyCache \in Storage /\ Intact(EmptyCache)
  <1>1. EmptyCache.hash_data \in [Files -> Entry \cup {Absent}]
    BY DEF EmptyCache
  <1>2. EmptyCache.buffer \in [Addresses -> Byte \cup {Torn}]
    BY DEF EmptyCache
  <1>3. EmptyCache.current_offset \in 0 .. BufferSize
    BY StorageAssumption DEF EmptyCache
  <1>4. EmptyCache \in Storage
    BY <1>1, <1>2, <1>3 DEF EmptyCache, Storage
  <1>5. Intact(EmptyCache)
    BY DEF EmptyCache, Intact, Placed, Exists
  <1> QED BY <1>4, <1>5

\* The fields of a storage record.
LEMMA StorageFields ==
    ASSUME NEW c \in Storage
    PROVE  /\ c.current_offset \in 0 .. BufferSize
           /\ c.buffer \in [Addresses -> Byte \cup {Torn}]
           /\ c.hash_data \in [Files -> Entry \cup {Absent}]
           /\ \A f \in Placed(c) : f \in Files /\ c.hash_data[f] \in Entry
  BY DEF Storage, Placed, Exists

\* While a file is being copied the files below stay what they are.
LEMMA BeginCopyOK ==
    ASSUME NEW c \in Storage, NEW f \in Files, Intact(c)
    PROVE  /\ BeginCopy(c, f) \in Storage
           /\ Intact(BeginCopy(c, f))
           /\ \A g \in Files, off \in Nat : Holds(c, g, off) => Holds(BeginCopy(c, f), g, off)
  <1> DEFINE d == BeginCopy(c, f)
  <1>1. d \in Storage
    BY DEF Storage, BeginCopy
  <1>2. ASSUME NEW g \in Files, NEW off \in Nat, Holds(c, g, off)
        PROVE  Holds(d, g, off)
    <2>1. /\ off + SizeOf[g] <= c.current_offset
          /\ \A j \in 0 .. (SizeOf[g] - 1) : c.buffer[off + j] = [file |-> g, pos |-> j]
      BY <1>2, HoldsBytes
    <2>2. c.current_offset \in 0 .. BufferSize /\ SizeOf[g] \in Nat /\ BufferSize \in Nat
      BY StorageFields, StorageAssumption
    <2>3. d.current_offset = c.current_offset
      BY DEF BeginCopy
    <2>4. ASSUME NEW j \in 0 .. (SizeOf[g] - 1)
          PROVE  d.buffer[off + j] = [file |-> g, pos |-> j]
      <3>1. off + j \in Addresses /\ off + j \notin Target(c, f)
        BY <2>1, <2>2 DEF Addresses, Target
      <3>2. d.buffer[off + j] = c.buffer[off + j]
        BY <3>1 DEF BeginCopy
      <3> QED BY <2>1, <3>2
    <2> QED BY <2>1, <2>3, <2>4, HoldsBytes
  <1>3. Intact(d)
    <2>1. d.hash_data = c.hash_data
      BY DEF BeginCopy
    <2>2. \A g \in Placed(c) : g \in Files /\ c.hash_data[g].off \in Nat
      BY StorageFields DEF Entry
    <2> QED BY <1>2, <2>1, <2>2 DEF Intact, Placed, Exists
  <1> QED BY <1>1, <1>2, <1>3

\* When the copy has ended the new file is there too.
LEMMA FinishCopyOK ==
    ASSUME NEW c \in Storage, NEW f \in Files, Intact(c), Fits(c, f)
    PROVE  /\ FinishCopy(c, f) \in Storage
           /\ Intact(FinishCopy(c, f))
           /\ \A g \in Files, off \in Nat : Holds(c, g, off) => Holds(FinishCopy(c, f), g, off)
           /\ Holds(FinishCopy(c, f), f, c.current_offset)
  <1> DEFINE d == FinishCopy(c, f)
             new == [off |-> c.current_offset, size |-> SizeOf[f]]
  <1>1. /\ c.current_offset \in 0 .. BufferSize /\ BufferSize \in Nat
        /\ \A g \in Files : SizeOf[g] \in Nat
        /\ c.current_offset + SizeOf[f] <= BufferSize
    BY StorageFields, StorageAssumption DEF Fits
  <1>2. d \in Storage
    <2>1. d.hash_data \in [Files -> Entry \cup {Absent}]
      BY <1>1, StorageFields DEF FinishCopy, Entry
    <2>3. d.buffer \in [Addresses -> Byte \cup {Torn}]
      <3>1. \A a \in Target(c, f) : a - c.current_offset \in Nat
        BY <1>1 DEF Target
      <3> QED BY <3>1, StorageFields DEF FinishCopy, Byte
    <2>4. d.current_offset \in 0 .. BufferSize
      BY <1>1 DEF FinishCopy
    <2> QED BY <2>1, <2>3, <2>4 DEF FinishCopy, Storage
  <1>3. ASSUME NEW g \in Files, NEW off \in Nat, Holds(c, g, off)
        PROVE  Holds(d, g, off)
    <2>1. /\ off + SizeOf[g] <= c.current_offset
          /\ \A j \in 0 .. (SizeOf[g] - 1) : c.buffer[off + j] = [file |-> g, pos |-> j]
      BY <1>3, HoldsBytes
    <2>2. d.current_offset = c.current_offset + SizeOf[f]
      BY DEF FinishCopy
    <2>3. ASSUME NEW j \in 0 .. (SizeOf[g] - 1)
          PROVE  d.buffer[off + j] = [file |-> g, pos |-> j]
      <3>1. off + j \in Addresses /\ off + j \notin Target(c, f)
        BY <1>1, <2>1 DEF Addresses, Target
      <3>2. d.buffer[off + j] = c.buffer[off + j]
        BY <3>1 DEF FinishCopy
      <3> QED BY <2>1, <3>2
    <2>4. off + SizeOf[g] <= d.current_offset
      BY <1>1, <2>1, <2>2
    <2> QED BY <2>3, <2>4, HoldsBytes
  <1>4. Holds(d, f, c.current_offset)
    <2>1. d.current_offset = c.current_offset + SizeOf[f]
      BY DEF FinishCopy
    <2>2. ASSUME NEW j \in 0 .. (SizeOf[f] - 1)
          PROVE  d.buffer[c.current_offset + j] = [file |-> f, pos |-> j]
      <3>1. /\ c.current_offset + j \in Addresses
            /\ c.current_offset + j \in Target(c, f)
            /\ (c.current_offset + j) - c.current_offset = j
        BY <1>1 DEF Addresses, Target
      <3> QED BY <3>1 DEF FinishCopy
    <2>3. c.current_offset + SizeOf[f] <= d.current_offset
      BY <1>1, <2>1
    <2>4. c.current_offset \in Nat
      BY <1>1
    <2> HIDE DEF d
    <2> QED BY <2>2, <2>3, <2>4, HoldsBytes
  <1>5. Intact(d)
    <2>1. /\ d.hash_data[f] = new
          /\ \A g \in Files : g # f => d.hash_data[g] = c.hash_data[g]
      BY StorageFields DEF FinishCopy
    <2>2. \A g \in Placed(d) : g = f \/ g \in Placed(c)
      BY <2>1 DEF Placed, Exists
    <2>3. \A g \in Placed(c) : g \in Files /\ c.hash_data[g].off \in Nat
      BY StorageFields DEF Entry
    <2>4. \A g \in Placed(c) : g # f => d.hash_data[g] = c.hash_data[g]
      BY <2>1, <2>3
    <2> HIDE DEF d
    <2> QED BY <1>3, <1>4, <2>1, <2>2, <2>3, <2>4 DEF Intact
  <1> QED BY <1>2, <1>3, <1>4, <1>5
=============================================================================
