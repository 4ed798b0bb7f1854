----------------------------- MODULE CacheBuffer -----------------------------
(* The storage of an IOCache (sgd-comm/cache.hpp): one buffer of BufferSize   *)
(* bytes that is filled from the front and never emptied, the map hash_data_ *)
(* from file names to the region their bytes occupy, and the offset of the   *)
(* first free byte.                                                          *)
(*                                                                           *)
(* A byte is abstracted to the file it belongs to and its position there;    *)
(* Torn is a byte never written, or one that a memcpy is now writing.         *)
(* The server's files do not change while the program runs.                  *)
EXTENDS Integers

CONSTANTS
    Files,          \* the file names (SeaweedFS keys)
    SizeOf,         \* per file, its size in bytes
    BufferSize,     \* buffer_size, the bytes of one cache
    NoFile          \* stands for the absence of a file

ASSUME StorageAssumption ==
    /\ BufferSize \in Nat
    /\ SizeOf \in [Files -> Nat]
    /\ NoFile \notin Files

Byte == [file : Files, pos : Nat]

Torn == [file |-> NoFile, pos |-> 0]

Addresses == 0 .. (BufferSize - 1)

Content(f) == [j \in 0 .. (SizeOf[f] - 1) |-> [file |-> f, pos |-> j]]

Entry == [off : Nat, size : Nat]

\* The entry of a file that hash_data_ does not have.
Absent == [off |-> -1, size |-> 0]

Storage ==
    [hash_data      : [Files -> Entry \cup {Absent}],
     buffer         : [Addresses -> Byte \cup {Torn}],
     current_offset : 0 .. BufferSize]

EmptyCache ==
    [hash_data      |-> [f \in Files |-> Absent],
     buffer         |-> [a \in Addresses |-> Torn],
     current_offset |-> 0]

Exists(c, f) == c.hash_data[f] # Absent

Placed(c) == {f \in Files : Exists(c, f)}

\* memcpy out of the buffer
Read(c, off, size) == [j \in 0 .. (size - 1) |-> c.buffer[off + j]]

ReadFile(c, f) == Read(c, c.hash_data[f].off, c.hash_data[f].size)

\* Mutant: a file that would fill the buffer to its last byte is refused.
FitsStrictly(c, f) == c.current_offset + SizeOf[f] < BufferSize

Fits(c, f) == c.current_offset + SizeOf[f] <= BufferSize

\* The region behind the ones in use, where the next file will be placed.
Target(c, f) == c.current_offset .. (c.current_offset + SizeOf[f] - 1)

\* The memcpy into the buffer begins: its bytes are neither old nor new.
BeginCopy(c, f) ==
    [hash_data      |-> c.hash_data,
     buffer         |-> [a \in Addresses |-> IF a \in Target(c, f) THEN Torn ELSE c.buffer[a]],
     current_offset |-> c.current_offset]

\* Mutant: current_offset is not advanced.
FinishCopyInPlace(c, f) ==
    [hash_data |->
        [c.hash_data EXCEPT ![f] = [off |-> c.current_offset, size |-> SizeOf[f]]],
     buffer |->
        [a \in Addresses |->
            IF a \in Target(c, f)
            THEN [file |-> f, pos |-> a - c.current_offset]
            ELSE c.buffer[a]],
     current_offset |-> c.current_offset]

\* The memcpy has ended; the file is entered in hash_data_ and the offset moves.
FinishCopy(c, f) ==
    [hash_data |->
        [c.hash_data EXCEPT ![f] = [off |-> c.current_offset, size |-> SizeOf[f]]],
     buffer |->
        [a \in Addresses |->
            IF a \in Target(c, f)
            THEN [file |-> f, pos |-> a - c.current_offset]
            ELSE c.buffer[a]],
     current_offset |-> c.current_offset + SizeOf[f]]

\* The region from off on, below current_offset, holds the file f.
Holds(c, f, off) ==
    /\ off + SizeOf[f] <= c.current_offset
    /\ Read(c, off, SizeOf[f]) = Content(f)

\* What hash_data_ says is what the buffer holds.
Intact(c) ==
    \A f \in Placed(c) :
        c.hash_data[f].size = SizeOf[f] /\ Holds(c, f, c.hash_data[f].off)
=============================================================================
