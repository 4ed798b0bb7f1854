-------------------------- MODULE ReadThroughCache --------------------------
(* What a caller of a local cache may rely on (the comment of IOCache::      *)
(* GetOrRetrieve, sgd-comm/cache.hpp:101-110, and its signature): a read     *)
(* gives the file or fails; a file that has been placed is read without      *)
(* asking the server again and cannot fail; a file is placed only if the     *)
(* caller asked for it and there is room, and is never evicted.              *)
EXTENDS Integers

CONSTANTS Files, SizeOf, BufferSize, Content(_)

VARIABLES
    placed,     \* the files the cache holds
    used,       \* the bytes they occupy
    reply       \* the last call: its argument and its answer

vars == <<placed, used, reply>>

Reply(wanted, ok, hit, data) == [placement |-> wanted, ok |-> ok, hit |-> hit, data |-> data]

Init ==
    /\ placed = {}
    /\ used = 0
    /\ reply = Reply(FALSE, FALSE, FALSE, <<>>)

Hit(f, wanted) ==
    /\ f \in placed
    /\ reply' = Reply(wanted, TRUE, TRUE, Content(f))
    /\ UNCHANGED <<placed, used>>

Fail(f, wanted) ==
    /\ f \notin placed
    /\ reply' = Reply(wanted, FALSE, FALSE, <<>>)
    /\ UNCHANGED <<placed, used>>

ReadThrough(f, wanted) ==
    /\ f \notin placed
    /\ wanted => used + SizeOf[f] > BufferSize
    /\ reply' = Reply(wanted, TRUE, FALSE, Content(f))
    /\ UNCHANGED <<placed, used>>

Place(f) ==
    /\ f \notin placed
    /\ used + SizeOf[f] <= BufferSize
    /\ placed' = placed \cup {f}
    /\ used' = used + SizeOf[f]
    /\ reply' = Reply(TRUE, TRUE, FALSE, Content(f))

Next ==
    \E f \in Files :
        \/ \E wanted \in BOOLEAN : Hit(f, wanted) \/ Fail(f, wanted) \/ ReadThrough(f, wanted)
        \/ Place(f)

Spec == Init /\ [][Next]_vars
=============================================================================
