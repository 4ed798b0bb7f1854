---------------------- MODULE DistributedHashTableProofs ----------------------
(* Proofs about the hash table, for any number of ranks, objects, rounds and   *)
(* any hash function: the types, and that ranks that overwrite each other's      *)
(* insertions never give an object a second slot nor break a probe sequence.    *)
EXTENDS DistributedHashTable, TLAPS

Start(x) == hash[x]

\* How far a slot is from another one, in the direction of probing.
Distance(from, to) == (to - from) % Hashlen

After(slot, d) == (slot + d) % Hashlen

\* A rank in hashlookup, which only ranks with objects are.
LooksUp(r) == pc[r] \in {"get", "found", "insert", "first"}

\* Slots are used up to the last hash value only.
UsedInv ==
    /\ \A r \in Ranks : LooksUp(r) => nth[r] < Share
    /\ \A s \in TableSlots : s >= Hashlen => hashtab[s] = Empty

\* The slots a rank has looked at are used, and not by its object: no other rank
\* inserts it.
VisitedBy(r) ==
    pc[r] \in {"get", "insert"} =>
        \A d \in 0 .. (Hashlen - 1) :
            d < Distance(Start(Object(r)), v[r]) =>
                hashtab[After(Start(Object(r)), d)] \notin {Empty, Object(r)}

VisitedInv == \A r \in Ranks : VisitedBy(r)

\* A rank that has come to an empty slot has no object in the table.
NowhereFor(r) == pc[r] = "insert" => \A s \in TableSlots : hashtab[s] # Object(r)

NowhereInv == \A r \in Ranks : NowhereFor(r)

IInv == TypeOK /\ UsedInv /\ VisitedInv /\ NowhereInv /\ OneSlotEach /\ ProbeChain

-----------------------------------------------------------------------------
(* Positions in the table.                                                   *)

LEMMA Constants ==
    /\ N \in Nat /\ Size \in Nat \ {0} /\ K \in Nat
    /\ Hashlen \in Nat \ {0}
    /\ Nobj \in Nat \ {0}
    /\ Share \in Nat
    /\ 0 .. (Hashlen - 1) \subseteq TableSlots
  <1>1. N \in Nat /\ Size \in Nat \ {0} /\ K \in Nat
    BY TableAssumption
  <1>2. Hashlen \in Nat \ {0}
    BY <1>1 DEF Hashlen
  <1>3. \A n \in Nat, d \in Nat \ {0} :
           /\ n \div d \in Nat
           /\ n % d \in 0 .. (d - 1)
           /\ n = d * (n \div d) + (n % d)
    BY SMT
  <1>4. 2 * N \in Nat
    BY <1>1
  <1> DEFINE q == (2 * N) \div Size
             m == (2 * N) % Size
  <1>5. q \in Nat /\ m \in 0 .. (Size - 1) /\ 2 * N = Size * q + m
    BY <1>1, <1>3, <1>4
  <1>6. Share \in Nat
    BY <1>1, <1>3 DEF Share
  <1>7. Nobj = q + 1
    BY DEF Nobj
  <1> HIDE DEF q, m
  <1>8. Size * q \in Int
    BY <1>1, <1>5
  <1>9. Nobj * Size = Size * q + Size
    BY <1>1, <1>5, <1>7
  <1>10. Nobj * Size >= Hashlen
    BY <1>1, <1>5, <1>8, <1>9 DEF Hashlen
  <1> QED BY <1>1, <1>2, <1>5, <1>6, <1>7, <1>8, <1>9, <1>10 DEF TableSlots

LEMMA Remainder ==
    ASSUME NEW H \in Nat \ {0}
    PROVE  /\ \A n \in 0 .. (H - 1) : n % H = n
           /\ \A n \in H .. (2 * H - 1) : n % H = n - H
           /\ \A n \in (1 - H) .. (-1) : n % H = n + H
  <1>1. \A n \in Int : n % H \in 0 .. (H - 1) /\ n \div H \in Int /\ n = H * (n \div H) + (n % H)
    BY SMT
  <1>2. \A q \in Int :
           /\ H * q \in Int
           /\ q >= 1 => H * q >= H
           /\ q >= 2 => H * q >= 2 * H
           /\ q <= 0 => H * q <= 0
           /\ q <= -1 => H * q <= -H
           /\ q <= -2 => H * q <= -(2 * H)
           /\ q >= 0 => H * q >= 0
    BY SMT
  <1>3. ASSUME NEW n \in 0 .. (H - 1) PROVE n % H = n
    <2> DEFINE q == n \div H
               m == n % H
    <2>1. n \in Int
      BY <1>3
    <2>2. m \in 0 .. (H - 1) /\ q \in Int /\ n = H * q + m
      BY <1>1, <2>1
    <2> HIDE DEF q, m
    <2>3. q = 0
      BY <1>2, <2>1, <2>2
    <2>4. H * (0) = 0
      OBVIOUS
    <2>5. m = n
      BY <2>1, <2>2, <2>3, <2>4
    <2> QED BY <2>5 DEF m
  <1>4. ASSUME NEW n \in H .. (2 * H - 1) PROVE n % H = n - H
    <2> DEFINE q == n \div H
               m == n % H
    <2>1. n \in Int
      BY <1>4
    <2>2. m \in 0 .. (H - 1) /\ q \in Int /\ n = H * q + m
      BY <1>1, <2>1
    <2> HIDE DEF q, m
    <2>3. q = 1
      BY <1>2, <2>1, <2>2
    <2>4. H * (1) = H
      OBVIOUS
    <2>5. m = n - H
      BY <2>1, <2>2, <2>3, <2>4
    <2> QED BY <2>5 DEF m
  <1>5. ASSUME NEW n \in (1 - H) .. (-1) PROVE n % H = n + H
    <2> DEFINE q == n \div H
               m == n % H
    <2>1. n \in Int
      BY <1>5
    <2>2. m \in 0 .. (H - 1) /\ q \in Int /\ n = H * q + m
      BY <1>1, <2>1
    <2> HIDE DEF q, m
    <2>3. q = -1
      BY <1>2, <2>1, <2>2
    <2>4. H * (-1) = -H
      OBVIOUS
    <2>5. m = n + H
      BY <2>1, <2>2, <2>3, <2>4
    <2> QED BY <2>5 DEF m
  <1> QED BY <1>3, <1>4, <1>5

LEMMA Distances ==
    ASSUME NEW a \in 0 .. (Hashlen - 1), NEW b \in 0 .. (Hashlen - 1)
    PROVE  /\ Distance(a, b) = IF b >= a THEN b - a ELSE b - a + Hashlen
           /\ After(a, b) = IF a + b < Hashlen THEN a + b ELSE a + b - Hashlen
  <1>1. /\ \A n \in 0 .. (Hashlen - 1) : n % Hashlen = n
        /\ \A n \in Hashlen .. (2 * Hashlen - 1) : n % Hashlen = n - Hashlen
        /\ \A n \in (1 - Hashlen) .. (-1) : n % Hashlen = n + Hashlen
    BY Constants, Remainder
  <1>2. Hashlen \in Nat /\ a \in Int /\ b \in Int
    BY Constants
  <1> DEFINE far == b - a
             sum == a + b
  <1>3. far % Hashlen = IF b >= a THEN b - a ELSE b - a + Hashlen
    <2>1. CASE b >= a
      <3>1. far \in 0 .. (Hashlen - 1)
        BY <1>2, <2>1
      <3> QED BY <1>1, <2>1, <3>1
    <2>2. CASE ~(b >= a)
      <3>1. far \in (1 - Hashlen) .. (-1)
        BY <1>2, <2>2
      <3> QED BY <1>1, <2>2, <3>1
    <2> QED BY <2>1, <2>2
  <1>4. sum % Hashlen = IF a + b < Hashlen THEN a + b ELSE a + b - Hashlen
    <2>1. CASE a + b < Hashlen
      <3>1. sum \in 0 .. (Hashlen - 1)
        BY <1>2, <2>1
      <3> QED BY <1>1, <2>1, <3>1
    <2>2. CASE ~(a + b < Hashlen)
      <3>1. sum \in Hashlen .. (2 * Hashlen - 1)
        BY <1>2, <2>2
      <3>2. sum % Hashlen = sum - Hashlen
        <4> HIDE DEF sum
        <4> QED BY <1>1, <3>1
      <3> QED BY <1>2, <2>2, <3>2
    <2> QED BY <2>1, <2>2
  <1> QED BY <1>3, <1>4 DEF Distance, After

\* The slot at its distance is the slot.
LEMMA AfterDistance ==
    ASSUME NEW a \in 0 .. (Hashlen - 1), NEW b \in 0 .. (Hashlen - 1)
    PROVE  /\ Distance(a, b) \in 0 .. (Hashlen - 1)
           /\ After(a, b) \in 0 .. (Hashlen - 1)
           /\ After(a, Distance(a, b)) = b
           /\ Distance(a, a) = 0
  <1>1. Distance(a, b) \in 0 .. (Hashlen - 1)
    BY Constants, Distances
  <1>2. After(a, b) \in 0 .. (Hashlen - 1)
    BY Constants, Distances
  <1>3. After(a, Distance(a, b)) = b
    BY <1>1, Constants, Distances
  <1> QED BY <1>1, <1>2, <1>3, Distances, Constants

\* Probe goes one slot further, or comes back to where it started.
LEMMA NextDistance ==
    ASSUME NEW a \in 0 .. (Hashlen - 1), NEW b \in 0 .. (Hashlen - 1)
    PROVE  LET next == IF b + 1 >= Hashlen THEN 0 ELSE b + 1
           IN  /\ next \in 0 .. (Hashlen - 1)
               /\ Distance(a, next) \in {0, Distance(a, b) + 1}
  <1> DEFINE next == IF b + 1 >= Hashlen THEN 0 ELSE b + 1
  <1>1. next \in 0 .. (Hashlen - 1)
    BY Constants
  <1>2. Distance(a, next) = IF next >= a THEN next - a ELSE next - a + Hashlen
    BY <1>1, Distances
  <1>3. Distance(a, b) = IF b >= a THEN b - a ELSE b - a + Hashlen
    BY Distances
  <1>4. Distance(a, next) \in {0, Distance(a, b) + 1}
    BY <1>1, <1>2, <1>3, Constants
  <1> QED BY <1>1, <1>4

-----------------------------------------------------------------------------
(* Objects and their owners.                                                 *)

LEMMA ObjectType ==
    ASSUME NEW r \in Ranks, NEW n \in Nat, n < Share
    PROVE  Objects[r][n] \in AllObjects
  BY Constants DEF AllObjects

LEMMA HashType ==
    ASSUME hash \in HashFunctions, NEW x \in AllObjects
    PROVE  hash[x] \in 0 .. (Hashlen - 1)
  BY TableAssumption

\* No two ranks look up one object.
LEMMA ObjectOfOne ==
    ASSUME TypeOK, NEW r \in Ranks, NEW q \in Ranks, nth[r] < Share, nth[q] < Share,
           Object(r) = Object(q)
    PROVE  r = q
  <1>1. nth[r] \in 0 .. (Share - 1) /\ nth[q] \in 0 .. (Share - 1)
    BY Constants DEF TypeOK
  <1> QED BY <1>1, TableAssumption DEF Object

LEMMA ObjectFacts ==
    ASSUME TypeOK, UsedInv, NEW r \in Ranks, LooksUp(r)
    PROVE  /\ Object(r) \in AllObjects
           /\ Object(r) # Empty
           /\ Start(Object(r)) \in 0 .. (Hashlen - 1)
           /\ v[r] \in 0 .. (Hashlen - 1)
           /\ v[r] \in TableSlots
           /\ nth[r] \in Nat /\ nth[r] < Share
  <1>1. nth[r] \in Nat /\ nth[r] < Share
    BY Constants DEF TypeOK, UsedInv
  <1>2. Object(r) \in AllObjects
    BY <1>1, ObjectType DEF Object
  <1> QED BY <1>1, <1>2, HashType, Constants, TableAssumption DEF TypeOK, Start

-----------------------------------------------------------------------------
(* The invariant.                                                            *)

LEMMA IInvInit == Init => IInv
  <1> SUFFICES ASSUME Init PROVE IInv
    OBVIOUS
  <1>1. \A r \in Ranks : Share # 0 => Objects[r][0] \in AllObjects
    BY Constants, ObjectType
  <1>2. TypeOK
    BY <1>1, Constants, HashType DEF Init, TypeOK
  <1>3. UsedInv
    BY Constants DEF Init, UsedInv, LooksUp
  <1>4. VisitedInv
    <2> SUFFICES ASSUME NEW r \in Ranks, pc[r] \in {"get", "insert"},
                        NEW d \in 0 .. (Hashlen - 1), d < Distance(Start(Object(r)), v[r])
                 PROVE  FALSE
      BY DEF VisitedInv, VisitedBy
    <2>1. Share # 0
      BY DEF Init
    <2>2. v[r] = Start(Object(r))
      BY <2>1 DEF Init, Start, Object
    <2>3. Start(Object(r)) \in 0 .. (Hashlen - 1)
      BY <1>1, <2>1, HashType DEF Init, Start, Object
    <2> QED BY <2>2, <2>3, AfterDistance
  <1>5. NowhereInv
    BY DEF Init, NowhereInv, NowhereFor
  <1>6. OneSlotEach
    BY DEF Init, OneSlotEach
  <1>7. ProbeChain
    BY DEF Init, ProbeChain
  <1> QED BY <1>2, <1>3, <1>4, <1>5, <1>6, <1>7 DEF IInv

\* main's part of a step: the rank starts its next look-up at the hash value of
\* an object, or has come to its end.
LEMMA ReturnStarts ==
    ASSUME TypeOK, UsedInv, UNCHANGED hash, NEW r \in Ranks, LooksUp(r), NEW c, Return(r, c)
    PROVE  /\ pc' = [pc EXCEPT ![r] = pc'[r]]
           /\ nth' = [nth EXCEPT ![r] = nth'[r]]
           /\ v' = [v EXCEPT ![r] = v'[r]]
           /\ pc'[r] \in {"get", "reduce"}
           /\ nth'[r] \in 0 .. (Share - 1)
           /\ v'[r] \in 0 .. (Hashlen - 1)
           /\ pc'[r] = "get" => v'[r] = hash[Objects[r][nth'[r]]]
           /\ round' \in [Ranks -> 1 .. (IF K = 0 THEN 1 ELSE K)]
           /\ repeats' \in [Ranks -> Nat]
  <1>1. nth[r] \in 0 .. (Share - 1) /\ v[r] \in 0 .. (Hashlen - 1)
    BY ObjectFacts, Constants
  <1>2. repeats' \in [Ranks -> Nat]
    BY DEF Return, TypeOK
  <1>3. CASE nth[r] + 1 < Share
    <2>1. LookUp(r, nth[r] + 1, round[r])
      BY <1>3 DEF Return
    <2>2. nth[r] + 1 \in 0 .. (Share - 1)
      BY <1>1, <1>3, Constants
    <2>3. hash[Objects[r][nth[r] + 1]] \in 0 .. (Hashlen - 1)
      BY <2>2, Constants, ObjectType, HashType DEF TypeOK
    <2> QED BY <1>2, <2>1, <2>2, <2>3 DEF LookUp, TypeOK
  <1>4. CASE ~(nth[r] + 1 < Share) /\ round[r] < K
    <2>1. LookUp(r, 0, round[r] + 1)
      BY <1>4 DEF Return
    <2>2. 0 \in 0 .. (Share - 1)
      BY <1>1, Constants
    <2>3. hash[Objects[r][0]] \in 0 .. (Hashlen - 1)
      BY <2>2, Constants, ObjectType, HashType DEF TypeOK
    <2>4. round[r] + 1 \in 1 .. (IF K = 0 THEN 1 ELSE K)
      BY <1>4, Constants DEF TypeOK
    <2> QED BY <1>2, <2>1, <2>2, <2>3, <2>4 DEF LookUp, TypeOK
  <1>5. CASE ~(nth[r] + 1 < Share) /\ ~(round[r] < K)
    <2>1. pc' = [pc EXCEPT ![r] = "reduce"] /\ UNCHANGED <<nth, round, v>>
      BY <1>5 DEF Return
    <2> QED BY <1>1, <1>2, <2>1 DEF TypeOK
  <1> QED BY <1>3, <1>4, <1>5

\* A step that leaves the table alone need only keep what is said of its rank.
LEMMA TableKept ==
    ASSUME IInv, UNCHANGED <<hash, hashtab>>, NEW r \in Ranks,
           \A q \in Ranks \ {r} : pc'[q] = pc[q] /\ nth'[q] = nth[q] /\ v'[q] = v[q],
           LooksUp(r)' => nth'[r] < Share, VisitedBy(r)', NowhereFor(r)'
    PROVE  UsedInv' /\ VisitedInv' /\ NowhereInv' /\ OneSlotEach' /\ ProbeChain'
  <1>1. UsedInv'
    BY DEF IInv, UsedInv, LooksUp
  <1>2. VisitedInv'
    BY DEF IInv, VisitedInv, VisitedBy, Object, Start
  <1>3. NowhereInv'
    BY DEF IInv, NowhereInv, NowhereFor, Object
  <1>4. OneSlotEach'
    BY DEF IInv, OneSlotEach
  <1>5. ProbeChain'
    BY DEF IInv, ProbeChain
  <1> QED BY <1>1, <1>2, <1>3, <1>4, <1>5

\* A rank that starts a look-up has visited nothing yet.
LEMMA ReturnKeeps ==
    ASSUME IInv, UNCHANGED <<ConstantsOfRun, hashtab>>, hashcount' \in [TableSlots -> Nat],
           NEW r \in Ranks, LooksUp(r), NEW c, Return(r, c)
    PROVE  IInv'
  <1> USE DEF IInv, ConstantsOfRun
  <1>1. /\ pc' = [pc EXCEPT ![r] = pc'[r]]
        /\ nth' = [nth EXCEPT ![r] = nth'[r]]
        /\ v' = [v EXCEPT ![r] = v'[r]]
        /\ pc'[r] \in {"get", "reduce"}
        /\ nth'[r] \in 0 .. (Share - 1)
        /\ v'[r] \in 0 .. (Hashlen - 1)
        /\ pc'[r] = "get" => v'[r] = hash[Objects[r][nth'[r]]]
        /\ round' \in [Ranks -> 1 .. (IF K = 0 THEN 1 ELSE K)]
        /\ repeats' \in [Ranks -> Nat]
    BY ReturnStarts
  <1>2. nth'[r] \in {n \in 0 .. Share : n < Share \/ Share = 0}
    BY <1>1, Constants
  <1>3. TypeOK'
    BY <1>1, <1>2 DEF TypeOK
  <1>4. \A q \in Ranks \ {r} : pc'[q] = pc[q] /\ nth'[q] = nth[q] /\ v'[q] = v[q]
    BY <1>1 DEF TypeOK
  <1>5. VisitedBy(r)'
    <2> SUFFICES ASSUME pc'[r] \in {"get", "insert"},
                        NEW d \in 0 .. (Hashlen - 1), d < Distance(Start(Object(r))', v'[r])
                 PROVE  FALSE
      BY DEF VisitedBy, Distance
    <2>1. v'[r] = Start(Object(r))'
      BY <1>1 DEF Start, Object
    <2>2. Distance(v'[r], v'[r]) = 0
      BY <1>1, AfterDistance
    <2> QED BY <2>1, <2>2
  <1>6. NowhereFor(r)'
    BY <1>1 DEF NowhereFor
  <1>7. LooksUp(r)' => nth'[r] < Share
    BY <1>1, Constants
  <1> QED BY <1>3, <1>4, <1>5, <1>6, <1>7, TableKept

LEMMA ProbeKeeps == ASSUME IInv, NEW r \in Ranks, Probe(r) PROVE IInv'
  <1> USE DEF IInv
  <1> DEFINE x == Object(r)
             next == IF v[r] + 1 >= Hashlen THEN 0 ELSE v[r] + 1
  <1>1. /\ pc[r] = "get" /\ hashtab[v[r]] \notin {Empty, x}
        /\ v' = [v EXCEPT ![r] = next]
        /\ UNCHANGED <<hash, rangeChecked, hashtab, hashcount, pc, round, nth, repeats>>
    BY DEF Probe, ConstantsOfRun
  <1>2. Start(x) \in 0 .. (Hashlen - 1) /\ v[r] \in 0 .. (Hashlen - 1) /\ nth[r] < Share
    BY <1>1, ObjectFacts DEF LooksUp
  <1>3. next \in 0 .. (Hashlen - 1) /\ Distance(Start(x), next) \in {0, Distance(Start(x), v[r]) + 1}
    BY <1>2, NextDistance
  <1>4. v'[r] = next
    BY <1>1 DEF TypeOK
  <1>5. TypeOK'
    BY <1>1, <1>3 DEF TypeOK
  <1>6. VisitedBy(r)'
    <2> SUFFICES ASSUME NEW d \in 0 .. (Hashlen - 1), d < Distance(Start(x), next)
                 PROVE  hashtab[After(Start(x), d)] \notin {Empty, x}
      BY <1>1, <1>4 DEF VisitedBy, Object, Start
    <2> DEFINE far == Distance(Start(x), v[r])
    <2>1. far \in 0 .. (Hashlen - 1) /\ After(Start(x), far) = v[r]
      BY <1>2, AfterDistance
    <2>2. d < far => hashtab[After(Start(x), d)] \notin {Empty, x}
      BY <1>1 DEF VisitedInv, VisitedBy
    <2> HIDE DEF far
    <2>3. d < far \/ d = far
      <3>1. Distance(Start(x), next) \in {0, far + 1}
        BY <1>3 DEF far
      <3> QED BY <2>1, <3>1, Constants
    <2> QED BY <1>1, <2>1, <2>2, <2>3
  <1>7. NowhereFor(r)' /\ (LooksUp(r)' => nth'[r] < Share)
    BY <1>1, <1>2 DEF NowhereFor
  <1> QED BY <1>1, <1>5, <1>6, <1>7, TableKept DEF TypeOK

\* An object lies at the end of a chain of used slots, so that a rank which comes
\* to an empty slot without having met its object has none.
LEMMA FindEmptyKeeps == ASSUME IInv, NEW r \in Ranks, FindEmpty(r) PROVE IInv'
  <1> USE DEF IInv
  <1> DEFINE x == Object(r)
  <1>1. /\ pc[r] = "get" /\ hashtab[v[r]] = Empty
        /\ pc' = [pc EXCEPT ![r] = "insert"]
        /\ UNCHANGED <<hash, rangeChecked, hashtab, hashcount, v, round, nth, repeats>>
    BY DEF FindEmpty, Goto, ConstantsOfRun
  <1>2. /\ Start(x) \in 0 .. (Hashlen - 1) /\ v[r] \in 0 .. (Hashlen - 1) /\ nth[r] < Share
        /\ x # Empty
    BY <1>1, ObjectFacts DEF LooksUp
  <1>3. TypeOK'
    BY <1>1 DEF TypeOK
  <1>4. VisitedBy(r)'
    BY <1>1 DEF VisitedInv, VisitedBy, Object, Start
  <1>5. ASSUME NEW s \in TableSlots, hashtab[s] = x PROVE FALSE
    <2> DEFINE here == Distance(Start(x), v[r])
               there == Distance(Start(x), s)
    <2>1. s \in 0 .. (Hashlen - 1)
      BY <1>2, <1>5, Constants DEF UsedInv, TableSlots
    <2>2. /\ here \in 0 .. (Hashlen - 1) /\ After(Start(x), here) = v[r]
          /\ there \in 0 .. (Hashlen - 1) /\ After(Start(x), there) = s
      BY <1>2, <2>1, AfterDistance
    <2>3. \A d \in 0 .. (Hashlen - 1) : d < there => hashtab[After(Start(x), d)] # Empty
      BY <1>2, <1>5 DEF ProbeChain, Distance, After, Start
    <2>4. \A d \in 0 .. (Hashlen - 1) : d < here => hashtab[After(Start(x), d)] # x
      BY <1>1 DEF VisitedInv, VisitedBy
    <2> HIDE DEF here, there
    <2>5. ~(here < there) /\ ~(there < here)
      BY <1>1, <1>5, <2>2, <2>3, <2>4
    <2>6. here = there
      BY <2>2, <2>5
    <2> QED BY <1>1, <1>2, <1>5, <2>2, <2>6
  <1>6. NowhereFor(r)'
    BY <1>1, <1>5 DEF NowhereFor, Object
  <1>7. LooksUp(r)' => nth'[r] < Share
    BY <1>1, <1>2
  <1> QED BY <1>1, <1>3, <1>4, <1>6, <1>7, TableKept DEF TypeOK

LEMMA InsertKeeps == ASSUME IInv, NEW r \in Ranks, Insert(r) PROVE IInv'
  <1> USE DEF IInv
  <1> DEFINE x == Object(r)
  <1>1. /\ pc[r] = "insert"
        /\ pc' = [pc EXCEPT ![r] = "first"]
        /\ hashtab' = [hashtab EXCEPT ![v[r]] = x]
        /\ UNCHANGED <<hash, rangeChecked, hashcount, v, round, nth, repeats>>
    BY DEF Insert, Goto, ConstantsOfRun
  <1>2. /\ Start(x) \in 0 .. (Hashlen - 1) /\ v[r] \in 0 .. (Hashlen - 1) /\ v[r] \in TableSlots
        /\ nth[r] < Share /\ x \in AllObjects /\ x # Empty
    BY <1>1, ObjectFacts DEF LooksUp
  <1>3. \A s \in TableSlots : hashtab'[s] = IF s = v[r] THEN x ELSE hashtab[s]
    BY <1>1 DEF TypeOK
  <1>4. \A s \in TableSlots : hashtab[s] # x
    BY <1>1 DEF NowhereInv, NowhereFor
  <1>5. TypeOK'
    BY <1>1, <1>2 DEF TypeOK
  <1>6. UsedInv'
    <2>1. \A q \in Ranks : LooksUp(q)' => nth'[q] < Share
      BY <1>1, <1>2 DEF UsedInv, LooksUp, TypeOK
    <2>2. \A s \in TableSlots : s >= Hashlen => hashtab'[s] = Empty
      BY <1>2, <1>3, Constants DEF UsedInv
    <2> QED BY <2>1, <2>2 DEF UsedInv
  <1>7. \A q \in Ranks : pc'[q] \in {"get", "insert"} =>
           /\ q # r /\ pc'[q] = pc[q] /\ Object(q)' = Object(q) /\ Object(q) # x
           /\ Start(Object(q)) \in 0 .. (Hashlen - 1)
    <2> TAKE q \in Ranks
    <2> HAVE pc'[q] \in {"get", "insert"}
    <2>1. q # r /\ pc'[q] = pc[q]
      BY <1>1 DEF TypeOK
    <2>2. nth[q] < Share /\ Start(Object(q)) \in 0 .. (Hashlen - 1)
      BY <2>1, ObjectFacts DEF LooksUp
    <2>3. Object(q) # x
      BY <1>2, <2>1, <2>2, ObjectOfOne
    <2> QED BY <1>1, <2>1, <2>2, <2>3 DEF Object
  <1>8. VisitedInv'
    <2> SUFFICES ASSUME NEW q \in Ranks, pc'[q] \in {"get", "insert"},
                        NEW d \in 0 .. (Hashlen - 1), d < Distance(Start(Object(q)), v[q])
                 PROVE  hashtab'[After(Start(Object(q)), d)] \notin {Empty, Object(q)}
      BY <1>1, <1>7 DEF VisitedInv, VisitedBy, Start
    <2>1. hashtab[After(Start(Object(q)), d)] \notin {Empty, Object(q)}
      BY <1>7 DEF VisitedInv, VisitedBy
    <2>2. After(Start(Object(q)), d) \in TableSlots
      BY <1>7, AfterDistance, Constants
    <2> QED BY <1>2, <1>3, <1>7, <2>1, <2>2
  <1>9. NowhereInv'
    <2> SUFFICES ASSUME NEW q \in Ranks, pc'[q] = "insert", NEW s \in TableSlots
                 PROVE  hashtab'[s] # Object(q)
      BY <1>7 DEF NowhereInv, NowhereFor
    <2>1. hashtab[s] # Object(q)
      BY <1>7 DEF NowhereInv, NowhereFor
    <2> QED BY <1>3, <1>7, <2>1
  <1>10. OneSlotEach'
    BY <1>3, <1>4 DEF OneSlotEach
  <1>11. ProbeChain'
    <2> SUFFICES ASSUME NEW s \in TableSlots, hashtab'[s] # Empty,
                        NEW d \in 0 .. (Hashlen - 1), d < Distance(Start(hashtab'[s]), s)
                 PROVE  hashtab'[After(Start(hashtab'[s]), d)] # Empty
      BY <1>1 DEF ProbeChain, Distance, After, Start
    <2>1. hashtab'[s] \in AllObjects
      BY <1>5 DEF TypeOK
    <2>2. After(Start(hashtab'[s]), d) \in TableSlots
      BY <2>1, HashType, AfterDistance, Constants DEF Start, TypeOK
    <2>3. CASE s = v[r]
      <3>1. hashtab[After(Start(x), d)] # Empty
        BY <1>1, <1>3, <2>3 DEF VisitedInv, VisitedBy
      <3> QED BY <1>2, <1>3, <2>2, <2>3, <3>1
    <2>4. CASE s # v[r]
      <3>1. hashtab[After(Start(hashtab[s]), d)] # Empty
        BY <1>3, <2>4 DEF ProbeChain, Distance, After, Start
      <3> QED BY <1>2, <1>3, <2>2, <2>4, <3>1
    <2> QED BY <2>3, <2>4
  <1> QED BY <1>5, <1>6, <1>8, <1>9, <1>10, <1>11

\* The steps that neither insert nor look at another slot.
LEMMA MoveKeeps ==
    ASSUME IInv, NEW r \in Ranks, RangeError(r) \/ Find(r) \/ Finish(r)
    PROVE  IInv'
  <1> USE DEF IInv
  <1>1. /\ pc' = [pc EXCEPT ![r] = pc'[r]]
        /\ pc'[r] \in {"aborted", "found", "done"}
        /\ pc'[r] = "found" => pc[r] = "get"
        /\ UNCHANGED <<hash, rangeChecked, hashtab, hashcount, v, round, nth, repeats>>
    BY DEF RangeError, Find, Finish, Goto, ConstantsOfRun, TypeOK
  <1>2. TypeOK'
    BY <1>1 DEF TypeOK
  <1>3. VisitedBy(r)' /\ NowhereFor(r)'
    BY <1>1 DEF VisitedBy, NowhereFor
  <1>4. LooksUp(r)' => nth'[r] < Share
    BY <1>1 DEF UsedInv, LooksUp
  <1>5. \A q \in Ranks \ {r} : pc'[q] = pc[q]
    BY <1>1 DEF TypeOK
  <1> QED BY <1>1, <1>2, <1>3, <1>4, <1>5, TableKept

LEMMA CountKeeps ==
    ASSUME IInv, NEW r \in Ranks, Increment(r) \/ CountFirst(r)
    PROVE  IInv'
  <1>1. CASE Increment(r)
    <2>1. PICK put, returned \in PossibleCounts(hashcount[v[r]]) :
              /\ hashcount' = [hashcount EXCEPT ![v[r]] = put]
              /\ Return(r, returned)
      BY <1>1 DEF Increment
    <2>2. LooksUp(r) /\ v[r] \in TableSlots
      BY <1>1, ObjectFacts DEF Increment, LooksUp, IInv
    <2>3. hashcount' \in [TableSlots -> Nat]
      BY <2>1, <2>2 DEF PossibleCounts, IInv, TypeOK
    <2> QED BY <1>1, <2>1, <2>2, <2>3, ReturnKeeps DEF Increment
  <1>2. CASE CountFirst(r)
    <2>1. LooksUp(r)
      BY <1>2 DEF CountFirst, LooksUp
    <2>2. hashcount' \in [TableSlots -> Nat]
      BY <1>2 DEF CountFirst, IInv, TypeOK
    <2> QED BY <1>2, <2>1, <2>2, ReturnKeeps DEF CountFirst
  <1> QED BY <1>1, <1>2

LEMMA IInvStep == IInv /\ [Next]_vars => IInv'
  <1> SUFFICES ASSUME IInv, [Next]_vars PROVE IInv'
    OBVIOUS
  <1>1. ASSUME NEW r \in Ranks, Step(r) PROVE IInv'
    <2>1. CASE RangeError(r) \/ Find(r) \/ Finish(r)
      BY <2>1, MoveKeeps
    <2>2. CASE Probe(r)
      BY <2>2, ProbeKeeps
    <2>3. CASE FindEmpty(r)
      BY <2>3, FindEmptyKeeps
    <2>4. CASE Increment(r) \/ CountFirst(r)
      BY <2>4, CountKeeps
    <2>5. CASE Insert(r)
      BY <2>5, InsertKeeps
    <2> QED BY <1>1, <2>1, <2>2, <2>3, <2>4, <2>5 DEF Step, Hashlookup
  <1>2. CASE UNCHANGED vars
    BY <1>2 DEF vars, IInv, TypeOK, UsedInv, LooksUp, VisitedInv, VisitedBy, NowhereInv, NowhereFor,
                OneSlotEach, ProbeChain, Object, Start
  <1> QED BY <1>1, <1>2 DEF Next, JobOver

\* The variables of the hash table have their types, for any number of ranks,
\* objects and rounds and any hash function.
THEOREM TypeCorrect == Spec => []TypeOK
  <1>1. IInv => TypeOK
    BY DEF IInv
  <1> QED BY <1>1, IInvInit, IInvStep, PTL DEF Spec

\* No object ever takes two slots, although ranks look and insert in two lock
\* epochs and overwrite each other's insertions (distributedhash.c:145-176).
THEOREM OneSlotForEach == Spec => []OneSlotEach
  <1>1. IInv => OneSlotEach
    BY DEF IInv
  <1> QED BY <1>1, IInvInit, IInvStep, PTL DEF Spec

\* All slots from an object's hash value to its slot are used, across the ends of
\* the ranks' shares and of the table: no look-up stops short of its object.
THEOREM ChainsAreWhole == Spec => []ProbeChain
  <1>1. IInv => ProbeChain
    BY DEF IInv
  <1> QED BY <1>1, IInvInit, IInvStep, PTL DEF Spec
=============================================================================
