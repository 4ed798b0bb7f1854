-------------------------------- MODULE Tensor --------------------------------
(* sgd-comm/src/tensor.h and tensor.cpp: numbers in one block of memory, read  *)
(* by their offset or by one index per dimension, and the two ways of printing *)
(* them.  Dimension 0 is the one whose elements are next to each other.        *)
(*                                                                           *)
(* Offsets and indexes start with 0; sequences of TLA+ with 1, so that dimension *)
(* j of the code is shape[j + 1] here.                                         *)
EXTENDS Integers, Sequences

CONSTANTS
    Shapes,         \* the shapes a tensor may have
    Elements        \* the numbers it may hold

\* A tensor without dimensions has no numbers and is never printed.
ASSUME TensorAssumption ==
    /\ Shapes \subseteq Seq(Nat \ {0}) \ {<<>>}
    /\ Elements \subseteq Int

VARIABLES
    shape,          \* shape_
    elements,       \* data_, a function of the offset
    call,           \* what is asked of the tensor, and whether it has returned
    printed,        \* the offsets of the elements printed, of pprint's the last one
    index,          \* index of pprint
    overflow        \* overflow of pprint

tensorVars == <<shape, elements, call, printed, index, overflow>>

\* The loop of setupRadix: r after j rounds, which is radixes_[j].
Radixes(s) ==
    LET r[j \in 0 .. Len(s)] == IF j = 0 THEN 1 ELSE r[j - 1] * s[j]
    IN  r

Size(s) == Radixes(s)[Len(s)]

Radix(s, j) == Radixes(s)[j - 1]

\* operator[] of a vector of indexes; it asserts that InShape.
InShape(s, i) == Len(i) = Len(s) /\ \A j \in 1 .. Len(s) : i[j] \in 0 .. (s[j] - 1)

Offset(s, i) ==
    LET offset[j \in 0 .. Len(s)] == IF j = 0 THEN 0 ELSE offset[j - 1] + i[j] * Radix(s, j)
    IN  offset[Len(s)]

\* argmax starts with the element at 0 and the value 0.
Argmax(t, n) ==
    LET best[i \in 0 .. n] ==
            IF i = 0
            THEN [ret |-> 0, max |-> 0]
            ELSE IF t[i - 1] > best[i - 1].max THEN [ret |-> i - 1, max |-> t[i - 1]] ELSE best[i - 1]
    IN  best[n].ret

\* Mutant of Elsewhere: the next index is put behind the others.
ElsewhereBehind(i, k) == Append(i, k)

\* next_index of pprint1 and new_index of pprint_vector: the index of the next lower
\* dimension is put in front.
Elsewhere(i, k) == <<k>> \o i

\* The loops of pprint1 and, in dimension 1, of pprint_vector: the offsets in the order
\* they are printed in, given the indexes of the dimensions above j.  Each round of
\* the loop of dimension j prints as many elements as lie between two of its indexes.
Printed(s) ==
    LET loop[j \in 0 .. Len(s)] ==
            [i \in Seq(Nat) |->
                IF j = 0
                THEN <<Offset(s, i)>>
                ELSE [m \in 1 .. (s[j] * Radix(s, j)) |->
                        loop[j - 1][Elsewhere(i, (m - 1) \div Radix(s, j))][((m - 1) % Radix(s, j)) + 1]]]
    IN  loop[Len(s)][<<>>]

TensorInit ==
    /\ shape \in Shapes
    /\ elements \in [0 .. (Size(shape) - 1) -> Elements]
    /\ call = "none"
    /\ printed = <<>>
    /\ index = [j \in 1 .. Len(shape) |-> 0]
    /\ overflow = 1

-----------------------------------------------------------------------------

\* pprint2.  The depth is compared with shape_.size() - 2, an unsigned number:
\* with one dimension that is the largest one, the recursion never ends in a
\* vector and reads the shape before its beginning.
Pprint2 ==
    /\ call = "none"
    /\ IF Len(shape) = 1
       THEN call' = "undefined" /\ UNCHANGED printed
       ELSE call' = "pprint2" /\ printed' = Printed(shape)
    /\ UNCHANGED <<shape, elements, index, overflow>>

CallPprint ==
    /\ call = "none"
    /\ call' = "pprint"
    /\ UNCHANGED <<shape, elements, printed, index, overflow>>

\* The for loop of pprint: index + overflow and the overflow of that, one
\* dimension after the other.  An index is reduced before its overflow is taken.
Increment(s, i, o) ==
    LET after[j \in 0 .. Len(s)] ==
            IF j = 0
            THEN [i |-> i, o |-> o]
            ELSE LET reduced == (after[j - 1].i[j] + after[j - 1].o) % s[j]
                 IN  [i |-> [after[j - 1].i EXCEPT ![j] = reduced], o |-> reduced \div s[j]]
    IN  after[Len(s)]

\* One round of pprint's loop.
Pprint ==
    /\ call = "pprint"
    /\ LET next == Increment(shape, index, overflow)
       IN  /\ index' = next.i
           /\ overflow' = next.o
           /\ IF next.o # 0
              THEN call' = "all done" /\ UNCHANGED printed
              ELSE printed' = <<Offset(shape, next.i)>> /\ UNCHANGED call
    /\ UNCHANGED <<shape, elements>>

TensorOver ==
    /\ call \in {"pprint2", "all done", "undefined"}
    /\ UNCHANGED tensorVars

TensorNext == Pprint2 \/ CallPprint \/ Pprint \/ TensorOver

TensorSpec == TensorInit /\ [][TensorNext]_tensorVars

\* The process that prints keeps running.  A round of the loop that changes nothing is
\* the loop going on, which fairness does not ask for.
TensorFairness == WF_tensorVars(Pprint)

-----------------------------------------------------------------------------

\* Indexes and offsets are two names of the same elements: no two indexes share
\* an offset, and none leads out of the block.  (operator[] and setupRadix)
IndexesAreOffsets ==
    LET indexes == {i \in [1 .. Len(shape) -> 0 .. (Size(shape) - 1)] : InShape(shape, i)}
    IN  /\ {Offset(shape, i) : i \in indexes} = 0 .. (Size(shape) - 1)
        /\ \A i, k \in indexes : Offset(shape, i) = Offset(shape, k) => i = k

\* argmax finds the first of the largest elements if that one is above zero;
\* otherwise it gives element 0, which may be smaller than others.
FirstOfTheLargest ==
    LET offsets == 0 .. (Size(shape) - 1)
        m       == Argmax(elements, Size(shape))
    IN  IF \E i \in offsets : elements[i] > 0
        THEN \A i \in offsets : elements[i] <= elements[m] /\ (i < m => elements[i] < elements[m])
        ELSE m = 0

\* What pprint2 prints of a tensor with two dimensions or more is every element
\* once, in the order of the memory; with one dimension it has no result.  The
\* elements are found by their indexes and by their size.
PrintsInOrder ==
    /\ call = "pprint2" => printed = [k \in 1 .. Size(shape) |-> k - 1] /\ Len(shape) > 1
    /\ IndexesAreOffsets /\ FirstOfTheLargest

\* Violated: pprint comes to the end that its comment "all done" (tensor.cpp:66) announces.
PprintEnds == call = "pprint" ~> call = "all done"
=============================================================================
