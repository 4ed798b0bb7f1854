--------------------------- MODULE LockstepReaders ---------------------------
(* What the epochs of mpi_win.cpp promise, without caches or MPI: every rank  *)
(* is given the images of the list in order, Epochs times over, and each one  *)
(* is the image itself, as though the rank had asked the file server.  After  *)
(* every PrintSize-th image and at the end of an epoch the ranks meet: none   *)
(* goes on before all have got that far.                                      *)
EXTENDS Integers

CONSTANTS Ranks, ImageCount, Epochs, PrintSize, Expected(_)

VARIABLES
    delivered,      \* per rank, how many images it has been given
    data            \* per rank, the last of them

vars == <<delivered, data>>

\* The n-th delivery, counted from 0, is of this image.
ImageOf(n) == n % ImageCount

Meeting(n) == ImageOf(n) % PrintSize = 0 \/ ImageOf(n) = ImageCount - 1

Init ==
    /\ delivered = [r \in Ranks |-> 0]
    /\ data = [r \in Ranks |-> <<>>]

Deliver(r) ==
    LET n == delivered[r]
    IN  /\ n < Epochs * ImageCount
        /\ \A m \in 0 .. (n - 1) : Meeting(m) => \A s \in Ranks : delivered[s] > m
        /\ delivered' = [delivered EXCEPT ![r] = n + 1]
        /\ data' = [data EXCEPT ![r] = Expected(ImageOf(n))]

Next == \E r \in Ranks : Deliver(r)

Spec == Init /\ [][Next]_vars /\ \A r \in Ranks : WF_vars(Deliver(r))
=============================================================================
