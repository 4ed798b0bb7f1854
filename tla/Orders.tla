-------------------------------- MODULE Orders --------------------------------
(* What sort.Float64s of Go and sorted of Python do for golang-http/stats and    *)
(* optimizer/simple.py: they put a list in the order of its numbers.  That of Python  *)
(* keeps the order of equal ones, and for Go it makes no difference.             *)
EXTENDS Integers, FiniteSets

\* The places whose number comes before that of place k, and k itself.
UpTo(keys, k) == {j \in DOMAIN keys : keys[j] < keys[k] \/ (keys[j] = keys[k] /\ j <= k)}

\* The places in the order of their numbers.
Order(keys) ==
    [m \in DOMAIN keys |-> CHOOSE k \in DOMAIN keys : Cardinality(UpTo(keys, k)) = m]
=============================================================================
