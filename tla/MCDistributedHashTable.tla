----------------------- MODULE MCDistributedHashTable -----------------------
EXTENDS DistributedHashTable

\* Objects are numbers; rank r has the r-th share of them, as resetvalue skips
\* the shares of the ranks before it.
MCObjects == [r \in Ranks |-> [n \in 0 .. (Share - 1) |-> r * Share + n + 1]]

MCHashFunctions == [AllObjects -> 0 .. (Hashlen - 1)]

\* Every pair of objects meets: the hash values are close together, at the end
\* of the table where probing wraps around, or at a boundary between ranks.
MCClusteredHashFunctions == [AllObjects -> {0, Nobj - 1, Hashlen - 1}]
=============================================================================
