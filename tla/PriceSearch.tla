------------------------------ MODULE PriceSearch ------------------------------
(* optimizer/simple.py: the search for the cheapest machines that serve a load.      *)
(* Every combination of a number of nodes, a number of disks and a size of the disks   *)
(* is to be tried with every type of machine; but ecs_data, which the inner loop runs   *)
(* over, is a map object, which gives its rows once.                             *)
(*                                                                           *)
(* Sizes, rates and prices are small whole numbers and fractions are multiplied out.  *)
EXTENDS Integers, Sequences, Orders

CONSTANTS
    Nnodes, Nssds, SsdSizes,    \* the sequences of the three outer loops
    Machines,       \* ecss: a sequence of records with mem, cpu, tp, pps
    PriceTables,    \* the prices read from the file: of each machine, or 0 for none
    Load            \* what the clients ask for, per second, in units of tp, pps, iops and cpu

ASSUME SearchAssumption ==
    /\ Nnodes \in Seq(Nat) /\ Nssds \in Seq(Nat) /\ SsdSizes \in Seq(Nat)
    /\ Len(Machines) \in Nat
    /\ \A table \in PriceTables : table \in [1 .. Len(Machines) -> Nat]

VARIABLES
    prices,
    tried,          \* the combinations begun
    rows,           \* the machines that ecs_data has still to give
    combination,    \* the values of the outer loops' variables
    selections

searchVars == <<prices, tried, rows, combination, selections>>

\* The three outer loops, of which the last is the innermost one.
Combinations ==
    [k \in 1 .. (Len(Nnodes) * Len(Nssds) * Len(SsdSizes)) |->
        LET disks == (k - 1) \div Len(SsdSizes)
        IN  [nnodes   |-> Nnodes[(disks \div Len(Nssds)) + 1],
             nssd     |-> Nssds[(disks % Len(Nssds)) + 1],
             ssd_size |-> SsdSizes[((k - 1) % Len(SsdSizes)) + 1]]]

SearchInit ==
    /\ prices \in PriceTables
    /\ tried = 0
    /\ rows = [m \in 1 .. Len(Machines) |-> m]
    /\ combination = <<>>
    /\ selections = <<>>

\* essd_optimizer: the more disk, the more operations and bytes it gives, up to limits
\* that are not reached by disks of 1 to 4 TB.
SsdIops(c) == Load.ssdIops + c.ssd_size

SsdTp(c) == Load.ssdTp + c.ssd_size

\* optimizer: the index in memory, the network in packets and bytes, the disks in
\* operations and bytes, the processors.  cache_rate is the part of the data that
\* the memory holds, and the disks are asked for that part of the load.
Fits(machine, c) ==
    /\ machine.mem >= c.ssd_size * Load.index
    /\ Load.pps <= machine.pps * c.nnodes
    /\ Load.tp <= machine.tp * c.nnodes
    /\ Load.iops * machine.mem <= SsdIops(c) * c.nssd * c.nnodes * c.ssd_size * c.nssd
    /\ Load.tp * machine.mem <= SsdTp(c) * c.nssd * c.nnodes * c.ssd_size * c.nssd
    /\ Load.cpu <= machine.cpu * c.nnodes

TotalPrice(m, c) == prices[m] * c.nnodes + c.ssd_size * c.nssd

-----------------------------------------------------------------------------

\* A new loop over ecs_data goes on where the last one has stopped, at its end.
NextCombination ==
    /\ tried < Len(Combinations)
    /\ tried = 0 \/ rows = <<>>
    /\ combination' = Combinations[tried + 1]
    /\ tried' = tried + 1
    /\ UNCHANGED <<prices, rows, selections>>

\* Mutant: a combination is done with at the first machine that serves the load.
TryMachineBreak ==
    /\ tried > 0 /\ rows # <<>>
    /\ LET m == Head(rows)
           ok == Fits(Machines[m], combination) /\ prices[m] # 0
       IN  /\ selections' = IF ok
                            THEN Append(selections, [machine |-> m, combination |-> combination,
                                                     total_price |-> TotalPrice(m, combination)])
                            ELSE selections
           /\ rows' = IF ok THEN <<>> ELSE Tail(rows)
    /\ UNCHANGED <<prices, tried, combination>>

TryMachine ==
    /\ tried > 0 /\ rows # <<>>
    /\ LET m == Head(rows)
       IN  selections' = IF Fits(Machines[m], combination) /\ prices[m] # 0
                         THEN Append(selections, [machine |-> m, combination |-> combination,
                                                  total_price |-> TotalPrice(m, combination)])
                         ELSE selections
    /\ rows' = Tail(rows)
    /\ UNCHANGED <<prices, tried, combination>>

\* sorted by the price, and printed.
Searched == tried = Len(Combinations) /\ rows = <<>>

Sorted ==
    LET order == Order([k \in 1 .. Len(selections) |-> selections[k].total_price])
    IN  [k \in 1 .. Len(selections) |-> selections[order[k]]]

SearchOver == Searched /\ UNCHANGED searchVars

SearchNext == NextCombination \/ TryMachine \/ SearchOver

SearchSpec == SearchInit /\ [][SearchNext]_searchVars

-----------------------------------------------------------------------------

Listed(m, c) == \E i \in 1 .. Len(Sorted) : Sorted[i].machine = m /\ Sorted[i].combination = c

\* The list that is printed is sorted by prices, has no entry twice, and each with its
\* price and a machine that serves the load; of a combination in the list it has all
\* such machines, so that the first of them is the cheapest.
ListIsRight ==
    Searched =>
        \A i \in 1 .. Len(Sorted) :
            LET m == Sorted[i].machine
                c == Sorted[i].combination
            IN  /\ prices[m] # 0 /\ Fits(Machines[m], c) /\ Sorted[i].total_price = TotalPrice(m, c)
                /\ \A j \in 1 .. (i - 1) : /\ Sorted[j].total_price <= Sorted[i].total_price
                                          /\ <<Sorted[j].machine, Sorted[j].combination>> # <<m, c>>
                /\ \A k \in 1 .. Len(Machines) : prices[k] # 0 /\ Fits(Machines[k], c) => Listed(k, c)

\* Violated: every combination of the three loops is tried, with every machine.
AllCombinationsSearched ==
    Searched =>
        \A k \in 1 .. Len(Combinations), m \in 1 .. Len(Machines) :
            prices[m] # 0 /\ Fits(Machines[m], Combinations[k]) => Listed(m, Combinations[k])
=============================================================================
