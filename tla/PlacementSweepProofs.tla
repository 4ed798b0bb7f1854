------------------------ MODULE PlacementSweepProofs ------------------------
(* Proofs about the placement, for every configuration and every number of   *)
(* images: the state stays type-correct, no rank is given more images than   *)
(* its budget, and at the end all slots are used.                            *)
EXTENDS PlacementSweep, FiniteSetTheorems, TLAPS

-----------------------------------------------------------------------------
(* Arithmetic of the slots.                                                  *)

LEMMA ProcessesNat == ASSUME NEW c \in Config PROVE Processes(c) \in Nat
  <1>1. \A n \in Nat, d \in Nat \ {0} : n \div d \in Nat
    BY SMT
  <1>2. c.nprocs \in Nat /\ c.nodes \in Nat \ {0}
    BY DEF Config
  <1>3. c.nprocs \div c.nodes \in Nat
    BY <1>1, <1>2
  <1> DEFINE q == c.nprocs \div c.nodes
  <1> HIDE DEF q
  <1>4. \A a, b \in Nat : a * b \in Nat
    BY SMT
  <1>5. q * c.nodes \in Nat
    BY <1>2, <1>3, <1>4 DEF q
  <1> QED BY <1>5 DEF Processes, q

LEMMA TotalCachedNat == ASSUME NEW c \in Config PROVE TotalCached(c) \in Nat
  <1>1. \A a, b \in Nat : a * b \in Nat
    BY SMT
  <1> QED BY <1>1, ProcessesNat DEF TotalCached, Config

\* The quotient and the remainder that the function computes first.
LEMMA SlotDivision ==
    ASSUME NEW c \in Config, c.total # 0
    PROVE  /\ ReplicationCount(c) \in Nat
           /\ MoreReplicated(c) \in 0 .. (c.total - 1)
           /\ TotalCached(c) = c.total * ReplicationCount(c) + MoreReplicated(c)
  <1>1. \A n \in Nat, d \in Nat \ {0} :
           /\ n \div d \in Nat
           /\ n % d \in 0 .. (d - 1)
           /\ n = d * (n \div d) + (n % d)
    BY SMT
  <1>2. c.total \in Nat \ {0}
    BY DEF Config
  <1> QED BY <1>1, <1>2, TotalCachedNat DEF ReplicationCount, MoreReplicated

\* The slots of the images follow each other without gap or overlap ...
LEMMA StartStep ==
    ASSUME NEW c \in Config, NEW i \in Nat, i < c.total
    PROVE  /\ Start(c, i) \in Nat
           /\ Count(c, i) \in Nat
           /\ Start(c, i + 1) = Start(c, i) + Count(c, i)
  <1> DEFINE q == ReplicationCount(c)
             m == MoreReplicated(c)
  <1>1. q \in Nat /\ m \in Nat
    BY SlotDivision DEF Config
  <1> HIDE DEF q, m
  <1>2. \A a, b \in Nat : a * b \in Nat
    BY SMT
  <1>3. CASE i >= m
    <2>1. Start(c, i) = m * (q + 1) + (i - m) * q
      BY <1>3 DEF Start, q, m
    <2>2. Start(c, i + 1) = m * (q + 1) + (i + 1 - m) * q
      BY <1>1, <1>3 DEF Start, q, m
    <2>3. Count(c, i) = q
      BY <1>3 DEF Count, q, m
    <2>4. (i + 1 - m) * q = (i - m) * q + q
      BY <1>1
    <2>5. m * (q + 1) \in Nat /\ (i - m) * q \in Nat
      BY <1>1, <1>2, <1>3
    <2> QED BY <1>1, <2>1, <2>2, <2>3, <2>4, <2>5
  <1>4. CASE ~(i >= m)
    <2>1. Start(c, i) = i * (q + 1)
      BY <1>4 DEF Start, q, m
    <2>2. Start(c, i + 1) = (i + 1) * (q + 1)
      <3>1. CASE i + 1 >= m
        <4>1. i + 1 = m
          BY <1>1, <1>4, <3>1
        <4>2. Start(c, i + 1) = m * (q + 1) + (i + 1 - m) * q
          BY <1>1, <3>1 DEF Start, q, m
        <4>3. (i + 1 - m) * q = 0
          BY <1>1, <4>1
        <4>4. m * (q + 1) \in Nat
          BY <1>1, <1>2
        <4> QED BY <4>1, <4>2, <4>3, <4>4
      <3>2. CASE ~(i + 1 >= m)
        BY <3>2 DEF Start, q, m
      <3> QED BY <3>1, <3>2
    <2>3. Count(c, i) = q + 1
      BY <1>4 DEF Count, q, m
    <2>4. (i + 1) * (q + 1) = i * (q + 1) + (q + 1)
      BY <1>1
    <2>5. i * (q + 1) \in Nat
      BY <1>1, <1>2
    <2> QED BY <1>1, <2>1, <2>2, <2>3, <2>4, <2>5
  <1> QED BY <1>3, <1>4

\* ... and the slots of all images are the slots of all processes.
LEMMA StartBound ==
    ASSUME NEW c \in Config, c.total # 0, NEW i \in 0 .. c.total
    PROVE  Start(c, i) \in Nat /\ Start(c, i) <= Processes(c) * c.cached
  <1> DEFINE q == ReplicationCount(c)
             m == MoreReplicated(c)
             n == c.total
  <1>1. /\ q \in Nat /\ m \in Nat /\ n \in Nat /\ m < n
        /\ Processes(c) * c.cached = n * q + m
    BY SlotDivision DEF Config, TotalCached
  <1>2. i \in Nat /\ i <= n
    BY <1>1
  <1> HIDE DEF q, m, n
  <1>3. \A a, b \in Nat : a * b \in Nat
    BY SMT
  <1>4. n * q = i * q + (n - i) * q
    BY <1>1, <1>2
  <1>5. i * q \in Nat /\ (n - i) * q \in Nat
    BY <1>1, <1>2, <1>3
  <1>6. CASE i >= m
    <2>1. Start(c, i) = m * (q + 1) + (i - m) * q
      BY <1>6 DEF Start, q, m
    <2>2. m * (q + 1) + (i - m) * q = i * q + m
      BY <1>1, <1>2
    <2> QED BY <1>1, <1>4, <1>5, <2>1, <2>2
  <1>7. CASE ~(i >= m)
    <2>1. Start(c, i) = i * (q + 1)
      BY <1>7 DEF Start, q, m
    <2>2. i * (q + 1) = i * q + i
      BY <1>1, <1>2
    <2> QED BY <1>1, <1>2, <1>4, <1>5, <1>7, <2>1, <2>2
  <1> QED BY <1>6, <1>7

\* A slot s of rank r = s % p that comes after k earlier ones of the same
\* rank lies at least k rounds beyond r.
LEMMA RoundsOfSlot ==
    ASSUME NEW p \in Nat \ {0}, NEW s \in Nat, NEW k \in Nat, NEW r \in Nat,
           r = s % p,
           k >= 1 => r + (k - 1) * p < s
    PROVE  r + k * p <= s
  <1> DEFINE d == s \div p
  <1>1. d \in Nat /\ s = p * d + r /\ r < p
    <2>1. \A a \in Nat, b \in Nat \ {0} :
             /\ a \div b \in Nat
             /\ a % b \in 0 .. (b - 1)
             /\ a = b * (a \div b) + (a % b)
      BY SMT
    <2> QED BY <2>1
  <1> HIDE DEF d
  <1>2. CASE k = 0
    <2>1. k * p = 0
      BY <1>2
    <2>2. p * d \in Nat
      BY <1>1
    <2> QED BY <1>1, <2>1, <2>2
  <1>3. CASE k >= 1
    <2>1. (k - 1) * p < p * d
      <3>1. (k - 1) * p \in Int /\ p * d \in Int
        BY <1>1
      <3> QED BY <1>1, <1>3, <3>1
    <2>2. k - 1 < d
      <3>1. SUFFICES ASSUME ~(k - 1 < d) PROVE FALSE
        OBVIOUS
      <3>2. \E e \in Nat : k - 1 = d + e
        <4>1. k - 1 - d \in Nat /\ k - 1 = d + (k - 1 - d)
          BY <1>1, <1>3, <3>1
        <4> QED BY <4>1
      <3>3. PICK e \in Nat : k - 1 = d + e
        BY <3>2
      <3>4. (k - 1) * p = p * d + e * p
        BY <1>1, <3>3
      <3>5. e * p \in Nat /\ p * d \in Nat
        BY <1>1, <3>3
      <3> QED BY <2>1, <3>4, <3>5
    <2>3. PICK e \in Nat : d = k + e
      <3>1. d - k \in Nat /\ d = k + (d - k)
        BY <1>1, <1>3, <2>2
      <3> QED BY <3>1
    <2>4. p * d = k * p + e * p
      BY <2>3
    <2>5. e * p \in Nat /\ k * p \in Nat
      BY <2>3
    <2> QED BY <1>1, <2>4, <2>5
  <1> QED BY <1>2, <1>3

-----------------------------------------------------------------------------
(* Type correctness and the budget.                                          *)

\* The type invariant of the sweep, for every set of configurations.
THEOREM TypeCorrect == SweepSpec => []SweepTypeOK
  <1>1. SweepInit => SweepTypeOK
    <2>1. SUFFICES ASSUME SweepInit PROVE SweepTypeOK
      OBVIOUS
    <2>2. config \in Config
      BY <2>1, ConfigsAssumption DEF SweepInit
    <2> QED BY <2>1, <2>2 DEF SweepInit, SweepTypeOK, SweepRanks, Config
  <1>2. SweepTypeOK /\ [SweepNext]_sweepVars => SweepTypeOK'
    <2>1. SUFFICES ASSUME SweepTypeOK, [SweepNext]_sweepVars PROVE SweepTypeOK'
      OBVIOUS
    <2>2. config \in Config
      BY <2>1, ConfigsAssumption DEF SweepTypeOK
    <2>3. CASE VisitImage
      BY <2>1, <2>2, <2>3 DEF VisitImage, SweepTypeOK, SweepRanks, Config
    <2>4. CASE EndOfSweep \/ UNCHANGED sweepVars
      BY <2>1, <2>4 DEF EndOfSweep, SweepTypeOK, SweepRanks, sweepVars
    <2> QED BY <2>1, <2>3, <2>4 DEF SweepNext
  <1> QED BY <1>1, <1>2, PTL DEF SweepSpec

\* The strengthening that is inductive: the last of the load[r] images of
\* rank r used a slot below the ones still to be dealt, and the slots of one
\* rank are a full round of processes apart.
RoundsInv ==
    \A r \in SweepRanks :
        load[r] >= 1 =>
            /\ config.total # 0
            /\ Processes(config) # 0
            /\ r + (load[r] - 1) * Processes(config) < Start(config, image)

LEMMA RoundsInvInit == SweepInit => RoundsInv
  BY DEF SweepInit, RoundsInv, SweepRanks

LEMMA RoundsInvStep == SweepTypeOK /\ RoundsInv /\ [SweepNext]_sweepVars => RoundsInv'
  <1> SUFFICES ASSUME SweepTypeOK, RoundsInv, [SweepNext]_sweepVars PROVE RoundsInv'
    OBVIOUS
  <1>1. config \in Config /\ config \in Configs
    BY ConfigsAssumption DEF SweepTypeOK
  <1>2. CASE VisitImage
    <2> DEFINE p == Processes(config)
    <2>1. /\ image \in Nat /\ image < config.total /\ config.total \in Nat
          /\ config' = config /\ image' = image + 1
          /\ SweepRanks' = SweepRanks /\ SweepRanks \subseteq Nat
          /\ load \in [SweepRanks -> Nat]
          /\ load' = [r \in SweepRanks |->
                        IF r \in TargetRanks(config, image) THEN load[r] + 1 ELSE load[r]]
      BY <1>1, <1>2 DEF VisitImage, SweepTypeOK, SweepRanks, Config
    <2>2. /\ Start(config, image) \in Nat
          /\ Count(config, image) \in Nat
          /\ Start(config, image + 1) = Start(config, image) + Count(config, image)
      BY <1>1, <2>1, StartStep
    <2>3. p \in Nat
      BY <1>1, ProcessesNat
    <2> SUFFICES ASSUME NEW r \in SweepRanks, load'[r] >= 1
                 PROVE  p # 0 /\ r + (load'[r] - 1) * p < Start(config, image + 1)
      BY <2>1 DEF RoundsInv
    <2>4. CASE r \notin TargetRanks(config, image)
      <3>1. load'[r] = load[r] /\ load[r] \in Nat /\ r \in Nat
        BY <2>1, <2>4
      <3>2. p # 0 /\ r + (load[r] - 1) * p < Start(config, image)
        BY <3>1 DEF RoundsInv
      <3>3. (load[r] - 1) * p \in Int
        BY <2>3, <3>1
      <3> HIDE DEF p
      <3> QED BY <2>2, <2>3, <3>1, <3>2, <3>3
    <2>5. CASE r \in TargetRanks(config, image)
      <3>1. load'[r] = load[r] + 1 /\ load[r] \in Nat /\ r \in Nat
        BY <2>1, <2>5
      <3>2. PICK s \in Slots(config, image) : r = s % p
        BY <2>5 DEF TargetRanks
      <3>3. s \in Nat /\ Start(config, image) <= s
              /\ s < Start(config, image) + Count(config, image)
        BY <2>2, <3>2 DEF Slots
      <3>4. p # 0
        <4>1. image < TotalCached(config)
          <5>1. ~(image >= TotalCached(config))
            BY <2>5 DEF TargetRanks
          <5> QED BY <5>1, <2>1, <1>1, TotalCachedNat
        <4>2. TotalCached(config) = p * config.cached /\ config.cached \in Nat
          BY <1>1 DEF TotalCached, Config
        <4> HIDE DEF p
        <4>3. p = 0 => p * config.cached = 0
          BY <4>2
        <4> QED BY <4>1, <4>2, <4>3, <2>1
      <3>5. load[r] >= 1 => r + (load[r] - 1) * p < s
        <4>1. SUFFICES ASSUME load[r] >= 1 PROVE r + (load[r] - 1) * p < s
          OBVIOUS
        <4>2. r + (load[r] - 1) * p < Start(config, image)
          BY <4>1 DEF RoundsInv
        <4>3. (load[r] - 1) * p \in Int
          BY <2>3, <3>1
        <4> HIDE DEF p
        <4> QED BY <2>2, <3>1, <3>3, <4>2, <4>3
      <3> HIDE DEF p
      <3>6. r + load[r] * p <= s
        BY <2>3, <3>1, <3>2, <3>3, <3>4, <3>5, RoundsOfSlot
      <3>7. load[r] * p \in Nat
        <4>1. \A a, b \in Nat : a * b \in Nat
          BY SMT
        <4> QED BY <2>3, <3>1, <4>1
      <3>8. load'[r] - 1 = load[r]
        BY <3>1
      <3> QED BY <2>2, <3>1, <3>3, <3>4, <3>6, <3>7, <3>8
    <2> QED BY <2>4, <2>5
  <1>3. CASE EndOfSweep \/ UNCHANGED sweepVars
    BY <1>3 DEF EndOfSweep, RoundsInv, SweepRanks, sweepVars
  <1> QED BY <1>2, <1>3 DEF SweepNext

LEMMA RoundsInvImplies == SweepTypeOK /\ RoundsInv => LoadWithinBudget
  <1> SUFFICES ASSUME SweepTypeOK, RoundsInv, NEW r \in SweepRanks
               PROVE  load[r] <= config.cached
    BY DEF LoadWithinBudget
  <1> DEFINE p == Processes(config)
             k == load[r]
  <1>1. config \in Config
    BY ConfigsAssumption DEF SweepTypeOK
  <1>2. p \in Nat /\ k \in Nat /\ r \in Nat /\ config.cached \in Nat
          /\ config.total \in Nat /\ image \in 0 .. config.total
    BY <1>1, ProcessesNat DEF SweepTypeOK, SweepRanks, Config
  <1>3. CASE k = 0
    BY <1>2, <1>3
  <1>4. CASE k >= 1
    <2>1. p # 0 /\ r + (k - 1) * p < Start(config, image)
      BY <1>4 DEF RoundsInv
    <2>2. config.total # 0
      BY <1>4 DEF RoundsInv
    <2>3. k <= config.cached
      <3>1. Start(config, image) \in Nat /\ Start(config, image) <= p * config.cached
        BY <1>1, <1>2, <2>2, StartBound
      <3> HIDE DEF p, k
      <3>2. (k - 1) * p < p * config.cached
        <4>1. (k - 1) * p \in Int /\ p * config.cached \in Int
          BY <1>2
        <4> QED BY <1>2, <2>1, <3>1, <4>1
      <3>3. SUFFICES ASSUME ~(k <= config.cached) PROVE FALSE
        OBVIOUS
      <3>4. \E e \in Nat : k - 1 = config.cached + e
        <4>1. k - 1 - config.cached \in Nat
                /\ k - 1 = config.cached + (k - 1 - config.cached)
          BY <1>2, <1>4, <3>3
        <4> QED BY <4>1
      <3>5. PICK e \in Nat : k - 1 = config.cached + e
        BY <3>4
      <3>6. (k - 1) * p = p * config.cached + e * p
        <4>1. (k - 1) * p = (config.cached + e) * p
          BY <3>5
        <4>2. (config.cached + e) * p = p * config.cached + e * p
          BY <1>2, <3>5
        <4> QED BY <4>1, <4>2
      <3>7. e * p \in Nat /\ p * config.cached \in Nat
        BY <1>2, <3>5
      <3> QED BY <3>2, <3>6, <3>7
    <2> QED BY <2>3
  <1> QED BY <1>2, <1>3, <1>4

\* No rank is asked to keep more images than images_per_proc, whatever the
\* numbers of processes, nodes, images and slots.
THEOREM BudgetRespected == SweepSpec => []LoadWithinBudget
  <1>1. SweepSpec => []RoundsInv
    BY TypeCorrect, RoundsInvInit, RoundsInvStep, PTL DEF SweepSpec
  <1> QED BY <1>1, TypeCorrect, RoundsInvImplies, PTL

-----------------------------------------------------------------------------
(* The slots are used to the last one.                                        *)

LEMMA ModOfRound ==
    ASSUME NEW p \in Nat \ {0}, NEW r \in 0 .. (p - 1), NEW k \in Nat
    PROVE  (r + k * p) % p = r
  <1> DEFINE s == r + k * p
             d == s \div p
             x == s % p
  <1>1. k * p \in Nat /\ s \in Nat /\ r \in Nat /\ r < p
    <2>1. k * p \in Nat
      OBVIOUS
    <2> QED BY <2>1
  <1>2. d \in Nat /\ x \in 0 .. (p - 1) /\ s = p * d + x
    <2>1. \A a \in Nat, b \in Nat \ {0} :
             /\ a \div b \in Nat
             /\ a % b \in 0 .. (b - 1)
             /\ a = b * (a \div b) + (a % b)
      BY SMT
    <2> QED BY <1>1, <2>1
  <1> HIDE DEF d, x
  <1>3. p * d \in Nat
    BY <1>2
  <1>4. ASSUME k < d PROVE FALSE
    <2>1. PICK e \in Nat : d = k + 1 + e
      <3>1. d - k - 1 \in Nat /\ d = k + 1 + (d - k - 1)
        BY <1>2, <1>4
      <3> QED BY <3>1
    <2>2. p * d = k * p + p + e * p /\ e * p \in Nat
      BY <2>1
    <2> QED BY <1>1, <1>2, <2>2
  <1>5. ASSUME d < k PROVE FALSE
    <2>1. PICK e \in Nat : k = d + 1 + e
      <3>1. k - d - 1 \in Nat /\ k = d + 1 + (k - d - 1)
        BY <1>2, <1>5
      <3> QED BY <3>1
    <2>2. k * p = p * d + p + e * p /\ e * p \in Nat
      BY <1>2, <2>1
    <2> QED BY <1>1, <1>2, <1>3, <2>2
  <1>6. d = k
    BY <1>2, <1>4, <1>5
  <1>7. p * d = k * p
    BY <1>6
  <1> QED BY <1>1, <1>2, <1>3, <1>7 DEF x

\* Of p slots in a row each rank below p has one.
LEMMA SlotInRound ==
    ASSUME NEW p \in Nat \ {0}, NEW r \in 0 .. (p - 1), NEW a \in Nat
    PROVE  \E s \in a .. (a + p - 1) : s % p = r
  <1> DEFINE d == a \div p
             x == a % p
  <1>1. d \in Nat /\ x \in 0 .. (p - 1) /\ a = d * p + x /\ d * p \in Nat
    <2>1. \A n \in Nat, b \in Nat \ {0} :
             /\ n \div b \in Nat
             /\ n % b \in 0 .. (b - 1)
             /\ n = b * (n \div b) + (n % b)
      BY SMT
    <2>2. d \in Nat /\ x \in 0 .. (p - 1) /\ a = p * d + x
      BY <2>1
    <2>3. p * d = d * p /\ d * p \in Nat
      BY <2>2
    <2> QED BY <2>2, <2>3
  <1> HIDE DEF d, x
  <1>2. CASE x <= r
    <2>1. (r + d * p) % p = r
      BY <1>1, ModOfRound
    <2>2. r + d * p \in a .. (a + p - 1)
      BY <1>1, <1>2
    <2> QED BY <2>1, <2>2
  <1>3. CASE ~(x <= r)
    <2>1. (r + (d + 1) * p) % p = r
      BY <1>1, ModOfRound
    <2>2. (d + 1) * p = d * p + p
      BY <1>1
    <2>3. r + (d + 1) * p \in a .. (a + p - 1)
      BY <1>1, <1>3, <2>2
    <2> QED BY <2>1, <2>3
  <1> QED BY <1>2, <1>3

\* No image has more slots than there are processes, or each has one in every
\* process.
LEMMA CountBound ==
    ASSUME NEW c \in Config, NEW i \in Nat, i < c.total
    PROVE  /\ c.cached <= c.total => Count(c, i) <= Processes(c)
           /\ c.cached > c.total => Count(c, i) >= Processes(c)
           /\ i >= TotalCached(c) => Count(c, i) = 0
  <1> DEFINE q == ReplicationCount(c)
             m == MoreReplicated(c)
             n == c.total
             p == Processes(c)
             k == c.cached
  <1>1. /\ q \in Nat /\ m \in Nat /\ n \in Nat \ {0} /\ m < n /\ p \in Nat /\ k \in Nat
        /\ p * k = n * q + m /\ TotalCached(c) = p * k
    BY SlotDivision, ProcessesNat DEF Config, TotalCached
  <1>2. Count(c, i) = IF i >= m THEN q ELSE q + 1
    BY DEF Count
  <1> HIDE DEF q, m, n, p, k
  <1>3. ASSUME k <= n PROVE Count(c, i) <= p
    <2>1. PICK d \in Nat : n = k + d
      <3>1. n - k \in Nat /\ n = k + (n - k)
        BY <1>1, <1>3
      <3> QED BY <3>1
    <2>2. n * p = p * k + d * p /\ d * p \in Nat
      BY <1>1, <2>1
    <2>3. ASSUME q > p PROVE FALSE
      <3>1. PICK e \in Nat : q = p + 1 + e
        <4>1. q - p - 1 \in Nat /\ q = p + 1 + (q - p - 1)
          BY <1>1, <2>3
        <4> QED BY <4>1
      <3>2. n * q = n * p + n + n * e /\ n * e \in Nat /\ n * p \in Nat
        BY <1>1, <3>1
      <3> QED BY <1>1, <2>2, <3>2
    <2>4. q = p => m = 0
      <3>1. q = p => n * q = n * p
        OBVIOUS
      <3>2. n * q \in Nat /\ n * p \in Nat /\ p * k \in Nat
        BY <1>1
      <3> QED BY <1>1, <2>2, <3>1, <3>2
    <2> QED BY <1>1, <1>2, <2>3, <2>4
  <1>4. ASSUME k > n PROVE Count(c, i) >= p
    <2>1. PICK d \in Nat : k = n + 1 + d
      <3>1. k - n - 1 \in Nat /\ k = n + 1 + (k - n - 1)
        BY <1>1, <1>4
      <3> QED BY <3>1
    <2>2. p * k = n * p + p + d * p /\ d * p \in Nat /\ n * p \in Nat
      BY <1>1, <2>1
    <2>3. ASSUME q < p PROVE FALSE
      <3>1. PICK e \in Nat : p = q + 1 + e
        <4>1. p - q - 1 \in Nat /\ p = q + 1 + (p - q - 1)
          BY <1>1, <2>3
        <4> QED BY <4>1
      <3>2. n * p = n * q + n + n * e /\ n * e \in Nat /\ n * q \in Nat
        BY <1>1, <3>1
      <3> QED BY <1>1, <2>2, <3>2
    <2> QED BY <1>1, <1>2, <2>3
  <1>5. ASSUME i >= p * k PROVE Count(c, i) = 0
    <2>1. q = 0
      <3>1. ASSUME q >= 1 PROVE FALSE
        <4>1. PICK e \in Nat : q = 1 + e
          <5>1. q - 1 \in Nat /\ q = 1 + (q - 1)
            BY <1>1, <3>1
          <5> QED BY <5>1
        <4>2. n * q = n + n * e /\ n * e \in Nat
          BY <1>1, <4>1
        <4>3. i < n
          BY DEF n
        <4> QED BY <1>1, <1>5, <4>2, <4>3
      <3> QED BY <1>1, <3>1
    <2>2. n * q = 0
      BY <1>1, <2>1
    <2> QED BY <1>1, <1>2, <1>5, <2>1, <2>2
  <1> QED BY <1>1, <1>3, <1>4, <1>5 DEF n, p, k

LEMMA AllSlotsDealt ==
    ASSUME NEW c \in Config, c.total # 0
    PROVE  Start(c, c.total) = Processes(c) * c.cached
  <1> DEFINE q == ReplicationCount(c)
             m == MoreReplicated(c)
             n == c.total
  <1>1. /\ q \in Nat /\ m \in Nat /\ n \in Nat \ {0} /\ m < n
        /\ Processes(c) * c.cached = n * q + m
    BY SlotDivision DEF Config, TotalCached
  <1>2. Start(c, n) = m * (q + 1) + (n - m) * q
    BY <1>1 DEF Start
  <1> HIDE DEF q, m, n
  <1>3. m * (q + 1) + (n - m) * q = n * q + m
    BY <1>1
  <1> QED BY <1>1, <1>2, <1>3 DEF n

\* The other half of the strengthening: no slot of a rank has been passed over,
\* or the rank has been given every image.
Filled(r) ==
    /\ r >= Processes(config) \/ config.total = 0 => load[r] = 0
    /\ r < Processes(config) /\ config.total # 0 =>
          IF config.cached <= config.total
          THEN Start(config, image) <= r + load[r] * Processes(config)
          ELSE load[r] = image

FilledInv == \A r \in SweepRanks : Filled(r)

LEMMA FilledInit == SweepInit => FilledInv
  <1> SUFFICES ASSUME SweepInit, NEW r \in SweepRanks PROVE Filled(r)
    BY DEF FilledInv
  <1>1. config \in Config /\ load[r] = 0 /\ image = 0 /\ r \in Nat
    BY ConfigsAssumption DEF SweepInit, SweepRanks
  <1>2. Processes(config) \in Nat
    BY <1>1, ProcessesNat
  <1>3. config.total # 0 => Start(config, 0) = 0
    <2> SUFFICES ASSUME config.total # 0 PROVE Start(config, 0) = 0
      OBVIOUS
    <2> DEFINE q == ReplicationCount(config)
               m == MoreReplicated(config)
    <2>1. q \in Nat /\ m \in Nat
      BY <1>1, SlotDivision
    <2>2. Start(config, 0) = IF 0 >= m THEN m * (q + 1) + (0 - m) * q ELSE 0 * (q + 1)
      BY DEF Start
    <2> HIDE DEF q, m
    <2>3. 0 * (q + 1) = 0 /\ (m = 0 => m * (q + 1) + (0 - m) * q = 0)
      BY <2>1
    <2> QED BY <2>1, <2>2, <2>3
  <1>4. r + load[r] * Processes(config) = r
    BY <1>1, <1>2
  <1> QED BY <1>1, <1>3, <1>4 DEF Filled

\* Which ranks are given an image.
LEMMA TargetsOf ==
    ASSUME NEW c \in Config, NEW i \in Nat, i < c.total, NEW r \in Nat
    PROVE  /\ r \in TargetRanks(c, i) => r < Processes(c)
           /\ \A s \in Slots(c, i) : Processes(c) # 0 /\ s % Processes(c) = r => r \in TargetRanks(c, i)
           /\ Processes(c) # 0 /\ r < Processes(c) /\ c.cached > c.total => r \in TargetRanks(c, i)
  <1> DEFINE p == Processes(c)
  <1>1. /\ p \in Nat /\ c.total # 0 /\ TotalCached(c) \in Nat /\ TotalCached(c) = p * c.cached
        /\ Start(c, i) \in Nat /\ Count(c, i) \in Nat /\ c.cached \in Nat /\ c.total \in Nat
    BY ProcessesNat, TotalCachedNat, StartStep DEF TotalCached, Config
  <1>2. Slots(c, i) = Start(c, i) .. (Start(c, i) + Count(c, i) - 1)
    BY DEF Slots
  <1>3. Count(c, i) # 0 => ~(i >= TotalCached(c))
    BY CountBound
  <1> HIDE DEF p
  <1>4. ASSUME NEW s \in Slots(c, i), p # 0, s % p = r PROVE r \in TargetRanks(c, i)
    <2>1. Count(c, i) # 0
      BY <1>1, <1>2
    <2> QED BY <1>1, <1>3, <1>4, <2>1 DEF TargetRanks, p
  <1>5. ASSUME r \in TargetRanks(c, i) PROVE r < p
    <2>1. PICK s \in Slots(c, i) : r = s % p
      BY <1>5 DEF TargetRanks, p
    <2>2. ~(i >= TotalCached(c))
      BY <1>5 DEF TargetRanks
    <2>3. p # 0
      <3>1. 0 * c.cached = 0
        BY <1>1
      <3> QED BY <1>1, <2>2, <3>1
    <2>4. s \in Nat
      BY <1>1, <1>2
    <2> QED BY <1>1, <2>1, <2>3, <2>4
  <1>6. ASSUME p # 0, r < p, c.cached > c.total PROVE r \in TargetRanks(c, i)
    <2>1. Count(c, i) >= p
      BY <1>6, CountBound DEF p
    <2>2. PICK s \in Start(c, i) .. (Start(c, i) + p - 1) : s % p = r
      <3>1. p \in Nat \ {0} /\ r \in 0 .. (p - 1)
        BY <1>1, <1>6
      <3> QED BY <1>1, <3>1, SlotInRound
    <2>3. s \in Slots(c, i)
      BY <1>1, <1>2, <2>1
    <2> QED BY <1>4, <1>6, <2>2, <2>3
  <1> QED BY <1>4, <1>5, <1>6 DEF p

LEMMA FilledStep == SweepTypeOK /\ FilledInv /\ [SweepNext]_sweepVars => FilledInv'
  <1> SUFFICES ASSUME SweepTypeOK, FilledInv, [SweepNext]_sweepVars PROVE FilledInv'
    OBVIOUS
  <1>1. config \in Config
    BY ConfigsAssumption DEF SweepTypeOK
  <1>2. CASE VisitImage
    <2> DEFINE p == Processes(config)
    <2>1. /\ image \in Nat /\ image < config.total /\ config.total \in Nat /\ config.cached \in Nat
          /\ config' = config /\ image' = image + 1
          /\ SweepRanks' = SweepRanks /\ SweepRanks \subseteq Nat
          /\ load \in [SweepRanks -> Nat]
          /\ load' = [r \in SweepRanks |->
                        IF r \in TargetRanks(config, image) THEN load[r] + 1 ELSE load[r]]
      BY <1>1, <1>2 DEF VisitImage, SweepTypeOK, SweepRanks, Config
    <2>2. /\ Start(config, image) \in Nat /\ Count(config, image) \in Nat
          /\ Start(config, image + 1) = Start(config, image) + Count(config, image)
          /\ p \in Nat
      BY <1>1, <2>1, StartStep, ProcessesNat
    <2> SUFFICES ASSUME NEW r \in SweepRanks
                 PROVE  /\ r >= p => load'[r] = 0
                        /\ r < p => IF config.cached <= config.total
                                    THEN Start(config, image + 1) <= r + load'[r] * p
                                    ELSE load'[r] = image + 1
      BY <2>1 DEF FilledInv, Filled
    <2>3. Filled(r) /\ r \in Nat /\ load[r] \in Nat
      BY <2>1 DEF FilledInv
    <2>4. load'[r] = IF r \in TargetRanks(config, image) THEN load[r] + 1 ELSE load[r]
      BY <2>1
    <2>5. load[r] * p \in Nat /\ (load[r] + 1) * p = load[r] * p + p
      BY <2>2, <2>3
    <2>6. CASE r >= p
      <3>1. r \notin TargetRanks(config, image)
        BY <1>1, <2>1, <2>2, <2>3, <2>6, TargetsOf
      <3> QED BY <2>2, <2>3, <2>4, <2>6, <3>1 DEF Filled
    <2>7. CASE r < p /\ config.cached <= config.total
      <3>1. Start(config, image) <= r + load[r] * p /\ Count(config, image) <= p
        BY <1>1, <2>1, <2>3, <2>7, CountBound DEF Filled
      <3>2. CASE r \in TargetRanks(config, image)
        <4>1. load'[r] * p = load[r] * p + p
          BY <2>4, <2>5, <3>2
        <4> HIDE DEF p
        <4> QED BY <2>2, <2>3, <2>5, <2>7, <3>1, <4>1
      <3>3. CASE r \notin TargetRanks(config, image)
        <4> DEFINE s == r + load[r] * p
        <4>1. (r + load[r] * p) % p = r
          <5>1. p \in Nat \ {0} /\ r \in 0 .. (p - 1)
            BY <2>2, <2>3, <2>7
          <5> HIDE DEF p
          <5> QED BY <2>3, <5>1, ModOfRound
        <4>2. s \notin Slots(config, image)
          BY <1>1, <2>1, <2>2, <2>3, <2>7, <3>3, <4>1, TargetsOf
        <4>3. load'[r] = load[r]
          BY <2>4, <3>3
        <4> HIDE DEF p
        <4> QED BY <2>2, <2>3, <2>5, <2>7, <3>1, <4>2, <4>3 DEF Slots
      <3> QED BY <3>2, <3>3
    <2>8. CASE r < p /\ config.cached > config.total
      <3>1. r \in TargetRanks(config, image)
        BY <1>1, <2>1, <2>2, <2>3, <2>8, TargetsOf
      <3>2. load[r] = image
        BY <2>1, <2>3, <2>8 DEF Filled
      <3> QED BY <2>1, <2>2, <2>3, <2>4, <2>8, <3>1, <3>2
    <2> QED BY <2>1, <2>2, <2>3, <2>6, <2>7, <2>8
  <1>3. CASE EndOfSweep \/ UNCHANGED sweepVars
    BY <1>3 DEF EndOfSweep, FilledInv, Filled, SweepRanks, sweepVars
  <1> QED BY <1>2, <1>3 DEF SweepNext

LEMMA FilledImplies == SweepTypeOK /\ FilledInv /\ LoadWithinBudget => FullAtTheEnd
  <1> SUFFICES ASSUME SweepTypeOK, FilledInv, LoadWithinBudget, image = config.total, NEW r \in SweepRanks
               PROVE  load[r] = IF r < Processes(config) THEN Least(config.cached, config.total) ELSE 0
    BY DEF FullAtTheEnd
  <1> DEFINE p == Processes(config)
             k == load[r]
             n == config.cached
  <1>1. config \in Config
    BY ConfigsAssumption DEF SweepTypeOK
  <1>2. /\ p \in Nat /\ k \in Nat /\ r \in Nat /\ n \in Nat /\ config.total \in Nat
        /\ Filled(r) /\ k <= n
    BY <1>1, ProcessesNat DEF SweepTypeOK, SweepRanks, Config, FilledInv, LoadWithinBudget
  <1>3. CASE r >= p \/ config.total = 0
    BY <1>2, <1>3 DEF Filled, Least
  <1>4. CASE r < p /\ config.total # 0 /\ n > config.total
    BY <1>2, <1>4 DEF Filled, Least
  <1>5. CASE r < p /\ config.total # 0 /\ n <= config.total
    <2>1. p * n <= r + k * p
      BY <1>1, <1>2, <1>5, AllSlotsDealt DEF Filled
    <2> HIDE DEF p, k, n
    <2>2. ASSUME k < n PROVE FALSE
      <3>1. PICK e \in Nat : n = k + 1 + e
        <4>1. n - k - 1 \in Nat /\ n = k + 1 + (n - k - 1)
          BY <1>2, <2>2
        <4> QED BY <4>1
      <3>2. p * n = k * p + p + e * p /\ e * p \in Nat /\ k * p \in Nat
        BY <1>2, <3>1
      <3> QED BY <1>2, <1>5, <2>1, <3>2
    <2>3. k = n
      BY <1>2, <2>2
    <2> QED BY <1>2, <1>5, <2>3 DEF Least, p, k, n
  <1> QED BY <1>2, <1>3, <1>4, <1>5

\* When the sweep ends every process that takes part holds images_per_proc
\* images, or all there are: no slot is left unused, whatever the remainders of
\* the two divisions.
THEOREM SlotsUsedUp == SweepSpec => []FullAtTheEnd
  <1>1. SweepSpec => []FilledInv
    BY TypeCorrect, FilledInit, FilledStep, PTL DEF SweepSpec
  <1> QED BY <1>1, TypeCorrect, BudgetRespected, FilledImplies, PTL

-----------------------------------------------------------------------------
(* The number of copies of an image.                                          *)

\* Fewer than p slots in a row belong to different ranks.
LEMMA SlotsApart ==
    ASSUME NEW p \in Nat \ {0}, NEW s \in Nat, NEW t \in Nat, s < t, t < s + p
    PROVE  s % p # t % p
  <1> SUFFICES ASSUME s % p = t % p PROVE FALSE
    OBVIOUS
  <1> DEFINE d == s \div p
             e == t \div p
             x == s % p
  <1>1. d \in Nat /\ e \in Nat /\ x \in Nat /\ s = p * d + x /\ t = p * e + x
    <2>1. \A a \in Nat, b \in Nat \ {0} :
             /\ a \div b \in Nat
             /\ a % b \in 0 .. (b - 1)
             /\ a = b * (a \div b) + (a % b)
      BY SMT
    <2>2. d \in Nat /\ s % p \in 0 .. (p - 1) /\ s = p * d + (s % p)
      BY <2>1
    <2>3. e \in Nat /\ t = p * e + (t % p)
      BY <2>1
    <2>4. x \in Nat /\ t = p * e + x
      BY <2>2, <2>3
    <2> QED BY <2>2, <2>3, <2>4
  <1> HIDE DEF d, e, x
  <1>2. p * d \in Nat /\ p * e \in Nat
    BY <1>1
  <1>3. ASSUME d < e PROVE FALSE
    <2>1. PICK k \in Nat : e = d + 1 + k
      <3>1. e - d - 1 \in Nat /\ e = d + 1 + (e - d - 1)
        BY <1>1, <1>3
      <3> QED BY <3>1
    <2>2. p * e = p * d + p + p * k /\ p * k \in Nat
      BY <1>1, <2>1
    <2> QED BY <1>1, <1>2, <2>2
  <1>4. ASSUME e <= d PROVE FALSE
    <2>1. PICK k \in Nat : d = e + k
      <3>1. d - e \in Nat /\ d = e + (d - e)
        BY <1>1, <1>4
      <3> QED BY <3>1
    <2>2. p * d = p * e + p * k /\ p * k \in Nat
      BY <1>1, <2>1
    <2> QED BY <1>1, <1>2, <2>2
  <1> QED BY <1>1, <1>3, <1>4

\* An image has as many copies as slots ...
LEMMA CopiesOfSlots ==
    ASSUME NEW c \in Config, NEW i \in Nat, i < c.total, c.cached <= c.total
    PROVE  Cardinality(TargetRanks(c, i)) = Count(c, i)
  <1> DEFINE p == Processes(c)
             S == Slots(c, i)
             T == TargetRanks(c, i)
             f == [s \in S |-> s % p]
  <1>1. /\ p \in Nat /\ c.total # 0 /\ TotalCached(c) \in Nat
        /\ Start(c, i) \in Nat /\ Count(c, i) \in Nat /\ Count(c, i) <= p
        /\ i >= TotalCached(c) => Count(c, i) = 0
    BY ProcessesNat, TotalCachedNat, StartStep, CountBound DEF Config
  <1>2. /\ S = Start(c, i) .. (Start(c, i) + Count(c, i) - 1)
        /\ IsFiniteSet(S) /\ Cardinality(S) = Count(c, i)
    <2>1. S = Start(c, i) .. (Start(c, i) + Count(c, i) - 1)
      BY DEF Slots
    <2>2. Start(c, i) \in Int /\ Start(c, i) + Count(c, i) - 1 \in Int
      BY <1>1
    <2> DEFINE a == Start(c, i)
               b == Start(c, i) + Count(c, i) - 1
    <2>3. IsFiniteSet(a .. b) /\ Cardinality(a .. b) = IF a > b THEN 0 ELSE b - a + 1
      BY <2>2, FS_Interval
    <2>4. (IF a > b THEN 0 ELSE b - a + 1) = Count(c, i)
      BY <1>1
    <2> QED BY <2>1, <2>3, <2>4
  <1>3. CASE i >= TotalCached(c)
    <2>1. T = {}
      BY <1>3 DEF TargetRanks
    <2> QED BY <1>1, <1>3, <2>1, FS_EmptySet
  <1>4. CASE ~(i >= TotalCached(c))
    <2>1. T = {s % p : s \in S}
      BY <1>1, <1>4 DEF TargetRanks
    <2> HIDE DEF p, S, T
    <2>2. \A s, t \in S : f[s] = f[t] => s = t
      <3> SUFFICES ASSUME NEW s \in S, NEW t \in S, s % p = t % p PROVE s = t
        OBVIOUS
      <3>1. /\ s \in Nat /\ t \in Nat /\ p \in Nat \ {0}
            /\ s < t + p /\ t < s + p
        BY <1>1, <1>2
      <3>2. ~(s < t) /\ ~(t < s)
        BY <3>1, SlotsApart
      <3> QED BY <3>1, <3>2
    <2>3. f \in Surjection(S, T)
      BY <2>1 DEF Surjection
    <2>4. f \in Injection(S, T)
      BY <2>1, <2>2 DEF Injection, IsInjective
    <2>5. Cardinality(T) = Cardinality(S)
      BY <1>2, <2>3, <2>4, FS_Surjection
    <2> QED BY <1>2, <2>5 DEF T
  <1> QED BY <1>3, <1>4

\* ... unless every process has one.
LEMMA CopiesOfAll ==
    ASSUME NEW c \in Config, NEW i \in Nat, i < c.total, c.cached > c.total
    PROVE  TargetRanks(c, i) = 0 .. (Processes(c) - 1)
  <1>1. Processes(c) \in Nat
    BY ProcessesNat
  <1>2. TargetRanks(c, i) \subseteq Nat
    <2>1. /\ Start(c, i) \in Nat /\ Count(c, i) \in Nat /\ TotalCached(c) \in Nat
          /\ TotalCached(c) = Processes(c) * c.cached /\ c.cached \in Nat
      BY StartStep, TotalCachedNat DEF TotalCached, Config
    <2> SUFFICES ASSUME NEW r \in TargetRanks(c, i) PROVE r \in Nat
      OBVIOUS
    <2>2. PICK s \in Slots(c, i) : r = s % Processes(c)
      BY DEF TargetRanks
    <2>3. s \in Nat
      BY <2>1 DEF Slots
    <2>4. Processes(c) # 0
      <3>1. ~(i >= TotalCached(c))
        BY DEF TargetRanks
      <3>2. 0 * c.cached = 0
        BY <2>1
      <3> QED BY <2>1, <3>1, <3>2
    <2> QED BY <1>1, <2>2, <2>3, <2>4
  <1>3. \A r \in Nat : r \in TargetRanks(c, i) => r < Processes(c)
    BY TargetsOf
  <1>4. \A r \in Nat : r < Processes(c) => r \in TargetRanks(c, i)
    <2> SUFFICES ASSUME NEW r \in Nat, r < Processes(c) PROVE r \in TargetRanks(c, i)
      OBVIOUS
    <2>1. Processes(c) # 0
      BY <1>1
    <2> QED BY <2>1, TargetsOf
  <1>5. \A r \in TargetRanks(c, i) : r \in 0 .. (Processes(c) - 1)
    BY <1>1, <1>2, <1>3
  <1>6. \A r \in 0 .. (Processes(c) - 1) : r \in TargetRanks(c, i)
    <2> SUFFICES ASSUME NEW r \in 0 .. (Processes(c) - 1) PROVE r \in TargetRanks(c, i)
      OBVIOUS
    <2>1. r \in Nat /\ r < Processes(c)
      BY <1>1
    <2> QED BY <1>4, <2>1
  <1> QED BY <1>5, <1>6

\* No image has two copies more than another one, whatever the numbers of
\* processes, nodes, images and slots.
THEOREM CopiesAreEven == SweepSpec => []EvenReplication
  <1>1. SweepTypeOK => EvenReplication
    <2> SUFFICES ASSUME SweepTypeOK, NEW i \in 0 .. (image - 1), NEW j \in 0 .. (image - 1)
                 PROVE  Cardinality(TargetRanks(config, i)) <= Cardinality(TargetRanks(config, j)) + 1
      BY DEF EvenReplication
    <2>1. /\ config \in Config /\ i \in Nat /\ j \in Nat /\ i < config.total /\ j < config.total
          /\ config.cached \in Nat /\ config.total \in Nat
      BY ConfigsAssumption DEF SweepTypeOK, Config
    <2>2. CASE config.cached <= config.total
      <3>1. /\ Cardinality(TargetRanks(config, i)) = Count(config, i)
            /\ Cardinality(TargetRanks(config, j)) = Count(config, j)
        BY <2>1, <2>2, CopiesOfSlots
      <3>2. ReplicationCount(config) \in Nat
        BY <2>1, SlotDivision
      <3> QED BY <3>1, <3>2 DEF Count
    <2>3. CASE config.cached > config.total
      <3>1. TargetRanks(config, i) = TargetRanks(config, j)
        BY <2>1, <2>3, CopiesOfAll
      <3>2. TargetRanks(config, j) = 0 .. (Processes(config) - 1) /\ Processes(config) \in Nat
        BY <2>1, <2>3, CopiesOfAll, ProcessesNat
      <3>3. Cardinality(TargetRanks(config, j)) \in Nat
        <4>1. 0 \in Int /\ Processes(config) - 1 \in Int
          BY <3>2
        <4> QED BY <3>2, <4>1, FS_Interval, FS_CardinalityType
      <3> QED BY <3>1, <3>3
    <2> QED BY <2>1, <2>2, <2>3
  <1> QED BY <1>1, TypeCorrect, PTL
=============================================================================
