----------------------------- MODULE NumberFilter -----------------------------
(* misc/decomposefilt.cpp and libprime.hpp: a filter that copies a text and puts     *)
(* the factors of a number in the place of each.                                 *)
(*                                                                           *)
(* A character is a digit 0 .. 9, the point, or another, which stands for all that    *)
(* are no part of a number.  What the filter writes is a sequence of characters and   *)
(* of factors, each a sequence of numbers; brackets and asterisks are left out.    *)
EXTENDS Integers, Sequences, FiniteSets

CONSTANTS
    Texts,          \* the inputs
    MaxPrime,       \* get_primes(200)
    LongMax         \* LONG_MAX, the largest number strtol returns

ASSUME FilterAssumption ==
    /\ Texts \subseteq Seq(Nat)
    /\ MaxPrime \in Nat
    /\ LongMax \in Nat

VARIABLES
    text, position, \* the input and the characters read of it
    state,          \* State
    ss,             \* the stringstream
    output

filterVars == <<text, position, state, ss, output>>

IsDigit(ch) == ch \in 0 .. 9

Point == 10

\* What stands in front of the factors of a number; 1 has no factors.
Number == 12

-----------------------------------------------------------------------------
(* The primes and the factors.                                               *)

\* One round of the loop of get_primes: the first of the numbers left is prime, and it
\* and its multiples are erased.  The list is in order, so that a set will do.
Sift(before) ==
    LET v == CHOOSE n \in before.numbers : \A m \in before.numbers : n <= m
    IN  [numbers |-> {n \in before.numbers : n % v # 0}, result |-> Append(before.result, v)]

Sieve ==
    LET after[k \in 0 .. MaxPrime] ==
            IF k = 0
            THEN [numbers |-> 2 .. (MaxPrime - 1), result |-> <<>>]
            ELSE IF after[k - 1].numbers = {} THEN after[k - 1] ELSE Sift(after[k - 1])
    IN  after[MaxPrime]

Primes == Sieve.result

\* primes[i] <= ceil(sqrt(value))
Possible(prime, value) == (prime - 1) * (prime - 1) < value

\* Mutant of From: a factor is not tried again.
FromNext(i) == i + 1

From(i) == i

\* The i of the loop of decompose at which it would find a factor.
Found(value, start) ==
    {i \in start .. Len(Primes) : Possible(Primes[i], value) /\ value % Primes[i] = 0}

\* decompose, a function of the value and of start_from.
Decompose[value \in 0 .. LongMax] ==
    [start \in 1 .. (Len(Primes) + 1) |->
        LET found == Found(value, start)
        IN  IF found = {}
            THEN IF value = 1 THEN <<>> ELSE <<value>>
            ELSE LET i == CHOOSE k \in found : \A l \in found : k <= l
                 IN  <<Primes[i]>> \o Decompose[value \div Primes[i]][From(i)]]

Factors(value) == Decompose[value][1]

-----------------------------------------------------------------------------
(* integer_filter.                                                           *)

FilterInit ==
    /\ text \in Texts
    /\ position = 0
    /\ state = "Other"
    /\ ss = <<>>
    /\ output = <<>>

\* strtol reads digits only; of a number that a long cannot hold it makes LONG_MAX.
Strtol(digits) ==
    LET value[k \in 0 .. Len(digits)] ==
            IF k = 0
            THEN 0
            ELSE LET next == 10 * value[k - 1] + digits[k]
                 IN  IF next > LongMax THEN LongMax ELSE next
    IN  value[Len(digits)]

Characters(s) == [k \in 1 .. Len(s) |-> <<s[k]>>]

\* is.get()
Char == text[position + 1]

Reads == position < Len(text) /\ position' = position + 1 /\ UNCHANGED text

ReadDigit ==
    /\ Reads /\ IsDigit(Char)
    /\ IF state = "Decimal"
       THEN output' = Append(output, <<Char>>) /\ UNCHANGED <<state, ss>>
       ELSE state' = "Integer" /\ ss' = Append(ss, Char) /\ UNCHANGED output

ReadPoint ==
    /\ Reads /\ Char = Point
    /\ state' = "Decimal"
    /\ ss' = Append(ss, Point)
    /\ UNCHANGED output

ReadOther ==
    /\ Reads /\ ~IsDigit(Char) /\ Char # Point
    /\ output' = output \o (CASE state = "Integer" -> <<<<Number>> \o Factors(Strtol(ss))>>
                              [] state = "Decimal" -> Characters(ss)
                              [] state = "Other"   -> <<>>) \o <<<<Char>>>>
    /\ ss' = IF state = "Other" THEN ss ELSE <<>>
    /\ state' = "Other"

\* At the end of the input the filter returns, whatever is in ss.
FilterOver == position = Len(text) /\ UNCHANGED filterVars

FilterNext == ReadDigit \/ ReadPoint \/ ReadOther \/ FilterOver

FilterSpec == FilterInit /\ [][FilterNext]_filterVars

-----------------------------------------------------------------------------

\* The numerals of a text: what is between two other characters.
InNumeral(t, k) == IsDigit(t[k]) \/ t[k] = Point

\* The number of characters of a numeral right before character k.
Before(t, k) == CHOOSE m \in 0 .. (k - 1) :
                    /\ \A j \in (k - m) .. (k - 1) : InNumeral(t, j)
                    /\ m < k - 1 => ~InNumeral(t, k - m - 1)

NumeralBefore(t, k) == SubSeq(t, k - Before(t, k), k - 1)

Points(numeral) == {j \in 1 .. Len(numeral) : numeral[j] = Point}

FirstPoint(numeral) == CHOOSE j \in Points(numeral) : \A k \in Points(numeral) : j <= k

\* The digits in front of the first point of a numeral, and all its points.
WithoutFraction(numeral) ==
    [j \in 1 .. (FirstPoint(numeral) - 1 + Cardinality(Points(numeral))) |->
        IF j < FirstPoint(numeral) THEN numeral[j] ELSE Point]

\* What is to be written when character k is read.
Expected(t, k) ==
    LET before == NumeralBefore(t, k)
    IN  IF InNumeral(t, k)
        THEN IF IsDigit(t[k]) /\ Points(before) # {} THEN <<<<t[k]>>>> ELSE <<>>
        ELSE (IF before = <<>> THEN <<>>
              ELSE IF Points(before) # {} THEN Characters(WithoutFraction(before))
              ELSE <<<<Number>> \o Factors(Strtol(before))>>) \o <<<<t[k]>>>>

\* What is to be written of the first k characters.
Written(t) ==
    LET written[k \in 0 .. Len(t)] == IF k = 0 THEN <<>> ELSE written[k - 1] \o Expected(t, k)
    IN  written

\* The numbers multiplied.
Product(numbers) ==
    LET product[k \in 0 .. Len(numbers)] == IF k = 0 THEN 1 ELSE product[k - 1] * numbers[k]
    IN  product[Len(numbers)]

\* Factors whose product is the value, in order, and prime as far as the primes are
\* known: a last one that is not is greater than the square of the largest.
AreFactors(factors, value) ==
    /\ Product(factors) = value
    /\ \A i \in 1 .. Len(factors) :
          /\ i > 1 => factors[i - 1] <= factors[i]
          /\ value > 1 => factors[i] > 1
          /\ \A d \in 2 .. (MaxPrime - 1) : d < factors[i] => factors[i] % d # 0

\* What the filter has written at any time: other characters stay.  A number is
\* replaced by its factors when the character behind it is read, so that one at the end
\* of the text is lost; one larger than LONG_MAX is replaced by the factors of that.  A
\* numeral with a point is not left alone, as the state Decimal suggests: the digits
\* behind the point are written before those in front of it and the point, and the
\* latter are lost at the end of the text.
WritesFactors ==
    /\ output = Written(text)[position]
    /\ \A k \in 1 .. position :
          LET before == NumeralBefore(text, k)
          IN  ~InNumeral(text, k) /\ before # <<>> /\ Points(before) = {} =>
                  AreFactors(Factors(Strtol(before)), Strtol(before))
=============================================================================
