------------------------- MODULE ByteStringsProofs -------------------------
(***************************************************************************)
(* What the proofs about the parsers need of byte arrays: induction, where *)
(* the parts of a concatenation stand, what indexOf and mid find there,    *)
(* and that toInt reads what number writes.                                *)
(***************************************************************************)
EXTENDS ByteStrings, SequenceTheorems, WellFoundedInduction, TLAPS

-----------------------------------------------------------------------------
(* Induction.  The library's theorems on induction take a predicate, but   *)
(* the one on least elements takes a set.                                  *)

\* the order of Nat as a set of pairs
Less == {pair \in Nat \X Nat : pair[1] < pair[2]}

\* A set of naturals that is not empty has a least element.
LEMMA LeastElement ==
  ASSUME NEW T, T \subseteq Nat, T # {}
  PROVE  \E x \in T : \A y \in T : x <= y
<1>1. IsWellFoundedOn(Less, Nat)
  BY NatLessThanWellFounded DEF OpToRel, Less
<1>2. PICK x \in T : \A y \in T : ~(<<y, x>> \in Less)
  BY <1>1, WFMin
<1>3. \A y \in T : ~(y < x)
  BY <1>2 DEF Less
<1> QED
  BY <1>3

\* Induction: a set that holds 0 and with each number the next holds all.
LEMMA InductionInSet ==
  ASSUME NEW T, 0 \in T, \A n \in Nat : n \in T => n + 1 \in T
  PROVE  Nat \subseteq T
<1> SUFFICES ASSUME Nat \ T # {} PROVE FALSE
  OBVIOUS
<1>1. PICK x \in Nat \ T : \A y \in Nat \ T : x <= y
  BY LeastElement
<1>2. x - 1 \in Nat /\ (x - 1) + 1 = x /\ ~(x <= x - 1)
  OBVIOUS
<1>3. x - 1 \in T
  BY <1>1, <1>2
<1> QED
  BY <1>2, <1>3

\* Strong induction: a set that holds each number whose predecessors it holds.
LEMMA StrongInductionInSet ==
  ASSUME NEW T, \A n \in Nat : (\A m \in 0..(n - 1) : m \in T) => n \in T
  PROVE  Nat \subseteq T
<1> SUFFICES ASSUME Nat \ T # {} PROVE FALSE
  OBVIOUS
<1>1. PICK x \in Nat \ T : \A y \in Nat \ T : x <= y
  BY LeastElement
<1>2. \A m \in 0..(x - 1) : m \in Nat /\ ~(x <= m)
  OBVIOUS
<1>3. \A m \in 0..(x - 1) : m \in T
  BY <1>1, <1>2
<1> QED
  BY <1>3

-----------------------------------------------------------------------------
(* Parts of byte arrays *)

\* part stands in data from pos on.
Stands(data, pos, part) ==
  /\ pos \in Nat
  /\ pos + Len(part) <= Len(data)
  /\ \A k \in 1..Len(part) : data[pos + k] = part[k]

\* One element makes a sequence.
LEMMA OneElement ==
  ASSUME NEW S, NEW x \in S
  PROVE  <<x>> \in Seq(S) /\ Len(<<x>>) = 1 /\ <<x>>[1] = x
OBVIOUS

\* Where the bytes of a concatenation are.
LEMMA Concatenated ==
  \A p, q \in ByteArray :
    /\ p \o q \in ByteArray
    /\ Len(p \o q) = Len(p) + Len(q)
    /\ \A j \in 1..Len(p) : (p \o q)[j] = p[j]
    /\ \A j \in 1..Len(q) : (p \o q)[Len(p) + j] = q[j]
BY DEF ByteArray

\* A byte array stands in itself.
LEMMA StandsWhole ==
  ASSUME NEW data \in ByteArray
  PROVE  Stands(data, 0, data)
BY DEF Stands, ByteArray

\* When two byte arrays stand next to each other, each of them stands where
\* it should.
LEMMA StandsSplit ==
  ASSUME NEW data \in ByteArray, NEW pos \in Nat, NEW p \in ByteArray, NEW q \in ByteArray,
         Stands(data, pos, p \o q)
  PROVE  Stands(data, pos, p) /\ Stands(data, pos + Len(p), q)
<1> DEFINE r == p \o q
<1>1. /\ Len(r) = Len(p) + Len(q)
      /\ \A j \in 1..Len(p) : r[j] = p[j]
      /\ \A j \in 1..Len(q) : r[Len(p) + j] = q[j]
  BY Concatenated
<1>2. Len(p) \in Nat /\ Len(q) \in Nat /\ Len(data) \in Nat
  BY DEF ByteArray
<1>3. pos + Len(r) <= Len(data) /\ \A k \in 1..Len(r) : data[pos + k] = r[k]
  BY DEF Stands
<1> HIDE DEF r
<1>4. Stands(data, pos, p)
  <2>1. ASSUME NEW k \in 1..Len(p) PROVE data[pos + k] = p[k]
    <3>1. k \in 1..Len(r)
      BY <1>1, <1>2
    <3> QED
      BY <1>1, <1>3, <3>1
  <2> QED
    BY <1>1, <1>2, <1>3, <2>1 DEF Stands
<1>5. Stands(data, pos + Len(p), q)
  <2>1. ASSUME NEW k \in 1..Len(q) PROVE data[(pos + Len(p)) + k] = q[k]
    <3>1. Len(p) + k \in 1..Len(r) /\ pos + (Len(p) + k) = (pos + Len(p)) + k
      BY <1>1, <1>2
    <3> QED
      BY <1>1, <1>3, <3>1
  <2> QED
    BY <1>1, <1>2, <1>3, <2>1 DEF Stands
<1> QED
  BY <1>4, <1>5

\* The first byte of what stands somewhere.
LEMMA StandsAt ==
  ASSUME NEW data \in ByteArray, NEW pos \in Nat, NEW p \in ByteArray, Stands(data, pos, p),
         NEW k \in 0..(Len(p) - 1)
  PROVE  At(data, pos + k) = p[k + 1] /\ pos + k < Len(data)
<1>1. Len(p) \in Nat /\ Len(data) \in Nat
  BY DEF ByteArray
<1>2. k + 1 \in 1..Len(p) /\ pos + (k + 1) = (pos + k) + 1 /\ pos + k \in 0..(Len(data) - 1)
  BY <1>1 DEF Stands
<1> QED
  BY <1>2 DEF At, Stands

\* mid with its length takes it out.
LEMMA StandsMid ==
  ASSUME NEW data \in ByteArray, NEW pos \in Nat, NEW p \in ByteArray, Stands(data, pos, p)
  PROVE  mid(data, pos, Len(p)) = p
<1>1. Len(p) \in Nat /\ Len(data) \in Nat /\ pos + Len(p) <= Len(data)
  BY DEF ByteArray, Stands
<1>2. mid(data, pos, Len(p)) = SubSeq(data, pos + 1, pos + Len(p))
  BY <1>1 DEF mid
<1> DEFINE s == SubSeq(data, pos + 1, pos + Len(p))
<1>3. s \in Seq(Byte) /\ Len(s) = Len(p) /\ \A k \in 1..Len(p) : s[k] = data[pos + k]
  BY <1>1 DEF ByteArray
<1> HIDE DEF s
<1>4. \A k \in 1..Len(p) : s[k] = p[k]
  BY <1>3 DEF Stands
<1>5. s = p
  BY <1>3, <1>4 DEF ByteArray
<1> QED
  BY <1>2, <1>5 DEF s

\* indexOf finds the first position that has the byte.
LEMMA IndexOfFirst ==
  ASSUME NEW data \in ByteArray, NEW byte \in Byte, NEW from \in Nat, NEW p \in from..(Len(data) - 1),
         At(data, p) = byte, \A q \in from..(p - 1) : At(data, q) # byte
  PROVE  indexOf(data, byte, from) = p
<1>1. Len(data) \in Nat /\ p \in Nat
  BY DEF ByteArray
<1> DEFINE Good(x) == At(data, x) = byte /\ \A q \in from..(x - 1) : ~(At(data, q) = byte)
<1>2. Good(p)
  OBVIOUS
<1>3. ASSUME NEW x \in from..(Len(data) - 1), Good(x) PROVE x = p
  <2>1. x \in Nat
    BY <1>1
  <2>2. ASSUME x < p PROVE FALSE
    <3>1. x \in from..(p - 1)
      BY <1>1, <2>1, <2>2
    <3> QED
      BY <1>2, <1>3, <3>1
  <2>3. ASSUME p < x PROVE FALSE
    <3>1. p \in from..(x - 1)
      BY <1>1, <2>1, <2>3
    <3> QED
      BY <1>2, <1>3, <3>1
  <2> QED
    BY <1>1, <2>1, <2>2, <2>3
<1>4. indexOf(data, byte, from) = CHOOSE x \in from..(Len(data) - 1) : Good(x)
  BY DEF indexOf
<1> HIDE DEF Good
<1> QED
  BY <1>2, <1>3, <1>4

\* When a part without the byte stands at pos, and the byte behind it, that is
\* what indexOf finds.
LEMMA IndexOfBehind ==
  ASSUME NEW data \in ByteArray, NEW byte \in Byte, NEW pos \in Nat, NEW p \in ByteArray,
         Stands(data, pos, p \o <<byte>>), \A k \in 1..Len(p) : p[k] # byte
  PROVE  indexOf(data, byte, pos) = pos + Len(p)
<1> DEFINE one == <<byte>>
<1>1. Len(p) \in Nat /\ Len(data) \in Nat /\ one \in ByteArray /\ Len(one) = 1 /\ one[1] = byte
  <2>1. Len(p) \in Nat /\ Len(data) \in Nat
    BY DEF ByteArray
  <2>2. one \in Seq(Byte)
    BY OneElement
  <2>3. Len(one) = 1 /\ one[1] = byte
    OBVIOUS
  <2> QED
    BY <2>1, <2>2, <2>3 DEF ByteArray
<1> HIDE DEF one
<1>2. Stands(data, pos, p) /\ Stands(data, pos + Len(p), one)
  BY <1>1, StandsSplit DEF one
<1>3. pos + Len(p) \in pos..(Len(data) - 1) /\ At(data, pos + Len(p)) = byte
  <2> DEFINE m == pos + Len(p)
  <2>1. m \in Nat /\ 0 \in 0..(Len(one) - 1) /\ 0 + 1 = 1 /\ m + 0 = m /\ pos <= m
    BY <1>1
  <2> HIDE DEF m
  <2>2. Stands(data, m, one)
    BY <1>2 DEF m
  <2>3. At(data, m + 0) = one[0 + 1] /\ m + 0 < Len(data)
    BY <1>1, <2>1, <2>2, StandsAt
  <2>4. m \in pos..(Len(data) - 1)
    BY <1>1, <2>1, <2>3
  <2>5. At(data, m) = byte
    BY <1>1, <2>1, <2>3
  <2> QED
    BY <2>4, <2>5 DEF m
<1>4. ASSUME NEW q \in pos..((pos + Len(p)) - 1) PROVE At(data, q) # byte
  <2>1. q - pos \in 0..(Len(p) - 1) /\ pos + (q - pos) = q /\ (q - pos) + 1 \in 1..Len(p)
    BY <1>1
  <2>2. At(data, pos + (q - pos)) = p[(q - pos) + 1]
    BY <1>2, <2>1, StandsAt
  <2> QED
    BY <2>1, <2>2
<1> DEFINE m == pos + Len(p)
<1>5. m \in pos..(Len(data) - 1) /\ At(data, m) = byte /\ \A q \in pos..(m - 1) : At(data, q) # byte
  BY <1>3, <1>4
<1> HIDE DEF m
<1>6. indexOf(data, byte, pos) = m
  BY <1>5, IndexOfFirst
<1> QED
  BY <1>6 DEF m

-----------------------------------------------------------------------------
(* Join *)

\* j[n] is what Join has of the first n parts.
IsJoin(parts, j) ==
  /\ j \in [0..Len(parts) -> ByteArray]
  /\ j[0] = <<>>
  /\ \A n \in 1..Len(parts) : j[n] = j[n - 1] \o parts[n]

\* The recursive function of Join exists, and its values are byte arrays.
LEMMA JoinExists ==
  ASSUME NEW parts \in Seq(ByteArray)
  PROVE  \E j : IsJoin(parts, j) /\ Join(parts) = j[Len(parts)]
<1> DEFINE Upto(m, f) == f = [n \in 0..m |-> IF n = 0 THEN <<>> ELSE f[n - 1] \o parts[n]]
           T == {m \in Nat : \E f : Upto(m, f)}
<1>1. 0 \in T
  <2>1. Upto(0, [n \in 0..0 |-> <<>>])
    OBVIOUS
  <2> QED
    BY <2>1
<1>2. ASSUME NEW m \in Nat, m \in T PROVE m + 1 \in T
  <2>1. PICK f : Upto(m, f)
    BY <1>2
  <2> DEFINE g == [n \in 0..(m + 1) |-> IF n <= m THEN f[n] ELSE f[m] \o parts[m + 1]]
  <2>2. ASSUME NEW n \in 0..(m + 1), n # 0
        PROVE  g[n] = g[n - 1] \o parts[n]
    <3>1. CASE n <= m
      <4>1. n \in 0..m
        BY <3>1
      <4>2. g[n] = f[n] /\ g[n - 1] = f[n - 1]
        BY <3>1, <2>2
      <4>3. f[n] = f[n - 1] \o parts[n]
        BY <4>1, <2>1, <2>2
      <4> QED
        BY <4>2, <4>3
    <3>2. CASE n = m + 1
      <4>1. n \in 0..(m + 1) /\ ~(n <= m) /\ parts[n] = parts[m + 1]
        BY <3>2
      <4>2. g[n] = f[m] \o parts[n]
        BY <4>1
      <4>3. n - 1 = m /\ m \in 0..(m + 1)
        BY <3>2
      <4>4. g[n - 1] = f[m]
        BY <4>3
      <4> QED
        BY <4>2, <4>4
    <3>3. n <= m \/ n = m + 1
      OBVIOUS
    <3> QED
      BY <3>1, <3>2, <3>3
  <2>3. g[0] = <<>>
    BY <2>1
  <2>4. g = [n \in 0..(m + 1) |-> IF n = 0 THEN <<>> ELSE g[n - 1] \o parts[n]]
    BY <2>2, <2>3
  <2>5. Upto(m + 1, g)
    BY <2>4
  <2> HIDE DEF g, Upto
  <2> QED
    BY <2>5
<1>3. Len(parts) \in T
  <2> HIDE DEF T
  <2>1. Nat \subseteq T
    BY <1>1, <1>2, InductionInSet
  <2> QED
    BY <2>1
<1> DEFINE j == CHOOSE f : Upto(Len(parts), f)
<1>4. Upto(Len(parts), j)
  BY <1>3
<1>5. Join(parts) = j[Len(parts)]
  BY DEF Join
<1> HIDE DEF j
<1>6. DOMAIN j = 0..Len(parts)
  BY <1>4
<1>7. \A n \in 0..Len(parts) : j[n] = IF n = 0 THEN <<>> ELSE j[n - 1] \o parts[n]
  BY <1>4
<1> HIDE DEF Upto
<1>8. j[0] = <<>>
  BY <1>7
<1>9. ASSUME NEW n \in 1..Len(parts) PROVE j[n] = j[n - 1] \o parts[n]
  <2>1. n \in 0..Len(parts) /\ n # 0
    OBVIOUS
  <2> QED
    BY <1>7, <2>1
<1>10. ASSUME NEW k \in Nat PROVE k <= Len(parts) => j[k] \in ByteArray
  <2> DEFINE U == {n \in Nat : n <= Len(parts) => j[n] \in ByteArray}
  <2>1. 0 \in U
    <3>1. <<>> \in Seq(Byte)
      OBVIOUS
    <3> QED
      BY <1>8, <3>1 DEF ByteArray
  <2>2. ASSUME NEW n \in Nat, n \in U PROVE n + 1 \in U
    <3> SUFFICES ASSUME n + 1 <= Len(parts) PROVE j[n + 1] \in ByteArray
      OBVIOUS
    <3>1. n + 1 \in 1..Len(parts) /\ (n + 1) - 1 = n /\ n <= Len(parts)
      OBVIOUS
    <3>2. j[n + 1] = j[n] \o parts[n + 1]
      BY <1>9, <3>1
    <3>3. parts[n + 1] \in ByteArray
      BY <3>1
    <3>4. j[n] \in ByteArray
      BY <2>2, <3>1
    <3> QED
      BY <3>2, <3>3, <3>4, Concatenated
  <2> HIDE DEF U
  <2>3. Nat \subseteq U
    BY <2>1, <2>2, InductionInSet
  <2> QED
    BY <2>3 DEF U
<1>11. j = [n \in 0..Len(parts) |-> j[n]]
  BY <1>4, <1>6 DEF Upto
<1>12. j \in [0..Len(parts) -> ByteArray]
  <2>1. \A n \in 0..Len(parts) : j[n] \in ByteArray
    BY <1>10
  <2> QED
    BY <1>11, <2>1
<1> QED
  BY <1>5, <1>8, <1>9, <1>12 DEF IsJoin

\* One part more.
LEMMA JoinStep ==
  ASSUME NEW parts \in Seq(ByteArray), NEW j, IsJoin(parts, j), NEW n \in 1..Len(parts)
  PROVE  /\ j[n - 1] \in ByteArray /\ j[n] \in ByteArray /\ parts[n] \in ByteArray
         /\ j[n] = j[n - 1] \o parts[n]
         /\ Len(j[n]) = Len(j[n - 1]) + Len(parts[n])
<1>1. n - 1 \in 0..Len(parts)
  OBVIOUS
<1>2. j[n - 1] \in ByteArray /\ j[n] \in ByteArray
  BY <1>1 DEF IsJoin
<1>3. j[n] = j[n - 1] \o parts[n]
  BY DEF IsJoin
<1>4. parts[n] \in ByteArray
  OBVIOUS
<1> QED
  BY <1>2, <1>3, <1>4, Concatenated

\* Every part stands behind the ones before it.
LEMMA JoinStands ==
  ASSUME NEW data \in ByteArray, NEW pos \in Nat, NEW parts \in Seq(ByteArray), NEW j,
         IsJoin(parts, j), Stands(data, pos, j[Len(parts)]), NEW n \in 1..Len(parts)
  PROVE  Stands(data, pos + Len(j[n - 1]), parts[n])
<1> DEFINE Fine(d) == /\ Stands(data, pos, j[Len(parts) - (d + 1)])
                      /\ Stands(data, pos + Len(j[Len(parts) - (d + 1)]), parts[Len(parts) - d])
           T == {d \in Nat : d < Len(parts) => Fine(d)}
<1>1. ASSUME NEW m \in 1..Len(parts), Stands(data, pos, j[m])
      PROVE  Stands(data, pos, j[m - 1]) /\ Stands(data, pos + Len(j[m - 1]), parts[m])
  <2>1. j[m - 1] \in ByteArray /\ parts[m] \in ByteArray /\ j[m] = j[m - 1] \o parts[m]
    BY JoinStep
  <2>2. Stands(data, pos, j[m - 1] \o parts[m])
    BY <1>1, <2>1
  <2> QED
    BY <2>1, <2>2, StandsSplit
<1>2. 0 \in T
  <2>1. ASSUME 0 < Len(parts) PROVE Fine(0)
    <3>1. Len(parts) \in 1..Len(parts) /\ Len(parts) - (0 + 1) = Len(parts) - 1 /\ Len(parts) - 0 = Len(parts)
      BY <2>1
    <3> QED
      BY <1>1, <3>1
  <2> HIDE DEF Fine
  <2> QED
    BY <2>1
<1>3. ASSUME NEW d \in Nat, d \in T PROVE d + 1 \in T
  <2>1. ASSUME d + 1 < Len(parts) PROVE Fine(d + 1)
    <3> DEFINE m == Len(parts) - (d + 1)
    <3>1. m \in 1..Len(parts) /\ Len(parts) - ((d + 1) + 1) = m - 1
      BY <2>1
    <3>2. Stands(data, pos, j[m])
      BY <1>3, <2>1
    <3> HIDE DEF m
    <3>3. Stands(data, pos, j[m - 1]) /\ Stands(data, pos + Len(j[m - 1]), parts[m])
      BY <1>1, <3>1, <3>2
    <3> QED
      BY <3>1, <3>3 DEF m
  <2> HIDE DEF Fine
  <2> QED
    BY <2>1
<1>4. Len(parts) - n \in T
  <2> HIDE DEF T
  <2>1. Nat \subseteq T
    BY <1>2, <1>3, InductionInSet
  <2> QED
    BY <2>1
<1>5. Len(parts) - n < Len(parts) /\ Len(parts) - ((Len(parts) - n) + 1) = n - 1
      /\ Len(parts) - (Len(parts) - n) = n
  OBVIOUS
<1> QED
  BY <1>4, <1>5

-----------------------------------------------------------------------------
(* Numerals *)

\* The ten digits are different letters, none of which the notation uses
\* otherwise.
LEMMA DigitsDiffer ==
  /\ \A m, n \in 1..10 : Digit[m] = Digit[n] => m = n
  /\ \A n \in 1..10 : Digit[n] \in Byte /\ Digit[n] \notin {"-", ":", "e", "i", "l", "d", ""}
<1>1. /\ Digit[1] = "0" /\ Digit[2] = "1" /\ Digit[3] = "2" /\ Digit[4] = "3" /\ Digit[5] = "4"
      /\ Digit[6] = "5" /\ Digit[7] = "6" /\ Digit[8] = "7" /\ Digit[9] = "8" /\ Digit[10] = "9"
  BY DEF Digit
<1>2. ASSUME NEW n \in 1..10
      PROVE  n \in {1, 2, 3, 4, 5, 6, 7, 8, 9, 10}
  OBVIOUS
<1>3. \A m, n \in 1..10 : Digit[m] = Digit[n] => m = n
  BY <1>1, <1>2
<1>4. \A n \in 1..10 : Digit[n] \notin {"-", ":", "e", "i", "l", "d", ""}
  BY <1>1, <1>2
<1>5. \A n \in 1..10 : Digit[n] \in Byte
  BY <1>1, <1>2 DEF Byte
<1> QED
  BY <1>3, <1>4, <1>5

\* A digit is worth its place among the digits.
LEMMA DigitIsWorth ==
  ASSUME NEW k \in 0..9
  PROVE  /\ Digit[k + 1] \in Byte /\ IsDigit(Digit[k + 1])
         /\ DigitValue(Digit[k + 1]) = k
<1> DEFINE d == Digit[k + 1]
<1>1. k + 1 \in 1..10
  OBVIOUS
<1>2. \A n \in 1..10 : d = Digit[n] => n = k + 1
  BY <1>1, DigitsDiffer
<1>3. d \in Byte
  BY <1>1, DigitsDiffer
<1>4. \E n \in 1..10 : d = Digit[n]
  BY <1>1
<1> HIDE DEF d
<1>5. DigitValue(d) = k
  BY <1>2, <1>4 DEF DigitValue
<1>6. IsDigit(d)
  BY <1>4 DEF IsDigit
<1> QED
  BY <1>3, <1>5, <1>6 DEF d

\* w[m] is the numeral of each m up to n.
IsWriting(n, w) ==
  \A m \in 0..n : w[m] = IF m < 10 THEN <<Digit[m + 1]>>
                         ELSE Append(w[m \div 10], Digit[(m % 10) + 1])

\* A number of two digits or more, and its last digit.
LEMMA LastDigit ==
  ASSUME NEW m \in Nat
  PROVE  /\ m % 10 \in 0..9 /\ m \div 10 \in Nat /\ m = 10 * (m \div 10) + (m % 10)
         /\ m >= 10 => m \div 10 \in 0..(m - 1)
<1>1. m % 10 \in 0..9
  OBVIOUS
<1>2. m \div 10 \in Int
  OBVIOUS
<1>3. m = 10 * (m \div 10) + (m % 10)
  OBVIOUS
<1> DEFINE q == m \div 10
           r == m % 10
<1> HIDE DEF q, r
<1>4. q \in Int /\ r \in 0..9 /\ m = 10 * q + r
  BY <1>1, <1>2, <1>3 DEF q, r
<1>5. q \in Nat /\ (m >= 10 => q \in 0..(m - 1))
  BY <1>4
<1> QED
  BY <1>4, <1>5 DEF q, r

\* The recursive function of Numeral exists.
LEMMA WritingExists ==
  ASSUME NEW n \in Nat
  PROVE  \E w : IsWriting(n, w) /\ Numeral(n) = w[n]
<1> DEFINE Write(f, m) == IF m < 10 THEN <<Digit[m + 1]>>
                          ELSE Append(f[m \div 10], Digit[(m % 10) + 1])
           Upto(k, f) == f = [m \in 0..k |-> Write(f, m)]
           T == {k \in Nat : \E f : Upto(k, f)}
<1>1. 0 \in T
  <2>1. Upto(0, [m \in 0..0 |-> <<Digit[m + 1]>>])
    OBVIOUS
  <2> QED
    BY <2>1
<1>2. ASSUME NEW k \in Nat, k \in T PROVE k + 1 \in T
  <2>1. PICK f : Upto(k, f)
    BY <1>2
  <2> DEFINE g == [m \in 0..(k + 1) |-> IF m <= k THEN f[m] ELSE Write(f, m)]
  <2>2. ASSUME NEW m \in 0..(k + 1) PROVE g[m] = Write(f, m)
    <3>1. CASE m <= k
      <4>1. m \in 0..k /\ g[m] = f[m]
        BY <3>1
      <4>2. f[m] = Write(f, m)
        BY <2>1, <4>1
      <4> QED
        BY <4>1, <4>2
    <3>2. CASE ~(m <= k)
      BY <3>2
    <3> QED
      BY <3>1, <3>2
  <2>3. ASSUME NEW m \in 0..(k + 1) PROVE Write(f, m) = Write(g, m)
    <3>1. CASE m < 10
      BY <3>1
    <3>2. CASE ~(m < 10)
      <4> DEFINE q == m \div 10
      <4>1. q \in 0..(m - 1)
        BY <3>2, LastDigit
      <4> HIDE DEF q
      <4>2. q \in 0..(k + 1) /\ q <= k
        BY <4>1
      <4>3. g[q] = f[q]
        BY <4>2
      <4> HIDE DEF g
      <4> QED
        BY <3>2, <4>3 DEF q
    <3> QED
      BY <3>1, <3>2
  <2>4. \A m \in 0..(k + 1) : g[m] = Write(g, m)
    BY <2>2, <2>3
  <2> HIDE DEF Write
  <2>5. g = [m \in 0..(k + 1) |-> g[m]]
    OBVIOUS
  <2> HIDE DEF g
  <2>6. Upto(k + 1, g)
    BY <2>4, <2>5
  <2> HIDE DEF Upto
  <2> QED
    BY <2>6
<1>3. n \in T
  <2> HIDE DEF T
  <2>1. Nat \subseteq T
    BY <1>1, <1>2, InductionInSet
  <2> QED
    BY <2>1
<1> DEFINE w == CHOOSE f : Upto(n, f)
<1>4. Upto(n, w)
  BY <1>3
<1>5. Numeral(n) = w[n]
  BY DEF Numeral
<1> HIDE DEF w
<1>6. \A m \in 0..n : w[m] = Write(w, m)
  BY <1>4
<1>7. IsWriting(n, w)
  BY <1>6 DEF IsWriting
<1> QED
  BY <1>5, <1>7

\* v[off + k] is the value of the first k digits of s.
Reads(s, off, v) ==
  /\ v[off] = 0
  /\ \A k \in 1..Len(s) : v[off + k] = 10 * v[off + (k - 1)] + DigitValue(s[k])

\* A numeral is made of digits, and reading it gives the number.
LEMMA NumeralReads ==
  ASSUME NEW n \in Nat
  PROVE  /\ Numeral(n) \in ByteArray /\ Len(Numeral(n)) >= 1
         /\ \A k \in 1..Len(Numeral(n)) : IsDigit(Numeral(n)[k])
         /\ \A v : \A off \in Nat : Reads(Numeral(n), off, v) => v[off + Len(Numeral(n))] = n
<1>1. PICK w : IsWriting(n, w) /\ Numeral(n) = w[n]
  BY WritingExists
<1> DEFINE Right(m, s) == /\ s \in ByteArray /\ Len(s) >= 1
                          /\ \A k \in 1..Len(s) : IsDigit(s[k])
                          /\ \A v : \A off \in Nat : Reads(s, off, v) => v[off + Len(s)] = m
           T == {m \in Nat : m <= n => Right(m, w[m])}
<1>2. ASSUME NEW m \in Nat, \A k \in 0..(m - 1) : k \in T PROVE m \in T
  <2> SUFFICES ASSUME m <= n PROVE Right(m, w[m])
    OBVIOUS
  <2> DEFINE s == w[m]
  <2>1. CASE m < 10
    <3>1. s = <<Digit[m + 1]>>
      <4>1. m \in 0..n
        OBVIOUS
      <4> QED
        BY <1>1, <2>1, <4>1 DEF IsWriting
    <3>2. Digit[m + 1] \in Byte /\ IsDigit(Digit[m + 1]) /\ DigitValue(Digit[m + 1]) = m
      BY <2>1, DigitIsWorth
    <3> HIDE DEF s
    <3>3. s \in ByteArray /\ Len(s) = 1 /\ s[1] = Digit[m + 1]
      BY <3>1, <3>2, OneElement DEF ByteArray
    <3>4. ASSUME NEW off \in Nat, NEW v, Reads(s, off, v) PROVE v[off + Len(s)] = m
      <4>1. 1 \in 1..Len(s) /\ off + (1 - 1) = off
        BY <3>3
      <4>2. v[off] = 0 /\ v[off + 1] = 10 * v[off + (1 - 1)] + DigitValue(s[1])
        BY <3>4, <4>1 DEF Reads
      <4>3. v[off + 1] = 10 * 0 + m
        BY <3>2, <3>3, <4>1, <4>2
      <4> QED
        BY <3>3, <4>3
    <3> QED
      BY <3>2, <3>3, <3>4 DEF s
  <2>2. CASE m >= 10
    <3> DEFINE q == m \div 10
               r == m % 10
               d == Digit[r + 1]
               t == w[q]
    <3>1. q \in 0..(m - 1) /\ r \in 0..9 /\ m = 10 * q + r
      BY <2>2, LastDigit
    <3>2. s = Append(t, d)
      <4>1. m \in 0..n /\ ~(m < 10)
        BY <2>2
      <4> QED
        BY <1>1, <4>1 DEF IsWriting
    <3>3. d \in Byte /\ IsDigit(d) /\ DigitValue(d) = r
      BY <3>1, DigitIsWorth
    <3>4. Right(q, t)
      <4>1. q \in T /\ q <= n
        BY <1>2, <3>1
      <4> QED
        BY <4>1
    <3>0. t \in Seq(Byte)
      BY <3>4 DEF ByteArray
    <3> HIDE DEF s, q, r, d, t
    <3>5. /\ s \in ByteArray /\ Len(s) = Len(t) + 1 /\ Len(t) \in Nat
          /\ \A k \in 1..Len(t) : s[k] = t[k]
          /\ s[Len(t) + 1] = d
      BY <3>2, <3>3, <3>0, AppendProperties DEF ByteArray
    <3>6. ASSUME NEW k \in 1..Len(s) PROVE IsDigit(s[k])
      <4>1. k \in 1..Len(t) \/ k = Len(t) + 1
        BY <3>5
      <4> QED
        BY <3>3, <3>4, <3>5, <4>1
    <3>7. ASSUME NEW off \in Nat, NEW v, Reads(s, off, v) PROVE v[off + Len(s)] = m
      <4>1. Reads(t, off, v)
        <5>1. \A k \in 1..Len(t) : k \in 1..Len(s) /\ s[k] = t[k]
          BY <3>5
        <5> QED
          BY <3>7, <5>1 DEF Reads
      <4>2. v[off + Len(t)] = q
        BY <3>4, <4>1
      <4>3. Len(s) \in 1..Len(s) /\ Len(s) - 1 = Len(t)
        BY <3>5
      <4>4. v[off + Len(s)] = 10 * v[off + (Len(s) - 1)] + DigitValue(s[Len(s)])
        BY <3>7, <4>3 DEF Reads
      <4>5. v[off + Len(s)] = 10 * q + r
        BY <3>3, <3>5, <4>2, <4>3, <4>4
      <4> QED
        BY <3>1, <4>5
    <3>8. Right(m, s)
      BY <3>4, <3>5, <3>6, <3>7
    <3> QED
      BY <3>8 DEF s
  <2> QED
    BY <2>1, <2>2
<1>3. n \in T
  <2> HIDE DEF T
  <2>1. Nat \subseteq T
    BY <1>2, StrongInductionInSet
  <2> QED
    BY <2>1
<1>4. Right(n, w[n])
  BY <1>3
<1> HIDE DEF Right
<1>5. Right(n, Numeral(n))
  BY <1>1, <1>4
<1> QED
  BY <1>5 DEF Right

\* v[n] is what toInt has after n bytes of s.
IsReading(s, v) ==
  \A n \in 0..Len(s) : v[n] = IF n = 0 \/ At(s, n - 1) = "-" THEN 0
                              ELSE 10 * v[n - 1] + DigitValue(At(s, n - 1))

\* The recursive function of toInt exists.
LEMMA ReadingExists ==
  ASSUME NEW s \in ByteArray
  PROVE  \E v : /\ IsReading(s, v)
                /\ toInt(s) = IF ~IsNumeral(s) THEN 0
                              ELSE IF At(s, 0) = "-" THEN -v[Len(s)] ELSE v[Len(s)]
<1> DEFINE Read(f, n) == IF n = 0 \/ At(s, n - 1) = "-" THEN 0
                         ELSE 10 * f[n - 1] + DigitValue(At(s, n - 1))
           Upto(k, f) == f = [n \in 0..k |-> Read(f, n)]
           T == {k \in Nat : \E f : Upto(k, f)}
<1>1. 0 \in T
  <2>1. Upto(0, [n \in 0..0 |-> 0])
    OBVIOUS
  <2> QED
    BY <2>1
<1>2. ASSUME NEW k \in Nat, k \in T PROVE k + 1 \in T
  <2>1. PICK f : Upto(k, f)
    BY <1>2
  <2> DEFINE g == [n \in 0..(k + 1) |-> IF n <= k THEN f[n] ELSE Read(f, n)]
  <2>2. ASSUME NEW n \in 0..(k + 1) PROVE g[n] = Read(f, n)
    <3>1. CASE n <= k
      <4>1. n \in 0..k /\ g[n] = f[n]
        BY <3>1
      <4>2. f[n] = Read(f, n)
        BY <2>1, <4>1
      <4> QED
        BY <4>1, <4>2
    <3>2. CASE ~(n <= k)
      BY <3>2
    <3> QED
      BY <3>1, <3>2
  <2>3. ASSUME NEW n \in 0..(k + 1) PROVE Read(f, n) = Read(g, n)
    <3>1. CASE n = 0
      BY <3>1
    <3>2. CASE n # 0
      <4>1. n - 1 \in 0..(k + 1) /\ n - 1 <= k
        BY <3>2
      <4>2. g[n - 1] = f[n - 1]
        BY <4>1
      <4> HIDE DEF g
      <4> QED
        BY <4>2
    <3> QED
      BY <3>1, <3>2
  <2>4. \A n \in 0..(k + 1) : g[n] = Read(g, n)
    BY <2>2, <2>3
  <2> HIDE DEF Read
  <2>5. g = [n \in 0..(k + 1) |-> g[n]]
    OBVIOUS
  <2> HIDE DEF g
  <2>6. Upto(k + 1, g)
    BY <2>4, <2>5
  <2> HIDE DEF Upto
  <2> QED
    BY <2>6
<1>3. Len(s) \in Nat
  BY DEF ByteArray
<1>4. Len(s) \in T
  <2> HIDE DEF T
  <2>1. Nat \subseteq T
    BY <1>1, <1>2, InductionInSet
  <2> QED
    BY <1>3, <2>1
<1> DEFINE v == CHOOSE f : Upto(Len(s), f)
<1>5. Upto(Len(s), v)
  BY <1>4
<1>6. toInt(s) = IF ~IsNumeral(s) THEN 0
                 ELSE IF At(s, 0) = "-" THEN -v[Len(s)] ELSE v[Len(s)]
  BY DEF toInt
<1> HIDE DEF v
<1>7. \A n \in 0..Len(s) : v[n] = Read(v, n)
  BY <1>5
<1>8. IsReading(s, v)
  BY <1>7 DEF IsReading
<1> QED
  BY <1>6, <1>8

\* number writes digits, behind a '-' for a negative number, and toInt reads
\* the number again.
LEMMA NumberIsRead ==
  ASSUME NEW i \in Int
  PROVE  /\ number(i) \in ByteArray /\ Len(number(i)) >= 1
         /\ \A k \in 1..Len(number(i)) : IsDigit(number(i)[k]) \/ number(i)[k] = "-"
         /\ toInt(number(i)) = i /\ IsNumeral(number(i))
<1> DEFINE s == number(i)
<1>1. CASE i >= 0
  <2> DEFINE t == Numeral(i)
  <2>1. s = t
    BY <1>1 DEF number
  <2>2. /\ t \in ByteArray /\ Len(t) >= 1
        /\ \A k \in 1..Len(t) : IsDigit(t[k])
        /\ \A v : \A off \in Nat : Reads(t, off, v) => v[off + Len(t)] = i
    BY <1>1, NumeralReads
  <2> HIDE DEF s, t
  <2>3. Len(t) \in Nat
    BY <2>2 DEF ByteArray
  <2>4. ASSUME NEW k \in 1..Len(t) PROVE At(t, k - 1) = t[k] /\ IsDigit(At(t, k - 1)) /\ t[k] # "-"
    <3>1. k - 1 \in 0..(Len(t) - 1) /\ (k - 1) + 1 = k
      BY <2>3
    <3>2. At(t, k - 1) = t[k]
      BY <3>1 DEF At
    <3>3. t[k] # "-"
      BY <2>2, DigitsDiffer DEF IsDigit
    <3> QED
      BY <2>2, <3>2, <3>3
  <2>5. At(t, 0) # "-"
    <3>1. 1 \in 1..Len(t) /\ 1 - 1 = 0
      BY <2>2, <2>3
    <3>2. At(t, 1 - 1) # "-"
      BY <2>4, <3>1
    <3> QED
      BY <3>1, <3>2
  <2>6. IsNumeral(t)
    <3>1. ASSUME NEW p \in 0..(Len(t) - 1) PROVE IsDigit(At(t, p))
      <4>1. p + 1 \in 1..Len(t) /\ (p + 1) - 1 = p
        BY <2>3
      <4> QED
        BY <2>4, <4>1
    <3> QED
      BY <2>2, <2>3, <2>5, <3>1 DEF IsNumeral
  <2>7. PICK v : /\ IsReading(t, v)
                 /\ toInt(t) = IF ~IsNumeral(t) THEN 0
                               ELSE IF At(t, 0) = "-" THEN -v[Len(t)] ELSE v[Len(t)]
    BY <2>2, ReadingExists
  <2>8. Reads(t, 0, v)
    <3>1. v[0] = 0
      BY <2>3, <2>7 DEF IsReading
    <3>2. ASSUME NEW k \in 1..Len(t) PROVE v[0 + k] = 10 * v[0 + (k - 1)] + DigitValue(t[k])
      <4>1. k \in 0..Len(t) /\ k # 0 /\ 0 + k = k /\ 0 + (k - 1) = k - 1
        BY <2>3
      <4>2. At(t, k - 1) = t[k] /\ t[k] # "-"
        BY <2>4
      <4> QED
        BY <2>7, <4>1, <4>2 DEF IsReading
    <3> QED
      BY <3>1, <3>2 DEF Reads
  <2>9. v[0 + Len(t)] = i /\ 0 + Len(t) = Len(t)
    BY <2>2, <2>3, <2>8
  <2>10. toInt(t) = i
    BY <2>5, <2>6, <2>7, <2>9
  <2> QED
    BY <2>1, <2>2, <2>6, <2>10 DEF s
<1>2. CASE i < 0
  <2> DEFINE size == -i
             one == <<"-">>
             t == Numeral(size)
  <2>1. s = one \o t
    BY <1>2 DEF number
  <2>0. size \in Nat
    BY <1>2
  <2> HIDE DEF size
  <2>2. /\ t \in ByteArray /\ Len(t) >= 1
        /\ \A k \in 1..Len(t) : IsDigit(t[k])
        /\ \A v : \A off \in Nat : Reads(t, off, v) => v[off + Len(t)] = size
    BY <2>0, NumeralReads
  <2>3. one \in ByteArray /\ Len(one) = 1 /\ one[1] = "-"
    <3>1. "-" \in Byte
      BY DEF Byte
    <3> QED
      BY <3>1, OneElement DEF ByteArray
  <2> HIDE DEF s, t, one
  <2>4. /\ s \in ByteArray /\ Len(s) = 1 + Len(t) /\ Len(t) \in Nat
        /\ s[1] = "-"
        /\ \A k \in 1..Len(t) : s[1 + k] = t[k]
    <3>3. one \in ByteArray /\ t \in ByteArray
      BY <2>2, <2>3
    <3>1. /\ s \in ByteArray /\ Len(s) = Len(one) + Len(t)
          /\ \A k \in 1..Len(one) : s[k] = one[k]
          /\ \A k \in 1..Len(t) : s[Len(one) + k] = t[k]
      BY <2>1, <3>3, Concatenated
    <3>2. Len(t) \in Nat
      BY <2>2 DEF ByteArray
    <3> QED
      BY <2>3, <3>1, <3>2
  <2>5. ASSUME NEW k \in 1..Len(t) PROVE At(s, k) = t[k] /\ IsDigit(At(s, k)) /\ t[k] # "-"
    <3>1. k \in 0..(Len(s) - 1) /\ k + 1 = 1 + k
      BY <2>4
    <3>2. At(s, k) = t[k]
      BY <2>4, <3>1 DEF At
    <3>3. t[k] # "-"
      BY <2>2, DigitsDiffer DEF IsDigit
    <3> QED
      BY <2>2, <3>2, <3>3
  <2>6. At(s, 0) = "-"
    BY <2>4 DEF At
  <2>7. IsNumeral(s)
    <3>1. ASSUME NEW p \in 1..(Len(s) - 1) PROVE IsDigit(At(s, p))
      <4>1. p \in 1..Len(t)
        BY <2>4
      <4> QED
        BY <2>5, <4>1
    <3> QED
      BY <2>2, <2>4, <2>6, <3>1 DEF IsNumeral
  <2>8. PICK v : /\ IsReading(s, v)
                 /\ toInt(s) = IF ~IsNumeral(s) THEN 0
                               ELSE IF At(s, 0) = "-" THEN -v[Len(s)] ELSE v[Len(s)]
    BY <2>4, ReadingExists
  <2>9. Reads(t, 1, v)
    <3>1. v[1] = 0
      <4>1. 1 \in 0..Len(s) /\ 1 - 1 = 0
        BY <2>4
      <4> QED
        BY <2>6, <2>8, <4>1 DEF IsReading
    <3>2. ASSUME NEW k \in 1..Len(t) PROVE v[1 + k] = 10 * v[1 + (k - 1)] + DigitValue(t[k])
      <4>1. 1 + k \in 0..Len(s) /\ 1 + k # 0 /\ (1 + k) - 1 = k /\ 1 + (k - 1) = k
        BY <2>4
      <4>2. At(s, k) = t[k] /\ t[k] # "-"
        BY <2>5
      <4> QED
        BY <2>8, <4>1, <4>2 DEF IsReading
    <3> QED
      BY <3>1, <3>2 DEF Reads
  <2>10. v[1 + Len(t)] = -i
    BY <2>2, <2>9 DEF size
  <2>11. toInt(s) = i
    BY <2>4, <2>6, <2>7, <2>8, <2>10
  <2>12. ASSUME NEW k \in 1..Len(s) PROVE IsDigit(s[k]) \/ s[k] = "-"
    <3>1. k = 1 \/ (k - 1 \in 1..Len(t) /\ 1 + (k - 1) = k)
      BY <2>4
    <3>2. CASE k = 1
      BY <2>4, <3>2
    <3>3. CASE k - 1 \in 1..Len(t) /\ 1 + (k - 1) = k
      <4>1. s[1 + (k - 1)] = t[k - 1] /\ IsDigit(t[k - 1])
        BY <2>2, <2>4, <3>3
      <4> QED
        BY <3>3, <4>1
    <3> QED
      BY <3>1, <3>2, <3>3
  <2> QED
    BY <2>2, <2>4, <2>7, <2>11, <2>12 DEF s
<1> QED
  BY <1>1, <1>2

\* No letter of the notation is among what number writes.
LEMMA NumberIsPlain ==
  ASSUME NEW i \in Int, NEW k \in 1..Len(number(i))
  PROVE  number(i)[k] \notin {":", "e", "i", "l", "d", ""}
BY NumberIsRead, DigitsDiffer DEF IsDigit

=============================================================================
