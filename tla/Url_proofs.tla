------------------------------ MODULE Url_proofs ------------------------------
(***************************************************************************)
(* What Url says of ParseUrl and of the request holds for every text that  *)
(* is typed, whatever the words and however long: its three invariants.    *)
(*                                                                         *)
(* The proofs go by the places where the scheme, the host and the port     *)
(* end: Form says of three places, without a search, that they cut a text  *)
(* as the tolerated form does.  A text has the form if and only if it is   *)
(* parsed without an exception (FormParsed, NotThrowsForm), and if and     *)
(* only if a cut of it is tolerated (ToleratedCuts).  Below that, what     *)
(* find, stoi and to_string compute is proved from a least-number          *)
(* principle: Find by FindIs, Decimal by DecimalIs and DecimalOrder, the   *)
(* fold of Stoi by StoiFolds and StoiIs.                                   *)
(***************************************************************************)
EXTENDS Url, SequenceTheorems, FiniteSetTheorems, TLAPS

-----------------------------------------------------------------------------
(* Numbers and sets of numbers.                                            *)

(* A set of numbers that is not empty has a least: among the intervals     *)
(* from 1 to one of them, ordered by inclusion, which is well-founded on   *)
(* finite sets, one is minimal.                                            *)
LEMMA LeastNat ==
    ASSUME NEW T, T \subseteq Nat, T # {}
    PROVE  \E m \in T : \A n \in T : m <= n
<1> DEFINE I == {1 .. n : n \in T}
           R == StrictSubsetOrdering(Nat)
           F == FiniteSubsetsOf(Nat)
<1>1. IsWellFoundedOn(R, F)
  BY FS_StrictSubsetOrderingWellFounded
<1>2. I \subseteq F
  BY FS_Interval DEF FiniteSubsetsOf
<1>3. I # {}
  OBVIOUS
<1>4. \E x \in I : \A y \in I : ~(<<y, x>> \in R)
  <2> HIDE DEF I, R, F
  <2> QED BY <1>1, <1>2, <1>3, WFMin
<1>5. PICK m \in T : \A n \in T : ~(<<1 .. n, 1 .. m>> \in R)
  BY <1>4
<1>6. ASSUME NEW n \in T, n < m PROVE FALSE
  <2>1. 1 .. n \subseteq 1 .. m /\ m \in 1 .. m /\ m \notin 1 .. n
    BY <1>6
  <2>2. <<1 .. n, 1 .. m>> \in R
    BY <2>1 DEF StrictSubsetOrdering
  <2> QED BY <2>2, <1>5
<1> QED BY <1>5, <1>6

(* A set of numbers with a bound has a greatest.                           *)
LEMMA GreatestNat ==
    ASSUME NEW T, T \subseteq Nat, T # {}, NEW b \in Nat, \A n \in T : n <= b
    PROVE  \E m \in T : \A n \in T : n <= m
<1> DEFINE D == {b - n : n \in T}
<1>1. D \subseteq Nat /\ D # {}
  <2>1. \A n \in T : n \in Nat /\ n <= b /\ b - n \in Nat
    OBVIOUS
  <2> QED
    BY <2>1
<1>2. PICK d \in D : \A e \in D : d <= e
    BY <1>1, LeastNat
<1>3. PICK m \in T : d = b - m
    BY <1>2
<1>4. \A n \in T : b - m <= b - n
    BY <1>2, <1>3
<1> QED
    BY <1>4

LEMMA MinIs ==
    ASSUME NEW T, T \subseteq Nat, T # {}
    PROVE  Min(T) \in T /\ \A n \in T : Min(T) <= n
    BY LeastNat DEF Min

LEMMA MaxIs ==
    ASSUME NEW T, T \subseteq Nat, T # {}, NEW b \in Nat, \A n \in T : n <= b
    PROVE  Max(T) \in T /\ \A n \in T : n <= Max(T)
<1>1. \E m \in T : \A n \in T : m >= n
    BY GreatestNat
<1> QED
    BY <1>1 DEF Max

(* Induction, for a set of numbers.                                        *)
LEMMA NatSet ==
    ASSUME NEW T, \A n \in Nat : (\A m \in 0 .. n - 1 : m \in T) => n \in T
    PROVE  Nat \subseteq T
<1> DEFINE D == Nat \ T
<1>1. CASE D = {}
    BY <1>1
<1>2. CASE D # {}
  <2>1. PICK n \in D : \A m \in D : n <= m
    BY <1>2, LeastNat
  <2>2. \A m \in 0 .. n - 1 : m \in T
    BY <2>1
  <2> QED
    BY <2>1, <2>2
<1> QED
    BY <1>1, <1>2

(* Parts of sequences.                                                     *)
LEMMA Part ==
    ASSUME NEW S, NEW s \in Seq(S), NEW i \in 1 .. Len(s) + 1, NEW j \in i - 1 .. Len(s)
    PROVE  /\ SubSeq(s, i, j) \in Seq(S)
           /\ Len(SubSeq(s, i, j)) = j - i + 1
           /\ DOMAIN SubSeq(s, i, j) = 1 .. j - i + 1
           /\ \A k \in 1 .. j - i + 1 : SubSeq(s, i, j)[k] = s[i + k - 1]
<1>1. i \in Int /\ j \in Int /\ j - i + 1 \in Nat /\ \A k \in i .. j : k \in 1 .. Len(s)
    OBVIOUS
<1>2. \A k \in i .. j : s[k] \in S
    BY <1>1
<1>3. /\ SubSeq(s, i, j) \in Seq(S)
      /\ Len(SubSeq(s, i, j)) = IF i <= j THEN j - i + 1 ELSE 0
      /\ \A k \in 1 .. j - i + 1 : SubSeq(s, i, j)[k] = s[i + k - 1]
    BY <1>1, <1>2, SubSeqProperties
<1>4. Len(SubSeq(s, i, j)) = j - i + 1
    BY <1>1, <1>3
<1> QED
    BY <1>3, <1>4, LenProperties

LEMMA PartOfOne ==
    ASSUME NEW S, NEW s \in Seq(S), NEW i \in 1 .. Len(s)
    PROVE  SubSeq(s, i, i) = <<s[i]>>
<1>1. /\ SubSeq(s, i, i) \in Seq(S) /\ Len(SubSeq(s, i, i)) = 1
      /\ SubSeq(s, i, i)[1] = s[i]
    BY Part
<1>2. <<s[i]>> \in Seq(S) /\ Len(<<s[i]>>) = 1 /\ <<s[i]>>[1] = s[i]
    OBVIOUS
<1> DEFINE p == SubSeq(s, i, i)
           q == <<s[i]>>
<1> HIDE DEF p, q
<1>3. p \in Seq(S) /\ q \in Seq(S) /\ Len(p) = Len(q) /\ \A k \in 1 .. Len(p) : p[k] = q[k]
    BY <1>1, <1>2 DEF p, q
<1>4. p = q
    BY <1>3, SeqEqual
<1> QED
    BY <1>4 DEF p, q

(* What follows the first m elements, up to the n-th.                      *)
LEMMA Slice ==
    ASSUME NEW S, NEW s \in Seq(S), NEW m \in Nat, NEW n \in Nat, m <= n, n <= Len(s)
    PROVE  /\ SubSeq(s, m + 1, n) \in Seq(S) /\ Len(SubSeq(s, m + 1, n)) = n - m
           /\ \A k \in 1 .. n - m : SubSeq(s, m + 1, n)[k] = s[m + k]
<1> DEFINE t == SubSeq(s, m + 1, n)
<1>1. /\ m + 1 \in 1 .. Len(s) + 1 /\ n \in (m + 1) - 1 .. Len(s)
      /\ n - (m + 1) + 1 = n - m
      /\ \A k \in 1 .. n - m : (m + 1) + k - 1 = m + k
    OBVIOUS
<1>2. /\ t \in Seq(S) /\ Len(t) = n - (m + 1) + 1
      /\ \A k \in 1 .. n - (m + 1) + 1 : t[k] = s[(m + 1) + k - 1]
    BY <1>1, Part
<1> HIDE DEF t
<1>3. t \in Seq(S) /\ Len(t) = n - m /\ \A k \in 1 .. n - m : t[k] = s[m + k]
    BY <1>1, <1>2
<1> QED
    BY <1>3 DEF t

LEMMA SliceOfSlice ==
    ASSUME NEW S, NEW s \in Seq(S), NEW m \in Nat, NEW n \in Nat, m <= n, n <= Len(s),
           NEW i \in Nat, NEW j \in Nat, i <= j, j <= n - m
    PROVE  SubSeq(SubSeq(s, m + 1, n), i + 1, j) = SubSeq(s, m + i + 1, m + j)
<1> DEFINE t == SubSeq(s, m + 1, n)
           p == SubSeq(t, i + 1, j)
           q == SubSeq(s, m + i + 1, m + j)
<1>1. /\ m + i \in Nat /\ m + j \in Nat /\ m + i <= m + j /\ m + j <= Len(s)
      /\ (m + j) - (m + i) = j - i
      /\ \A k \in 1 .. j - i : i + k \in 1 .. n - m /\ m + (i + k) = (m + i) + k
    OBVIOUS
<1>2. t \in Seq(S) /\ Len(t) = n - m /\ \A k \in 1 .. n - m : t[k] = s[m + k]
    BY Slice
<1> HIDE DEF t
<1>3. p \in Seq(S) /\ Len(p) = j - i /\ \A k \in 1 .. j - i : p[k] = t[i + k]
    BY <1>2, Slice
<1>4. /\ q \in Seq(S) /\ Len(q) = (m + j) - (m + i)
      /\ \A k \in 1 .. (m + j) - (m + i) : q[k] = s[(m + i) + k]
    BY <1>1, Slice
<1> HIDE DEF p, q
<1>5. \A k \in 1 .. j - i : p[k] = q[k]
    BY <1>1, <1>2, <1>3, <1>4
<1>6. Len(q) = j - i
    BY <1>1, <1>4
<1>7. p = q
  <2>1. p \in Seq(S) /\ q \in Seq(S) /\ Len(p) = Len(q) /\ \A k \in 1 .. Len(p) : p[k] = q[k]
    BY <1>3, <1>4, <1>5, <1>6
  <2> QED
    BY ONLY <2>1, SeqEqual
<1> QED
    BY <1>7 DEF p, q, t

-----------------------------------------------------------------------------
(* Digits and the decimal notation of numbers.                             *)

LEMMA DigitValues ==
    /\ \A i \in 0 .. 9 : Digits[i + 1] \in Digit /\ ValueOf(Digits[i + 1]) = i
    /\ \A d \in Digit : ValueOf(d) \in 0 .. 9 /\ d = Digits[ValueOf(d) + 1]
    /\ Digit = {"0", "1", "2", "3", "4", "5", "6", "7", "8", "9"}
<1>1. DOMAIN Digits = 1 .. 10
    BY DEF Digits
<1>2. \A i, j \in 1 .. 10 : Digits[i] = Digits[j] => i = j
    BY DEF Digits
<1>3. \A i \in 1 .. 10 : ValueOf(Digits[i]) = i - 1
    BY <1>1, <1>2 DEF ValueOf
<1>4. Digit = {"0", "1", "2", "3", "4", "5", "6", "7", "8", "9"}
    BY <1>1 DEF Digit, Digits
<1> QED
    BY <1>1, <1>3, <1>4 DEF Digit

(* One step of to_string, with f for the numbers below n.                  *)
Shown(f, n) ==
    IF n < 10 THEN <<Digits[n + 1]>> ELSE Append(f[n \div 10], Digits[(n % 10) + 1])

(* The recursive definition defines what it says.                          *)
LEMMA DecimalIs == Decimal = [n \in Nat |-> Shown(Decimal, n)]
<1> DEFINE Upto(g, k) == g = [n \in 0 .. k |-> Shown(g, n)]
           T == {k \in Nat : \E g : Upto(g, k)}
<1>1. \A n \in Nat : n >= 10 => n \div 10 \in 0 .. n - 1
    OBVIOUS
<1>2. \A n \in Nat : \A g, h : (\A m \in 0 .. n - 1 : g[m] = h[m]) => Shown(g, n) = Shown(h, n)
    BY <1>1 DEF Shown
<1>3. ASSUME NEW k \in Nat, \A m \in 0 .. k - 1 : m \in T
      PROVE  k \in T
  <2>1. CASE k = 0
    <3> DEFINE g == [n \in 0 .. 0 |-> <<Digits[1]>>]
    <3>1. \A n \in 0 .. 0 : Shown(g, n) = <<Digits[1]>>
        BY DEF Shown
    <3> QED
        BY <2>1, <3>1
  <2>2. CASE k # 0
    <3>1. PICK g : Upto(g, k - 1)
        BY <1>3, <2>2
    <3> HIDE DEF T
    <3> DEFINE h == [n \in 0 .. k |-> IF n = k THEN Shown(g, k) ELSE g[n]]
    <3>2. \A n \in 0 .. k - 1 : h[n] = g[n]
        BY <2>2
    <3>3. \A n \in 0 .. k : Shown(h, n) = Shown(g, n)
        BY <1>2, <3>2, <2>2
    <3>4. \A n \in 0 .. k - 1 : g[n] = Shown(g, n)
        BY <3>1
    <3>5. \A n \in 0 .. k : h[n] = Shown(h, n)
        BY <3>2, <3>3, <3>4
    <3>6. h = [n \in 0 .. k |-> h[n]]
        OBVIOUS
    <3> HIDE DEF h
    <3>7. Upto(h, k)
        BY <3>5, <3>6
    <3> QED
        BY <3>7 DEF T
  <2> QED
    BY <2>1, <2>2
<1>4. \A k \in Nat : \E g : Upto(g, k)
  <2> HIDE DEF Upto
  <2>1. Nat \subseteq T
    <3> HIDE DEF T
    <3> QED
      BY <1>3, NatSet
  <2> QED
    BY <2>1
<1>5. ASSUME NEW k \in Nat, NEW g, Upto(g, k), NEW l \in Nat, NEW h, Upto(h, l)
      PROVE  \A n \in Nat : n <= k /\ n <= l => g[n] = h[n]
  <2> DEFINE S == {n \in Nat : n <= k /\ n <= l => g[n] = h[n]}
  <2>1. ASSUME NEW n \in Nat, \A m \in 0 .. n - 1 : m \in S
        PROVE  n \in S
    <3>1. ASSUME n <= k, n <= l PROVE g[n] = h[n]
      <4>1. \A m \in 0 .. n - 1 : g[m] = h[m]
        <5> SUFFICES ASSUME NEW m \in 0 .. n - 1
                     PROVE  g[m] = h[m]
          OBVIOUS
        <5>1. m <= k /\ m <= l
          BY <3>1
        <5>2. m \in S
          BY <2>1
        <5> QED
          BY <5>1, <5>2
      <4>2. g[n] = Shown(g, n) /\ h[n] = Shown(h, n)
        <5>1. n \in 0 .. k /\ n \in 0 .. l
          BY <3>1
        <5>2. g[n] = Shown(g, n)
          BY <1>5, <5>1
        <5>3. h[n] = Shown(h, n)
          BY <1>5, <5>1
        <5> QED
          BY <5>2, <5>3
      <4> QED
        BY <1>2, <4>1, <4>2
    <3> QED
      BY <3>1
  <2>2. Nat \subseteq S
    <3> HIDE DEF S
    <3> QED
      BY <2>1, NatSet
  <2> QED
    BY <2>2
<1> DEFINE G(k) == CHOOSE g : Upto(g, k)
           F == [n \in Nat |-> G(n)[n]]
<1>6. \A k \in Nat : Upto(G(k), k)
  <2> HIDE DEF Upto
  <2> QED
    BY <1>4
<1> HIDE DEF G
<1>7. ASSUME NEW n \in Nat PROVE F[n] = Shown(F, n)
  <2>1. G(n)[n] = Shown(G(n), n)
    BY <1>6
  <2>2. \A m \in 0 .. n - 1 : F[m] = G(n)[m]
    BY <1>5, <1>6
  <2> QED
    BY <1>2, <2>1, <2>2
<1>8. F = [n \in Nat |-> Shown(F, n)]
  <2> HIDE DEF Shown
  <2> QED
    BY <1>7
<1>9. \E f : f = [n \in Nat |-> Shown(f, n)]
    BY <1>8
<1> QED
    BY <1>9 DEF Decimal, Shown

LEMMA DecimalOf ==
    ASSUME NEW n \in Nat
    PROVE  Decimal[n] = IF n < 10 THEN <<Digits[n + 1]>>
                        ELSE Append(Decimal[n \div 10], Digits[(n % 10) + 1])
    BY DecimalIs DEF Shown

LEMMA DecimalType == \A n \in Nat : Decimal[n] \in Seq(Digit)
<1> DEFINE T == {n \in Nat : Decimal[n] \in Seq(Digit)}
<1>1. ASSUME NEW n \in Nat, \A m \in 0 .. n - 1 : m \in T
      PROVE  n \in T
  <2>1. CASE n < 10
    <3>1. Digits[n + 1] \in Digit
      BY <2>1, DigitValues
    <3>2. Decimal[n] = <<Digits[n + 1]>>
      BY <2>1, DecimalOf
    <3> HIDE DEF T
    <3>3. Decimal[n] \in Seq(Digit)
      BY <3>1, <3>2
    <3> QED
      BY <3>3 DEF T
  <2>2. CASE ~(n < 10)
    <3>1. n \div 10 \in 0 .. n - 1 /\ n % 10 \in 0 .. 9
      BY <2>2
    <3>2. Digits[(n % 10) + 1] \in Digit
      BY <3>1, DigitValues
    <3>3. Decimal[n \div 10] \in Seq(Digit)
      BY <1>1, <3>1
    <3> HIDE DEF T
    <3>4. Decimal[n] \in Seq(Digit)
      BY <2>2, <3>2, <3>3, DecimalOf, AppendProperties
    <3> QED
      BY <3>4 DEF T
  <2> QED
    BY <2>1, <2>2
<1>2. Nat \subseteq T
  <2> HIDE DEF T
  <2> QED
    BY <1>1, NatSet
<1> QED
    BY <1>2

(* A number from ten on has one digit more than its tenth.                 *)
LEMMA DecimalTens ==
    ASSUME NEW n \in Nat, n >= 10
    PROVE  /\ n \div 10 \in 1 .. n - 1 /\ n % 10 \in 0 .. 9 /\ n = 10 * (n \div 10) + (n % 10)
           /\ Digits[(n % 10) + 1] \in Digit /\ ValueOf(Digits[(n % 10) + 1]) = n % 10
           /\ Decimal[n \div 10] \in Seq(Digit)
           /\ Decimal[n] = Append(Decimal[n \div 10], Digits[(n % 10) + 1])
<1>1. n \div 10 \in 1 .. n - 1 /\ n % 10 \in 0 .. 9 /\ n = 10 * (n \div 10) + (n % 10)
    OBVIOUS
<1>2. Digits[(n % 10) + 1] \in Digit /\ ValueOf(Digits[(n % 10) + 1]) = n % 10
    BY <1>1, DigitValues
<1>3. Decimal[n \div 10] \in Seq(Digit)
    BY <1>1, DecimalType
<1>4. Decimal[n] = Append(Decimal[n \div 10], Digits[(n % 10) + 1])
  <2>1. ~(n < 10)
    OBVIOUS
  <2> QED
    BY <2>1, DecimalOf, Zenon
<1> QED
    BY <1>1, <1>2, <1>3, <1>4

LEMMA DecimalUnits ==
    ASSUME NEW n \in 0 .. 9
    PROVE  /\ Digits[n + 1] \in Digit /\ ValueOf(Digits[n + 1]) = n
           /\ Decimal[n] = <<Digits[n + 1]>>
<1>1. n \in Nat /\ n < 10
    OBVIOUS
<1> QED
    BY <1>1, DigitValues, DecimalOf

(* The first digit of a number is no zero.                                 *)
LEMMA DecimalHead == \A n \in Nat \ {0} : Decimal[n] # <<>> /\ Decimal[n][1] # "0"
<1> DEFINE T == {n \in Nat : n > 0 => Decimal[n] # <<>> /\ Decimal[n][1] # "0"}
<1>1. ASSUME NEW n \in Nat, \A m \in 0 .. n - 1 : m \in T
      PROVE  n \in T
  <2>1. CASE n \in 1 .. 9
    <3>1. Digits[n + 1] # "0"
      BY <2>1 DEF Digits
    <3>2. Decimal[n] = <<Digits[n + 1]>>
      BY <2>1, DecimalUnits
    <3> HIDE DEF T
    <3>3. Decimal[n] # <<>> /\ Decimal[n][1] # "0"
      BY <3>1, <3>2
    <3> QED
      BY <3>3 DEF T
  <2>2. CASE n >= 10
    <3>1. Decimal[n \div 10] # <<>> /\ Decimal[n \div 10][1] # "0"
      BY <1>1, <2>2, DecimalTens
    <3> HIDE DEF T
    <3> DEFINE t == Decimal[n \div 10]
               d == Digits[(n % 10) + 1]
    <3>2. t \in Seq(Digit) /\ d \in Digit /\ Decimal[n] = Append(t, d) /\ t # <<>> /\ t[1] # "0"
      BY <2>2, <3>1, DecimalTens
    <3> HIDE DEF t, d
    <3>3. Append(t, d) # <<>> /\ Append(t, d)[1] = t[1]
      BY <3>2, AppendProperties, EmptySeq
    <3> QED
      BY <3>2, <3>3 DEF T
  <2> QED
    BY <2>1, <2>2
<1>2. Nat \subseteq T
  <2> HIDE DEF T
  <2> QED
    BY <1>1, NatSet
<1> QED
    BY <1>2

-----------------------------------------------------------------------------
(* The order of numbers is that of their digits.                           *)

Lex(s, t) == \A i \in DOMAIN s :
    (\A j \in 1 .. i - 1 : s[j] = t[j]) => ValueOf(s[i]) <= ValueOf(t[i])

NotAfter(s, t) == Len(s) < Len(t) \/ (Len(s) = Len(t) /\ Lex(s, t))

LEMMA LexSame ==
    ASSUME NEW s \in Seq(Digit)
    PROVE  Lex(s, s)
<1>1. \A i \in DOMAIN s : ValueOf(s[i]) \in 0 .. 9
    BY DigitValues
<1> QED
    BY <1>1 DEF Lex

LEMMA LexAppend ==
    ASSUME NEW s \in Seq(Digit), NEW t \in Seq(Digit), Len(s) = Len(t),
           NEW a \in Digit, NEW b \in Digit
    PROVE  Lex(Append(s, a), Append(t, b)) <=>
               Lex(s, t) /\ (s = t => ValueOf(a) <= ValueOf(b))
<1> DEFINE S == Append(s, a)
           U == Append(t, b)
           n == Len(s)
<1>1. /\ n \in Nat /\ DOMAIN S = 1 .. n + 1 /\ DOMAIN s = 1 .. n
      /\ \A i \in 1 .. n : S[i] = s[i] /\ U[i] = t[i]
      /\ S[n + 1] = a /\ U[n + 1] = b
    OBVIOUS
<1>2. s = t <=> \A j \in 1 .. n : s[j] = t[j]
    BY SeqEqual
<1> HIDE DEF S, U, n
<1>3. Lex(S, U) <=> /\ \A i \in 1 .. n : (\A j \in 1 .. i - 1 : S[j] = U[j]) => ValueOf(S[i]) <= ValueOf(U[i])
                    /\ (\A j \in 1 .. n : S[j] = U[j]) => ValueOf(S[n + 1]) <= ValueOf(U[n + 1])
  <2>1. \A i \in 1 .. n + 1 : i \in 1 .. n \/ i = n + 1
    BY <1>1
  <2>2. n + 1 \in 1 .. n + 1 /\ (n + 1) - 1 = n /\ 1 .. n \subseteq 1 .. n + 1
    BY <1>1
  <2> QED
    BY <1>1, <2>1, <2>2 DEF Lex
<1>4. \A i \in 1 .. n : 1 .. i - 1 \subseteq 1 .. n
    BY <1>1
<1>5. (\A i \in 1 .. n : (\A j \in 1 .. i - 1 : S[j] = U[j]) => ValueOf(S[i]) <= ValueOf(U[i]))
      <=> Lex(s, t)
    BY <1>1, <1>4 DEF Lex
<1> QED
    BY <1>1, <1>2, <1>3, <1>5 DEF S, U

(* What one digit more does to the order.                                  *)
LEMMA NotAfterAppend ==
    ASSUME NEW s \in Seq(Digit), NEW t \in Seq(Digit), NEW a \in Digit, NEW b \in Digit
    PROVE  NotAfter(Append(s, a), Append(t, b)) <=>
               NotAfter(s, t) /\ (s = t => ValueOf(a) <= ValueOf(b))
<1>1. /\ Len(s) \in Nat /\ Len(t) \in Nat
      /\ Len(Append(s, a)) = Len(s) + 1 /\ Len(Append(t, b)) = Len(t) + 1
    OBVIOUS
<1>2. s = t => Len(s) = Len(t)
    OBVIOUS
<1>3. Len(s) = Len(t) => (Lex(Append(s, a), Append(t, b)) <=>
                             Lex(s, t) /\ (s = t => ValueOf(a) <= ValueOf(b)))
    BY LexAppend
<1> QED
    BY <1>1, <1>2, <1>3 DEF NotAfter

LEMMA DecimalOrder ==
    ASSUME NEW m \in Nat, NEW n \in Nat
    PROVE  /\ NotAfter(Decimal[m], Decimal[n]) <=> m <= n
           /\ Decimal[m] = Decimal[n] => m = n
<1> DEFINE Right(i, j) == NotAfter(Decimal[i], Decimal[j]) <=> i <= j
           T == {k \in Nat : \A i, j \in 0 .. k : Right(i, j)}
<1>1. \A i, j \in Nat : Right(i, j) /\ Right(j, i) /\ Decimal[i] = Decimal[j] => i = j
  <2> SUFFICES ASSUME NEW i \in Nat, NEW j \in Nat, Right(i, j), Right(j, i), Decimal[i] = Decimal[j]
               PROVE  i = j
      OBVIOUS
  <2>1. NotAfter(Decimal[i], Decimal[j]) /\ NotAfter(Decimal[j], Decimal[i])
      BY DecimalType, LexSame DEF NotAfter
  <2> QED
      BY <2>1
<1>2. ASSUME NEW i \in 0 .. 9, NEW j \in 0 .. 9 PROVE Right(i, j)
  <2>1. /\ Decimal[i] = <<Digits[i + 1]>> /\ Decimal[j] = <<Digits[j + 1]>>
        /\ ValueOf(Digits[i + 1]) = i /\ ValueOf(Digits[j + 1]) = j
      BY DecimalUnits
  <2>2. Lex(<<Digits[i + 1]>>, <<Digits[j + 1]>>) <=> i <= j
      BY <2>1 DEF Lex
  <2> QED
      BY <2>1, <2>2 DEF NotAfter
<1>3. ASSUME NEW i \in 0 .. 9, NEW j \in Nat, j >= 10 PROVE Right(i, j) /\ Right(j, i)
  <2> DEFINE t == Decimal[j \div 10]
             d == Digits[(j % 10) + 1]
  <2>1. Decimal[i] = <<Digits[i + 1]>>
      BY DecimalUnits
  <2>2. t \in Seq(Digit) /\ d \in Digit /\ Decimal[j] = Append(t, d) /\ j \div 10 \in Nat \ {0}
      BY <1>3, DecimalTens
  <2>3. t # <<>>
      BY <2>2, DecimalHead
  <2> HIDE DEF t, d
  <2>4. Len(Decimal[i]) = 1 /\ Len(Decimal[j]) > 1 /\ Len(Decimal[j]) \in Nat
      BY <2>1, <2>2, <2>3, AppendProperties, EmptySeq
  <2>5. NotAfter(Decimal[i], Decimal[j]) /\ ~NotAfter(Decimal[j], Decimal[i])
    <3> DEFINE x == Len(Decimal[i])
               y == Len(Decimal[j])
    <3>1. x = 1 /\ y > 1 /\ y \in Nat
      BY <2>4
    <3>2. x < y /\ ~(y < x) /\ y # x
      <4> HIDE DEF x, y
      <4> QED
        BY <3>1
    <3> QED
      BY <3>2, Zenon DEF NotAfter
  <2>6. i <= j /\ ~(j <= i)
      BY <1>3
  <2> QED
      BY <2>5, <2>6
<1>4. ASSUME NEW i \in Nat, NEW j \in Nat, i >= 10, j >= 10,
             Right(i \div 10, j \div 10), Right(j \div 10, i \div 10)
      PROVE  Right(i, j)
  <2> DEFINE p == i \div 10
             q == j \div 10
             a == Digits[(i % 10) + 1]
             b == Digits[(j % 10) + 1]
  <2>1. /\ p \in Nat /\ q \in Nat /\ i = 10 * p + (i % 10) /\ j = 10 * q + (j % 10)
        /\ i % 10 \in 0 .. 9 /\ j % 10 \in 0 .. 9
        /\ a \in Digit /\ b \in Digit /\ ValueOf(a) = i % 10 /\ ValueOf(b) = j % 10
        /\ Decimal[p] \in Seq(Digit) /\ Decimal[q] \in Seq(Digit)
        /\ Decimal[i] = Append(Decimal[p], a) /\ Decimal[j] = Append(Decimal[q], b)
    <3>1. /\ p \in 1 .. i - 1 /\ i % 10 \in 0 .. 9 /\ i = 10 * p + (i % 10)
          /\ a \in Digit /\ ValueOf(a) = i % 10
          /\ Decimal[p] \in Seq(Digit) /\ Decimal[i] = Append(Decimal[p], a)
      BY <1>4, DecimalTens
    <3>2. /\ q \in 1 .. j - 1 /\ j % 10 \in 0 .. 9 /\ j = 10 * q + (j % 10)
          /\ b \in Digit /\ ValueOf(b) = j % 10
          /\ Decimal[q] \in Seq(Digit) /\ Decimal[j] = Append(Decimal[q], b)
      BY <1>4, DecimalTens
    <3> HIDE DEF p, q, a, b
    <3> QED
      BY <3>1, <3>2
  <2>2. Right(p, q) /\ Right(q, p)
      BY <1>4
  <2> HIDE DEF p, q, a, b
  <2>3. Decimal[p] = Decimal[q] <=> p = q
      BY <1>1, <2>1, <2>2
  <2>4. NotAfter(Decimal[i], Decimal[j]) <=> p <= q /\ (p = q => i % 10 <= j % 10)
      BY <2>1, <2>2, <2>3, NotAfterAppend
  <2> QED
      BY <2>1, <2>4
<1>5. ASSUME NEW k \in Nat, \A l \in 0 .. k - 1 : l \in T
      PROVE  k \in T
  <2> SUFFICES ASSUME NEW i \in 0 .. k, NEW j \in 0 .. k PROVE Right(i, j)
      OBVIOUS
  <2> HIDE DEF Right
  <2>1. CASE i < 10 /\ j < 10
      BY <1>2, <2>1
  <2>2. CASE i < 10 /\ j >= 10
      BY <1>3, <2>2
  <2>3. CASE i >= 10 /\ j < 10
      BY <1>3, <2>3
  <2>4. CASE i >= 10 /\ j >= 10
    <3>1. i \div 10 \in 0 .. k - 1 /\ j \div 10 \in 0 .. k - 1 /\ k - 1 \in 0 .. k - 1
      BY <2>4
    <3> QED
      BY <1>4, <1>5, <2>4, <3>1
  <2> QED
      BY <2>1, <2>2, <2>3, <2>4
<1>6. Nat \subseteq T
  <2> HIDE DEF T
  <2> QED
      BY <1>5, NatSet
<1>7. \A i, j \in Nat : Right(i, j)
  <2> SUFFICES ASSUME NEW i \in Nat, NEW j \in Nat PROVE Right(i, j)
      OBVIOUS
  <2> HIDE DEF Right
  <2>1. i + j \in T /\ i \in 0 .. i + j /\ j \in 0 .. i + j
      BY <1>6
  <2> QED
      BY <2>1
<1> QED
    BY <1>1, <1>7

-----------------------------------------------------------------------------
(* Leading zeros.                                                          *)

LEMMA SignificantAppend ==
    ASSUME NEW s \in Seq(Digit), NEW d \in Digit
    PROVE  Significant(Append(s, d)) =
               IF Significant(s) # <<>> THEN Append(Significant(s), d)
               ELSE IF d = "0" THEN <<>> ELSE <<d>>
<1> DEFINE t == Append(s, d)
           n == Len(s)
           Ks == {k \in DOMAIN s : s[k] # "0"}
           Kt == {k \in DOMAIN t : t[k] # "0"}
<1>1. /\ n \in Nat /\ t \in Seq(Digit) /\ Len(t) = n + 1
      /\ DOMAIN s = 1 .. n /\ DOMAIN t = 1 .. n + 1
      /\ \A k \in 1 .. n : t[k] = s[k]
      /\ t[n + 1] = d
    OBVIOUS
<1>2. Kt = Ks \cup (IF d = "0" THEN {} ELSE {n + 1}) /\ Ks \subseteq 1 .. n
  <2> HIDE DEF t, n
  <2> QED
    BY <1>1
<1>3. CASE Ks = {}
  <2>1. Significant(s) = <<>>
    BY <1>3 DEF Significant
  <2>2. CASE d = "0"
    BY <1>2, <1>3, <2>1, <2>2 DEF Significant
  <2>3. CASE d # "0"
    <3>1. Kt = {n + 1}
      BY <1>2, <1>3, <2>3
    <3>2. Min({n + 1}) = n + 1
      BY <1>1, MinIs
    <3>3. Significant(t) = SubSeq(t, n + 1, n + 1)
      <4> HIDE DEF t, n
      <4> QED
        BY <1>1, <3>1, <3>2 DEF Significant, From
    <3>4. SubSeq(t, n + 1, n + 1) = <<d>>
      <4> HIDE DEF t, n
      <4> QED
        BY <1>1, PartOfOne
    <3> QED
      BY <2>1, <2>3, <3>3, <3>4
  <2> QED
    BY <2>2, <2>3
<1>4. CASE Ks # {}
  <2> HIDE DEF t, n, Ks, Kt
  <2> DEFINE m == Min(Ks)
             l == Min(Kt)
  <2>0. Ks \subseteq Nat /\ Kt \subseteq Nat /\ Kt # {}
    BY <1>1, <1>2, <1>4
  <2>1. m \in Ks /\ \A k \in Ks : m <= k
    BY <1>4, <2>0, MinIs
  <2>2. l \in Kt /\ \A k \in Kt : l <= k
    BY <2>0, MinIs
  <2>3. l = m
    <3> HIDE DEF l, m
    <3> QED
      BY <1>1, <1>2, <2>1, <2>2
  <2>4. Significant(s) = SubSeq(s, m, n) /\ Significant(t) = SubSeq(t, m, n + 1)
    <3> HIDE DEF t, m
    <3> QED
      BY <1>1, <1>4, <2>0, <2>3 DEF Significant, From, Ks, Kt, n, m, l
  <2>5. m \in 1 .. n
    BY <1>2, <2>1
  <2> HIDE DEF m
  <2>6. SubSeq(s, m, n) \in Seq(Digit) /\ Len(SubSeq(s, m, n)) = n - m + 1
    BY <1>1, <2>5, Part DEF n
  <2>7. SubSeq(t, m, n + 1) = Append(SubSeq(s, m, n), d)
    <3> HIDE DEF t
    <3>1. SubSeq(t, m, n + 1) = SubSeq(t, m, n) \o <<t[n + 1]>>
      <4>1. m \in 1 .. Len(t) /\ n + 1 \in m .. Len(t) /\ (n + 1) - 1 = n
        BY <1>1, <2>5
      <4> QED
        BY <1>1, <4>1, SubSeqRecursiveSecond
    <3>2. SubSeq(t, m, n) = SubSeq(s, m, n)
      <4>1. /\ SubSeq(t, m, n) \in Seq(Digit) /\ Len(SubSeq(t, m, n)) = n - m + 1
            /\ \A k \in 1 .. n - m + 1 : SubSeq(t, m, n)[k] = t[m + k - 1]
        BY <1>1, <2>5, Part
      <4>2. \A k \in 1 .. n - m + 1 : SubSeq(s, m, n)[k] = s[m + k - 1]
        BY <1>1, <2>5, Part DEF n
      <4>3. \A k \in 1 .. n - m + 1 : m + k - 1 \in 1 .. n
        BY <1>1, <2>5
      <4> QED
        BY <1>1, <2>6, <4>1, <4>2, <4>3, SeqEqual
    <3>3. SubSeq(s, m, n) \in Seq(Digit) /\ d \in Digit /\ t[n + 1] = d
      BY <1>1, <2>6
    <3>4. SubSeq(s, m, n) \o <<d>> = Append(SubSeq(s, m, n), d)
      BY ONLY <3>3, AppendIsConcat, SMTT(30)
    <3>5. SubSeq(t, m, n + 1) = SubSeq(s, m, n) \o <<d>>
      BY ONLY <3>1, <3>2, <3>3
    <3> QED
      BY ONLY <3>4, <3>5
  <2>8. SubSeq(s, m, n) # <<>>
    <3>1. Len(SubSeq(s, m, n)) > 0
      BY <1>1, <2>5, <2>6
    <3>2. \A w : Len(w) > 0 => w # <<>>
      OBVIOUS
    <3> QED
      BY ONLY <3>1, <3>2
  <2> QED
    BY <2>4, <2>7, <2>8 DEF t
<1> QED
    BY <1>3, <1>4

-----------------------------------------------------------------------------
(* stoi.                                                                   *)

(* The number of one digit more.                                           *)
StoiStep(v, d) ==
    IF v = OutOfRange \/ v > (INT_MAX - ValueOf(d)) \div 10 THEN OutOfRange
    ELSE 10 * v + ValueOf(d)

(* One step of the fold over the positions of ds, with f for the rest.     *)
Folded(ds, f, s) == IF s = {} THEN 0 ELSE StoiStep(f[s \ {Max(s)}], ds[Max(s)])

(* The fold goes through the digits from left to right.                    *)
LEMMA StoiFolds ==
    ASSUME NEW s, LeadingDigits(s) \in Seq(Digit)
    PROVE  \E V : /\ V[0] = 0
                  /\ \A k \in 1 .. Len(LeadingDigits(s)) :
                        V[k] = StoiStep(V[k - 1], LeadingDigits(s)[k])
                  /\ Stoi(s) = V[Len(LeadingDigits(s))]
<1> DEFINE ds == LeadingDigits(s)
           n == Len(ds)
           Over(f, b) == f = [p \in SUBSET (1 .. b) |-> Folded(ds, f, p)]
           T == {b \in Nat : \E f : Over(f, b)}
<1>1. n \in Nat /\ DOMAIN ds = 1 .. n
    OBVIOUS
<1>2. ASSUME NEW b \in Nat, NEW p \in SUBSET (1 .. b), p # {}
      PROVE  Max(p) \in p /\ \A k \in p : k <= Max(p)
  <2>1. p \subseteq Nat /\ \A k \in p : k <= b
    BY <1>2
  <2> QED
    BY <1>2, <2>1, MaxIs
<1>3. ASSUME NEW b \in Nat, \A m \in 0 .. b - 1 : m \in T
      PROVE  b \in T
  <2>1. CASE b = 0
    <3> DEFINE f == [p \in SUBSET (1 .. 0) |-> 0]
    <3>1. \A p \in SUBSET (1 .. 0) : Folded(ds, f, p) = 0
      BY DEF Folded
    <3>2. f = [p \in SUBSET (1 .. 0) |-> Folded(ds, f, p)]
      BY <3>1
    <3> QED
      BY <2>1, <3>2
  <2>2. CASE b # 0
    <3>0. b - 1 \in T
      <4>1. b - 1 \in 0 .. b - 1
        BY <2>2
      <4> HIDE DEF T
      <4> QED
        BY <1>3, <4>1
    <3>1. PICK f : Over(f, b - 1)
      <4> HIDE DEF Over
      <4> QED
        BY <3>0
    <3> HIDE DEF T
    <3> DEFINE g == [p \in SUBSET (1 .. b) |-> IF b \in p THEN StoiStep(f[p \ {b}], ds[b]) ELSE f[p]]
    <3>2. \A p \in SUBSET (1 .. b - 1) : p \in SUBSET (1 .. b) /\ b \notin p
      BY <2>2
    <3>3. \A p \in SUBSET (1 .. b - 1) : g[p] = f[p] /\ f[p] = Folded(ds, f, p)
      BY <3>1, <3>2
    <3> HIDE DEF g
    <3>4. ASSUME NEW p \in SUBSET (1 .. b), b \in p PROVE g[p] = Folded(ds, g, p)
      <4>1. p \ {b} \in SUBSET (1 .. b - 1)
        BY <2>2
      <4>2. Max(p) = b
        <5>1. p # {} /\ Max(p) \in p /\ \A k \in p : k <= Max(p)
          BY <1>2, <3>4
        <5>2. Max(p) \in 1 .. b /\ b <= Max(p)
          BY <3>4, <5>1
        <5> QED
          BY <5>2
      <4>3. g[p] = StoiStep(f[p \ {b}], ds[b])
        BY <3>4 DEF g
      <4>4. p # {} /\ g[p \ {b}] = f[p \ {b}]
        BY <3>3, <3>4, <4>1
      <4> QED
        BY <4>2, <4>3, <4>4 DEF Folded
    <3>5. ASSUME NEW p \in SUBSET (1 .. b), b \notin p PROVE g[p] = Folded(ds, g, p)
      <4>1. p \in SUBSET (1 .. b - 1)
        <5>1. \A k \in p : k \in 1 .. b /\ k # b
          BY <3>5
        <5>2. \A k \in 1 .. b : k # b => k \in 1 .. b - 1
          OBVIOUS
        <5> QED
          BY <5>1, <5>2
      <4>2. p \ {Max(p)} \in SUBSET (1 .. b - 1)
        BY <4>1
      <4> QED
        BY <3>3, <4>1, <4>2 DEF Folded
    <3>6. g = [p \in SUBSET (1 .. b) |-> g[p]]
      BY DEF g
    <3>7. Over(g, b)
      <4> HIDE DEF n
      <4> QED
        BY <3>4, <3>5, <3>6
    <3> QED
      BY <3>7 DEF T
  <2> QED
    BY <2>1, <2>2
<1>4. \E f : Over(f, n)
  <2>1. Nat \subseteq T
    <3> HIDE DEF T
    <3> QED
      BY <1>3, NatSet
  <2> QED
    BY <1>1, <2>1
<1> DEFINE iter == CHOOSE f : f = [p \in SUBSET (DOMAIN ds) |-> Folded(ds, f, p)]
<1>5. Over(iter, n)
    BY <1>1, <1>4
<1>6. Stoi(s) = iter[DOMAIN ds]
    BY DEF Stoi, FoldLeft, MapThenFoldSet, Folded, StoiStep
<1> HIDE DEF iter, T, ds, n
<1>7. \A p \in SUBSET (1 .. n) : iter[p] = Folded(ds, iter, p)
    BY <1>5
<1> DEFINE V == [k \in 0 .. n |-> iter[1 .. k]]
<1>8. V[0] = 0
  <2>1. 1 .. 0 = {} /\ {} \in SUBSET (1 .. n) /\ 0 \in 0 .. n
    BY <1>1
  <2>2. iter[{}] = 0
    BY <1>7, <2>1 DEF Folded
  <2> QED
    BY <2>1, <2>2
<1>9. ASSUME NEW k \in 1 .. n PROVE V[k] = StoiStep(V[k - 1], ds[k])
  <2>1. /\ 1 .. k \in SUBSET (1 .. n) /\ 1 .. k # {} /\ k \in Nat
        /\ (1 .. k) \ {k} = 1 .. k - 1 /\ k - 1 \in 0 .. n /\ k \in 0 .. n
    <3>1. k \in Nat /\ k \in 1 .. k /\ k - 1 \in 0 .. n /\ k \in 0 .. n
      BY <1>1
    <3>2. \A i : i \in 1 .. k => i \in 1 .. n
      BY <1>1
    <3>3. \A i : (i \in 1 .. k /\ i # k) <=> i \in 1 .. k - 1
      BY <3>1
    <3>4. (1 .. k) \ {k} = 1 .. k - 1
      BY <3>3
    <3> QED
      BY <3>1, <3>2, <3>4
  <2>2. Max(1 .. k) \in 1 .. k /\ k <= Max(1 .. k)
    <3>1. Max(1 .. k) \in 1 .. k /\ \A i \in 1 .. k : i <= Max(1 .. k)
      BY <1>1, <1>2, <2>1
    <3> QED
      BY <2>1, <3>1
  <2>3. Max(1 .. k) = k
    BY <2>1, <2>2
  <2>4. iter[1 .. k] = StoiStep(iter[1 .. k - 1], ds[k])
    BY <1>7, <2>1, <2>3 DEF Folded
  <2> QED
    BY <2>1, <2>4
<1>10. Stoi(s) = V[n]
    BY <1>1, <1>6
<1> HIDE DEF V
<1> QED
    BY <1>8, <1>9, <1>10 DEF ds, n

(* The number e as an int, if it is one.                                   *)
AsInt(e) == IF e <= INT_MAX THEN e ELSE OutOfRange

(* The digits of a number, without any for zero.                           *)
DigitsOf(e) == IF e = 0 THEN <<>> ELSE Decimal[e]

LEMMA StoiStepIs ==
    ASSUME NEW e \in Nat, NEW d \in Digit
    PROVE  StoiStep(AsInt(e), d) = AsInt(10 * e + ValueOf(d))
<1>1. ValueOf(d) \in 0 .. 9
    BY DigitValues
<1>2. \A v \in 0 .. 9 : e <= 2147483647 =>
          (e > (2147483647 - v) \div 10 <=> 10 * e + v > 2147483647)
    OBVIOUS
<1>3. \A v \in 0 .. 9 : e > 2147483647 => 10 * e + v > 2147483647
    OBVIOUS
<1>4. e # -1 /\ \A v \in 0 .. 9 : 10 * e + v \in Nat
    OBVIOUS
<1>5. CASE e > 2147483647
    BY <1>1, <1>3, <1>4, <1>5 DEF StoiStep, AsInt, OutOfRange, INT_MAX
<1>6. CASE e <= 2147483647
    BY <1>1, <1>2, <1>4, <1>6 DEF StoiStep, AsInt, OutOfRange, INT_MAX
<1> QED
    BY <1>5, <1>6

LEMMA DigitsOfAppend ==
    ASSUME NEW e \in Nat, NEW d \in Digit, NEW s \in Seq(Digit), Significant(s) = DigitsOf(e)
    PROVE  Significant(Append(s, d)) = DigitsOf(10 * e + ValueOf(d))
<1> DEFINE v == ValueOf(d)
           m == 10 * e + v
<1>1. v \in 0 .. 9 /\ d = Digits[v + 1] /\ (v = 0 <=> d = "0")
  <2>1. v \in 0 .. 9 /\ d = Digits[v + 1]
    BY DigitValues
  <2>2. Digits[0 + 1] = "0" /\ \A i \in 1 .. 9 : Digits[i + 1] # "0"
    BY DEF Digits
  <2> HIDE DEF v
  <2>3. v = 0 \/ v \in 1 .. 9
    BY <2>1
  <2> QED
    BY <2>1, <2>2, <2>3
<1> HIDE DEF v
<1>2. CASE e = 0
  <2>1. m = v
    BY <1>1, <1>2
  <2>2. Significant(Append(s, d)) = IF d = "0" THEN <<>> ELSE <<d>>
    BY <1>2, SignificantAppend DEF DigitsOf
  <2>3. Decimal[v] = <<d>>
    BY <1>1, DecimalUnits
  <2> HIDE DEF m
  <2> QED
    BY <1>1, <2>1, <2>2, <2>3 DEF DigitsOf, v, m
<1>3. CASE e # 0
  <2>1. m \in Nat /\ m >= 10 /\ m \div 10 = e /\ m % 10 = v
    BY <1>1, <1>3
  <2> HIDE DEF m
  <2>2. Decimal[m] = Append(Decimal[e], d)
    BY <1>1, <2>1, DecimalTens
  <2>3. Significant(s) = Decimal[e] /\ Decimal[e] # <<>>
    BY <1>3, DecimalHead DEF DigitsOf
  <2>4. Significant(Append(s, d)) = Append(Decimal[e], d)
    BY <2>3, SignificantAppend
  <2> QED
    BY <2>1, <2>2, <2>4 DEF DigitsOf, v, m
<1> QED
    BY <1>2, <1>3

(* stoi gives the number that its digits are the decimal notation of.      *)
LEMMA StoiIs ==
    ASSUME NEW s, LeadingDigits(s) \in Seq(Digit)
    PROVE  \E e \in Nat : /\ Stoi(s) = AsInt(e)
                          /\ Significant(LeadingDigits(s)) = DigitsOf(e)
<1> DEFINE ds == LeadingDigits(s)
           n == Len(ds)
<1>1. PICK V : /\ V[0] = 0
               /\ \A k \in 1 .. n : V[k] = StoiStep(V[k - 1], ds[k])
               /\ Stoi(s) = V[n]
    BY StoiFolds
<1>2. ds \in Seq(Digit) /\ n \in Nat /\ \A k \in 1 .. n : ds[k] \in Digit
    OBVIOUS
<1>3. SubSeq(ds, 1, n) = ds
    BY <1>2, SubSeqFull
<1> HIDE DEF ds, n
<1> DEFINE Upto(k) == \E e \in Nat : /\ V[k] = AsInt(e)
                                     /\ Significant(SubSeq(ds, 1, k)) = DigitsOf(e)
           T == {k \in Nat : k <= n => Upto(k)}
<1>4. ASSUME NEW k \in Nat, \A m \in 0 .. k - 1 : m \in T
      PROVE  k \in T
  <2>1. CASE k = 0
    <3>1. SubSeq(ds, 1, 0) = <<>>
      BY SubSeqEmpty
    <3>2. Significant(<<>>) = <<>>
      BY DEF Significant
    <3>3. AsInt(0) = 0
      BY DEF AsInt, INT_MAX
    <3>4. DigitsOf(0) = <<>>
      BY DEF DigitsOf
    <3> QED
      BY <1>1, <2>1, <3>1, <3>2, <3>3, <3>4
  <2>2. CASE k > n
    BY <1>2, <2>2
  <2>3. CASE k # 0 /\ k <= n
    <3>1. k - 1 \in 0 .. k - 1 /\ k \in 1 .. n /\ k - 1 \in 0 .. n /\ k - 1 <= n
      BY <1>2, <2>3
    <3>2. Upto(k - 1)
      <4> HIDE DEF Upto
      <4> QED
        BY <1>4, <3>1
    <3>3. PICK e \in Nat : V[k - 1] = AsInt(e) /\ Significant(SubSeq(ds, 1, k - 1)) = DigitsOf(e)
      BY <3>2
    <3> HIDE DEF T
    <3>4. ds[k] \in Digit /\ V[k] = AsInt(10 * e + ValueOf(ds[k]))
      BY <1>1, <1>2, <3>1, <3>3, StoiStepIs
    <3>5. /\ SubSeq(ds, 1, k - 1) \in Seq(Digit)
          /\ SubSeq(ds, 1, k) = Append(SubSeq(ds, 1, k - 1), ds[k])
      <4>1. SubSeq(ds, 1, k - 1) \in Seq(Digit)
        BY <1>2, <3>1, Part DEF n
      <4>2. SubSeq(ds, 1, k) = SubSeq(ds, 1, k - 1) \o <<ds[k]>>
        BY <1>2, <3>1, SubSeqRecursiveSecond DEF n
      <4> QED
        BY <3>4, <4>1, <4>2, AppendIsConcat
    <3>6. Significant(SubSeq(ds, 1, k)) = DigitsOf(10 * e + ValueOf(ds[k]))
      BY <3>3, <3>4, <3>5, DigitsOfAppend
    <3>7. 10 * e + ValueOf(ds[k]) \in Nat
      <4>1. ValueOf(ds[k]) \in 0 .. 9
        BY <3>4, DigitValues
      <4> QED
        BY <4>1
    <3>8. Upto(k)
      BY <3>4, <3>6, <3>7
    <3> QED
      BY <3>8 DEF T
  <2> QED
    BY <1>2, <2>1, <2>2, <2>3
<1>5. Upto(n)
  <2>1. Nat \subseteq T
    <3> HIDE DEF T
    <3> QED
      BY <1>4, NatSet
  <2> HIDE DEF Upto
  <2> QED
    BY <1>2, <2>1
<1> QED
    BY <1>1, <1>3, <1>5 DEF ds

(* stoi throws exactly for what is no int.                                 *)
LEMMA StoiThrows ==
    ASSUME NEW s, LeadingDigits(s) \in Seq(Digit)
    PROVE  /\ Stoi(s) # OutOfRange <=> IsInt(LeadingDigits(s))
           /\ Stoi(s) # OutOfRange => /\ Stoi(s) \in 0 .. INT_MAX
                                      /\ Significant(LeadingDigits(s)) = DigitsOf(Stoi(s))
<1>1. PICK e \in Nat : Stoi(s) = AsInt(e) /\ Significant(LeadingDigits(s)) = DigitsOf(e)
    BY StoiIs
<1>2. IsInt(LeadingDigits(s)) <=> NotAfter(DigitsOf(e), Decimal[INT_MAX])
    BY <1>1 DEF IsInt, NotAfter, Lex
<1>3. INT_MAX \in Nat /\ INT_MAX > 0 /\ OutOfRange \notin Nat
    BY DEF INT_MAX, OutOfRange
<1>4. NotAfter(DigitsOf(e), Decimal[INT_MAX]) <=> e <= INT_MAX
  <2>1. CASE e = 0
    <3>1. Len(Decimal[INT_MAX]) \in Nat \ {0}
      BY <1>3, DecimalType, DecimalHead, EmptySeq
    <3> QED
      BY <1>3, <2>1, <3>1 DEF NotAfter, DigitsOf
  <2>2. CASE e # 0
    BY <1>3, <2>2, DecimalOrder DEF DigitsOf
  <2> QED
    BY <2>1, <2>2
<1>5. Stoi(s) # OutOfRange <=> e <= INT_MAX
    BY <1>1, <1>3 DEF AsInt
<1>6. e <= INT_MAX => Stoi(s) = e /\ e \in 0 .. INT_MAX
    BY <1>1, <1>3 DEF AsInt
<1> QED
    BY <1>1, <1>2, <1>4, <1>5, <1>6

LEMMA Leading ==
    ASSUME NEW S, NEW s \in Seq(S)
    PROVE  /\ LeadingDigits(s) \in Seq(Digit)
           /\ (\A i \in 1 .. Len(s) : s[i] \in Digit) => LeadingDigits(s) = s
           /\ LeadingDigits(s) = <<>> <=> s = <<>> \/ s[1] \notin Digit
<1> DEFINE n == Len(s)
           K == {k \in 0 .. n : \A i \in 1 .. k : s[i] \in Digit}
           m == Max(K)
<1>1. n \in Nat /\ (n = 0 <=> s = <<>>)
    OBVIOUS
<1>2. LeadingDigits(s) = SubSeq(s, 1, m)
    BY DEF LeadingDigits
<1> HIDE DEF n
<1>3. K \subseteq Nat /\ K # {} /\ \A k \in K : k <= n
  <2>1. 0 \in K
    BY <1>1
  <2>2. \A k \in K : k \in 0 .. n
    OBVIOUS
  <2> HIDE DEF K
  <2> QED
    BY <1>1, <2>1, <2>2
<1>4. m \in K /\ \A k \in K : k <= m
  <2> HIDE DEF K
  <2> QED
    BY <1>1, <1>3, MaxIs
<1> HIDE DEF m
<1>5. /\ SubSeq(s, 1, m) \in Seq(S) /\ Len(SubSeq(s, 1, m)) = m
      /\ \A i \in 1 .. m : SubSeq(s, 1, m)[i] = s[i]
  <2>1. 1 \in 1 .. n + 1 /\ m \in 1 - 1 .. n /\ m - 1 + 1 = m /\ \A i \in 1 .. m : 1 + i - 1 = i
    BY <1>1, <1>4
  <2> HIDE DEF K
  <2> QED
    BY <2>1, Part DEF n
<1>6. LeadingDigits(s) \in Seq(Digit)
  <2>1. \A i \in 1 .. m : SubSeq(s, 1, m)[i] \in Digit
    BY <1>4, <1>5
  <2>2. SubSeq(s, 1, m) = [i \in 1 .. m |-> SubSeq(s, 1, m)[i]]
    BY <1>5
  <2> DEFINE t == SubSeq(s, 1, m)
  <2> HIDE DEF t
  <2>3. t \in [1 .. m -> Digit] /\ m \in Nat
    BY <1>3, <1>4, <2>1, <2>2 DEF t
  <2>4. t \in Seq(Digit)
    BY <2>3, SeqDef
  <2> QED
    BY <1>2, <2>4 DEF t
<1>7. ASSUME \A i \in 1 .. n : s[i] \in Digit PROVE LeadingDigits(s) = s
  <2>1. n \in K
    BY <1>1, <1>7
  <2>2. m = n
    BY <1>1, <1>4, <2>1
  <2> QED
    BY <1>2, <2>2, SubSeqFull DEF n
<1>8. LeadingDigits(s) = <<>> <=> s = <<>> \/ s[1] \notin Digit
  <2>1. LeadingDigits(s) = <<>> <=> m = 0
    <3>1. m \in Nat
      BY <1>3, <1>4
    <3> HIDE DEF K
    <3> QED
      BY <1>2, <1>5, <3>1, EmptySeq
  <2>2. ASSUME s # <<>>, s[1] \in Digit PROVE m >= 1
    <3>1. 1 \in K
      BY <1>1, <2>2
    <3> QED
      BY <1>4, <3>1
  <2>3. m > 0 => s # <<>> /\ s[1] \in Digit
    BY <1>1, <1>4
  <2> QED
    BY <1>1, <1>4, <2>1, <2>2, <2>3
<1> QED
    BY <1>6, <1>7, <1>8 DEF n

-----------------------------------------------------------------------------
(* find.                                                                   *)

Occurs(s, what, i) == SubSeq(s, i, i + Len(what) - 1) = what

LEMMA FindIs ==
    ASSUME NEW S, NEW s \in Seq(S), NEW what, Len(what) \in Nat, NEW from \in Nat,
           NEW f, f = Find(s, what, from)
    PROVE  \/ /\ f = npos
              /\ \A i \in from .. Len(s) + 1 - Len(what) : ~Occurs(s, what, i)
           \/ /\ f \in from .. Len(s) + 1 - Len(what) /\ Occurs(s, what, f)
              /\ \A i \in from .. f - 1 : ~Occurs(s, what, i)
<1> DEFINE last == Len(s) + 1 - Len(what)
           At(i) == Occurs(s, what, i)
           I == {i \in from .. last : At(i)}
<1>1. last \in Int
    OBVIOUS
<1>2. Find(s, what, from) = IF I = {} THEN npos ELSE Min(I)
    BY DEF Find, Occurs
<1> HIDE DEF last, At
<1>3. CASE I = {}
    BY <1>1, <1>2, <1>3 DEF last, At
<1>4. CASE I # {}
  <2> DEFINE g == Min(I)
  <2>1. I \subseteq Nat
    BY <1>1
  <2>2. g \in I /\ \A i \in I : g <= i
    BY <1>4, <2>1, MinIs
  <2> HIDE DEF g
  <2>3. g \in from .. last /\ At(g) /\ \A i \in from .. g - 1 : ~At(i)
    BY <1>1, <2>2
  <2> QED
    BY <1>2, <1>4, <2>3 DEF last, At, g
<1> QED
    BY <1>3, <1>4

(* ... of a character.                                                     *)
FirstOf(s, c, from, f) ==
    \/ f = npos /\ \A i \in from .. Len(s) : s[i] # c
    \/ f \in from .. Len(s) /\ s[f] = c /\ \A i \in from .. f - 1 : s[i] # c

LEMMA FindChar ==
    ASSUME NEW S, NEW s \in Seq(S), NEW c, NEW from \in Nat \ {0},
           NEW f, f = Find(s, <<c>>, from)
    PROVE  FirstOf(s, c, from, f)
<1> DEFINE At(i) == Occurs(s, <<c>>, i)
<1>1. Len(<<c>>) = 1 /\ Len(s) \in Nat
    OBVIOUS
<1>2. \/ f = npos /\ \A i \in from .. Len(s) + 1 - Len(<<c>>) : ~At(i)
      \/ /\ f \in from .. Len(s) + 1 - Len(<<c>>) /\ At(f)
         /\ \A i \in from .. f - 1 : ~At(i)
  <2>1. from \in Nat /\ Len(<<c>>) \in Nat
    BY <1>1
  <2> QED
    BY <2>1, FindIs
<1>3. ASSUME NEW i \in from .. Len(s) PROVE At(i) <=> s[i] = c
  <2>1. i \in 1 .. Len(s) /\ i + Len(<<c>>) - 1 = i
    BY <1>1
  <2>2. SubSeq(s, i, i) = <<s[i]>>
    BY <2>1, PartOfOne
  <2> QED
    BY <2>1, <2>2 DEF Occurs
<1>4. Len(s) + 1 - Len(<<c>>) = Len(s)
    BY <1>1
<1> HIDE DEF At
<1>5. f \in from .. Len(s) => \A i \in from .. f - 1 : i \in from .. Len(s)
    BY <1>1
<1> QED
    BY <1>2, <1>3, <1>4, <1>5 DEF FirstOf

(* ... of a character that is known to be there, or not to be.             *)
LEMMA FoundChar ==
    ASSUME NEW S, NEW s \in Seq(S), NEW c, NEW from \in Nat \ {0}
    PROVE  /\ (\A i \in from .. Len(s) : s[i] # c) => Find(s, <<c>>, from) = npos
           /\ \A g \in from .. Len(s) :
                 s[g] = c /\ (\A i \in from .. g - 1 : s[i] # c) => Find(s, <<c>>, from) = g
<1> DEFINE f == Find(s, <<c>>, from)
<1>1. \/ f = npos /\ \A i \in from .. Len(s) : s[i] # c
      \/ f \in from .. Len(s) /\ s[f] = c /\ \A i \in from .. f - 1 : s[i] # c
  <2>1. FirstOf(s, c, from, f)
    BY FindChar
  <2> QED
    BY <2>1 DEF FirstOf
<1> HIDE DEF f
<1>2. (\A i \in from .. Len(s) : s[i] # c) => f = npos
    BY <1>1
<1>3. ASSUME NEW g \in from .. Len(s), s[g] = c, \A i \in from .. g - 1 : s[i] # c
      PROVE  f = g
  <2>1. f \in from .. Len(s) /\ s[f] = c /\ \A i \in from .. f - 1 : s[i] # c
    BY <1>1, <1>3
  <2>2. ~(f < g) /\ ~(g < f)
    BY <1>3, <2>1
  <2> QED
    BY <1>3, <2>1, <2>2
<1> QED
    BY <1>2, <1>3 DEF f

(* ... of the end of the scheme.                                           *)
SchemeAt(u, i) == u[i] = ":" /\ u[i + 1] = "/" /\ u[i + 2] = "/"

LEMMA PartOfThree ==
    ASSUME NEW S, NEW u \in Seq(S), NEW i \in 1 .. Len(u) - 2
    PROVE  SubSeq(u, i, i + 2) = <<":", "/", "/">> <=> SchemeAt(u, i)
<1> DEFINE t == SubSeq(u, i, i + 2)
           w == <<":", "/", "/">>
<1>1. t \in Seq(S) /\ Len(t) = 3 /\ t[1] = u[i] /\ t[2] = u[i + 1] /\ t[3] = u[i + 2]
  <2>1. /\ i \in 1 .. Len(u) + 1 /\ i + 2 \in i - 1 .. Len(u) /\ (i + 2) - i + 1 = 3
        /\ i + 1 - 1 = i /\ i + 2 - 1 = i + 1 /\ i + 3 - 1 = i + 2
    OBVIOUS
  <2>2. t \in Seq(S) /\ Len(t) = 3 /\ \A k \in 1 .. 3 : t[k] = u[i + k - 1]
    BY <2>1, Part
  <2> HIDE DEF t
  <2> QED
    BY <2>1, <2>2
<1>2. w \in Seq({":", "/"}) /\ Len(w) = 3 /\ w[1] = ":" /\ w[2] = "/" /\ w[3] = "/"
    OBVIOUS
<1> HIDE DEF t, w
<1>3. t \in Seq(S \cup {":", "/"}) /\ w \in Seq(S \cup {":", "/"})
    BY <1>1, <1>2, SeqMonotonic
<1>4. t = w <=> \A k \in 1 .. 3 : t[k] = w[k]
    BY <1>1, <1>2, <1>3, SeqEqual
<1>5. (\A k \in 1 .. 3 : t[k] = w[k]) <=> t[1] = w[1] /\ t[2] = w[2] /\ t[3] = w[3]
  <2>1. \A k \in 1 .. 3 : k = 1 \/ k = 2 \/ k = 3
    OBVIOUS
  <2> QED
    BY <2>1
<1> QED
    BY <1>1, <1>2, <1>4, <1>5 DEF t, w, SchemeAt

LEMMA SchemeEndIs ==
    ASSUME NEW S, NEW u \in Seq(S), NEW f, f = SchemeEnd(u)
    PROVE  \/ f = npos /\ \A i \in 1 .. Len(u) - 2 : ~SchemeAt(u, i)
           \/ f \in 1 .. Len(u) - 2 /\ SchemeAt(u, f) /\ \A i \in 1 .. f - 1 : ~SchemeAt(u, i)
<1> DEFINE w == <<":", "/", "/">>
           At(i) == Occurs(u, w, i)
<1>1. Len(w) = 3 /\ Len(u) \in Nat /\ 1 \in Nat
    OBVIOUS
<1>2. \/ f = npos /\ \A i \in 1 .. Len(u) + 1 - Len(w) : ~At(i)
      \/ f \in 1 .. Len(u) + 1 - Len(w) /\ At(f) /\ \A i \in 1 .. f - 1 : ~At(i)
  <2>1. f = Find(u, w, 1) /\ Len(w) \in Nat
    BY <1>1 DEF SchemeEnd
  <2> HIDE DEF w
  <2> QED
    BY <1>1, <2>1, FindIs
<1>3. ASSUME NEW i \in 1 .. Len(u) - 2 PROVE At(i) <=> SchemeAt(u, i)
  <2>1. i + Len(w) - 1 = i + 2
    BY <1>1
  <2> QED
    BY <2>1, PartOfThree DEF Occurs
<1>4. Len(u) + 1 - Len(w) = Len(u) - 2
    BY <1>1
<1> HIDE DEF At, w
<1>5. f \in 1 .. Len(u) - 2 => \A i \in 1 .. f - 1 : i \in 1 .. Len(u) - 2
    BY <1>1
<1> QED
    BY <1>2, <1>3, <1>4, <1>5

LEMMA FoundSchemeEnd ==
    ASSUME NEW S, NEW u \in Seq(S), NEW g \in 1 .. Len(u) - 2,
           SchemeAt(u, g), \A i \in 1 .. g - 1 : ~SchemeAt(u, i)
    PROVE  SchemeEnd(u) = g
<1> DEFINE f == SchemeEnd(u)
<1>1. \/ f = npos /\ \A i \in 1 .. Len(u) - 2 : ~SchemeAt(u, i)
      \/ f \in 1 .. Len(u) - 2 /\ SchemeAt(u, f) /\ \A i \in 1 .. f - 1 : ~SchemeAt(u, i)
    BY SchemeEndIs
<1> HIDE DEF f
<1>2. f \in 1 .. Len(u) - 2 /\ SchemeAt(u, f) /\ \A i \in 1 .. f - 1 : ~SchemeAt(u, i)
    BY <1>1
<1>3. ~(f < g) /\ ~(g < f)
    BY <1>2
<1>4. f = g
    BY <1>2, <1>3
<1> QED
    BY <1>4 DEF f

-----------------------------------------------------------------------------
(* A URL of the tolerated form, by the places where its scheme, its host   *)
(* and its port end.                                                       *)

Form(u, a, b, c) ==
    /\ a \in 0 .. Len(u) /\ b \in a + 3 .. Len(u) /\ c \in b .. Len(u)
    /\ SchemeAt(u, a + 1) /\ \A i \in 1 .. a : ~SchemeAt(u, i)
    /\ \A i \in a + 4 .. b : u[i] # ":" /\ u[i] # "/"
    /\ \A i \in b + 1 .. c : u[i] # "/"
    /\ b < c => /\ b + 1 < c /\ u[b + 1] = ":" /\ u[b + 2] \in Digit
                /\ IsInt(LeadingDigits(SubSeq(u, b + 2, c)))
    /\ c < Len(u) => u[c + 1] = "/"

(* What ParseUrl makes of it.                                              *)
LEMMA FormParts ==
    ASSUME NEW S, NEW u \in Seq(S), NEW a, NEW b, NEW c, Form(u, a, b, c)
    PROVE  /\ SchemeEnd(u) = a + 1 /\ PathStart(u) = c + 1
           /\ HostPart(u) = SubSeq(u, a + 4, c)
           /\ HostPart(u) \in Seq(S) /\ Len(HostPart(u)) = c - a - 3
           /\ \A k \in 1 .. c - a - 3 : HostPart(u)[k] = u[a + 3 + k]
           /\ PortColon(u) = IF b = c THEN npos ELSE b - a - 2
<1> USE DEF Form
<1>1. Len(u) \in Nat /\ a \in Nat /\ b \in Nat /\ c \in Nat
    OBVIOUS
<1>2. SchemeEnd(u) = a + 1
  <2>1. a + 1 \in 1 .. Len(u) - 2 /\ (a + 1) - 1 = a
    BY <1>1
  <2> QED
    BY <2>1, FoundSchemeEnd
<1>3. HostStart(u) = a + 4
    BY <1>1, <1>2 DEF HostStart
<1>4. PathStart(u) = c + 1
  <2>1. \A i \in a + 4 .. c : u[i] # "/"
    <3>1. \A i \in a + 4 .. c : i \in a + 4 .. b \/ i \in b + 1 .. c
      BY <1>1
    <3> QED
      BY <3>1
  <2>2. a + 4 \in Nat \ {0}
    BY <1>1
  <2>3. CASE c = Len(u)
    <3>1. Find(u, <<"/">>, a + 4) = npos
      BY <2>1, <2>2, <2>3, FoundChar
    <3> QED
      BY <1>3, <2>3, <3>1 DEF PathStart
  <2>4. CASE c < Len(u)
    <3>1. c + 1 \in a + 4 .. Len(u) /\ u[c + 1] = "/" /\ (c + 1) - 1 = c
      BY <1>1, <2>4
    <3> DEFINE g == c + 1
    <3>2. g \in a + 4 .. Len(u) /\ u[g] = "/" /\ \A i \in a + 4 .. g - 1 : u[i] # "/"
      BY <2>1, <3>1
    <3> HIDE DEF g, Form
    <3>3. Find(u, <<"/">>, a + 4) = g
      BY <2>2, <3>2, FoundChar
    <3>4. c + 1 # npos
      BY <1>1 DEF npos
    <3> QED
      BY <1>3, <3>3, <3>4 DEF PathStart, g
  <2> QED
    BY <1>1, <2>3, <2>4
<1>5. HostPart(u) = SubSeq(u, a + 4, c)
  <2>1. (c + 1) - 1 = c
    BY <1>1
  <2> QED
    BY <1>3, <1>4, <2>1 DEF HostPart
<1>6. /\ HostPart(u) \in Seq(S) /\ Len(HostPart(u)) = c - a - 3
      /\ \A k \in 1 .. c - a - 3 : HostPart(u)[k] = u[a + 3 + k]
  <2>1. /\ a + 4 \in 1 .. Len(u) + 1 /\ c \in (a + 4) - 1 .. Len(u)
        /\ c - (a + 4) + 1 = c - a - 3
        /\ \A k \in 1 .. c - a - 3 : (a + 4) + k - 1 = a + 3 + k
    BY <1>1
  <2>2. /\ SubSeq(u, a + 4, c) \in Seq(S)
        /\ Len(SubSeq(u, a + 4, c)) = c - (a + 4) + 1
        /\ \A k \in 1 .. c - (a + 4) + 1 : SubSeq(u, a + 4, c)[k] = u[(a + 4) + k - 1]
    BY <2>1, Part
  <2> QED
    BY <1>5, <2>1, <2>2
<1>7. PortColon(u) = IF b = c THEN npos ELSE b - a - 2
  <2> DEFINE h == HostPart(u)
  <2>1. \A k \in 1 .. b - a - 3 : h[k] # ":"
    <3>1. \A k \in 1 .. b - a - 3 : k \in 1 .. c - a - 3 /\ a + 3 + k \in a + 4 .. b
      BY <1>1
    <3> QED
      BY <1>6, <3>1
  <2>2. CASE b = c
    <3>1. Find(h, <<":">>, 1) = npos
      BY <1>6, <2>1, <2>2, FoundChar
    <3> QED
      BY <2>2, <3>1 DEF PortColon
  <2>3. CASE b < c
    <3>1. /\ b - a - 2 \in 1 .. c - a - 3 /\ (b - a - 2) - 1 = b - a - 3
          /\ a + 3 + (b - a - 2) = b + 1
      BY <1>1, <2>3
    <3>2. h[b - a - 2] = ":"
      BY <1>6, <2>3, <3>1
    <3> DEFINE g == b - a - 2
    <3>3. g \in 1 .. Len(h) /\ h[g] = ":" /\ \A i \in 1 .. g - 1 : h[i] # ":"
      BY <1>6, <2>1, <3>1, <3>2
    <3>4. h \in Seq(S) /\ 1 \in Nat \ {0}
      BY <1>6
    <3> HIDE DEF g, h, Form
    <3>5. Find(h, <<":">>, 1) = g
      BY <3>3, <3>4, FoundChar
    <3> QED
      BY <1>1, <2>3, <3>5 DEF PortColon, g, h
  <2> QED
    BY <1>1, <2>2, <2>3
<1> QED
    BY <1>2, <1>4, <1>5, <1>6, <1>7

PortRead(u) ==
    /\ LeadingDigits(PortText(u)) # <<>>
    /\ LeadingDigits(PortText(u)) \in Seq(Digit)
    /\ Stoi(PortText(u)) \in 0 .. INT_MAX
    /\ Significant(LeadingDigits(PortText(u))) = DigitsOf(Stoi(PortText(u)))

LEMMA FormPort ==
    ASSUME NEW S, NEW u \in Seq(S), NEW a, NEW b, NEW c, Form(u, a, b, c), b < c
    PROVE  PortText(u) = SubSeq(u, b + 2, c) /\ SubSeq(u, b + 2, c) \in Seq(S) /\ PortRead(u)
<1> DEFINE h == HostPart(u)
           t == SubSeq(u, b + 2, c)
<1>1. /\ Len(u) \in Nat /\ a \in Nat /\ b \in Nat /\ c \in Nat /\ a + 3 <= b /\ c <= Len(u)
      /\ b + 1 < c /\ u[b + 2] \in Digit /\ IsInt(LeadingDigits(t))
    BY DEF Form
<1>2. /\ h \in Seq(S) /\ Len(h) = c - a - 3
      /\ \A k \in 1 .. c - a - 3 : h[k] = u[a + 3 + k]
      /\ PortColon(u) = IF b = c THEN npos ELSE b - a - 2
      /\ h = SubSeq(u, a + 4, c)
    BY FormParts
<1>3. PortColon(u) + 1 = b - a - 1
    BY <1>1, <1>2
<1>4. /\ t \in Seq(S) /\ Len(t) = c - b - 1 /\ \A k \in 1 .. c - b - 1 : t[k] = u[b + 1 + k]
  <2>1. b + 1 \in Nat /\ b + 1 <= c /\ (b + 1) + 1 = b + 2 /\ c - (b + 1) = c - b - 1
    BY <1>1
  <2> QED
    BY <1>1, <2>1, Slice
<1>5. PortText(u) = t
  <2> DEFINE m == a + 3
             i == b - a - 2
             j == c - a - 3
  <2>1. /\ m \in Nat /\ m <= c /\ i \in Nat /\ j \in Nat /\ i <= j /\ j <= c - m
        /\ m + 1 = a + 4 /\ i + 1 = b - a - 1 /\ m + i + 1 = b + 2 /\ m + j = c
    BY <1>1
  <2>2. PortText(u) = SubSeq(h, i + 1, j)
    BY <1>2, <1>3, <2>1 DEF PortText, From
  <2> HIDE DEF m, i, j
  <2>3. h = SubSeq(u, m + 1, c)
    BY <1>2, <2>1
  <2>4. SubSeq(SubSeq(u, m + 1, c), i + 1, j) = SubSeq(u, m + i + 1, m + j)
    BY <1>1, <2>1, SliceOfSlice
  <2> QED
    BY <2>1, <2>2, <2>3, <2>4
<1> HIDE DEF h, t
<1>8. t # <<>> /\ t[1] \in Digit
  <2>1. 1 \in 1 .. c - b - 1 /\ b + 1 + 1 = b + 2
    BY <1>1
  <2> QED
    BY <1>1, <1>4, <2>1
<1>9. LeadingDigits(t) # <<>> /\ LeadingDigits(t) \in Seq(Digit)
    BY <1>4, <1>8, Leading
<1>10. Stoi(t) \in 0 .. INT_MAX /\ Significant(LeadingDigits(t)) = DigitsOf(Stoi(t))
    BY <1>1, <1>9, StoiThrows
<1> QED
    BY <1>4, <1>5, <1>9, <1>10 DEF t, PortRead

(* A URL of the form does not throw, and its parts are those of the form.  *)
Parsed(u, a, b, c) ==
    /\ ~Throws(u)
    /\ ParseUrl(u).scheme = SubSeq(u, 1, a)
    /\ ParseUrl(u).host = SubSeq(u, a + 4, b)
    /\ ParseUrl(u).port = IF b = c THEN 0 ELSE Stoi(SubSeq(u, b + 2, c))
    /\ ParseUrl(u).path = IF c = Len(u) THEN <<"/">> ELSE SubSeq(u, c + 1, Len(u))

LEMMA FormParsed ==
    ASSUME NEW S, NEW u \in Seq(S), NEW a, NEW b, NEW c, Form(u, a, b, c)
    PROVE  Parsed(u, a, b, c)
<1> DEFINE h == HostPart(u)
<1>1. /\ Len(u) \in Nat /\ a \in Nat /\ b \in Nat /\ c \in Nat
      /\ a + 3 <= b /\ b <= c /\ c <= Len(u)
    BY DEF Form
<1>2. /\ SchemeEnd(u) = a + 1 /\ PathStart(u) = c + 1
      /\ h = SubSeq(u, a + 4, c) /\ h \in Seq(S) /\ Len(h) = c - a - 3
      /\ \A k \in 1 .. c - a - 3 : h[k] = u[a + 3 + k]
      /\ PortColon(u) = IF b = c THEN npos ELSE b - a - 2
    BY FormParts
<1>3. b < c => PortColon(u) # npos
    BY <1>1, <1>2 DEF npos
<1>4. ~Throws(u)
  <2>1. SchemeEnd(u) # npos
    BY <1>1, <1>2 DEF npos
  <2>2. CASE b = c
    BY <1>2, <2>1, <2>2 DEF Throws
  <2>3. CASE b < c
    <3>1. LeadingDigits(PortText(u)) # <<>> /\ Stoi(PortText(u)) # OutOfRange
      BY <2>3, FormPort, StoiThrows DEF OutOfRange, PortRead
    <3> QED
      BY <2>1, <3>1 DEF Throws
  <2> QED
    BY <1>1, <2>2, <2>3
<1>5. ParseUrl(u).scheme = SubSeq(u, 1, a)
  <2>1. (a + 1) - 1 = a
    BY <1>1
  <2> QED
    BY <1>2, <2>1 DEF ParseUrl
<1>6. ParseUrl(u).host = SubSeq(u, a + 4, b)
  <2>1. CASE b = c
    BY <1>2, <2>1 DEF ParseUrl
  <2>2. CASE b < c
    <3> DEFINE m == a + 3
               j == b - a - 3
    <3>1. /\ m \in Nat /\ m <= c /\ 0 \in Nat /\ j \in Nat /\ 0 <= j /\ j <= c - m
          /\ m + 1 = a + 4 /\ 0 + 1 = 1 /\ m + 0 + 1 = a + 4 /\ m + j = b
          /\ (b - a - 2) - 1 = j
      BY <1>1
    <3>2. ParseUrl(u).host = SubSeq(h, 1, j)
      BY <1>1, <1>2, <1>3, <2>2, <3>1 DEF ParseUrl
    <3> HIDE DEF m, j
    <3>3. SubSeq(SubSeq(u, m + 1, c), 0 + 1, j) = SubSeq(u, m + 0 + 1, m + j)
      BY <1>1, <3>1, SliceOfSlice
    <3> QED
      BY <1>2, <3>1, <3>2, <3>3
  <2> QED
    BY <1>1, <2>1, <2>2
<1>7. ParseUrl(u).port = IF b = c THEN 0 ELSE Stoi(SubSeq(u, b + 2, c))
  <2>1. CASE b = c
    BY <1>2, <2>1 DEF ParseUrl
  <2>2. CASE b < c
    <3>1. PortText(u) = SubSeq(u, b + 2, c)
      BY <2>2, FormPort
    <3>2. PortColon(u) # npos /\ b # c
      BY <1>1, <1>3, <2>2
    <3> QED
      BY <3>1, <3>2 DEF ParseUrl
  <2> QED
    BY <1>1, <2>1, <2>2
<1>8. ParseUrl(u).path = IF c = Len(u) THEN <<"/">> ELSE SubSeq(u, c + 1, Len(u))
  <2>1. ParseUrl(u).path = IF SubSeq(u, c + 1, Len(u)) = <<>> THEN <<"/">> ELSE SubSeq(u, c + 1, Len(u))
    BY <1>2 DEF ParseUrl, From
  <2>2. SubSeq(u, c + 1, Len(u)) = <<>> <=> c = Len(u)
    <3> DEFINE q == SubSeq(u, c + 1, Len(u))
    <3>1. q \in Seq(S) /\ Len(q) = Len(u) - c
      BY <1>1, Slice
    <3> HIDE DEF q
    <3>2. q = <<>> <=> Len(q) = 0
      BY <3>1
    <3>3. q = <<>> <=> c = Len(u)
      BY <1>1, <3>1, <3>2
    <3> QED
      BY <3>3 DEF q
  <2> QED
    BY <2>1, <2>2
<1> QED
    BY <1>4, <1>5, <1>6, <1>7, <1>8 DEF Parsed

(* A slice without some characters, by the places in the text.             *)
LEMMA SliceWithout ==
    ASSUME NEW S, NEW u \in Seq(S), NEW m \in Nat, NEW n \in Nat, m <= n, n <= Len(u), NEW T
    PROVE  Without(SubSeq(u, m + 1, n), T) <=> \A i \in m + 1 .. n : u[i] \notin T
<1> DEFINE t == SubSeq(u, m + 1, n)
<1>1. t \in Seq(S) /\ Len(t) = n - m /\ \A k \in 1 .. n - m : t[k] = u[m + k]
    BY Slice
<1> HIDE DEF t
<1>2. DOMAIN t = 1 .. n - m
    BY <1>1
<1>3. ASSUME \A k \in 1 .. n - m : u[m + k] \notin T, NEW i \in m + 1 .. n
      PROVE  u[i] \notin T
  <2>1. i - m \in 1 .. n - m /\ m + (i - m) = i
    OBVIOUS
  <2> QED
    BY <1>3, <2>1
<1>4. ASSUME \A i \in m + 1 .. n : u[i] \notin T, NEW k \in 1 .. n - m
      PROVE  u[m + k] \notin T
  <2>1. m + k \in m + 1 .. n
    OBVIOUS
  <2> QED
    BY <1>4, <2>1
<1>5. Without(t, T) <=> \A k \in 1 .. n - m : u[m + k] \notin T
    BY <1>1, <1>2 DEF Without
<1> QED
    BY <1>3, <1>4, <1>5 DEF t

LEMMA TailOfSlice ==
    ASSUME NEW S, NEW u \in Seq(S), NEW b \in Nat, NEW c \in Nat, b < c, c <= Len(u)
    PROVE  Tail(SubSeq(u, b + 1, c)) = SubSeq(u, b + 2, c)
<1> DEFINE n == c - b
           q == SubSeq(u, b + 1, c)
<1>1. /\ 1 \in Nat /\ n \in Nat /\ 1 <= n /\ n <= c - b /\ b + 1 + 1 = b + 2 /\ b + n = c
      /\ 1 + 1 = 2 /\ b <= c
    OBVIOUS
<1>2. q \in Seq(S) /\ Len(q) = n
    BY <1>1, Slice
<1> HIDE DEF n
<1>3. SubSeq(q, 1 + 1, n) = SubSeq(u, b + 1 + 1, b + n)
    BY <1>1, SliceOfSlice
<1> HIDE DEF q
<1>4. Tail(q) = SubSeq(q, 2, n)
  <2>1. q # <<>>
    BY <1>1, <1>2
  <2> QED
    BY <1>2, <2>1, TailIsSubSeq
<1> QED
    BY <1>1, <1>3, <1>4 DEF q

(* The tolerated cuts are those at the places of the form.                 *)
LEMMA ToleratedForm ==
    ASSUME NEW S, NEW u \in Seq(S), NEW a \in Nat, NEW b \in Nat, NEW c \in Nat,
           a + 3 <= b, b <= c, c <= Len(u), SubSeq(u, a + 1, a + 3) = <<":", "/", "/">>,
           NEW p, p = [scheme |-> SubSeq(u, 1, a), host |-> SubSeq(u, a + 4, b),
                       port |-> SubSeq(u, b + 1, c), path |-> From(u, c + 1)]
    PROVE  Tolerated(p) <=> Form(u, a, b, c)
<1> DEFINE w == <<":", "/", "/">>
           t == SubSeq(u, 1, a + 3)
           q == SubSeq(u, b + 1, c)
<1>1. /\ Len(u) \in Nat /\ a + 1 \in 1 .. Len(u) - 2 /\ (a + 1) + 2 = a + 3
      /\ a \in 0 .. Len(u) /\ b \in a + 3 .. Len(u) /\ c \in b .. Len(u)
    OBVIOUS
<1>2. SchemeAt(u, a + 1)
    BY <1>1, PartOfThree
<1>3. t \in Seq(S) /\ Len(t) = a + 3 /\ \A k \in 1 .. a + 3 : t[k] = u[k]
  <2>1. /\ 0 \in Nat /\ a + 3 \in Nat /\ 0 <= a + 3 /\ a + 3 <= Len(u) /\ 0 + 1 = 1
        /\ (a + 3) - 0 = a + 3 /\ \A k \in 1 .. a + 3 : 0 + k = k
    BY <1>1
  <2>2. /\ SubSeq(u, 0 + 1, a + 3) \in Seq(S) /\ Len(SubSeq(u, 0 + 1, a + 3)) = a + 3 - 0
        /\ \A k \in 1 .. (a + 3) - 0 : SubSeq(u, 0 + 1, a + 3)[k] = u[0 + k]
    BY <2>1, Slice
  <2> QED
    BY <2>1, <2>2
<1>4. p.scheme \o w = t /\ Len(p.scheme) = a
  <2>1. SubSeq(u, 1, a) \o SubSeq(u, a + 1, a + 3) = t
    <3>1. 1 \in 1 .. Len(u) + 1 /\ a \in 1 - 1 .. Len(u) /\ a + 3 \in a .. Len(u)
      BY <1>1
    <3> QED
      BY <3>1, ConcatAdjacentSubSeq
  <2>2. Len(SubSeq(u, 1, a)) = a
    <3>1. 1 \in 1 .. Len(u) + 1 /\ a \in 1 - 1 .. Len(u) /\ a - 1 + 1 = a
      BY <1>1
    <3> QED
      BY <3>1, Part
  <2> QED
    BY <2>1, <2>2
<1>5. SchemeEnd(t) = a + 1 <=> \A i \in 1 .. a : ~SchemeAt(u, i)
  <2> HIDE DEF t
  <2>1. ASSUME NEW i \in 1 .. a + 1 PROVE SchemeAt(t, i) <=> SchemeAt(u, i)
    <3>1. i \in 1 .. a + 3 /\ i + 1 \in 1 .. a + 3 /\ i + 2 \in 1 .. a + 3
      OBVIOUS
    <3> QED
      BY <1>3, <3>1 DEF SchemeAt
  <2>2. a + 1 \in 1 .. Len(t) - 2 /\ (a + 1) - 1 = a /\ a + 1 # npos
    BY <1>3 DEF npos
  <2>3. SchemeAt(t, a + 1)
    BY <1>2, <2>1
  <2>4. ASSUME \A i \in 1 .. a : ~SchemeAt(u, i) PROVE SchemeEnd(t) = a + 1
    <3>1. \A i \in 1 .. a : i \in 1 .. a + 1
      OBVIOUS
    <3>2. \A i \in 1 .. (a + 1) - 1 : ~SchemeAt(t, i)
      BY <2>1, <2>2, <2>4, <3>1
    <3> QED
      BY <1>3, <2>2, <2>3, <3>2, FoundSchemeEnd
  <2>5. ASSUME SchemeEnd(t) = a + 1 PROVE \A i \in 1 .. a : ~SchemeAt(u, i)
    <3> DEFINE f == SchemeEnd(t)
    <3>1. \/ f = npos /\ \A i \in 1 .. Len(t) - 2 : ~SchemeAt(t, i)
          \/ f \in 1 .. Len(t) - 2 /\ SchemeAt(t, f) /\ \A i \in 1 .. f - 1 : ~SchemeAt(t, i)
      BY <1>3, SchemeEndIs
    <3>2. f = a + 1
      BY <2>5
    <3> HIDE DEF f
    <3>3. \A i \in 1 .. a : ~SchemeAt(t, i)
      BY <2>2, <3>1, <3>2
    <3>4. \A i \in 1 .. a : i \in 1 .. a + 1
      OBVIOUS
    <3> QED
      BY <2>1, <3>3, <3>4
  <2> QED
    BY <2>4, <2>5
<1>6. Without(p.host, {":", "/"}) <=> \A i \in a + 4 .. b : u[i] # ":" /\ u[i] # "/"
  <2> DEFINE m == a + 3
  <2>1. m \in Nat /\ m <= b /\ b <= Len(u) /\ m + 1 = a + 4
    BY <1>1
  <2> HIDE DEF m
  <2>2. Without(SubSeq(u, m + 1, b), {":", "/"}) <=>
            \A i \in m + 1 .. b : u[i] \notin {":", "/"}
    BY <2>1, SliceWithout
  <2> QED
    BY <2>1, <2>2
<1>7. Without(p.port, {"/"}) <=> \A i \in b + 1 .. c : u[i] # "/"
  <2>1. Without(q, {"/"}) <=> \A i \in b + 1 .. c : u[i] \notin {"/"}
    BY SliceWithout
  <2> QED
    BY <2>1
<1>8. q \in Seq(S) /\ Len(q) = c - b /\ \A k \in 1 .. c - b : q[k] = u[b + k]
    BY Slice
<1>9. b < c => Tail(q) = SubSeq(u, b + 2, c)
    BY TailOfSlice
<1>10. (p.port # <<>> =>
          /\ Len(p.port) > 1 /\ p.port[1] = ":" /\ p.port[2] \in Digit
          /\ IsInt(LeadingDigits(Tail(p.port)))) <=>
       (b < c => /\ b + 1 < c /\ u[b + 1] = ":" /\ u[b + 2] \in Digit
                 /\ IsInt(LeadingDigits(SubSeq(u, b + 2, c))))
  <2>1. p.port = q
    OBVIOUS
  <2> HIDE DEF q
  <2>2. q # <<>> <=> b < c
    BY <1>8
  <2>3. b + 1 < c => q[1] = u[b + 1] /\ q[2] = u[b + 2]
    BY <1>8
  <2>4. Len(q) > 1 <=> b + 1 < c
    BY <1>8
  <2> QED
    BY <1>9, <2>1, <2>2, <2>3, <2>4
<1>11. (p.path # <<>> => p.path[1] = "/") <=> (c < Len(u) => u[c + 1] = "/")
  <2> DEFINE r == SubSeq(u, c + 1, Len(u))
  <2>1. r \in Seq(S) /\ Len(r) = Len(u) - c /\ \A k \in 1 .. Len(u) - c : r[k] = u[c + k]
    BY <1>1, Slice
  <2>2. p.path = r
    BY DEF From
  <2> HIDE DEF r
  <2>3. r # <<>> <=> c < Len(u)
    BY <1>1, <2>1
  <2>4. c < Len(u) => r[1] = u[c + 1]
    <3>1. c < Len(u) => 1 \in 1 .. Len(u) - c
      BY <1>1
    <3> QED
      BY <2>1, <3>1
  <2> QED
    BY <2>2, <2>3, <2>4
<1> HIDE DEF t, q
<1>12. Tolerated(p) <=>
          /\ \A i \in 1 .. a : ~SchemeAt(u, i)
          /\ \A i \in a + 4 .. b : u[i] # ":" /\ u[i] # "/"
          /\ \A i \in b + 1 .. c : u[i] # "/"
          /\ b < c => /\ b + 1 < c /\ u[b + 1] = ":" /\ u[b + 2] \in Digit
                      /\ IsInt(LeadingDigits(SubSeq(u, b + 2, c)))
          /\ c < Len(u) => u[c + 1] = "/"
    BY <1>4, <1>5, <1>6, <1>7, <1>10, <1>11 DEF Tolerated
<1> QED
    BY <1>1, <1>2, <1>12 DEF Form

(* A URL that does not throw has the form.                                 *)
LEMMA NotThrowsForm ==
    ASSUME NEW S, NEW u \in Seq(S), ~Throws(u)
    PROVE  \E a, b, c \in Nat : Form(u, a, b, c)
<1> DEFINE n == Len(u)
           f == SchemeEnd(u)
           a == f - 1
<1>1. f \in 1 .. n - 2 /\ SchemeAt(u, f) /\ \A i \in 1 .. f - 1 : ~SchemeAt(u, i)
  <2>1. f # npos
    BY DEF Throws
  <2> QED
    BY <2>1, SchemeEndIs
<1> HIDE DEF f
<1>2. /\ n \in Nat /\ a \in Nat /\ a + 3 <= n /\ f = a + 1 /\ a \in 0 .. n
      /\ SchemeAt(u, a + 1) /\ \A i \in 1 .. a : ~SchemeAt(u, i)
    BY <1>1
<1>3. HostStart(u) = a + 4
    BY <1>2 DEF HostStart, f
<1> HIDE DEF a, n
<1>4. PICK c \in a + 3 .. n :
          /\ PathStart(u) = c + 1
          /\ \A i \in a + 4 .. c : u[i] # "/"
          /\ c < n => u[c + 1] = "/"
  <2> DEFINE k == Find(u, <<"/">>, a + 4)
  <2>1. PathStart(u) = IF k = npos THEN n + 1 ELSE k
    BY <1>3 DEF PathStart, n
  <2>2. \/ k = npos /\ \A i \in a + 4 .. n : u[i] # "/"
        \/ k \in a + 4 .. n /\ u[k] = "/" /\ \A i \in a + 4 .. k - 1 : u[i] # "/"
    <3>1. a + 4 \in Nat \ {0}
      BY <1>2
    <3>2. FirstOf(u, "/", a + 4, k)
      BY <3>1, FindChar
    <3> QED
      BY <3>2 DEF n, FirstOf
  <2> HIDE DEF k
  <2>3. CASE k = npos
    <3>1. k \notin a + 4 .. n
      BY <1>2, <2>3 DEF npos
    <3>2. n \in a + 3 .. n
      BY <1>2
    <3> QED
      BY <2>1, <2>2, <2>3, <3>1, <3>2
  <2>4. CASE k # npos
    <3> DEFINE c == k - 1
    <3>1. c \in a + 3 .. n /\ c + 1 = k
      BY <1>2, <2>2, <2>4
    <3> QED
      BY <2>1, <2>2, <2>4, <3>1
  <2> QED
    BY <2>3, <2>4
<1>5. c \in Nat /\ a + 3 <= c /\ c <= n
    BY <1>2
<1> DEFINE h == HostPart(u)
           l == c - a - 3
<1>6. h = SubSeq(u, a + 4, c)
  <2>1. (c + 1) - 1 = c
    BY <1>5
  <2> QED
    BY <1>3, <1>4, <2>1 DEF HostPart
<1>7. l \in Nat /\ a + 3 \in Nat /\ (a + 3) + 1 = a + 4 /\ c - (a + 3) = l
    BY <1>2, <1>5
<1>8. h \in Seq(S) /\ Len(h) = l /\ \A k \in 1 .. l : h[k] = u[a + 3 + k]
  <2> DEFINE m == a + 3
  <2>1. m \in Nat /\ m <= c /\ m + 1 = a + 4 /\ c - m = l /\ c <= Len(u)
    BY <1>5, <1>7 DEF n
  <2> HIDE DEF m, l, h
  <2>2. /\ SubSeq(u, m + 1, c) \in Seq(S) /\ Len(SubSeq(u, m + 1, c)) = c - m
        /\ \A k \in 1 .. c - m : SubSeq(u, m + 1, c)[k] = u[m + k]
    BY <1>5, <2>1, Slice
  <2> QED
    BY <1>6, <2>1, <2>2 DEF m
<1> DEFINE g == PortColon(u)
<1>9. \/ g = npos /\ \A k \in 1 .. l : h[k] # ":"
      \/ g \in 1 .. l /\ h[g] = ":" /\ \A k \in 1 .. g - 1 : h[k] # ":"
  <2>1. g = Find(h, <<":">>, 1) /\ 1 \in Nat \ {0}
    BY DEF PortColon
  <2> HIDE DEF g, h, l
  <2>2. FirstOf(h, ":", 1, g)
    BY <1>8, <2>1, FindChar
  <2> QED
    BY <1>8, <2>2 DEF FirstOf
<1> HIDE DEF g, h, l
<1>10. ASSUME NEW b \in a + 3 .. c, \A k \in 1 .. b - a - 3 : h[k] # ":"
       PROVE  /\ \A i \in a + 4 .. b : u[i] # ":" /\ u[i] # "/"
              /\ \A i \in b + 1 .. c : u[i] # "/"
  <2>1. ASSUME NEW i \in a + 4 .. b PROVE u[i] # ":"
    <3>1. i - a - 3 \in 1 .. b - a - 3 /\ i - a - 3 \in 1 .. l /\ a + 3 + (i - a - 3) = i
      BY <1>2, <1>5 DEF l
    <3> QED
      BY <1>8, <1>10, <3>1
  <2>2. \A i \in a + 4 .. b : i \in a + 4 .. c
    BY <1>2, <1>5
  <2>3. \A i \in b + 1 .. c : i \in a + 4 .. c
    BY <1>2, <1>5
  <2> QED
    BY <1>4, <2>1, <2>2, <2>3
<1>11. CASE g = npos
  <2>1. c \in a + 3 .. n /\ c \in c .. n /\ ~(c < c) /\ c \in a + 3 .. c
    BY <1>2, <1>5
  <2>2. \A k \in 1 .. c - a - 3 : h[k] # ":"
    <3>1. g \notin 1 .. l
      BY <1>7, <1>11 DEF npos
    <3> QED
      BY <1>9, <3>1 DEF l
  <2>3. /\ \A i \in a + 4 .. c : u[i] # ":" /\ u[i] # "/"
        /\ \A i \in c + 1 .. c : u[i] # "/"
    BY <1>10, <2>1, <2>2
  <2>4. Form(u, a, c, c)
    BY <1>2, <1>4, <2>1, <2>3 DEF Form, n
  <2> QED
    BY <1>2, <1>5, <2>4
<1>12. CASE g # npos
  <2> DEFINE b == a + 2 + g
             t == PortText(u)
  <2>1. /\ g \in 1 .. l /\ h[g] = ":" /\ \A k \in 1 .. g - 1 : h[k] # ":"
    BY <1>9, <1>12
  <2>2. /\ b \in Nat /\ b \in a + 3 .. c /\ b < c /\ b \in a + 3 .. n /\ c \in b .. n
        /\ b - a - 3 = g - 1 /\ a + 3 + g = b + 1
    BY <1>2, <1>5, <1>7, <2>1 DEF l
  <2>3. u[b + 1] = ":"
    BY <1>8, <2>1, <2>2
  <2>4. t = SubSeq(u, b + 2, c)
    <3> DEFINE m == a + 3
    <3>1. /\ m \in Nat /\ m <= c /\ g \in Nat /\ l \in Nat /\ g <= l /\ l <= c - m
          /\ m + 1 = a + 4 /\ m + g + 1 = b + 2 /\ m + l = c /\ c <= Len(u)
      BY <1>2, <1>5, <1>7, <2>1 DEF l, n
    <3>2. t = SubSeq(h, g + 1, l)
      BY <1>8 DEF PortText, From, g, h
    <3> HIDE DEF m, b, t
    <3>3. SubSeq(SubSeq(u, m + 1, c), g + 1, l) = SubSeq(u, m + g + 1, m + l)
      BY <1>5, <3>1, SliceOfSlice
    <3> QED
      BY <1>6, <3>1, <3>2, <3>3
  <2>5. t \in Seq(S) /\ Len(t) = c - (b + 1) /\ \A k \in 1 .. c - (b + 1) : t[k] = u[b + 1 + k]
    <3> DEFINE m == b + 1
    <3>1. m \in Nat /\ m <= c /\ m + 1 = b + 2 /\ c <= Len(u)
      BY <1>5, <2>2 DEF n
    <3> HIDE DEF m, b, t
    <3>2. /\ SubSeq(u, m + 1, c) \in Seq(S) /\ Len(SubSeq(u, m + 1, c)) = c - m
          /\ \A k \in 1 .. c - m : SubSeq(u, m + 1, c)[k] = u[m + k]
      BY <1>5, <3>1, Slice
    <3> QED
      BY <2>4, <3>1, <3>2 DEF m
  <2>6. LeadingDigits(t) # <<>> /\ Stoi(t) # OutOfRange
    BY <1>12 DEF Throws, g
  <2> HIDE DEF t, b
  <2>7. LeadingDigits(t) \in Seq(Digit) /\ t # <<>> /\ t[1] \in Digit
    BY <2>5, <2>6, Leading
  <2>8. IsInt(LeadingDigits(t))
    BY <2>6, <2>7, StoiThrows
  <2>9. b + 1 < c
    <3>1. Len(t) # 0
      BY <2>5, <2>7, EmptySeq
    <3> QED
      BY <1>5, <2>2, <2>5, <3>1
  <2>10. u[b + 2] \in Digit
    <3>1. 1 \in 1 .. c - (b + 1) /\ b + 1 + 1 = b + 2
      BY <1>5, <2>2, <2>9
    <3> QED
      BY <2>5, <2>7, <3>1
  <2>11. /\ \A i \in a + 4 .. b : u[i] # ":" /\ u[i] # "/"
         /\ \A i \in b + 1 .. c : u[i] # "/"
    BY <1>10, <2>1, <2>2
  <2>12. Form(u, a, b, c)
    BY <1>2, <1>4, <2>2, <2>3, <2>4, <2>8, <2>9, <2>10, <2>11 DEF Form, n
  <2> QED
    BY <1>2, <1>5, <2>2, <2>12
<1> QED
    BY <1>11, <1>12

CutAt(u, a, b, c) ==
    [scheme |-> SubSeq(u, 1, a), host |-> SubSeq(u, a + 4, b),
     port |-> SubSeq(u, b + 1, c), path |-> From(u, c + 1)]

LEMMA CutsAre ==
    ASSUME NEW S, NEW u \in Seq(S)
    PROVE  \A p : p \in Cuts(u) <=>
               \E a, b, c \in Nat : /\ a + 3 <= b /\ b <= c /\ c <= Len(u)
                                    /\ SubSeq(u, a + 1, a + 3) = <<":", "/", "/">>
                                    /\ p = CutAt(u, a, b, c)
<1> DEFINE n == Len(u)
           Triple == (0 .. n) \X (0 .. n) \X (0 .. n)
           Ok(e) == /\ e[1] + 3 <= e[2] /\ e[2] <= e[3]
                    /\ SubSeq(u, e[1] + 1, e[1] + 3) = <<":", "/", "/">>
           Ends == {e \in Triple : Ok(e)}
<1>1. n \in Nat
    OBVIOUS
<1>2. Cuts(u) = {CutAt(u, e[1], e[2], e[3]) : e \in Ends}
    BY DEF Cuts, CutAt
<1>3. ASSUME NEW p, NEW e \in Triple, Ok(e), p = CutAt(u, e[1], e[2], e[3])
      PROVE  \E a, b, c \in Nat : /\ a + 3 <= b /\ b <= c /\ c <= n
                                  /\ SubSeq(u, a + 1, a + 3) = <<":", "/", "/">>
                                  /\ p = CutAt(u, a, b, c)
  <2>1. e[1] \in Nat /\ e[2] \in Nat /\ e[3] \in Nat /\ e[3] <= n
    BY <1>1
  <2> QED
    BY <1>3, <2>1
<1>4. ASSUME NEW p, NEW a \in Nat, NEW b \in Nat, NEW c \in Nat,
             a + 3 <= b, b <= c, c <= n,
             SubSeq(u, a + 1, a + 3) = <<":", "/", "/">>, p = CutAt(u, a, b, c)
      PROVE  \E e \in Ends : p = CutAt(u, e[1], e[2], e[3])
  <2> DEFINE e == <<a, b, c>>
  <2>1. a \in 0 .. n /\ b \in 0 .. n /\ c \in 0 .. n
    BY <1>1, <1>4
  <2>2. e \in Triple /\ e[1] = a /\ e[2] = b /\ e[3] = c
    BY <2>1
  <2>3. e \in Ends
    BY <1>4, <2>2
  <2> QED
    BY <1>4, <2>2, <2>3
<1> HIDE DEF Ok, Triple
<1>5. \A p : p \in Cuts(u) <=> \E e \in Ends : p = CutAt(u, e[1], e[2], e[3])
  <2> DEFINE At(e) == CutAt(u, e[1], e[2], e[3])
  <2>1. Cuts(u) = {At(e) : e \in Ends}
    BY <1>2
  <2> HIDE DEF Ends, At
  <2>2. \A p : p \in Cuts(u) <=> \E e \in Ends : p = At(e)
    BY ONLY <2>1
  <2> QED
    BY <2>2 DEF At
<1> HIDE DEF CutAt
<1>6. ASSUME NEW p, NEW e \in Ends, p = CutAt(u, e[1], e[2], e[3])
      PROVE  \E a, b, c \in Nat : /\ a + 3 <= b /\ b <= c /\ c <= n
                                  /\ SubSeq(u, a + 1, a + 3) = <<":", "/", "/">>
                                  /\ p = CutAt(u, a, b, c)
    BY ONLY <1>3, <1>6
<1> QED
    BY <1>4, <1>5, <1>6

LEMMA ToleratedCuts ==
    ASSUME NEW S, NEW u \in Seq(S)
    PROVE  /\ \A p \in Cuts(u) : Tolerated(p) =>
                  \E a, b, c \in Nat : Form(u, a, b, c) /\ p = CutAt(u, a, b, c)
           /\ \A a, b, c \in Nat : Form(u, a, b, c) => \E p \in Cuts(u) : Tolerated(p)
<1>1. ASSUME NEW p \in Cuts(u), Tolerated(p)
      PROVE  \E a, b, c \in Nat : Form(u, a, b, c) /\ p = CutAt(u, a, b, c)
  <2>1. PICK a \in Nat, b \in Nat, c \in Nat :
            /\ a + 3 <= b /\ b <= c /\ c <= Len(u)
            /\ SubSeq(u, a + 1, a + 3) = <<":", "/", "/">> /\ p = CutAt(u, a, b, c)
    BY CutsAre
  <2>2. Form(u, a, b, c)
    BY <1>1, <2>1, ToleratedForm DEF CutAt
  <2> QED
    BY <2>1, <2>2
<1>2. ASSUME NEW a \in Nat, NEW b \in Nat, NEW c \in Nat, Form(u, a, b, c)
      PROVE  \E p \in Cuts(u) : Tolerated(p)
  <2> DEFINE p == CutAt(u, a, b, c)
  <2>1. /\ a + 3 <= b /\ b <= c /\ c <= Len(u) /\ a + 1 \in 1 .. Len(u) - 2
        /\ (a + 1) + 2 = a + 3 /\ SchemeAt(u, a + 1)
    BY <1>2 DEF Form
  <2>2. SubSeq(u, a + 1, a + 3) = <<":", "/", "/">>
    BY <2>1, PartOfThree
  <2>3. p \in Cuts(u)
    BY <2>1, <2>2, CutsAre
  <2>4. Tolerated(p)
    BY <1>2, <2>1, <2>2, ToleratedForm DEF CutAt
  <2> QED
    BY <2>3, <2>4
<1> QED
    BY <1>1, <1>2

-----------------------------------------------------------------------------
(* The URL that is typed is a text, and stays one.                         *)

UrlType == url \in Seq(Char)

LEMMA Texts ==
    /\ \A i \in Digit \cup {":", "/"} \cup Scheme : i \in Char
    /\ Host \subseteq Seq(Char) /\ Port \subseteq Seq(Char) /\ Path \subseteq Seq(Char)
    /\ Typo \subseteq Char
    BY UrlAssumption DEF Char

LEMMA TypedText == Spec => []UrlType
<1>1. Init => UrlType
  <2> SUFFICES ASSUME NEW scheme \in Scheme, NEW host \in Host, NEW port \in Port, NEW path \in Path,
                      url = Written(scheme,
                                    host \o (IF port = <<>> THEN <<>> ELSE <<":">> \o port), path)
               PROVE  UrlType
    BY DEF Init
  <2> DEFINE colon == IF port = <<>> THEN <<>> ELSE <<":">> \o port
             head == <<scheme, ":", "/", "/">>
  <2>1. <<":">> \in Seq(Char) /\ <<>> \in Seq(Char)
    BY Texts
  <2>2. colon \in Seq(Char)
    BY <2>1, Texts, ConcatProperties
  <2> HIDE DEF colon
  <2>3. host \o colon \in Seq(Char)
    BY <2>2, Texts, ConcatProperties
  <2>4. head \in Seq(Char)
    BY Texts
  <2> HIDE DEF head
  <2>5. head \o (host \o colon) \in Seq(Char)
    BY <2>3, <2>4, ConcatProperties
  <2>6. (head \o (host \o colon)) \o path \in Seq(Char)
    BY <2>5, Texts, ConcatProperties
  <2>7. url = (head \o (host \o colon)) \o path
    BY DEF Written, head, colon
  <2> QED
    BY <2>6, <2>7 DEF UrlType
<1>2. UrlType /\ [Next]_vars => UrlType'
  <2> SUFFICES ASSUME UrlType, [Next]_vars PROVE UrlType'
    OBVIOUS
  <2> USE DEF UrlType
  <2>1. \A i \in 1 .. Len(url) + 1 : SubSeq(url, 1, i - 1) \in Seq(Char)
    <3> TAKE i \in 1 .. Len(url) + 1
    <3>1. 1 \in 1 .. Len(url) + 1 /\ i - 1 \in 1 - 1 .. Len(url)
      OBVIOUS
    <3> QED
      BY <3>1, Part
  <2>2. \A i \in 1 .. Len(url) + 1 : SubSeq(url, i, Len(url)) \in Seq(Char)
    <3> TAKE i \in 1 .. Len(url) + 1
    <3>1. Len(url) \in i - 1 .. Len(url)
      OBVIOUS
    <3> QED
      BY <3>1, Part
  <2>3. ASSUME NEW i \in 1 .. Len(url) + 1, NEW ch \in Typo, url' = InsertAt(url, i, ch)
        PROVE  url' \in Seq(Char)
    <3>1. <<ch>> \in Seq(Char)
      BY Texts
    <3>2. SubSeq(url, 1, i - 1) \o <<ch>> \in Seq(Char)
      BY <2>1, <3>1, ConcatProperties
    <3> QED
      BY <2>2, <2>3, <3>2, ConcatProperties DEF InsertAt
  <2>4. ASSUME NEW i \in 1 .. Len(url), url' = RemoveAt(url, i)
        PROVE  url' \in Seq(Char)
    <3>1. i \in 1 .. Len(url) + 1 /\ i + 1 \in 1 .. Len(url) + 1
      OBVIOUS
    <3>2. SubSeq(url, 1, i - 1) \in Seq(Char) /\ SubSeq(url, i + 1, Len(url)) \in Seq(Char)
      BY <2>1, <2>2, <3>1
    <3> QED
      BY <2>4, <3>2, ConcatProperties DEF RemoveAt
  <2> QED
    BY <2>3, <2>4 DEF Next, Mistype, vars
<1> QED
    BY <1>1, <1>2, PTL DEF Spec

(* CallAsync throws for a URL exactly when it is not of the documented     *)
(* form, but for what follows the digits of the port: whatever is typed.   *)
THEOREM ThrowsExactlyUnlessTolerated == Spec => []ThrowsUnlessTolerated
<1>1. UrlType => ThrowsUnlessTolerated
  <2> SUFFICES ASSUME UrlType PROVE ThrowsUnlessTolerated
    OBVIOUS
  <2>1. url \in Seq(Char)
    BY DEF UrlType
  <2>2. ASSUME ~Throws(url) PROVE \E p \in Cuts(url) : Tolerated(p)
    BY <2>1, <2>2, NotThrowsForm, ToleratedCuts
  <2>3. ASSUME NEW p \in Cuts(url), Tolerated(p) PROVE ~Throws(url)
    BY <2>1, <2>3, ToleratedCuts, FormParsed DEF Parsed
  <2> QED
    BY <2>2, <2>3 DEF ThrowsUnlessTolerated
<1> QED
    BY <1>1, TypedText, PTL

(* A URL of the documented form is taken apart as the form says, in the    *)
(* only way there is, and its port is the number that is written: whatever *)
(* is typed.                                                               *)
THEOREM DocumentedFormIsParsed == Spec => []DocumentedFormParsed
<1>1. UrlType => DocumentedFormParsed
  <2> SUFFICES ASSUME UrlType, NEW p \in Cuts(url), Documented(p)
               PROVE  /\ ~Throws(url)
                      /\ ParseUrl(url).scheme = p.scheme
                      /\ ParseUrl(url).host = p.host
                      /\ ParseUrl(url).path = IF p.path = <<>> THEN <<"/">> ELSE p.path
                      /\ IF p.port = <<>> \/ Significant(Tail(p.port)) = <<>>
                         THEN ParseUrl(url).port = 0
                         ELSE Decimal[ParseUrl(url).port] = Significant(Tail(p.port))
    BY DEF DocumentedFormParsed
  <2>1. url \in Seq(Char) /\ Tolerated(p)
    BY DEF UrlType, Documented
  <2>2. PICK a \in Nat, b \in Nat, c \in Nat : Form(url, a, b, c) /\ p = CutAt(url, a, b, c)
    BY <2>1, ToleratedCuts
  <2>3. /\ ~Throws(url)
        /\ ParseUrl(url).scheme = SubSeq(url, 1, a)
        /\ ParseUrl(url).host = SubSeq(url, a + 4, b)
        /\ ParseUrl(url).port = IF b = c THEN 0 ELSE Stoi(SubSeq(url, b + 2, c))
        /\ ParseUrl(url).path = IF c = Len(url) THEN <<"/">> ELSE SubSeq(url, c + 1, Len(url))
    <3>1. Parsed(url, a, b, c)
      BY <2>1, <2>2, FormParsed
    <3> QED
      BY <3>1 DEF Parsed
  <2>4. Len(url) \in Nat /\ b <= c /\ c <= Len(url)
    BY <2>1, <2>2 DEF Form
  <2>5. ParseUrl(url).path = IF p.path = <<>> THEN <<"/">> ELSE p.path
    <3> DEFINE q == SubSeq(url, c + 1, Len(url))
    <3>1. q \in Seq(Char) /\ Len(q) = Len(url) - c
      BY <2>1, <2>4, Slice
    <3>2. p.path = q
      BY <2>2 DEF CutAt, From
    <3>3. ParseUrl(url).path = IF c = Len(url) THEN <<"/">> ELSE q
      BY <2>3
    <3> HIDE DEF q
    <3>4. q = <<>> <=> c = Len(url)
      BY <2>4, <3>1, EmptySeq
    <3> QED
      BY <3>2, <3>3, <3>4
  <2>6. IF p.port = <<>> \/ Significant(Tail(p.port)) = <<>>
        THEN ParseUrl(url).port = 0
        ELSE Decimal[ParseUrl(url).port] = Significant(Tail(p.port))
    <3> DEFINE q == SubSeq(url, b + 1, c)
               t == SubSeq(url, b + 2, c)
    <3>1. q \in Seq(Char) /\ Len(q) = c - b /\ p.port = q
      BY <2>1, <2>2, <2>4, Slice DEF CutAt
    <3>2. q = <<>> <=> b = c
      <4> HIDE DEF q
      <4> QED
        BY <2>4, <3>1, EmptySeq
    <3>3. CASE b = c
      BY <2>3, <3>1, <3>2, <3>3
    <3>4. CASE b < c
      <4>1. Tail(q) = t
        BY <2>1, <2>4, <3>4, TailOfSlice
      <4>2. /\ PortText(url) = t /\ t \in Seq(Char) /\ Stoi(t) \in 0 .. INT_MAX
            /\ Significant(LeadingDigits(t)) = DigitsOf(Stoi(t))
        <5>1. PortText(url) = t /\ t \in Seq(Char) /\ PortRead(url)
          BY <2>1, <2>2, <3>4, FormPort
        <5> HIDE DEF t
        <5> QED
          BY <5>1 DEF PortRead
      <4>3. ParseUrl(url).port = Stoi(t)
        BY <2>3, <2>4, <3>4
      <4>4. \A i \in 1 .. Len(t) : t[i] \in Digit
        <5>1. Without(t, Word \cup {":"})
          <6>1. p.port # <<>> /\ Tail(p.port) = t
            BY <3>1, <3>2, <3>4, <4>1
          <6> HIDE DEF t
          <6> QED
            BY <6>1 DEF Documented
        <5>2. Without(t, {"/"})
          <6> DEFINE m == b + 1
          <6>1. m \in Nat /\ m <= c /\ m + 1 = b + 2
            BY <2>4, <3>4
          <6>2. \A i \in m + 1 .. c : i \in b + 1 .. c
            BY <2>4
          <6>3. \A i \in m + 1 .. c : url[i] \notin {"/"}
            BY <2>2, <6>2 DEF Form
          <6> HIDE DEF m
          <6>4. Without(SubSeq(url, m + 1, c), {"/"})
            BY <2>1, <2>4, <6>1, <6>3, SliceWithout
          <6> QED
            BY <6>1, <6>4
        <5> HIDE DEF t
        <5>3. \A i \in 1 .. Len(t) : t[i] \in Char /\ i \in DOMAIN t
          BY <4>2
        <5> QED
          BY <5>1, <5>2, <5>3 DEF Without, Char
      <4> HIDE DEF t, q
      <4>5. LeadingDigits(t) = t
        BY <4>2, <4>4, Leading
      <4>6. Significant(t) = DigitsOf(Stoi(t)) /\ Stoi(t) \in Nat
        BY <4>2, <4>5
      <4>7. Stoi(t) = 0 <=> Significant(t) = <<>>
        BY <4>6, DecimalHead DEF DigitsOf
      <4>8. p.port # <<>> /\ Tail(p.port) = t
        BY <3>1, <3>2, <3>4, <4>1
      <4>9. Stoi(t) # 0 => Decimal[Stoi(t)] = Significant(t)
        BY <4>6 DEF DigitsOf
      <4> DEFINE v == Stoi(t)
      <4> HIDE DEF v
      <4>10. IF Significant(t) = <<>> THEN v = 0 ELSE Decimal[v] = Significant(t)
        BY <4>7, <4>9 DEF v
      <4> QED
        BY <4>3, <4>8, <4>10 DEF v
    <3> QED
      BY <2>4, <3>3, <3>4
  <2>7. ParseUrl(url).scheme = p.scheme /\ ParseUrl(url).host = p.host
    BY <2>2, <2>3 DEF CutAt
  <2> QED
    BY <2>3, <2>5, <2>6, <2>7
<1> QED
    BY <1>1, TypedText, PTL

-----------------------------------------------------------------------------
(* A URL put together from its parts.                                      *)

(* What is written before a text does not change with the text.            *)
LEMMA SliceOfConcat ==
    ASSUME NEW S, NEW s \in Seq(S), NEW t \in Seq(S),
           NEW m \in Nat, NEW n \in Nat, m <= n, n <= Len(s)
    PROVE  SubSeq(s \o t, m + 1, n) = SubSeq(s, m + 1, n)
<1> DEFINE x == s \o t
           y == SubSeq(x, m + 1, n)
           z == SubSeq(s, m + 1, n)
<1>1. x \in Seq(S) /\ Len(x) = Len(s) + Len(t) /\ \A i \in 1 .. Len(s) : x[i] = s[i]
  <2>1. \A i \in 1 .. Len(s) : i \in 1 .. Len(s) + Len(t) /\ i <= Len(s)
    OBVIOUS
  <2> QED
    BY <2>1, ConcatProperties
<1> HIDE DEF x
<1>2. n <= Len(x)
    BY <1>1
<1>3. y \in Seq(S) /\ Len(y) = n - m /\ \A k \in 1 .. n - m : y[k] = x[m + k]
    BY <1>1, <1>2, Slice
<1>4. z \in Seq(S) /\ Len(z) = n - m /\ \A k \in 1 .. n - m : z[k] = s[m + k]
    BY Slice
<1>5. \A k \in 1 .. n - m : m + k \in 1 .. Len(s)
    OBVIOUS
<1> HIDE DEF y, z
<1>6. \A k \in 1 .. Len(y) : y[k] = z[k]
    BY <1>1, <1>3, <1>4, <1>5
<1>7. y = z
    BY <1>3, <1>4, <1>6, SeqEqual
<1> QED
    BY <1>7 DEF x, y, z

(* The two parts of a text that is put together.                           *)
LEMMA PartsOfConcat ==
    ASSUME NEW S, NEW s \in Seq(S), NEW t \in Seq(S)
    PROVE  /\ SubSeq(s \o t, 1, Len(s)) = s
           /\ SubSeq(s \o t, Len(s) + 1, Len(s) + Len(t)) = t
<1> DEFINE x == s \o t
           m == Len(s)
           n == Len(s) + Len(t)
           y == SubSeq(x, m + 1, n)
<1>1. 0 \in Nat /\ 0 + 1 = 1 /\ m \in Nat /\ n \in Nat /\ m <= n /\ 0 <= m /\ n - m = Len(t) /\ m <= m
    OBVIOUS
<1>2. SubSeq(x, 1, m) = s
  <2>1. SubSeq(x, 0 + 1, m) = SubSeq(s, 0 + 1, m)
    BY <1>1, SliceOfConcat
  <2> QED
    BY <1>1, <2>1, SubSeqFull
<1>3. x \in Seq(S) /\ Len(x) = n /\ \A k \in 1 .. Len(t) : x[m + k] = t[k]
  <2>1. \A k \in 1 .. Len(t) : m + k \in 1 .. n /\ ~(m + k <= m) /\ (m + k) - m = k
    OBVIOUS
  <2> QED
    BY <2>1, ConcatProperties
<1> HIDE DEF x, m, n
<1>4. y \in Seq(S) /\ Len(y) = n - m /\ \A k \in 1 .. n - m : y[k] = x[m + k]
  <2>1. n <= Len(x)
    BY <1>1, <1>3
  <2> QED
    BY <1>1, <1>3, <2>1, Slice
<1> HIDE DEF y
<1>5. y = t
  <2>1. Len(y) = Len(t) /\ \A k \in 1 .. Len(y) : y[k] = t[k]
    BY <1>1, <1>3, <1>4
  <2> QED
    BY <1>4, <2>1, SeqEqual
<1> QED
    BY <1>2, <1>5 DEF x, m, n, y

JoinOf(S, s, t, x, m, n) ==
    /\ x \in Seq(S) /\ Len(x) = n /\ m \in Nat /\ n \in Nat /\ m <= n
    /\ SubSeq(x, 1, m) = s /\ SubSeq(x, m + 1, n) = t
    /\ \A i, j \in Nat : i <= j /\ j <= m => SubSeq(x, i + 1, j) = SubSeq(s, i + 1, j)

LEMMA Joined ==
    ASSUME NEW S, NEW s \in Seq(S), NEW t \in Seq(S), NEW x, x = s \o t,
           NEW m, m = Len(s), NEW n, n = m + Len(t)
    PROVE  JoinOf(S, s, t, x, m, n)
<1>1. x \in Seq(S) /\ Len(x) = n /\ m \in Nat /\ n \in Nat /\ m <= n
    BY ConcatProperties
<1>2. SubSeq(x, 1, m) = s /\ SubSeq(x, m + 1, n) = t
    BY PartsOfConcat
<1>3. \A i, j \in Nat : i <= j /\ j <= m => SubSeq(x, i + 1, j) = SubSeq(s, i + 1, j)
    BY SliceOfConcat
<1> QED
    BY <1>1, <1>2, <1>3 DEF JoinOf

(* The four parts of a URL that is put together, at their places.          *)
Places(v, a, b, c) ==
    /\ a \in Nat /\ b \in Nat /\ c \in Nat /\ a + 3 <= b /\ b <= c /\ c <= Len(v)
    /\ SubSeq(v, a + 1, a + 3) = <<":", "/", "/">>

AssembledAt(S, v, a, b, c, scheme, host, port, path) ==
    /\ v \in Seq(S) /\ Places(v, a, b, c) /\ Len(v) = c + Len(path)
    /\ CutAt(v, a, b, c) = [scheme |-> scheme, host |-> host, port |-> port, path |-> path]

LEMMA Assembled ==
    ASSUME NEW S, {":", "/"} \subseteq S,
           NEW scheme \in Seq(S), NEW host \in Seq(S), NEW port \in Seq(S), NEW path \in Seq(S),
           NEW v, v = scheme \o <<":", "/", "/">> \o (host \o port) \o path,
           NEW a, a = Len(scheme), NEW b, b = a + 3 + Len(host), NEW c, c = b + Len(port)
    PROVE  AssembledAt(S, v, a, b, c, scheme, host, port, path)
<1> DEFINE w == <<":", "/", "/">>
           x == scheme \o w
           y == x \o host
           z == y \o port
           m == a + 3
           n == c + Len(path)
<1>1. w \in Seq(S) /\ Len(w) = 3
    OBVIOUS
<1>2. a \in Nat /\ m + 1 = a + 4
    OBVIOUS
<1>3. m = a + Len(w) /\ b = m + Len(host) /\ m = a + 3
    BY <1>1
<1> HIDE DEF w, m, n
<1>4. JoinOf(S, scheme, w, x, a, m)
  <2> HIDE DEF y, z
  <2> QED
    BY <1>1, <1>3, Joined
<1> HIDE DEF x
<1>5. JoinOf(S, x, host, y, m, b)
  <2> HIDE DEF z
  <2>1. x \in Seq(S) /\ m = Len(x)
    BY <1>4 DEF JoinOf
  <2> QED
    BY <1>3, <2>1, Joined
<1> HIDE DEF y
<1>6. JoinOf(S, y, port, z, b, c)
  <2>1. y \in Seq(S) /\ b = Len(y)
    BY <1>5 DEF JoinOf
  <2> QED
    BY <2>1, Joined
<1> HIDE DEF z
<1>7. JoinOf(S, z, path, v, c, n)
  <2>1. z \in Seq(S) /\ c = Len(z)
    BY <1>6 DEF JoinOf
  <2>2. y \o port = x \o (host \o port)
    <3>1. x \in Seq(S)
      BY <1>4 DEF JoinOf
    <3> QED
      BY ONLY host \in Seq(S), port \in Seq(S), <3>1, ConcatAssociative, SMTT(30) DEF y
  <2>3. v = z \o path
    BY <2>2 DEF x, w, z
  <2> HIDE DEF n
  <2>4. n = c + Len(path)
    BY DEF n
  <2> QED
    BY ONLY path \in Seq(S), <2>1, <2>3, <2>4, Joined
<1>8. /\ a \in Nat /\ m \in Nat /\ b \in Nat /\ c \in Nat /\ n \in Nat
      /\ a <= m /\ m <= b /\ b <= c /\ c <= n
      /\ v \in Seq(S) /\ Len(v) = n
    BY <1>4, <1>5, <1>6, <1>7 DEF JoinOf
<1>9. ASSUME NEW i \in Nat, NEW j \in Nat, i <= j, j <= c
      PROVE  SubSeq(v, i + 1, j) = SubSeq(z, i + 1, j)
    BY ONLY <1>9, <1>7 DEF JoinOf
<1>10. ASSUME NEW i \in Nat, NEW j \in Nat, i <= j, j <= b
       PROVE  SubSeq(v, i + 1, j) = SubSeq(y, i + 1, j)
  <2>1. SubSeq(z, i + 1, j) = SubSeq(y, i + 1, j)
    BY ONLY <1>10, <1>6 DEF JoinOf
  <2>2. j <= c
    BY ONLY <1>8, <1>10
  <2> QED
    BY ONLY <1>9, <1>10, <2>1, <2>2
<1>11. ASSUME NEW i \in Nat, NEW j \in Nat, i <= j, j <= m
       PROVE  SubSeq(v, i + 1, j) = SubSeq(x, i + 1, j)
  <2>1. SubSeq(y, i + 1, j) = SubSeq(x, i + 1, j)
    BY ONLY <1>11, <1>5 DEF JoinOf
  <2>2. j <= b
    BY ONLY <1>8, <1>11
  <2> QED
    BY ONLY <1>10, <1>11, <2>1, <2>2
<1>12. SubSeq(v, c + 1, n) = path
    BY <1>7 DEF JoinOf
<1>13. SubSeq(v, b + 1, c) = port
  <2>1. SubSeq(z, b + 1, c) = port
    BY <1>6 DEF JoinOf
  <2>2. b \in Nat /\ c \in Nat /\ b <= c /\ c <= c
    BY ONLY <1>8
  <2>3. SubSeq(v, b + 1, c) = SubSeq(z, b + 1, c)
    BY ONLY <1>9, <2>2
  <2> QED
    BY ONLY <2>1, <2>3
<1>14. SubSeq(v, m + 1, b) = host
  <2>1. SubSeq(y, m + 1, b) = host
    BY <1>5 DEF JoinOf
  <2>2. m \in Nat /\ b \in Nat /\ m <= b /\ b <= b
    BY ONLY <1>8
  <2>3. SubSeq(v, m + 1, b) = SubSeq(y, m + 1, b)
    BY ONLY <1>10, <2>2
  <2> QED
    BY ONLY <2>1, <2>3
<1>15. SubSeq(v, a + 1, m) = w
  <2>1. SubSeq(x, a + 1, m) = w
    BY <1>4 DEF JoinOf
  <2>2. a \in Nat /\ m \in Nat /\ a <= m /\ m <= m
    BY ONLY <1>8
  <2>3. SubSeq(v, a + 1, m) = SubSeq(x, a + 1, m)
    BY ONLY <1>11, <2>2
  <2> QED
    BY ONLY <2>1, <2>3
<1>16. SubSeq(v, 1, a) = scheme
  <2> DEFINE o == 0
  <2>1. o \in Nat /\ o + 1 = 1 /\ a \in Nat /\ o <= a /\ a <= m
    BY ONLY <1>8
  <2>2. SubSeq(x, 1, a) = scheme
    BY <1>4 DEF JoinOf
  <2> HIDE DEF o
  <2>3. SubSeq(v, o + 1, a) = SubSeq(x, o + 1, a)
    BY ONLY <1>11, <2>1
  <2> QED
    BY ONLY <2>1, <2>2, <2>3
<1>17. CutAt(v, a, b, c) = [scheme |-> scheme, host |-> host, port |-> port, path |-> path]
    BY ONLY <1>2, <1>3, <1>8, <1>12, <1>13, <1>14, <1>16 DEF CutAt, From
<1>18. n = c + Len(path)
    BY DEF n
<1> QED
    BY ONLY <1>3, <1>8, <1>15, <1>17, <1>18 DEF w, Places, AssembledAt

(* What to_string writes, stoi reads.                                      *)
LEMMA DecimalRead ==
    ASSUME NEW n \in Nat \ {0}, n <= INT_MAX
    PROVE  /\ Decimal[n] \in Seq(Digit) /\ Decimal[n] # <<>> /\ Decimal[n][1] \in Digit
           /\ LeadingDigits(Decimal[n]) = Decimal[n] /\ IsInt(Decimal[n])
           /\ Stoi(Decimal[n]) = n
<1> DEFINE s == Decimal[n]
           max == Decimal[INT_MAX]
<1>1. s \in Seq(Digit) /\ s # <<>> /\ s[1] # "0"
    BY DecimalType, DecimalHead
<1>2. INT_MAX \in Nat
    BY DEF INT_MAX
<1>3. NotAfter(s, max)
    BY <1>2, DecimalOrder
<1>4. ASSUME NEW m \in Nat, Decimal[m] = s PROVE m = n
    BY <1>4, DecimalOrder
<1>5. DigitsOf(n) = s
    BY DEF DigitsOf
<1>6. ASSUME NEW m, DigitsOf(m) = s PROVE m # 0 /\ Decimal[m] = s
    BY <1>1, <1>6 DEF DigitsOf
<1> HIDE DEF s
<1>7. Len(s) \in Nat /\ 1 \in 1 .. Len(s) /\ DOMAIN s = 1 .. Len(s)
  <2>1. Len(s) # 0
    BY <1>1, EmptySeq
  <2> QED
    BY <1>1, <2>1
<1>8. \A i \in 1 .. Len(s) : s[i] \in Digit
    BY <1>1
<1>9. LeadingDigits(s) = s
    BY <1>1, <1>8, Leading
<1>10. Significant(s) = s
  <2> DEFINE I == {k \in DOMAIN s : s[k] # "0"}
  <2>1. I \subseteq Nat /\ 1 \in I /\ \A k \in I : 1 <= k
    BY <1>1, <1>7
  <2>2. Significant(s) = IF I = {} THEN <<>> ELSE From(s, Min(I))
    BY DEF Significant
  <2> HIDE DEF I
  <2> DEFINE f == Min(I)
  <2>3. f \in I /\ \A k \in I : f <= k
    BY <2>1, MinIs
  <2>4. Significant(s) = From(s, f)
    BY <2>1, <2>2
  <2> HIDE DEF f
  <2>5. f = 1
    BY <2>1, <2>3
  <2> QED
    BY <1>1, <2>4, <2>5, SubSeqFull DEF From
<1>11. IsInt(s)
    BY <1>3, <1>10 DEF IsInt, NotAfter, Lex
<1> DEFINE m == Stoi(s)
<1>12. LeadingDigits(s) \in Seq(Digit) /\ IsInt(LeadingDigits(s))
    BY <1>1, <1>9, <1>11
<1>13. m \in 0 .. INT_MAX /\ Significant(LeadingDigits(s)) = DigitsOf(m)
    BY <1>12, StoiThrows
<1>14. m \in Nat
    BY <1>2, <1>13
<1>15. DigitsOf(m) = s
    BY <1>9, <1>10, <1>13
<1> HIDE DEF m
<1>16. m = n
    BY <1>4, <1>6, <1>14, <1>15
<1> QED
    BY <1>1, <1>7, <1>8, <1>9, <1>11, <1>16 DEF s, m

(* A request is sent to a port that is an int and not zero.                *)
LEMMA PortIsInt ==
    ASSUME NEW S, NEW u \in Seq(S), NEW a, NEW b, NEW c, Form(u, a, b, c)
    PROVE  PortUsed(u) \in Nat \ {0} /\ PortUsed(u) <= INT_MAX
<1>1. INT_MAX \in Nat /\ 443 <= INT_MAX
    BY DEF INT_MAX
<1>2. ParseUrl(u).port \in 0 .. INT_MAX
  <2>1. ParseUrl(u).port = IF b = c THEN 0 ELSE Stoi(SubSeq(u, b + 2, c))
    <3>1. Parsed(u, a, b, c)
      BY FormParsed
    <3> QED
      BY <3>1 DEF Parsed
  <2>2. CASE b = c
    BY <1>1, <2>1, <2>2
  <2>3. CASE b # c
    <3>1. b < c
      BY <2>3 DEF Form
    <3>2. PortText(u) = SubSeq(u, b + 2, c) /\ PortRead(u)
      BY <3>1, FormPort
    <3> QED
      BY <2>1, <2>3, <3>2 DEF PortRead
  <2> QED
    BY <2>2, <2>3
<1>3. DefaultPort(u) = 443 \/ DefaultPort(u) = 80
    BY DEF DefaultPort
<1> QED
    BY <1>1, <1>2, <1>3 DEF PortUsed

(* The Host header ends with the port, unless the scheme implies it.       *)
PortShown(u) ==
    IF PortUsed(u) = DefaultPort(u) THEN <<>> ELSE <<":">> \o Decimal[PortUsed(u)]

LEMMA PortShownIs ==
    ASSUME NEW u, PortUsed(u) \in Nat \ {0}, PortUsed(u) <= INT_MAX,
           NEW d, d = PortShown(u), NEW P, P = PortUsed(u)
    PROVE  \/ P = DefaultPort(u) /\ d = <<>>
           \/ /\ P # DefaultPort(u) /\ d \in Seq(Char) /\ Len(d) > 1 /\ d # <<>>
              /\ d[1] = ":" /\ d[2] \in Digit /\ Tail(d) = Decimal[P]
              /\ Without(d, {"/"})
<1>1. CASE P = DefaultPort(u)
    BY <1>1 DEF PortShown
<1>2. CASE P # DefaultPort(u)
  <2> DEFINE s == Decimal[P]
             e == <<":">>
  <2>1. s \in Seq(Digit) /\ s # <<>> /\ s[1] \in Digit
    BY DecimalRead
  <2>2. d = e \o s
    BY <1>2 DEF PortShown
  <2>3. e \in Seq(Char) /\ Len(e) = 1 /\ e[1] = ":"
    BY Texts
  <2> HIDE DEF e, s
  <2>4. s \in Seq(Char)
    BY <2>1, Texts, SeqMonotonic
  <2>5. Len(s) \in Nat /\ Len(s) > 0
    BY <2>1, EmptySeq
  <2>6. /\ d \in Seq(Char) /\ Len(d) = 1 + Len(s)
        /\ \A i \in 1 .. 1 + Len(s) : d[i] = IF i <= 1 THEN e[i] ELSE s[i - 1]
    <3>1. /\ e \o s \in Seq(Char) /\ Len(e \o s) = Len(e) + Len(s)
          /\ \A i \in 1 .. Len(e) + Len(s) :
                (e \o s)[i] = IF i <= Len(e) THEN e[i] ELSE s[i - Len(e)]
      BY ONLY <2>3, <2>4, ConcatProperties
    <3> QED
      BY <2>2, <2>3, <3>1
  <2>7. d # <<>> /\ Len(d) > 1
    BY <2>5, <2>6
  <2>8. d[1] = ":" /\ \A i \in 2 .. 1 + Len(s) : d[i] = s[i - 1] /\ i - 1 \in 1 .. Len(s)
    BY <2>3, <2>5, <2>6
  <2>9. d[2] \in Digit
    BY <2>1, <2>5, <2>8
  <2>10. Tail(d) = s
    <3>1. Tail(d) \in Seq(Char) /\ Len(Tail(d)) = Len(s)
      BY <2>5, <2>6, <2>7, HeadTailProperties
    <3>2. \A i \in 1 .. Len(s) : Tail(d)[i] = d[i + 1]
      BY <2>5, <2>6, <2>7, <3>1, HeadTailProperties
    <3>3. \A i \in 1 .. Len(s) : i + 1 \in 2 .. 1 + Len(s) /\ (i + 1) - 1 = i
      BY <2>5
    <3>4. \A i \in 1 .. Len(Tail(d)) : Tail(d)[i] = s[i]
      BY <2>8, <3>1, <3>2, <3>3
    <3> QED
      BY <2>4, <3>1, <3>4, SeqEqual
  <2>11. Without(d, {"/"})
    <3>1. "/" \notin Digit /\ ":" # "/"
      BY DigitValues
    <3>2. \A i \in 1 .. Len(s) : s[i] \in Digit
      BY <2>1
    <3>3. \A i \in DOMAIN d : i = 1 \/ i \in 2 .. 1 + Len(s)
      BY <2>5, <2>6
    <3> QED
      BY <2>8, <3>1, <3>2, <3>3 DEF Without
  <2> QED
    BY <1>2, <2>6, <2>7, <2>8, <2>9, <2>10, <2>11 DEF s
<1> QED
    BY <1>1, <1>2

LEMMA RequestAgain ==
    ASSUME NEW u \in Seq(Char), ~Throws(u),
           NEW v, v = ParseUrl(u).scheme \o <<":", "/", "/">> \o HostHeader(u) \o ParseUrl(u).path
    PROVE  ~Throws(v) /\ Request(v) = Request(u)
<1>1. PICK a \in Nat, b \in Nat, c \in Nat : Form(u, a, b, c)
    BY NotThrowsForm
<1> DEFINE scheme == ParseUrl(u).scheme
           host == ParseUrl(u).host
           path == ParseUrl(u).path
           P == PortUsed(u)
           d == PortShown(u)
<1>2. /\ a + 3 <= b /\ b <= c /\ c <= Len(u) /\ a <= Len(u) /\ b <= Len(u) /\ Len(u) \in Nat
      /\ SubSeq(u, a + 1, a + 3) = <<":", "/", "/">>
  <2>1. /\ a + 3 <= b /\ b <= c /\ c <= Len(u) /\ a + 1 \in 1 .. Len(u) - 2
        /\ SchemeAt(u, a + 1) /\ (a + 1) + 2 = a + 3
    BY <1>1 DEF Form
  <2>2. SubSeq(u, a + 1, a + 3) = <<":", "/", "/">>
    BY <2>1, PartOfThree
  <2> QED
    BY <2>1, <2>2
<1>3. /\ scheme = SubSeq(u, 1, a)
      /\ host = SubSeq(u, a + 4, b)
      /\ path = IF c = Len(u) THEN <<"/">> ELSE SubSeq(u, c + 1, Len(u))
  <2>1. Parsed(u, a, b, c)
    BY <1>1, FormParsed
  <2> QED
    BY <2>1 DEF Parsed
<1>4. Tolerated(CutAt(u, a, b, c))
    BY <1>1, <1>2, ToleratedForm DEF CutAt
<1>5. P \in Nat \ {0} /\ P <= INT_MAX
    BY <1>1, PortIsInt
<1>6. \/ P = DefaultPort(u) /\ d = <<>>
      \/ /\ P # DefaultPort(u) /\ d \in Seq(Char) /\ Len(d) > 1 /\ d # <<>>
         /\ d[1] = ":" /\ d[2] \in Digit /\ Tail(d) = Decimal[P]
         /\ Without(d, {"/"})
    BY <1>5, PortShownIs
<1>7. scheme \in Seq(Char)
  <2>1. 1 \in 1 .. Len(u) + 1 /\ a \in 1 - 1 .. Len(u)
    BY <1>2
  <2> QED
    BY <1>3, <2>1, Part
<1>8. host \in Seq(Char)
  <2>1. a + 4 \in 1 .. Len(u) + 1 /\ b \in (a + 4) - 1 .. Len(u)
    BY <1>2
  <2> QED
    BY <1>3, <2>1, Part
<1>9. path \in Seq(Char) /\ path # <<>> /\ path[1] = "/"
  <2>1. CASE c = Len(u)
    BY <1>3, <2>1, Texts
  <2>2. CASE c < Len(u)
    <3> DEFINE q == SubSeq(u, c + 1, Len(u))
    <3>1. q \in Seq(Char) /\ Len(q) = Len(u) - c /\ \A k \in 1 .. Len(u) - c : q[k] = u[c + k]
      BY <1>2, Slice
    <3>2. u[c + 1] = "/" /\ 1 \in 1 .. Len(u) - c
      BY <1>1, <1>2, <2>2 DEF Form
    <3>3. path = q
      BY <1>3, <2>2
    <3> HIDE DEF q, path
    <3>4. q # <<>> /\ q[1] = "/"
      BY <3>1, <3>2
    <3> QED
      BY <3>1, <3>3, <3>4
  <2> QED
    BY <1>2, <2>1, <2>2
<1>10. d \in Seq(Char)
  <2>1. <<>> \in Seq(Char)
    OBVIOUS
  <2> HIDE DEF d, P
  <2> QED
    BY <1>6, <2>1
<1>11. HostHeader(u) = host \o d
  <2> HIDE DEF host
  <2>1. host \o <<>> = host
    BY <1>8, ConcatEmptySeq
  <2>2. CASE P = DefaultPort(u)
    BY <2>1, <2>2 DEF HostHeader, PortShown, host
  <2>3. CASE P # DefaultPort(u)
    <3>1. <<":">> \in Seq(Char) /\ Decimal[P] \in Seq(Char)
      <4>1. Decimal[P] \in Seq(Digit)
        BY <1>5, DecimalType
      <4> QED
        BY <4>1, Texts, SeqMonotonic
    <3>2. (host \o <<":">>) \o Decimal[P] = host \o (<<":">> \o Decimal[P])
      <4> DEFINE e == <<":">>
                 s == Decimal[P]
      <4> HIDE DEF e, s
      <4>1. e \in Seq(Char) /\ s \in Seq(Char)
        BY <3>1 DEF e, s
      <4>2. (host \o e) \o s = host \o (e \o s)
        BY ONLY <1>8, <4>1, ConcatAssociative
      <4> QED
        BY <4>2 DEF e, s
    <3> QED
      BY <2>3, <3>2 DEF HostHeader, PortShown, host
  <2> QED
    BY <2>2, <2>3
<1>12. v = scheme \o <<":", "/", "/">> \o (host \o d) \o path
    BY <1>11
<1> DEFINE p == [scheme |-> scheme, host |-> host, port |-> d, path |-> path]
<1>13. Tolerated(p)
  <2>1. /\ SchemeEnd(scheme \o <<":", "/", "/">>) = Len(scheme) + 1
        /\ Without(host, {":", "/"})
    BY <1>3, <1>4 DEF Tolerated, CutAt
  <2> HIDE DEF scheme, host, path, d, P
  <2>2. Without(d, {"/"})
    BY <1>6 DEF Without
  <2>3. d # <<>> => /\ Len(d) > 1 /\ d[1] = ":" /\ d[2] \in Digit
                    /\ IsInt(LeadingDigits(Tail(d)))
    BY <1>5, <1>6, DecimalRead
  <2> QED
    BY <1>9, <2>1, <2>2, <2>3 DEF Tolerated
<1> DEFINE f == Len(scheme)
           g == f + 3 + Len(host)
           h == g + Len(d)
<1> HIDE DEF scheme, host, path, d, P
<1>14. /\ v \in Seq(Char) /\ Places(v, f, g, h) /\ Len(v) = h + Len(path)
       /\ CutAt(v, f, g, h) = p
  <2>1. {":", "/"} \subseteq Char
    BY Texts
  <2>2. f = Len(scheme) /\ g = f + 3 + Len(host) /\ h = g + Len(d)
    OBVIOUS
  <2> HIDE DEF f, g, h
  <2> QED
    <3>1. path \in Seq(Char)
      BY <1>9
    <3> HIDE DEF p
    <3>2. AssembledAt(Char, v, f, g, h, scheme, host, d, path)
      BY ONLY <1>7, <1>8, <1>10, <1>12, <2>1, <2>2, <3>1, Assembled
    <3> QED
      BY <3>2 DEF p, AssembledAt
<1> HIDE DEF p, f, g
<1>15. h = g + Len(d)
    OBVIOUS
<1> HIDE DEF h
<1>16. /\ f \in Nat /\ g \in Nat /\ h \in Nat
       /\ f + 3 <= g /\ g <= h /\ h <= Len(v) /\ Len(v) = h + Len(path)
       /\ SubSeq(v, f + 1, f + 3) = <<":", "/", "/">>
    BY ONLY <1>14 DEF Places
<1>17. Form(v, f, g, h)
  <2>1. p = CutAt(v, f, g, h)
    BY <1>14
  <2> QED
    BY ONLY <1>13, <1>14, <1>16, <2>1, ToleratedForm DEF CutAt
<1>18. Parsed(v, f, g, h)
    BY <1>14, <1>17, FormParsed
<1>19. /\ SubSeq(v, 1, f) = scheme /\ SubSeq(v, f + 4, g) = host
       /\ SubSeq(v, g + 1, h) = d /\ SubSeq(v, h + 1, Len(v)) = path
    BY <1>14 DEF CutAt, From, p
<1>20. ~Throws(v) /\ ParseUrl(v).scheme = scheme /\ ParseUrl(v).host = host
    BY <1>18, <1>19 DEF Parsed
<1>21. ParseUrl(v).path = path
  <2>1. h # Len(v)
    <3>1. Len(path) \in Nat /\ Len(path) # 0
      BY <1>9, EmptySeq
    <3> QED
      BY ONLY <1>16, <3>1
  <2> QED
    BY <1>18, <1>19, <2>1 DEF Parsed
<1>22. ParseUrl(v).port = IF P = DefaultPort(u) THEN 0 ELSE P
  <2>1. ParseUrl(v).port = IF g = h THEN 0 ELSE Stoi(SubSeq(v, g + 2, h))
    BY <1>18 DEF Parsed
  <2>2. CASE P = DefaultPort(u)
    <3>1. Len(d) = 0
      BY <1>6, <2>2
    <3>2. g = h
      BY <1>15, <1>16, <3>1
    <3> QED
      BY <2>1, <2>2, <3>2
  <2>3. CASE P # DefaultPort(u)
    <3>1. d # <<>> /\ Len(d) > 1 /\ Tail(d) = Decimal[P] /\ Len(d) \in Nat
      BY <1>6, <1>10, <2>3
    <3>2. g < h
      BY <1>15, <1>16, <3>1
    <3>3. SubSeq(v, g + 2, h) = Decimal[P]
      <4>1. Tail(SubSeq(v, g + 1, h)) = SubSeq(v, g + 2, h)
        BY <1>14, <1>16, <3>2, TailOfSlice
      <4> QED
        BY <1>19, <3>1, <4>1
    <3>4. Stoi(Decimal[P]) = P
      BY <1>5, DecimalRead
    <3>5. g # h
      BY <1>14, <1>16, <3>2
    <3> QED
      BY <2>1, <2>3, <3>3, <3>4, <3>5
  <2> QED
    BY <2>2, <2>3
<1>23. UseHttps(v) = UseHttps(u) /\ DefaultPort(v) = DefaultPort(u)
    BY <1>20 DEF UseHttps, DefaultPort, scheme
<1>24. PortUsed(v) = P
    BY <1>5, <1>22, <1>23 DEF PortUsed, P
<1>25. HostHeader(v) = HostHeader(u)
    BY <1>20, <1>23, <1>24 DEF HostHeader, host, P
<1> QED
    BY <1>20, <1>21, <1>23, <1>24, <1>25 DEF Request, host, path, P

(* The Host header and the target say where a request was sent: whatever   *)
(* URL it was made from, they make a URL for the same request.             *)
THEOREM HostHeaderNamesItsEndpoint == Spec => []HostHeaderNamesEndpoint
<1>1. UrlType => HostHeaderNamesEndpoint
  <2> SUFFICES ASSUME UrlType, ~Throws(url),
                      NEW v, v = ParseUrl(url).scheme \o <<":", "/", "/">> \o HostHeader(url)
                                     \o ParseUrl(url).path
               PROVE  ~Throws(v) /\ Request(v) = Request(url)
    BY DEF HostHeaderNamesEndpoint
  <2>1. url \in Seq(Char)
    BY DEF UrlType
  <2> QED
    BY <2>1, RequestAgain
<1> QED
    BY <1>1, TypedText, PTL

=============================================================================
