--------------------------- MODULE RespFramingProofs --------------------------
(***************************************************************************)
(* What parse makes of a request, for every request: of a whole one, of    *)
(* one with more behind it (BeginningUnderstood, RoundTrip), and of one    *)
(* that is cut short (CutUnderstood); and what follows for a connection    *)
(* (PlainRequestsUnderstood, FirstMessageUnderstood).                      *)
(*                                                                         *)
(* The functions that RedisProtocol defines by recursion stand for         *)
(* themselves only if there are such functions. For each the proofs name   *)
(* what makes f such a function (IsValue, IsNumeral, IsFlat, IsLoop,       *)
(* IsParse), show by induction that one exists, and then work with any     *)
(* one.                                                                    *)
(***************************************************************************)
EXTENDS RespFraming, SequenceTheorems, WellFoundedInduction, TLAPS

\* A set of numbers that is not empty has a least one.
LEMMA LeastNumber ==
  ASSUME NEW T, T \subseteq Nat, T # {}
  PROVE  \E x \in T : \A y \in T : x <= y
<1> DEFINE R == OpToRel(<, Nat)
<1>1. IsWellFoundedOn(R, Nat)
  BY NatLessThanWellFounded, Zenon
<1> HIDE DEF R
<1>2. PICK x \in T : \A y \in T : ~(<<y, x>> \in R)
  BY <1>1, WFMin
<1>3. \A y \in T : ~(y < x)
  BY <1>2, Zenon DEF R, OpToRel
<1> QED BY <1>3

\* Induction, over a set of numbers in place of a predicate.
LEMMA Induction ==
  ASSUME NEW S, 0 \in S, \A n \in Nat : n \in S => n + 1 \in S
  PROVE  Nat \subseteq S
<1> SUFFICES ASSUME ~(Nat \subseteq S) PROVE FALSE
  OBVIOUS
<1> DEFINE T == Nat \ S
<1>1. T \subseteq Nat /\ T # {}
  OBVIOUS
<1> HIDE DEF T
<1>2. PICK x \in T : \A y \in T : x <= y
  BY <1>1, LeastNumber
<1>3. x \in Nat /\ x \notin S /\ x # 0
  BY <1>2 DEF T
<1>4. x - 1 \in Nat /\ x - 1 \notin T
  BY <1>2, <1>3
<1> QED BY <1>3, <1>4 DEF T

-------------------------------------------------------------------------------
(***************************************************************************)
(* Numerals: stoll reads what to_string writes.                            *)
(***************************************************************************)
DigitChars == {Digits[k + 1] : k \in 0 .. 9}

\* The characters of messages.
Chars == STRING \cup DigitChars \cup {"-", "CR", "LF", "$", ":", "*"}

\* A digit has its value, and is neither a sign nor the end of a line.
LEMMA DigitFacts ==
  /\ \A k \in 0 .. 9 : /\ Digits[k + 1] \in DigitChars
                       /\ DigitValue(Digits[k + 1]) = k
  /\ \A c \in DigitChars : IsDigit(c) /\ c # "-" /\ c # "CR"
<1>1. ASSUME NEW k \in 0 .. 9 PROVE DigitValue(Digits[k + 1]) = k
  <2>1. \A e \in 0 .. 9 : Digits[e + 1] = Digits[k + 1] => e = k
    BY DEF Digits
  <2> QED BY <2>1 DEF DigitValue
<1>2. \A k \in 0 .. 9 : Digits[k + 1] \in DigitChars
  BY DEF DigitChars
<1>3. \A k \in 0 .. 9 : Digits[k + 1] # "-" /\ Digits[k + 1] # "CR"
  BY DEF Digits
<1>4. \A c \in DigitChars : IsDigit(c) /\ c # "-" /\ c # "CR"
  BY <1>3 DEF DigitChars, IsDigit
<1> QED BY <1>1, <1>2, <1>4

\* v is the value of the first i characters of u, for i up to m.
IsValue(v, u, m) ==
  v = [i \in 0 .. m |-> IF i = 0 THEN 0 ELSE 10 * v[i - 1] + DigitValue(u[i])]

LEMMA ValueExists ==
  ASSUME NEW u, NEW m \in Nat
  PROVE  \E v : IsValue(v, u, m)
<1> DEFINE S == {n \in Nat : \E v : IsValue(v, u, n)}
<1>1. 0 \in S
  <2> DEFINE v == [i \in 0 .. 0 |-> 0]
  <2>1. IsValue(v, u, 0)
    BY DEF IsValue
  <2> QED BY <2>1
<1>2. ASSUME NEW n \in Nat, n \in S PROVE n + 1 \in S
  <2>1. PICK v : IsValue(v, u, n)
    BY <1>2
  <2> DEFINE w == [i \in 0 .. n + 1 |->
                     IF i = n + 1 THEN 10 * v[n] + DigitValue(u[n + 1]) ELSE v[i]]
  <2>2. w = [i \in 0 .. n + 1 |-> IF i = 0 THEN 0 ELSE 10 * w[i - 1] + DigitValue(u[i])]
    <3>1. \A i \in 0 .. n : v[i] = IF i = 0 THEN 0 ELSE 10 * v[i - 1] + DigitValue(u[i])
      BY <2>1 DEF IsValue
    <3>2. ASSUME NEW i \in 0 .. n + 1
          PROVE  w[i] = IF i = 0 THEN 0 ELSE 10 * w[i - 1] + DigitValue(u[i])
      BY <3>1, <3>2
    <3> QED BY <3>2
  <2>3. IsValue(w, u, n + 1)
    BY <2>2, Zenon DEF IsValue
  <2> QED BY <2>3
<1> HIDE DEF S
<1>3. Nat \subseteq S
  BY <1>1, <1>2, Induction
<1> QED BY <1>3 DEF S

\* u is a numeral for k.
Reads(u, k) ==
  /\ u \in Seq(DigitChars) /\ Len(u) >= 1
  /\ \A v : IsValue(v, u, Len(u)) => v[Len(u)] = k

\* A digit is a numeral for its value.
LEMMA ReadsDigit ==
  ASSUME NEW k \in 0 .. 9
  PROVE  Reads(<<Digits[k + 1]>>, k)
<1> DEFINE u == <<Digits[k + 1]>>
<1>1. u \in Seq(DigitChars) /\ Len(u) = 1 /\ u[1] = Digits[k + 1]
  BY DigitFacts
<1>2. ASSUME NEW v, IsValue(v, u, 1) PROVE v[1] = k
  <2>1. v[0] = 0 /\ v[1] = 10 * v[0] + DigitValue(u[1])
    BY <1>2 DEF IsValue
  <2> QED BY <2>1, <1>1, DigitFacts
<1> QED BY <1>1, <1>2 DEF Reads

\* A digit behind a numeral makes the numeral for ten times its number and the
\* digit.
LEMMA ReadsAppend ==
  ASSUME NEW u, NEW k \in Nat, Reads(u, k), NEW j \in 0 .. 9
  PROVE  Reads(Append(u, Digits[j + 1]), 10 * k + j)
<1> DEFINE c == Digits[j + 1]
           t == Append(u, c)
           m == Len(u)
<1>1. c \in DigitChars /\ DigitValue(c) = j
  BY DigitFacts
<1> HIDE DEF c
<1>2. u \in Seq(DigitChars) /\ m \in Nat /\ m >= 1
  BY DEF Reads
<1>3. /\ t \in Seq(DigitChars) /\ Len(t) = m + 1
      /\ t[m + 1] = c /\ \A i \in 1 .. m : t[i] = u[i]
  BY <1>1, <1>2
<1>4. ASSUME NEW v, IsValue(v, t, m + 1) PROVE v[m + 1] = 10 * k + j
  <2> HIDE DEF t, m
  <2>1. \A i \in 0 .. m + 1 : v[i] = IF i = 0 THEN 0 ELSE 10 * v[i - 1] + DigitValue(t[i])
    BY <1>4, <1>2 DEF IsValue
  <2> DEFINE w == [i \in 0 .. m |-> v[i]]
  <2>2. \A i \in 0 .. m : w[i] = IF i = 0 THEN 0 ELSE 10 * w[i - 1] + DigitValue(u[i])
    <3> SUFFICES ASSUME NEW i \in 0 .. m
                 PROVE  w[i] = IF i = 0 THEN 0 ELSE 10 * w[i - 1] + DigitValue(u[i])
      OBVIOUS
    <3>1. CASE i = 0
      BY <2>1, <3>1, <1>2
    <3>2. CASE i # 0
      <4>1. i \in 0 .. m + 1 /\ i - 1 \in 0 .. m /\ i \in 1 .. m
        BY <3>2, <1>2
      <4>2. v[i] = 10 * v[i - 1] + DigitValue(t[i])
        BY <4>1, <2>1, <3>2
      <4> QED BY <4>1, <4>2, <1>3, <3>2
    <3> QED BY <3>1, <3>2
  <2>3. w = [i \in 0 .. m |-> IF i = 0 THEN 0 ELSE 10 * w[i - 1] + DigitValue(u[i])]
    BY <2>2
  <2>4. IsValue(w, u, m)
    BY <2>3, Zenon DEF IsValue
  <2>5. w[m] = k
    BY <2>4 DEF Reads, m
  <2>6. v[m] = k
    BY <2>5, <1>2
  <2>7. v[m + 1] = 10 * v[m] + DigitValue(t[m + 1])
    BY <2>1, <1>2
  <2> QED BY <2>6, <2>7, <1>3, <1>1
<1> HIDE DEF t, m
<1>5. Reads(t, 10 * k + j)
  <2>1. Len(t) >= 1
    BY <1>2, <1>3
  <2> QED BY <2>1, <1>3, <1>4, Zenon DEF Reads
<1> QED BY <1>5 DEF t, c

\* f[k] is what to_string makes of k, for k up to n.
IsNumeral(f, n) ==
  f = [k \in 0 .. n |-> IF k < 10 THEN <<Digits[k + 1]>>
                        ELSE Append(f[k \div 10], Digits[(k % 10) + 1])]

LEMMA NumeralExists ==
  ASSUME NEW m \in Nat
  PROVE  \E f : IsNumeral(f, m)
<1> DEFINE S == {n \in Nat : \E f : IsNumeral(f, n)}
<1>1. 0 \in S
  <2> DEFINE f == [k \in 0 .. 0 |-> <<Digits[k + 1]>>]
  <2>1. IsNumeral(f, 0)
    BY DEF IsNumeral
  <2> QED BY <2>1
<1>2. ASSUME NEW n \in Nat, n \in S PROVE n + 1 \in S
  <2>1. PICK f : IsNumeral(f, n)
    BY <1>2
  <2> DEFINE Step(g, k) == IF k < 10 THEN <<Digits[k + 1]>>
                           ELSE Append(g[k \div 10], Digits[(k % 10) + 1])
             w == [k \in 0 .. n + 1 |-> IF k = n + 1 THEN Step(f, k) ELSE f[k]]
  <2>2. \A k \in 0 .. n : f[k] = Step(f, k)
    BY <2>1 DEF IsNumeral
  <2>3. ASSUME NEW k \in 0 .. n + 1 PROVE w[k] = Step(w, k)
    <3>1. k >= 10 => k \div 10 \in 0 .. n
      BY <2>3
    <3>2. k >= 10 => w[k \div 10] = f[k \div 10]
      BY <3>1
    <3>3. w[k] = Step(f, k)
      BY <2>2
    <3> QED BY <3>2, <3>3
  <2>4. w = [k \in 0 .. n + 1 |-> Step(w, k)]
    BY <2>3
  <2>5. IsNumeral(w, n + 1)
    BY <2>4, Zenon DEF IsNumeral
  <2> QED BY <2>5
<1> HIDE DEF S
<1>3. Nat \subseteq S
  BY <1>1, <1>2, Induction
<1> QED BY <1>3 DEF S

\* What to_string makes of n is a numeral for n.
LEMMA NumeralReads ==
  ASSUME NEW n \in Nat
  PROVE  Reads(Numeral(n), n)
<1> DEFINE f == CHOOSE g : IsNumeral(g, n)
<1>1. IsNumeral(f, n)
  BY NumeralExists, Zenon
<1>2. Numeral(n) = f[n]
  BY DEF Numeral, IsNumeral
<1> HIDE DEF f
<1>3. \A k \in 0 .. n : f[k] = IF k < 10 THEN <<Digits[k + 1]>>
                               ELSE Append(f[k \div 10], Digits[(k % 10) + 1])
  BY <1>1 DEF IsNumeral
<1> DEFINE T == {k \in 0 .. n : ~Reads(f[k], k)}
<1>4. T = {}
  <2> SUFFICES ASSUME T # {} PROVE FALSE
    OBVIOUS
  <2>1. T \subseteq Nat
    OBVIOUS
  <2> HIDE DEF T
  <2>2. PICK x \in T : \A y \in T : x <= y
    BY <2>1, LeastNumber
  <2>3. x \in 0 .. n /\ ~Reads(f[x], x)
    BY <2>2 DEF T
  <2>4. CASE x < 10
    BY <2>3, <2>4, <1>3, ReadsDigit
  <2>5. CASE x >= 10
    <3> DEFINE q == x \div 10
               r == x % 10
    <3>1. q \in 0 .. n /\ q < x /\ r \in 0 .. 9 /\ x = 10 * q + r
      BY <2>3, <2>5
    <3>2. f[x] = Append(f[q], Digits[r + 1])
      <4>1. ~(x < 10)
        BY <2>3, <2>5
      <4> QED BY <4>1, <2>3, <1>3, Zenon
    <3> HIDE DEF q, r
    <3>3. Reads(f[q], q)
      BY <3>1, <2>2 DEF T
    <3>4. Reads(Append(f[q], Digits[r + 1]), 10 * q + r)
      <4>1. q \in Nat
        BY <3>1
      <4> QED BY <4>1, <3>1, <3>3, ReadsAppend, Zenon
    <3> QED BY <3>1, <3>2, <3>4, <2>3
  <2> QED BY <2>3, <2>4, <2>5
<1> QED BY <1>4, <1>2

\* stoll reads a numeral as its number.
LEMMA StollReads ==
  ASSUME NEW s, NEW k \in Nat, Reads(Unsigned(s), k)
  PROVE  IsNumber(s) /\ Stoll(s) = IF s[1] = "-" THEN -k ELSE k
<1> DEFINE u == Unsigned(s)
           End(e) == /\ \A i \in 1 .. e : IsDigit(u[i])
                     /\ e < Len(u) => ~IsDigit(u[e + 1])
           end == CHOOSE e \in 0 .. Len(u) : End(e)
           v == CHOOSE w : IsValue(w, u, end)
<1>1. Stoll(s) = IF s[1] = "-" THEN -v[end] ELSE v[end]
  BY DEF Stoll, IsValue
<1> HIDE DEF u
<1>2. u \in Seq(DigitChars) /\ Len(u) \in Nat /\ Len(u) >= 1
  BY DEF Reads, u
<1>3. \A i \in 1 .. Len(u) : IsDigit(u[i])
  BY <1>2, DigitFacts
<1>4. IsNumber(s)
  BY <1>2, <1>3 DEF IsNumber, u
<1>5. \A e \in 0 .. Len(u) : End(e) => e = Len(u)
  BY <1>2, <1>3
<1>6. End(Len(u)) /\ Len(u) \in 0 .. Len(u)
  BY <1>2, <1>3
<1> HIDE DEF End
<1>7. end = Len(u)
  BY <1>5, <1>6
<1> HIDE DEF end
<1>8. IsValue(v, u, Len(u))
  BY <1>7, <1>2, ValueExists, Zenon
<1>9. v[end] = k
  BY <1>7, <1>8, Zenon DEF Reads, u
<1> QED BY <1>1, <1>4, <1>9

\* A number with its sign: to_string writes no end of a line, and stoll reads it
\* back.
LEMMA DecimalFacts ==
  ASSUME NEW n \in Int
  PROVE  /\ Decimal(n) \in Seq(Chars)
         /\ \A i \in 1 .. Len(Decimal(n)) : Decimal(n)[i] # "CR"
         /\ IsNumber(Decimal(n)) /\ Stoll(Decimal(n)) = n
<1> DEFINE k == IF n < 0 THEN -n ELSE n
           u == Numeral(k)
<1>1. k \in Nat
  OBVIOUS
<1>2. Reads(u, k)
  BY <1>1, NumeralReads
<1>3. Decimal(n) = IF n < 0 THEN <<"-">> \o u ELSE u
  BY DEF Decimal
<1> HIDE DEF u
<1>4. u \in Seq(DigitChars) /\ Len(u) >= 1
  BY <1>2 DEF Reads
<1>5. u \in Seq(Chars)
  BY <1>4, SeqMonotonic DEF Chars
<1>6. \A i \in 1 .. Len(u) : u[i] # "CR" /\ u[i] # "-"
  BY <1>4, DigitFacts
<1>7. CASE n < 0
  <2> DEFINE s == <<"-">> \o u
  <2>1. <<"-">> \in Seq(Chars)
    BY DEF Chars
  <2>2. /\ s \in Seq(Chars) /\ Len(s) = Len(u) + 1 /\ s[1] = "-"
        /\ \A i \in 2 .. Len(u) + 1 : s[i] = u[i - 1]
    BY <2>1, <1>5
  <2> HIDE DEF s
  <2>3. /\ s # <<>> /\ Tail(s) \in Seq(Chars) /\ Len(Tail(s)) = Len(u)
        /\ \A i \in 1 .. Len(u) : Tail(s)[i] = u[i]
    BY <2>2, <1>5
  <2>4. Tail(s) = u
    BY <2>3, <1>5, SeqEqual
  <2>5. Unsigned(s) = u
    BY <2>2, <2>3, <2>4 DEF Unsigned
  <2>6. IsNumber(s) /\ Stoll(s) = n
    BY <2>5, <2>2, <1>1, <1>2, <1>7, StollReads
  <2>7. \A i \in 1 .. Len(s) : s[i] # "CR"
    BY <2>2, <1>6, <1>5
  <2>8. Decimal(n) = s
    BY <1>3, <1>7 DEF s
  <2> QED BY <2>2, <2>6, <2>7, <2>8
<1>8. CASE ~(n < 0)
  <2>1. Unsigned(u) = u /\ u[1] # "-"
    BY <1>4, <1>6 DEF Unsigned
  <2>2. IsNumber(u) /\ Stoll(u) = n
    BY <2>1, <1>1, <1>2, <1>8, StollReads
  <2> QED BY <2>2, <1>3, <1>5, <1>6, <1>8
<1> QED BY <1>7, <1>8

-------------------------------------------------------------------------------
(***************************************************************************)
(* Texts within a message: lines, strings, integers.                       *)
(***************************************************************************)
\* The text s stands in d at position p.
Stands(d, p, s) ==
  /\ p \in Nat \ {0} /\ s \in Seq(Chars) /\ p - 1 + Len(s) <= Len(d)
  /\ \A i \in 1 .. Len(s) : d[p - 1 + i] = s[i]

\* Of two texts that stand one behind the other each stands at its place.
LEMMA StandsConcat ==
  ASSUME NEW d \in Seq(Chars), NEW p, NEW s \in Seq(Chars), NEW t \in Seq(Chars),
         Stands(d, p, s \o t)
  PROVE  Stands(d, p, s) /\ Stands(d, p + Len(s), t)
<1> DEFINE c == s \o t
<1>1. /\ Len(c) = Len(s) + Len(t) /\ Len(s) \in Nat /\ Len(t) \in Nat /\ Len(d) \in Nat
      /\ \A i \in 1 .. Len(s) : c[i] = s[i]
      /\ \A i \in 1 .. Len(t) : c[Len(s) + i] = t[i]
  OBVIOUS
<1> HIDE DEF c
<1>2. /\ p \in Nat \ {0} /\ p - 1 + Len(c) <= Len(d)
      /\ \A i \in 1 .. Len(c) : d[p - 1 + i] = c[i]
  BY DEF Stands, c
<1>3. Stands(d, p, s)
  BY <1>1, <1>2 DEF Stands
<1>4. ASSUME NEW i \in 1 .. Len(t) PROVE d[p + Len(s) - 1 + i] = t[i]
  <2>1. Len(s) + i \in 1 .. Len(c) /\ p - 1 + (Len(s) + i) = p + Len(s) - 1 + i
    BY <1>1, <1>2
  <2> QED BY <2>1, <1>1, <1>2
<1>5. Stands(d, p + Len(s), t)
  BY <1>1, <1>2, <1>4 DEF Stands
<1> QED BY <1>3, <1>5

\* substr takes a text out of the message where it stands.
LEMMA SubSeqStands ==
  ASSUME NEW d \in Seq(Chars), NEW p, NEW s \in Seq(Chars), Stands(d, p, s)
  PROVE  SubSeq(d, p, p + Len(s) - 1) = s
<1> DEFINE t == SubSeq(d, p, p + Len(s) - 1)
<1>1. /\ p \in Nat \ {0} /\ p - 1 + Len(s) <= Len(d) /\ Len(s) \in Nat /\ Len(d) \in Nat
      /\ \A i \in 1 .. Len(s) : d[p - 1 + i] = s[i]
  BY DEF Stands
<1>2. \A i \in p .. p + Len(s) - 1 : d[i] \in Chars
  BY <1>1
<1>3. /\ t \in Seq(Chars) /\ Len(t) = Len(s)
      /\ \A i \in 1 .. Len(s) : t[i] = d[p + i - 1]
  <2> DEFINE q == p + Len(s) - 1
  <2>1. /\ p \in Int /\ q \in Int /\ q - p + 1 = Len(s) /\ (p <= q \/ Len(s) = 0)
        /\ \A i \in p .. q : d[i] \in Chars
    BY <1>1, <1>2
  <2> HIDE DEF q
  <2>2. /\ SubSeq(d, p, q) \in Seq(Chars)
        /\ Len(SubSeq(d, p, q)) = IF p <= q THEN q - p + 1 ELSE 0
        /\ \A i \in 1 .. q - p + 1 : SubSeq(d, p, q)[i] = d[p + i - 1]
    <3>1. p \in Int /\ q \in Int /\ \A i \in p .. q : d[i] \in Chars
      BY <2>1
    <3> QED BY ONLY <3>1, SubSeqProperties, SMT
  <2>3. t = SubSeq(d, p, q)
    BY DEF q
  <2> HIDE DEF t
  <2>4. Len(t) = Len(s)
    BY <2>1, <2>2, <2>3
  <2> QED BY <2>1, <2>2, <2>3, <2>4
<1> HIDE DEF t
<1>4. \A i \in 1 .. Len(s) : t[i] = s[i]
  BY <1>1, <1>3
<1>5. t = s
  BY <1>3, <1>4, SeqEqual
<1> QED BY <1>5 DEF t

LEMMA CRLFFacts == CRLF \in Seq(Chars) /\ Len(CRLF) = 2 /\ CRLF[1] = "CR" /\ CRLF[2] = "LF"
  BY DEF CRLF, Chars

LEMMA LineFacts ==
  ASSUME NEW s \in Seq(Chars)
  PROVE  s \o CRLF \in Seq(Chars) /\ Len(s \o CRLF) = Len(s) + 2
<1>1. s \o CRLF \in Seq(Chars) /\ Len(s \o CRLF) = Len(s) + Len(CRLF)
  BY CRLFFacts, ConcatProperties, Zenon
<1> QED BY <1>1, CRLFFacts, Zenon

\* A line without a CR in it is read up to the CR LF behind it.
LEMMA ReadLineStands ==
  ASSUME NEW d \in Seq(Chars), NEW p, NEW s \in Seq(Chars), Stands(d, p, s \o CRLF),
         \A i \in 1 .. Len(s) : s[i] # "CR"
  PROVE  ReadLine(d, p) = <<s, p + Len(s) + 2>> /\ p + Len(s) + 2 \in Nat
<1> DEFINE e == p + Len(s)
           IsEnd(i) == /\ \A j \in p .. i - 1 : d[j] # "CR"
                       /\ i <= Len(d) => d[i] = "CR"
           cr == CHOOSE i \in p .. Len(d) + 1 : IsEnd(i)
<1>1. Stands(d, p, s) /\ Stands(d, e, CRLF)
  BY StandsConcat, CRLFFacts
<1>2. /\ p \in Nat \ {0} /\ e \in Nat /\ Len(s) \in Nat /\ Len(d) \in Nat /\ e + 1 <= Len(d)
      /\ d[e] = "CR" /\ d[e + 1] = "LF"
  BY <1>1, CRLFFacts DEF Stands
<1>3. \A j \in p .. e - 1 : d[j] # "CR"
  <2> SUFFICES ASSUME NEW j \in p .. e - 1 PROVE d[j] # "CR"
    OBVIOUS
  <2>1. j - p + 1 \in 1 .. Len(s) /\ p - 1 + (j - p + 1) = j
    BY <1>2
  <2> QED BY <2>1, <1>1 DEF Stands
<1>4. e \in p .. Len(d) + 1 /\ IsEnd(e)
  BY <1>2, <1>3
<1>5. \A i \in p .. Len(d) + 1 : IsEnd(i) => i = e
  BY <1>2, <1>3
<1>6. ReadLine(d, p) = <<SubSeq(d, p, cr - 1),
                      IF cr < Len(d) /\ d[cr + 1] = "LF" THEN cr + 2 ELSE cr>>
  BY DEF ReadLine
<1>7. SubSeq(d, p, e - 1) = s
  <2>1. SubSeq(d, p, p + Len(s) - 1) = s
    BY <1>1, SubSeqStands, Zenon
  <2>2. e - 1 = p + Len(s) - 1
    BY <1>2
  <2> QED BY <2>1, <2>2, Zenon
<1> HIDE DEF IsEnd, e
<1>8. cr = e
  BY <1>4, <1>5
<1> HIDE DEF cr
<1>9. ReadLine(d, p) = <<s, e + 2>>
  BY <1>2, <1>6, <1>7, <1>8
<1> QED BY <1>9, <1>2 DEF e

\* Bulk strings and integers, and what parse makes of one.
PlainScalar == ({"string"} \X Seq(STRING)) \cup ({"integer"} \X Int)
BulkScalar == {"string"} \X Seq(STRING)
Item(v) == IF v[1] = "string" THEN String(v[2]) ELSE Integer(v[2])

LEMMA PlainCases ==
  ASSUME NEW v \in PlainScalar
  PROVE  \/ v = <<"string", v[2]>> /\ v[1] = "string" /\ v[2] \in Seq(Chars)
         \/ v = <<"integer", v[2]>> /\ v[1] = "integer" /\ v[2] \in Int
<1>1. CASE v \in {"string"} \X Seq(STRING)
  <2>1. v = <<"string", v[2]>> /\ v[1] = "string" /\ v[2] \in Seq(STRING)
    BY <1>1
  <2>2. STRING \subseteq Chars
    BY DEF Chars
  <2>3. v[2] \in Seq(Chars)
    BY <2>1, <2>2, SeqMonotonic
  <2> QED BY <2>1, <2>3
<1>2. CASE v \in {"integer"} \X Int
  BY <1>2
<1> QED BY <1>1, <1>2 DEF PlainScalar

\* A bulk string is its sign, its header and its text.
LEMMA BulkParts ==
  ASSUME NEW s \in Seq(Chars)
  PROVE  LET head == Decimal(Len(s)) \o CRLF
             tail == s \o CRLF
         IN  /\ <<"$">> \in Seq(Chars) /\ Len(<<"$">>) = 1 /\ <<"$">>[1] = "$"
             /\ head \in Seq(Chars) /\ tail \in Seq(Chars) /\ head \o tail \in Seq(Chars)
             /\ Len(head) = Len(Decimal(Len(s))) + 2 /\ Len(tail) = Len(s) + 2
             /\ CreateBulkString(s) = <<"$">> \o (head \o tail)
<1> DEFINE n == Len(s)
           dec == Decimal(n)
           head == dec \o CRLF
           tail == s \o CRLF
<1>1. n \in Nat /\ dec \in Seq(Chars)
  BY DecimalFacts
<1> HIDE DEF dec, n
<1>2. <<"$">> \in Seq(Chars) /\ Len(<<"$">>) = 1 /\ <<"$">>[1] = "$"
  BY DEF Chars
<1>3. head \in Seq(Chars) /\ tail \in Seq(Chars) /\ head \o tail \in Seq(Chars)
      /\ Len(head) = Len(dec) + 2 /\ Len(tail) = n + 2
  <2>1. head \in Seq(Chars) /\ Len(head) = Len(dec) + 2
    BY <1>1, LineFacts
  <2>2. tail \in Seq(Chars) /\ Len(tail) = n + 2
    BY LineFacts DEF n
  <2> HIDE DEF head, tail
  <2> QED BY <2>1, <2>2, ConcatProperties
<1>4. CreateBulkString(s) = <<"$">> \o (head \o tail)
  <2>1. CreateBulkString(s) = <<"$">> \o dec \o CRLF \o s \o CRLF
    BY DEF CreateBulkString, dec, n
  <2>2. <<"$">> \o dec \in Seq(Chars) /\ <<"$">> \o dec \o CRLF \in Seq(Chars)
    BY <1>1, <1>2, CRLFFacts
  <2>3. <<"$">> \o dec \o CRLF \o s \o CRLF = (<<"$">> \o dec \o CRLF) \o tail
    BY <2>2, CRLFFacts, ConcatAssociative
  <2>4. <<"$">> \o dec \o CRLF = <<"$">> \o head
    BY <1>1, <1>2, CRLFFacts, ConcatAssociative
  <2>5. (<<"$">> \o head) \o tail = <<"$">> \o (head \o tail)
    BY <1>2, <1>3, ConcatAssociative
  <2> QED BY <2>1, <2>3, <2>4, <2>5
<1> HIDE DEF head, tail
<1> QED BY <1>2, <1>3, <1>4 DEF head, tail, dec, n

\* A bulk string in a message is read as it is.
LEMMA BulkStringStands ==
  ASSUME NEW d \in Seq(Chars), NEW p, NEW s \in Seq(Chars), Stands(d, p, CreateBulkString(s))
  PROVE  d[p] = "$" /\ ParseBulkString(d, p) = String(s)
<1> DEFINE n == Len(s)
           dec == Decimal(n)
           head == dec \o CRLF
           tail == s \o CRLF
           q == p + 1 + Len(dec) + 2
<1>1. n \in Nat /\ dec \in Seq(Chars) /\ (\A i \in 1 .. Len(dec) : dec[i] # "CR")
      /\ IsNumber(dec) /\ Stoll(dec) = n
  BY DecimalFacts
<1>2. <<"$">> \in Seq(Chars) /\ Len(<<"$">>) = 1 /\ <<"$">>[1] = "$"
  BY BulkParts
<1>3. /\ head \in Seq(Chars) /\ tail \in Seq(Chars) /\ head \o tail \in Seq(Chars)
      /\ Len(head) = Len(dec) + 2
  BY BulkParts
<1>4. CreateBulkString(s) = <<"$">> \o (head \o tail)
  BY BulkParts
<1> HIDE DEF dec, n
<1>5. Stands(d, p, <<"$">>) /\ Stands(d, p + 1, head \o tail)
  BY <1>2, <1>3, <1>4, StandsConcat
<1>6. Stands(d, p + 1, head) /\ Stands(d, p + 1 + Len(head), tail)
  BY <1>3, <1>5, StandsConcat
<1>7. d[p] = "$" /\ p \in Nat
  BY <1>5, <1>2 DEF Stands
<1>8. ReadLine(d, p + 1) = <<dec, (p + 1) + Len(dec) + 2>>
  BY <1>1, <1>6, ReadLineStands
<1>9. Stands(d, q, tail)
  BY <1>3, <1>6, <1>7, <1>1
<1>10. ReadLine(d, p + 1)[1] = dec /\ ReadLine(d, p + 1)[2] = q
  BY <1>8, <1>1, <1>7
<1> HIDE DEF q
<1>11. Stands(d, q, s) /\ q \in Nat /\ Len(tail) = n + 2
  <2>1. Stands(d, q, s)
    BY <1>9, StandsConcat, CRLFFacts
  <2>2. Len(tail) = n + 2
    BY LineFacts DEF n
  <2> QED BY <2>1, <2>2 DEF Stands
<1>12. SubSeq(d, q, q + n - 1) = s
  BY <1>11, SubSeqStands DEF n
<1>13. ~(q - 1 + n + 2 > Len(d))
  BY <1>9, <1>11, <1>1 DEF Stands
<1>14. ~(n < 0)
  BY <1>1
<1> QED BY <1>1, <1>7, <1>10, <1>12, <1>13, <1>14, Zenon DEF ParseBulkString

\* So is an integer.
LEMMA IntegerStands ==
  ASSUME NEW d \in Seq(Chars), NEW p, NEW n \in Int, Stands(d, p, CreateInteger(n))
  PROVE  d[p] = ":" /\ ParseInteger(d, p) = Integer(n)
<1> DEFINE dec == Decimal(n)
           line == dec \o CRLF
<1>1. dec \in Seq(Chars) /\ (\A i \in 1 .. Len(dec) : dec[i] # "CR")
      /\ IsNumber(dec) /\ Stoll(dec) = n
  BY DecimalFacts
<1>2. <<":">> \in Seq(Chars) /\ Len(<<":">>) = 1 /\ <<":">>[1] = ":"
  BY DEF Chars
<1>3. line \in Seq(Chars)
  BY <1>1, LineFacts
<1>4. CreateInteger(n) = <<":">> \o line
  BY <1>1, <1>2, CRLFFacts, ConcatAssociative DEF CreateInteger
<1> HIDE DEF dec
<1>5. Stands(d, p, <<":">>) /\ Stands(d, p + 1, line)
  BY <1>2, <1>3, <1>4, StandsConcat
<1>6. d[p] = ":" /\ p \in Nat
  BY <1>5, <1>2 DEF Stands
<1>7. ReadLine(d, p + 1)[1] = dec
  BY <1>1, <1>5, ReadLineStands
<1> QED BY <1>1, <1>6, <1>7, Zenon DEF ParseInteger

\* serialize gives back the text that an element has in the message.
LEMMA ItemFacts ==
  ASSUME NEW v \in PlainScalar
  PROVE  /\ EncodeElement(v) = Item(v).serialized
         /\ EncodeElement(v) \in Seq(Chars) /\ Len(EncodeElement(v)) > 0
         /\ Item(v).value = v /\ Item(v) # Null
<1>1. CASE v = <<"string", v[2]>> /\ v[1] = "string" /\ v[2] \in Seq(Chars)
  <2>1. EncodeElement(v) = CreateBulkString(v[2])
    BY <1>1 DEF EncodeElement, EncodeScalar, CreateBulkString
  <2>2. Item(v).serialized = CreateBulkString(v[2]) /\ Item(v).value = v
    BY <1>1 DEF Item, String
  <2>3. CreateBulkString(v[2]) \in Seq(Chars) /\ Len(CreateBulkString(v[2])) > 0
    <3> DEFINE dec == Decimal(Len(v[2]))
    <3>1. dec \in Seq(Chars)
      BY <1>1, DecimalFacts
    <3>2. <<"$">> \in Seq(Chars) /\ Len(<<"$">>) = 1
      BY DEF Chars
    <3> HIDE DEF dec
    <3>3. <<"$">> \o dec \in Seq(Chars)
      BY <3>1, <3>2
    <3>4. <<"$">> \o dec \o CRLF \in Seq(Chars)
      BY <3>3, LineFacts
    <3>5. <<"$">> \o dec \o CRLF \o v[2] \in Seq(Chars)
      BY <3>4, <1>1
    <3> DEFINE body == <<"$">> \o dec \o CRLF \o v[2]
    <3>6. CreateBulkString(v[2]) = body \o CRLF
      BY DEF CreateBulkString, dec
    <3>7. body \in Seq(Chars)
      BY <3>5
    <3> HIDE DEF body
    <3>8. body \o CRLF \in Seq(Chars) /\ Len(body \o CRLF) = Len(body) + 2 /\ Len(body) \in Nat
      BY <3>7, LineFacts
    <3> QED BY <3>6, <3>8
  <2>4. <<"null">> # v
    BY <1>1
  <2> QED BY <2>1, <2>2, <2>3, <2>4 DEF Null
<1>2. CASE v = <<"integer", v[2]>> /\ v[1] = "integer" /\ v[2] \in Int
  <2>1. EncodeElement(v) = CreateInteger(v[2])
    BY <1>2 DEF EncodeElement, EncodeScalar, CreateInteger
  <2>2. Item(v).serialized = CreateInteger(v[2]) /\ Item(v).value = v
    BY <1>2 DEF Item, Integer
  <2>3. CreateInteger(v[2]) \in Seq(Chars) /\ Len(CreateInteger(v[2])) > 0
    <3> DEFINE dec == Decimal(v[2])
    <3>1. dec \in Seq(Chars)
      BY <1>2, DecimalFacts
    <3>2. <<":">> \in Seq(Chars) /\ Len(<<":">>) = 1
      BY DEF Chars
    <3> HIDE DEF dec
    <3>3. <<":">> \o dec \in Seq(Chars)
      BY <3>1, <3>2
    <3>4. CreateInteger(v[2]) = (<<":">> \o dec) \o CRLF
      BY DEF CreateInteger, dec
    <3> QED BY <3>3, <3>4, LineFacts
  <2>4. <<"null">> # v
    BY <1>2
  <2> QED BY <2>1, <2>2, <2>3, <2>4 DEF Null
<1> QED BY <1>1, <1>2, PlainCases

\* An element in a message is parsed as it is, whatever parse makes of arrays.
LEMMA ItemParsed ==
  ASSUME NEW d \in Seq(Chars), NEW p, NEW v \in PlainScalar, Stands(d, p, EncodeElement(v)),
         NEW parse
  PROVE  p \in 1 .. Len(d) /\ ParseAt(d, parse)[p] = Item(v)
<1>1. p \in 1 .. Len(d)
  BY ItemFacts DEF Stands
<1>2. CASE v = <<"string", v[2]>> /\ v[1] = "string" /\ v[2] \in Seq(Chars)
  <2>1. EncodeElement(v) = CreateBulkString(v[2])
    BY <1>2 DEF EncodeElement, EncodeScalar, CreateBulkString
  <2>2. d[p] = "$" /\ ParseBulkString(d, p) = String(v[2])
    BY <1>2, <2>1, BulkStringStands
  <2>3. ParseAt(d, parse)[p] = ParseBulkString(d, p)
    BY <1>1, <2>2 DEF ParseAt
  <2> QED BY <1>1, <1>2, <2>2, <2>3 DEF Item
<1>3. CASE v = <<"integer", v[2]>> /\ v[1] = "integer" /\ v[2] \in Int
  <2>1. EncodeElement(v) = CreateInteger(v[2])
    BY <1>3 DEF EncodeElement, EncodeScalar, CreateInteger
  <2>2. d[p] = ":" /\ ParseInteger(d, p) = Integer(v[2])
    BY <1>3, <2>1, IntegerStands
  <2>3. ParseAt(d, parse)[p] = ParseInteger(d, p)
    BY <1>1, <2>2 DEF ParseAt
  <2> QED BY <1>1, <1>3, <2>2, <2>3 DEF Item
<1> QED BY <1>2, <1>3, PlainCases

-------------------------------------------------------------------------------
(***************************************************************************)
(* The elements of an array, one behind the other, and the loop of         *)
(* parseArray.                                                             *)
(***************************************************************************)
\* f[i] is the first i texts of ts in one, for i up to n.
IsFlat(f, ts, n) == f = [i \in 1 .. n |-> IF i = 1 THEN ts[i] ELSE f[i - 1] \o ts[i]]

LEMMA FlatExists ==
  ASSUME NEW ts, NEW m \in Nat
  PROVE  \E f : IsFlat(f, ts, m)
<1> DEFINE S == {n \in Nat : \E f : IsFlat(f, ts, n)}
<1>1. 0 \in S
  <2> DEFINE f == [i \in 1 .. 0 |-> ts[i]]
  <2>1. IsFlat(f, ts, 0)
    BY DEF IsFlat
  <2> QED BY <2>1
<1>2. ASSUME NEW n \in Nat, n \in S PROVE n + 1 \in S
  <2>1. PICK f : IsFlat(f, ts, n)
    BY <1>2
  <2> DEFINE Step(g, i) == IF i = 1 THEN ts[i] ELSE g[i - 1] \o ts[i]
             w == [i \in 1 .. n + 1 |-> IF i = n + 1 THEN Step(f, i) ELSE f[i]]
  <2>2. \A i \in 1 .. n : f[i] = Step(f, i)
    BY <2>1 DEF IsFlat
  <2>3. ASSUME NEW i \in 1 .. n + 1 PROVE w[i] = Step(w, i)
    <3>1. i # 1 => i - 1 \in 1 .. n /\ w[i - 1] = f[i - 1]
      BY <2>3
    <3>2. w[i] = Step(f, i)
      BY <2>2
    <3> QED BY <3>1, <3>2
  <2>4. w = [i \in 1 .. n + 1 |-> Step(w, i)]
    BY <2>3
  <2>5. IsFlat(w, ts, n + 1)
    BY <2>4, Zenon DEF IsFlat
  <2> QED BY <2>5
<1> HIDE DEF S
<1>3. Nat \subseteq S
  BY <1>1, <1>2, Induction
<1> QED BY <1>3 DEF S

\* FlattenSeq goes through the texts from the first on.
LEMMA FlattenFacts ==
  ASSUME NEW C, NEW ts \in Seq(Seq(C)), Len(ts) > 0
  PROVE  \E f : /\ f[1] = ts[1] /\ FlattenSeq(ts) = f[Len(ts)]
                /\ \A i \in 1 .. Len(ts) : f[i] \in Seq(C)
                /\ \A i \in 2 .. Len(ts) : f[i] = f[i - 1] \o ts[i]
<1> DEFINE n == Len(ts)
           f == CHOOSE g : IsFlat(g, ts, n)
<1>1. n \in Nat /\ n > 0 /\ \A i \in 1 .. n : ts[i] \in Seq(C)
  OBVIOUS
<1>2. IsFlat(f, ts, n)
  BY <1>1, FlatExists, Zenon
<1>3. FlattenSeq(ts) = f[n]
  BY <1>1 DEF FlattenSeq, IsFlat
<1> HIDE DEF f, n
<1>4. \A i \in 1 .. n : f[i] = IF i = 1 THEN ts[i] ELSE f[i - 1] \o ts[i]
  BY <1>2 DEF IsFlat
<1> DEFINE T == {i \in 1 .. n : f[i] \notin Seq(C)}
<1>5. T = {}
  <2> SUFFICES ASSUME T # {} PROVE FALSE
    OBVIOUS
  <2>1. T \subseteq Nat
    OBVIOUS
  <2> HIDE DEF T
  <2>2. PICK x \in T : \A y \in T : x <= y
    BY <2>1, LeastNumber
  <2>3. x \in 1 .. n /\ f[x] \notin Seq(C)
    BY <2>2 DEF T
  <2>4. CASE x = 1
    BY <2>3, <2>4, <1>4, <1>1
  <2>5. CASE x # 1
    <3>1. x - 1 \in 1 .. n /\ ~(x <= x - 1)
      BY <2>3, <2>5, <1>1
    <3>2. f[x - 1] \in Seq(C)
      BY <3>1, <2>2 DEF T
    <3>3. f[x] = f[x - 1] \o ts[x] /\ ts[x] \in Seq(C)
      BY <2>3, <2>5, <1>4, <1>1
    <3> QED BY <3>2, <3>3, <2>3, ConcatProperties
  <2> QED BY <2>4, <2>5
<1>6. f[1] = ts[1] /\ \A i \in 2 .. n : f[i] = f[i - 1] \o ts[i]
  <2>1. f[1] = ts[1]
    BY <1>1, <1>4
  <2>2. ASSUME NEW i \in 2 .. n PROVE f[i] = f[i - 1] \o ts[i]
    <3>1. i \in 1 .. n /\ i # 1
      BY <1>1
    <3> QED BY <3>1, <1>4, Zenon
  <2> QED BY <2>1, <2>2
<1>7. \A i \in 1 .. n : f[i] \in Seq(C)
  BY <1>5
<1> QED BY <1>3, <1>6, <1>7 DEF n

\* The first k texts of ts stand in d one behind the other, from pos[0] on.
InRow(d, pos, ts, k) ==
  \A i \in 1 .. k : Stands(d, pos[i - 1], ts[i]) /\ pos[i] = pos[i - 1] + Len(ts[i])

\* f[i] is the first i texts of ts in one.
Flattens(f, ts) ==
  /\ f[1] = ts[1] /\ FlattenSeq(ts) = f[Len(ts)]
  /\ \A i \in 1 .. Len(ts) : f[i] \in Seq(Chars)
  /\ \A i \in 2 .. Len(ts) : f[i] = f[i - 1] \o ts[i]

\* Where the first k texts stand in one, each stands behind the one before it.
LEMMA FlatStands ==
  ASSUME NEW d \in Seq(Chars), NEW p, NEW ts \in Seq(Seq(Chars)), NEW f, Flattens(f, ts),
         NEW k \in 1 .. Len(ts), Stands(d, p, f[k])
  PROVE  \E pos : pos[0] = p /\ pos[k] = p + Len(f[k]) /\ InRow(d, pos, ts, k)
<1>1. /\ k \in Nat /\ k > 0 /\ k \in 1 .. k /\ (\A i \in 1 .. k : ts[i] \in Seq(Chars))
      /\ f[1] = ts[1] /\ (\A i \in 1 .. k : f[i] \in Seq(Chars))
      /\ \A i \in 2 .. k : f[i] = f[i - 1] \o ts[i]
  <2>1. /\ k \in Nat /\ k > 0 /\ k \in 1 .. k /\ k <= Len(ts) /\ Len(ts) \in Nat
        /\ 1 .. k \subseteq 1 .. Len(ts) /\ 2 .. k \subseteq 2 .. Len(ts)
        /\ \A i \in 1 .. Len(ts) : ts[i] \in Seq(Chars)
    OBVIOUS
  <2> QED BY <2>1, Zenon DEF Flattens
<1> DEFINE T == {j \in 0 .. k - 1 : ~Stands(d, p, f[k - j])}
<1>3. T = {}
  <2> SUFFICES ASSUME T # {} PROVE FALSE
    OBVIOUS
  <2>1. T \subseteq Nat
    BY <1>1
  <2> HIDE DEF T
  <2>2. PICK x \in T : \A y \in T : x <= y
    BY <2>1, LeastNumber
  <2>3. x \in 0 .. k - 1 /\ ~Stands(d, p, f[k - x])
    BY <2>2 DEF T
  <2>4. CASE x = 0
    BY <2>3, <2>4, <1>1
  <2>5. CASE x # 0
    <3> DEFINE i == k - x + 1
    <3>1. /\ x - 1 \in 0 .. k - 1 /\ ~(x <= x - 1) /\ k - (x - 1) = i
          /\ i \in 2 .. k /\ i - 1 = k - x /\ i \in 1 .. k /\ i - 1 \in 1 .. k
      BY <2>3, <2>5, <1>1
    <3> HIDE DEF i
    <3>2. Stands(d, p, f[i])
      BY <3>1, <2>2 DEF T
    <3>3. f[i] = f[i - 1] \o ts[i] /\ f[i - 1] \in Seq(Chars) /\ ts[i] \in Seq(Chars)
      BY <3>1, <1>1
    <3>4. Stands(d, p, f[i - 1])
      BY <3>2, <3>3, StandsConcat
    <3> QED BY <3>1, <3>4, <2>3
  <2> QED BY <2>4, <2>5
<1>4. ASSUME NEW i \in 1 .. k PROVE Stands(d, p, f[i])
  <2>1. k - i \in 0 .. k - 1 /\ k - (k - i) = i
    BY <1>1
  <2> QED BY <2>1, <1>3
<1> DEFINE pos == [i \in 0 .. k |-> IF i = 0 THEN p ELSE p + Len(f[i])]
<1>5. pos[0] = p /\ pos[k] = p + Len(f[k])
  BY <1>1
<1>6. ASSUME NEW i \in 1 .. k
      PROVE  Stands(d, pos[i - 1], ts[i]) /\ pos[i] = pos[i - 1] + Len(ts[i])
  <2>1. CASE i = 1
    BY <2>1, <1>1, <1>4
  <2>2. CASE i # 1
    <3>1. i \in 2 .. k /\ i - 1 \in 1 .. k /\ i - 1 # 0 /\ i - 1 \in 0 .. k
      BY <2>2, <1>1
    <3>2. pos[i - 1] = p + Len(f[i - 1]) /\ pos[i] = p + Len(f[i])
      BY <3>1
    <3>3. f[i] = f[i - 1] \o ts[i] /\ f[i - 1] \in Seq(Chars) /\ ts[i] \in Seq(Chars)
      BY <3>1, <1>1
    <3>4. Stands(d, p, f[i]) /\ p \in Nat
      BY <1>4 DEF Stands
    <3>5. Stands(d, p + Len(f[i - 1]), ts[i])
      BY <3>3, <3>4, StandsConcat
    <3>6. /\ Len(f[i]) = Len(f[i - 1]) + Len(ts[i])
          /\ Len(f[i - 1]) \in Nat /\ Len(ts[i]) \in Nat
      BY <3>3, ConcatProperties
    <3> HIDE DEF pos
    <3>7. p + Len(f[i]) = (p + Len(f[i - 1])) + Len(ts[i])
      <4>1. \A a, b \in Nat : p + (a + b) = (p + a) + b
        BY <3>4
      <4> QED BY <4>1, <3>6, Zenon
    <3> QED BY <3>2, <3>5, <3>7, Zenon
  <2> QED BY <2>1, <2>2
<1> HIDE DEF pos
<1> QED BY <1>5, <1>6, Zenon DEF InRow

LEMMA RowExists ==
  ASSUME NEW d \in Seq(Chars), NEW p, NEW ts \in Seq(Seq(Chars)), Stands(d, p, FlattenSeq(ts))
  PROVE  \E pos : pos[0] = p /\ InRow(d, pos, ts, Len(ts))
<1>1. CASE Len(ts) = 0
  <2> DEFINE pos == [i \in 0 .. 0 |-> p]
  <2>1. pos[0] = p
    OBVIOUS
  <2>2. InRow(d, pos, ts, Len(ts))
    BY <1>1 DEF InRow
  <2> QED BY <2>1, <2>2
<1>2. CASE Len(ts) > 0
  <2>1. PICK f : Flattens(f, ts)
    BY <1>2, FlattenFacts DEF Flattens
  <2>2. Len(ts) \in 1 .. Len(ts) /\ Stands(d, p, f[Len(ts)])
    BY <1>2, <2>1 DEF Flattens
  <2> QED BY <2>1, <2>2, FlatStands
<1> QED BY <1>1, <1>2

\* A round of parseArray's loop, and the states before each of n rounds.
Round(before, d, parse) ==
  IF before.pos > Len(d) \/ parse[before.pos] = Null THEN before
  ELSE [pos |-> before.pos + Len(parse[before.pos].serialized),
        array |-> Append(before.array, parse[before.pos])]

IsLoop(l, d, q, parse, n) ==
  l = [i \in 0 .. n |-> IF i = 0 THEN [pos |-> q, array |-> <<>>] ELSE Round(l[i - 1], d, parse)]

LEMMA LoopExists ==
  ASSUME NEW d, NEW q, NEW parse, NEW m \in Nat
  PROVE  \E l : IsLoop(l, d, q, parse, m)
<1> DEFINE first == [pos |-> q, array |-> <<>>]
           S == {n \in Nat : \E l : IsLoop(l, d, q, parse, n)}
<1>1. 0 \in S
  <2> DEFINE l == [i \in 0 .. 0 |-> first]
  <2>1. IsLoop(l, d, q, parse, 0)
    BY DEF IsLoop
  <2> QED BY <2>1
<1>2. ASSUME NEW n \in Nat, n \in S PROVE n + 1 \in S
  <2>1. PICK l : IsLoop(l, d, q, parse, n)
    BY <1>2
  <2> DEFINE Step(g, i) == IF i = 0 THEN first ELSE Round(g[i - 1], d, parse)
             w == [i \in 0 .. n + 1 |-> IF i = n + 1 THEN Step(l, i) ELSE l[i]]
  <2>2. \A i \in 0 .. n : l[i] = Step(l, i)
    BY <2>1 DEF IsLoop
  <2>3. ASSUME NEW i \in 0 .. n + 1 PROVE w[i] = Step(w, i)
    <3>1. i # 0 => i - 1 \in 0 .. n /\ w[i - 1] = l[i - 1]
      BY <2>3
    <3>2. w[i] = Step(l, i)
      BY <2>2
    <3> QED BY <3>1, <3>2
  <2>4. w = [i \in 0 .. n + 1 |-> Step(w, i)]
    BY <2>3
  <2>5. IsLoop(w, d, q, parse, n + 1)
    BY <2>4, Zenon DEF IsLoop
  <2> QED BY <2>5
<1> HIDE DEF S
<1>3. Nat \subseteq S
  BY <1>1, <1>2, Induction
<1> QED BY <1>3 DEF S

\* The state of the loop after the first k elements of r.
LoopState(pos, r, k) == [pos |-> pos[k], array |-> [j \in 1 .. k |-> Item(r[j])]]

\* Where the first k elements of r stand in a row, k rounds of the loop find them:
\* each round moves on by the length of the element serialized again, which is its
\* length in the message.
LEMMA LoopItems ==
  ASSUME NEW r \in Seq(PlainScalar), NEW d \in Seq(Chars), NEW x, NEW pos, NEW l,
         NEW ts, ts = [i \in 1 .. Len(r) |-> EncodeElement(r[i])],
         NEW n \in Nat, NEW k \in 0 .. n, k <= Len(r), InRow(d, pos, ts, k),
         IsLoop(l, d, pos[0], ParseAt(d, x), n)
  PROVE  l[k] = LoopState(pos, r, k)
<1> DEFINE parse == ParseAt(d, x)
<1>1. k \in Nat /\ k <= n /\ \A i \in 1 .. k : i \in 1 .. Len(r) /\ r[i] \in PlainScalar
  OBVIOUS
<1>2. \A i \in 1 .. k : /\ Stands(d, pos[i - 1], EncodeElement(r[i]))
                        /\ pos[i] = pos[i - 1] + Len(EncodeElement(r[i]))
  BY <1>1 DEF InRow
<1>3. \A i \in 0 .. n : l[i] = IF i = 0 THEN [pos |-> pos[0], array |-> <<>>]
                               ELSE Round(l[i - 1], d, parse)
  BY DEF IsLoop
<1> HIDE DEF parse
<1> DEFINE S == {i \in Nat : i <= k => l[i] = LoopState(pos, r, i)}
<1>4. 0 \in S
  <2>1. l[0] = [pos |-> pos[0], array |-> <<>>]
    BY <1>1, <1>3
  <2>2. <<>> = [j \in 1 .. 0 |-> Item(r[j])]
    OBVIOUS
  <2> QED BY <2>1, <2>2 DEF LoopState
<1>5. ASSUME NEW i \in Nat, i \in S PROVE i + 1 \in S
  <2> SUFFICES ASSUME i + 1 <= k PROVE l[i + 1] = LoopState(pos, r, i + 1)
    OBVIOUS
  <2>1. i + 1 \in 1 .. k /\ i + 1 \in 0 .. n /\ i + 1 # 0 /\ (i + 1) - 1 = i /\ i <= k
    BY <1>1
  <2> DEFINE v == r[i + 1]
             before == [pos |-> pos[i], array |-> [j \in 1 .. i |-> Item(r[j])]]
  <2>2. l[i] = before
    BY <1>5, <2>1 DEF LoopState
  <2>3. l[i + 1] = Round(before, d, parse)
    BY <1>3, <2>1, <2>2
  <2>4. v \in PlainScalar /\ Stands(d, pos[i], EncodeElement(v))
        /\ pos[i + 1] = pos[i] + Len(EncodeElement(v))
    BY <1>1, <1>2, <2>1
  <2>5. pos[i] \in 1 .. Len(d) /\ parse[pos[i]] = Item(v)
    BY <2>4, ItemParsed DEF parse
  <2>6. Item(v) # Null /\ Item(v).serialized = EncodeElement(v)
    BY <2>4, ItemFacts
  <2>7. ~(pos[i] > Len(d))
    BY <2>5
  <2>8. Round(before, d, parse) =
          [pos |-> pos[i + 1], array |-> Append([j \in 1 .. i |-> Item(r[j])], Item(v))]
    BY <2>4, <2>5, <2>6, <2>7 DEF Round
  <2>9. Append([j \in 1 .. i |-> Item(r[j])], Item(v)) = [j \in 1 .. i + 1 |-> Item(r[j])]
    OBVIOUS
  <2> QED BY <2>3, <2>8, <2>9 DEF LoopState
<1> HIDE DEF S
<1>6. k \in S
  BY <1>1, <1>4, <1>5, Induction
<1> QED BY <1>1, <1>6 DEF S

\* A round that finds nothing is the last that counts.
LEMMA LoopStays ==
  ASSUME NEW d, NEW q, NEW parse, NEW l, NEW n \in Nat, NEW k \in 0 .. n,
         IsLoop(l, d, q, parse, n), l[k].pos > Len(d) \/ parse[l[k].pos] = Null
  PROVE  l[n] = l[k]
<1>1. \A i \in 0 .. n : i # 0 => l[i] = Round(l[i - 1], d, parse)
  BY DEF IsLoop
<1> DEFINE S == {i \in Nat : k + i <= n => l[k + i] = l[k]}
<1>2. 0 \in S
  OBVIOUS
<1>3. ASSUME NEW i \in Nat, i \in S PROVE i + 1 \in S
  <2> SUFFICES ASSUME k + (i + 1) <= n PROVE l[k + (i + 1)] = l[k]
    OBVIOUS
  <2>1. /\ k + i <= n /\ k + (i + 1) \in 0 .. n /\ k + (i + 1) # 0
        /\ (k + (i + 1)) - 1 = k + i
    OBVIOUS
  <2>2. l[k + (i + 1)] = Round(l[k + i], d, parse) /\ l[k + i] = l[k]
    BY <1>1, <1>3, <2>1
  <2> QED BY <2>2 DEF Round
<1> HIDE DEF S
<1>4. n - k \in Nat /\ k + (n - k) = n
  OBVIOUS
<1>5. n - k \in S
  BY <1>2, <1>3, <1>4, Induction
<1> QED BY <1>4, <1>5 DEF S

\* f[k] is what parse makes of d at each position, with arrays nested k deep.
IsParse(f, d, n) == f = [k \in 0 .. n |-> ParseAt(d, IF k = 0 THEN <<>> ELSE f[k - 1])]

LEMMA ParseExists ==
  ASSUME NEW d, NEW m \in Nat
  PROVE  \E f : IsParse(f, d, m)
<1> DEFINE S == {n \in Nat : \E f : IsParse(f, d, n)}
<1>1. 0 \in S
  <2> DEFINE f == [i \in 0 .. 0 |-> ParseAt(d, <<>>)]
  <2>1. IsParse(f, d, 0)
    BY DEF IsParse
  <2> QED BY <2>1
<1>2. ASSUME NEW n \in Nat, n \in S PROVE n + 1 \in S
  <2>1. PICK f : IsParse(f, d, n)
    BY <1>2
  <2> DEFINE Step(g, i) == ParseAt(d, IF i = 0 THEN <<>> ELSE g[i - 1])
             w == [i \in 0 .. n + 1 |-> IF i = n + 1 THEN Step(f, i) ELSE f[i]]
  <2>2. \A i \in 0 .. n : f[i] = Step(f, i)
    BY <2>1 DEF IsParse
  <2>3. ASSUME NEW i \in 0 .. n + 1 PROVE w[i] = Step(w, i)
    <3>1. i # 0 => i - 1 \in 0 .. n /\ w[i - 1] = f[i - 1]
      BY <2>3
    <3>2. w[i] = Step(f, i)
      BY <2>2
    <3> QED BY <3>1, <3>2
  <2>4. w = [i \in 0 .. n + 1 |-> Step(w, i)]
    BY <2>3
  <2>5. IsParse(w, d, n + 1)
    BY <2>4, Zenon DEF IsParse
  <2> QED BY <2>5
<1> HIDE DEF S
<1>3. Nat \subseteq S
  BY <1>1, <1>2, Induction
<1> QED BY <1>3 DEF S

\* parse calls itself for the elements of an array, so that what it makes of the
\* message is a round of it upon another.
LEMMA ParseTwice ==
  ASSUME NEW d \in Seq(Chars), Len(d) > 0
  PROVE  \E x : Parse(d) = ParseAt(d, ParseAt(d, x))[1]
<1> DEFINE n == Len(d)
           f == CHOOSE g : IsParse(g, d, n)
<1>1. n \in Nat /\ n > 0 /\ d # <<>>
  OBVIOUS
<1>2. IsParse(f, d, n)
  BY <1>1, ParseExists, Zenon
<1>3. Parse(d) = f[n][1]
  BY <1>1 DEF Parse, IsParse
<1> HIDE DEF f, n
<1>4. \A k \in 0 .. n : f[k] = ParseAt(d, IF k = 0 THEN <<>> ELSE f[k - 1])
  BY <1>2 DEF IsParse
<1>5. n \in 0 .. n /\ n # 0 /\ n - 1 \in 0 .. n
  BY <1>1
<1>6. f[n - 1] = ParseAt(d, IF n - 1 = 0 THEN <<>> ELSE f[(n - 1) - 1])
  BY <1>4, <1>5, Zenon
<1>7. f[n] = ParseAt(d, f[n - 1])
  BY <1>4, <1>5
<1> QED BY <1>3, <1>6, <1>7

-------------------------------------------------------------------------------
(***************************************************************************)
(* Whole requests.                                                         *)
(***************************************************************************)
\* The parts of an encoded array.
Header(ts) == Decimal(Len(ts)) \o CRLF

LEMMA EncodedArray ==
  ASSUME NEW ts \in Seq(Seq(Chars))
  PROVE  /\ EncodeArray(ts) = <<"*">> \o (Header(ts) \o FlattenSeq(ts))
         /\ <<"*">> \in Seq(Chars) /\ Len(<<"*">>) = 1 /\ <<"*">>[1] = "*"
         /\ Header(ts) \in Seq(Chars) /\ Len(Header(ts)) = Len(Decimal(Len(ts))) + 2
         /\ FlattenSeq(ts) \in Seq(Chars) /\ Header(ts) \o FlattenSeq(ts) \in Seq(Chars)
         /\ EncodeArray(ts) \in Seq(Chars)
<1> DEFINE dec == Decimal(Len(ts))
           line == dec \o CRLF
           body == FlattenSeq(ts)
<1>1. Len(ts) \in Nat
  OBVIOUS
<1>2. body \in Seq(Chars)
  <2>1. CASE Len(ts) = 0
    <3>1. body = ts /\ ts = <<>>
      BY <2>1 DEF FlattenSeq
    <3> QED BY <3>1
  <2>2. CASE Len(ts) > 0
    <3>1. PICK f : /\ FlattenSeq(ts) = f[Len(ts)]
                   /\ \A i \in 1 .. Len(ts) : f[i] \in Seq(Chars)
      BY <2>2, FlattenFacts
    <3>2. Len(ts) \in 1 .. Len(ts)
      BY <2>2, <1>1
    <3> QED BY <3>1, <3>2
  <2> QED BY <2>1, <2>2, <1>1
<1>3. dec \in Seq(Chars)
  BY <1>1, DecimalFacts
<1>4. EncodeArray(ts) = <<"*">> \o dec \o CRLF \o body
  BY DEF EncodeArray
<1>5. line = Header(ts)
  BY DEF Header
<1> HIDE DEF dec, body
<1>6. <<"*">> \in Seq(Chars) /\ Len(<<"*">>) = 1 /\ <<"*">>[1] = "*"
  BY DEF Chars
<1>7. line \in Seq(Chars) /\ Len(line) = Len(dec) + 2
  BY <1>3, LineFacts
<1>8. EncodeArray(ts) = <<"*">> \o (line \o body)
  <2>1. <<"*">> \o dec \o CRLF = <<"*">> \o line
    BY <1>3, <1>6, CRLFFacts, ConcatAssociative
  <2> HIDE DEF line
  <2>2. (<<"*">> \o line) \o body = <<"*">> \o (line \o body)
    BY <1>2, <1>6, <1>7, ConcatAssociative
  <2> QED BY <1>4, <2>1, <2>2
<1> HIDE DEF line
<1>9. line \o body \in Seq(Chars)
  BY <1>2, <1>7, ConcatProperties
<1>10. <<"*">> \o (line \o body) \in Seq(Chars)
  BY <1>6, <1>9, ConcatProperties
<1> QED BY <1>2, <1>5, <1>6, <1>7, <1>8, <1>9, <1>10 DEF dec, body

\* The header of an array that stands at the beginning of a message.
LEMMA ArrayStands ==
  ASSUME NEW d \in Seq(Chars), NEW ts \in Seq(Seq(Chars)), Stands(d, 1, EncodeArray(ts))
  PROVE  /\ Len(d) > 0 /\ d[1] = "*"
         /\ ReadLine(d, 2)[1] = Decimal(Len(ts))
         /\ Stands(d, ReadLine(d, 2)[2], FlattenSeq(ts))
<1> DEFINE dec == Decimal(Len(ts))
           line == Header(ts)
           body == FlattenSeq(ts)
<1>1. dec \in Seq(Chars) /\ (\A i \in 1 .. Len(dec) : dec[i] # "CR") /\ line = dec \o CRLF
  BY DecimalFacts DEF Header
<1>2. /\ EncodeArray(ts) = <<"*">> \o (line \o body)
      /\ <<"*">> \in Seq(Chars) /\ Len(<<"*">>) = 1 /\ <<"*">>[1] = "*"
      /\ line \in Seq(Chars) /\ Len(line) = Len(dec) + 2
      /\ body \in Seq(Chars) /\ line \o body \in Seq(Chars)
  BY EncodedArray
<1> HIDE DEF dec, line, body
<1>3. Stands(d, 1, <<"*">>) /\ Stands(d, 1 + 1, line \o body)
  BY <1>2, StandsConcat
<1>4. d[1] = "*" /\ Len(d) > 0
  BY <1>2, <1>3 DEF Stands
<1>5. Stands(d, 2, line) /\ Stands(d, 2 + Len(line), body)
  <2>1. Stands(d, 2, line \o body)
    BY <1>3
  <2> QED BY <2>1, <1>2, StandsConcat
<1>6. ReadLine(d, 2) = <<dec, 2 + Len(dec) + 2>>
  BY <1>1, <1>5, ReadLineStands
<1>7. 2 + Len(line) = 2 + Len(dec) + 2
  BY <1>1, <1>2
<1>8. ReadLine(d, 2)[1] = dec /\ Stands(d, ReadLine(d, 2)[2], body)
  BY <1>5, <1>6, <1>7
<1> QED BY <1>4, <1>8 DEF dec, body

LEMMA ElementTexts ==
  ASSUME NEW r \in Seq(PlainScalar), NEW ts, ts = [i \in 1 .. Len(r) |-> EncodeElement(r[i])]
  PROVE  ts \in Seq(Seq(Chars)) /\ Len(ts) = Len(r) /\ Encode(r) = EncodeArray(ts)
<1>1. Len(r) \in Nat /\ DOMAIN r = 1 .. Len(r) /\ \A i \in 1 .. Len(r) : r[i] \in PlainScalar
  OBVIOUS
<1>2. \A i \in 1 .. Len(r) : EncodeElement(r[i]) \in Seq(Chars)
  BY <1>1, ItemFacts
<1> QED BY <1>1, <1>2 DEF Encode

\* What an array at the beginning of a message becomes, once it is known how far
\* the loop gets.
LEMMA ArrayParsed ==
  ASSUME NEW d \in Seq(Chars), Len(d) > 0, d[1] = "*", IsNumber(ReadLine(d, 2)[1]),
         NEW n \in Nat, Stoll(ReadLine(d, 2)[1]) = n
  PROVE  \E x, l : /\ IsLoop(l, d, ReadLine(d, 2)[2], ParseAt(d, x), n)
                   /\ Parse(d) = Array(l[n].array)
<1> DEFINE line == ReadLine(d, 2)
<1>1. PICK x : Parse(d) = ParseAt(d, ParseAt(d, x))[1]
  BY ParseTwice
<1> DEFINE parse == ParseAt(d, x)
           l == CHOOSE g : IsLoop(g, d, line[2], parse, n)
<1>2. IsLoop(l, d, line[2], parse, n)
  <2> HIDE DEF line, parse
  <2> QED BY LoopExists, Zenon
<1>3. Parse(d) = ParseArray(d, 1, parse)
  <2> HIDE DEF parse
  <2>1. ParseAt(d, parse)[1] = ParseArray(d, 1, parse)
    BY DEF ParseAt
  <2> QED BY <2>1, <1>1 DEF parse
<1>4. ParseArray(d, 1, parse) = Array(l[n].array)
  <2> HIDE DEF parse
  <2>1. 1 + 1 = 2 /\ ~(n < 0)
    OBVIOUS
  <2> QED BY <2>1, Zenon DEF ParseArray, IsLoop, Round
<1> HIDE DEF l
<1> QED BY <1>2, <1>3, <1>4

\* What is found of r in k rounds is the array of its first k elements.
LEMMA ItemsArray ==
  ASSUME NEW r \in Seq(PlainScalar), NEW k \in 0 .. Len(r), NEW pos
  PROVE  Array(LoopState(pos, r, k).array).value = <<"array", SubSeq(r, 1, k)>>
<1> DEFINE items == [i \in 1 .. k |-> Item(r[i])]
<1>1. k \in Nat /\ \A i \in 1 .. k : i \in 1 .. Len(r) /\ r[i] \in PlainScalar
  OBVIOUS
<1>2. LoopState(pos, r, k).array = items
  BY DEF LoopState
<1>3. Array(items).value = <<"array", [i \in 1 .. k |-> Item(r[i]).value]>>
  BY <1>1 DEF Array
<1>4. [i \in 1 .. k |-> Item(r[i]).value] = [i \in 1 .. k |-> r[i]]
  BY <1>1, ItemFacts
<1>5. SubSeq(r, 1, k) = [i \in 1 .. k |-> r[i]]
  BY <1>1
<1> QED BY <1>2, <1>3, <1>4, <1>5

(***************************************************************************)
(* A message that begins with a request of bulk strings and integers is    *)
(* parsed as that request, whatever is behind it: parseArray stops after   *)
(* the number of elements in the header (the next request of a client that *)
(* does not wait is lost, and does not change this one).                   *)
(***************************************************************************)
THEOREM BeginningUnderstood ==
  ASSUME NEW r \in Seq(PlainScalar), NEW d \in Seq(Chars), Stands(d, 1, Encode(r))
  PROVE  Parse(d).value = <<"array", r>>
<1> DEFINE n == Len(r)
           ts == [i \in 1 .. n |-> EncodeElement(r[i])]
           line == ReadLine(d, 2)
<1>1. n \in Nat
  OBVIOUS
<1>2. ts \in Seq(Seq(Chars)) /\ Len(ts) = n /\ Encode(r) = EncodeArray(ts)
  BY ElementTexts
<1>3. ts = [i \in 1 .. Len(r) |-> EncodeElement(r[i])]
  OBVIOUS
<1> HIDE DEF ts, line
<1>4. /\ Len(d) > 0 /\ d[1] = "*"
      /\ line[1] = Decimal(n) /\ Stands(d, line[2], FlattenSeq(ts))
  BY <1>2, ArrayStands DEF line
<1>5. IsNumber(line[1]) /\ Stoll(line[1]) = n
  <2>1. n \in Int
    BY <1>1
  <2>2. IsNumber(Decimal(n)) /\ Stoll(Decimal(n)) = n
    BY <2>1, DecimalFacts
  <2> QED BY <2>2, <1>4, Zenon
<1>6. PICK pos : pos[0] = line[2] /\ InRow(d, pos, ts, n)
  BY <1>2, <1>4, RowExists
<1>7. PICK x, l : IsLoop(l, d, line[2], ParseAt(d, x), n) /\ Parse(d) = Array(l[n].array)
  BY <1>1, <1>4, <1>5, ArrayParsed DEF line
<1>8. l[n] = LoopState(pos, r, n)
  <2>1. n \in 0 .. n /\ n <= Len(r) /\ IsLoop(l, d, pos[0], ParseAt(d, x), n)
    BY <1>1, <1>6, <1>7
  <2> HIDE DEF n
  <2> QED BY <2>1, <1>1, <1>3, <1>6, LoopItems
<1>9. Parse(d).value = <<"array", SubSeq(r, 1, n)>>
  <2>1. n \in 0 .. Len(r)
    BY <1>1
  <2> QED BY <2>1, <1>7, <1>8, ItemsArray, Zenon
<1>10. SubSeq(r, 1, n) = r
  BY SubSeqFull
<1> QED BY <1>9, <1>10

(***************************************************************************)
(* RedisProtocol::parse gives back every request of bulk strings and       *)
(* integers that a client encodes, with any texts (CR, LF and signs within *)
(* them too), any integers, any number of elements.                        *)
(***************************************************************************)
THEOREM RoundTrip ==
  ASSUME NEW r \in Seq(PlainScalar)
  PROVE  Parse(Encode(r)).value = <<"array", r>>
<1> DEFINE d == Encode(r)
<1>1. d \in Seq(Chars)
  BY ElementTexts, EncodedArray
<1>2. Stands(d, 1, d)
  BY <1>1 DEF Stands
<1> QED BY <1>1, <1>2, BeginningUnderstood

-------------------------------------------------------------------------------
(***************************************************************************)
(* Requests that are cut short.                                            *)
(***************************************************************************)
\* Digits are a numeral for some number.
LEMMA DigitsRead ==
  ASSUME NEW u \in Seq(DigitChars), Len(u) >= 1
  PROVE  \E k \in Nat : Reads(u, k)
<1> DEFINE S == {n \in Nat : \A t \in Seq(DigitChars) :
                               Len(t) = n + 1 => \E k \in Nat : Reads(t, k)}
<1>1. 0 \in S
  <2> SUFFICES ASSUME NEW t \in Seq(DigitChars), Len(t) = 1 PROVE \E k \in Nat : Reads(t, k)
    OBVIOUS
  <2>1. t[1] \in DigitChars /\ t = <<t[1]>>
    OBVIOUS
  <2>2. PICK k \in 0 .. 9 : t[1] = Digits[k + 1]
    BY <2>1 DEF DigitChars
  <2>3. Reads(t, k)
    BY <2>1, <2>2, ReadsDigit
  <2> QED BY <2>3
<1>2. ASSUME NEW n \in Nat, n \in S PROVE n + 1 \in S
  <2> SUFFICES ASSUME NEW t \in Seq(DigitChars), Len(t) = (n + 1) + 1
               PROVE  \E k \in Nat : Reads(t, k)
    OBVIOUS
  <2> DEFINE w == [i \in 1 .. n + 1 |-> t[i]]
             c == t[n + 2]
  <2>1. w \in Seq(DigitChars) /\ Len(w) = n + 1 /\ c \in DigitChars
    OBVIOUS
  <2>2. t = Append(w, c)
    OBVIOUS
  <2> HIDE DEF w, c
  <2>3. PICK k \in Nat : Reads(w, k)
    BY <2>1, <1>2
  <2>4. PICK j \in 0 .. 9 : c = Digits[j + 1]
    BY <2>1 DEF DigitChars
  <2>5. Reads(t, 10 * k + j)
    BY <2>2, <2>3, <2>4, ReadsAppend
  <2>6. 10 * k + j \in Nat
    OBVIOUS
  <2> QED BY <2>5, <2>6
<1> HIDE DEF S
<1>3. Len(u) - 1 \in Nat /\ (Len(u) - 1) + 1 = Len(u)
  OBVIOUS
<1>4. Len(u) - 1 \in S
  BY <1>1, <1>2, <1>3, Induction
<1> QED BY <1>3, <1>4 DEF S

\* No digits, cut out of a longer numeral, make a number below zero.
LEMMA DigitsNumber ==
  ASSUME NEW u \in Seq(DigitChars)
  PROVE  IsNumber(u) => Stoll(u) \in Nat
<1>1. CASE Len(u) = 0
  BY <1>1 DEF IsNumber, Unsigned
<1>2. CASE Len(u) >= 1
  <2>1. PICK k \in Nat : Reads(u, k)
    BY <1>2, DigitsRead
  <2>2. u[1] # "-"
    BY <1>2, DigitFacts
  <2>3. Unsigned(u) = u
    BY <2>2 DEF Unsigned
  <2>4. Stoll(u) = k
    BY <2>1, <2>2, <2>3, StollReads
  <2> QED BY <2>4
<1> QED BY <1>1, <1>2

\* The message d ends within the text s that begins in it at p.
Cut(d, p, s) ==
  /\ p \in Nat \ {0} /\ p <= Len(d) + 1 /\ Len(d) < (p - 1) + Len(s)
  /\ \A i \in 1 .. Len(s) : (p - 1) + i <= Len(d) => d[(p - 1) + i] = s[i]

\* A message that cuts two texts short cuts the first one, or has it and cuts the
\* second.
LEMMA CutConcat ==
  ASSUME NEW d \in Seq(Chars), NEW p, NEW s \in Seq(Chars), NEW t \in Seq(Chars), Cut(d, p, s \o t)
  PROVE  Cut(d, p, s) \/ (Stands(d, p, s) /\ Cut(d, p + Len(s), t))
<1> DEFINE c == s \o t
<1>1. /\ Len(c) = Len(s) + Len(t) /\ Len(s) \in Nat /\ Len(t) \in Nat /\ Len(d) \in Nat
      /\ \A i \in 1 .. Len(s) : c[i] = s[i]
      /\ \A i \in 1 .. Len(t) : c[Len(s) + i] = t[i]
  OBVIOUS
<1> HIDE DEF c
<1>2. /\ p \in Nat \ {0} /\ p <= Len(d) + 1 /\ Len(d) < (p - 1) + Len(c)
      /\ \A i \in 1 .. Len(c) : (p - 1) + i <= Len(d) => d[(p - 1) + i] = c[i]
  BY DEF Cut, c
<1>3. \A i \in 1 .. Len(s) : (p - 1) + i <= Len(d) => d[(p - 1) + i] = s[i]
  BY <1>1, <1>2
<1>4. CASE Len(d) < (p - 1) + Len(s)
  BY <1>2, <1>3, <1>4 DEF Cut
<1>5. CASE ~(Len(d) < (p - 1) + Len(s))
  <2>1. \A i \in 1 .. Len(s) : (p - 1) + i <= Len(d) /\ p - 1 + i = (p - 1) + i
    BY <1>1, <1>2, <1>5
  <2>2. p - 1 + Len(s) <= Len(d)
    BY <1>1, <1>2, <1>5
  <2>3. Stands(d, p, s)
    BY <1>2, <1>3, <2>1, <2>2 DEF Stands
  <2> DEFINE q == p + Len(s)
  <2>4. q \in Nat \ {0} /\ q <= Len(d) + 1 /\ Len(d) < (q - 1) + Len(t)
    BY <1>1, <1>2, <1>5
  <2>5. ASSUME NEW i \in 1 .. Len(t), (q - 1) + i <= Len(d) PROVE d[(q - 1) + i] = t[i]
    <3>1. Len(s) + i \in 1 .. Len(c) /\ (p - 1) + (Len(s) + i) = (q - 1) + i
      BY <1>1, <1>2
    <3>2. d[(p - 1) + (Len(s) + i)] = c[Len(s) + i]
      BY <3>1, <2>5, <1>2
    <3> QED BY <3>1, <3>2, <1>1
  <2> HIDE DEF q
  <2>6. Cut(d, q, t)
    BY <2>4, <2>5 DEF Cut
  <2> QED BY <2>3, <2>6 DEF q
<1> QED BY <1>4, <1>5

\* The line of a number that is cut short is read as its first digits, up to the
\* end.
LEMMA LineCut ==
  ASSUME NEW d \in Seq(Chars), NEW p, NEW s \in Seq(DigitChars), Cut(d, p, s \o CRLF)
  PROVE  LET line == ReadLine(d, p)
         IN  /\ line[1] \in Seq(DigitChars)
             /\ line[2] = Len(d) + 1 \/ (line[2] = Len(d) /\ Len(d) > 0 /\ d[Len(d)] = "CR")
<1> DEFINE e == p + Len(s)
           c == s \o CRLF
           IsEnd(i) == /\ \A j \in p .. i - 1 : d[j] # "CR"
                       /\ i <= Len(d) => d[i] = "CR"
           cr == CHOOSE i \in p .. Len(d) + 1 : IsEnd(i)
           end == IF Len(d) = e THEN e ELSE Len(d) + 1
<1>1. s \in Seq(Chars)
  BY SeqMonotonic DEF Chars
<1>2. /\ Len(c) = Len(s) + 2 /\ Len(s) \in Nat /\ Len(d) \in Nat
      /\ c[Len(s) + 1] = "CR" /\ \A i \in 1 .. Len(s) : c[i] = s[i]
  <2>1. Len(c) = Len(s) + 2
    BY <1>1, LineFacts
  <2>2. \A i \in 1 .. Len(s) + Len(CRLF) : c[i] = IF i <= Len(s) THEN s[i] ELSE CRLF[i - Len(s)]
    BY <1>1, CRLFFacts, ConcatProperties
  <2> HIDE DEF c
  <2>3. Len(s) \in Nat /\ Len(d) \in Nat /\ (Len(s) + 1) - Len(s) = 1
    OBVIOUS
  <2> QED BY <2>1, <2>2, <2>3, CRLFFacts
<1> HIDE DEF c
<1>3. /\ p \in Nat \ {0} /\ p <= Len(d) + 1 /\ Len(d) < (p - 1) + Len(c)
      /\ \A i \in 1 .. Len(c) : (p - 1) + i <= Len(d) => d[(p - 1) + i] = c[i]
  BY DEF Cut, c
<1>4. Len(d) <= e /\ e \in Nat
  BY <1>2, <1>3
<1>5. \A j \in p .. end - 1 : d[j] \in DigitChars
  <2> SUFFICES ASSUME NEW j \in p .. end - 1 PROVE d[j] \in DigitChars
    OBVIOUS
  <2>1. /\ (j - p) + 1 \in 1 .. Len(s) /\ (p - 1) + ((j - p) + 1) = j /\ j <= Len(d)
        /\ (j - p) + 1 \in 1 .. Len(c)
    BY <1>2, <1>3, <1>4
  <2>2. d[j] = s[(j - p) + 1]
    BY <2>1, <1>2, <1>3
  <2> QED BY <2>1, <2>2
<1>6. Len(d) = e => d[e] = "CR"
  <2> SUFFICES ASSUME Len(d) = e PROVE d[e] = "CR"
    OBVIOUS
  <2>1. Len(s) + 1 \in 1 .. Len(c) /\ (p - 1) + (Len(s) + 1) = e
    BY <1>2, <1>3
  <2> QED BY <2>1, <1>2, <1>3
<1>7. \A j \in p .. end - 1 : d[j] # "CR"
  BY <1>5, DigitFacts
<1>8. end \in p .. Len(d) + 1 /\ IsEnd(end)
  BY <1>2, <1>3, <1>4, <1>6, <1>7
<1>9. \A i \in p .. Len(d) + 1 : IsEnd(i) => i = end
  BY <1>2, <1>3, <1>4, <1>6, <1>7
<1>10. ReadLine(d, p) = <<SubSeq(d, p, cr - 1),
                      IF cr < Len(d) /\ d[cr + 1] = "LF" THEN cr + 2 ELSE cr>>
  BY DEF ReadLine
<1> HIDE DEF IsEnd
<1>11. cr = end
  <2> HIDE DEF end
  <2> QED BY <1>8, <1>9
<1> HIDE DEF cr
<1>12. end \in Int /\ ~(end < Len(d)) /\ p \in Int
  BY <1>2, <1>3, <1>4
<1>13. SubSeq(d, p, end - 1) \in Seq(DigitChars)
  <2> HIDE DEF end
  <2>1. end - 1 \in Int
    BY <1>12
  <2> QED BY ONLY <2>1, <1>5, <1>12, SubSeqProperties, SMT
<1>14. ReadLine(d, p) = <<SubSeq(d, p, end - 1), end>>
  <2> HIDE DEF end
  <2> QED BY <1>10, <1>11, <1>12
<1>15. end = Len(d) + 1 \/ (end = Len(d) /\ Len(d) > 0 /\ d[Len(d)] = "CR")
  BY <1>2, <1>3, <1>6
<1> HIDE DEF end
<1> QED BY <1>13, <1>14, <1>15

\* A bulk string that is cut short is null: in its header, its text or its last CR
\* LF.
LEMMA BulkStringCut ==
  ASSUME NEW d \in Seq(Chars), NEW p, NEW s \in Seq(Chars), Cut(d, p, CreateBulkString(s)),
         p <= Len(d)
  PROVE  d[p] = "$" /\ ParseBulkString(d, p) = Null
<1> DEFINE n == Len(s)
           dec == Decimal(n)
           head == dec \o CRLF
           tail == s \o CRLF
           line == ReadLine(d, p + 1)
<1>1. n \in Nat /\ dec \in Seq(Chars) /\ (\A i \in 1 .. Len(dec) : dec[i] # "CR")
      /\ IsNumber(dec) /\ Stoll(dec) = n
  BY DecimalFacts
<1>2. dec \in Seq(DigitChars)
  BY <1>1, NumeralReads DEF Decimal, Reads
<1>3. /\ <<"$">> \in Seq(Chars) /\ Len(<<"$">>) = 1 /\ <<"$">>[1] = "$"
      /\ head \in Seq(Chars) /\ tail \in Seq(Chars) /\ head \o tail \in Seq(Chars)
      /\ Len(head) = Len(dec) + 2 /\ Len(tail) = n + 2
      /\ CreateBulkString(s) = <<"$">> \o (head \o tail)
  BY BulkParts
<1> HIDE DEF dec, n, tail
<1>4. p \in Nat \ {0} /\ Len(d) \in Nat
  BY DEF Cut
<1>5. ~Cut(d, p, <<"$">>)
  BY <1>3, <1>4 DEF Cut
<1>6. Stands(d, p, <<"$">>) /\ Cut(d, p + 1, head \o tail)
  BY <1>3, <1>5, CutConcat
<1>7. d[p] = "$"
  BY <1>3, <1>6 DEF Stands
<1>8. CASE Cut(d, p + 1, head)
  <2>1. line[1] \in Seq(DigitChars) /\ (line[2] = Len(d) + 1 \/ line[2] = Len(d))
    BY <1>2, <1>8, LineCut
  <2>2. IsNumber(line[1]) => Stoll(line[1]) \in Nat
    BY <2>1, DigitsNumber
  <2> HIDE DEF line
  <2>3. Stoll(line[1]) \in Nat => line[2] - 1 + Stoll(line[1]) + 2 > Len(d)
    BY <2>1, <1>4
  <2> QED BY <2>2, <2>3, <1>7, Zenon DEF ParseBulkString, line
<1>9. CASE Stands(d, p + 1, head) /\ Cut(d, p + 1 + Len(head), tail)
  <2>1. ReadLine(d, p + 1) = <<dec, (p + 1) + Len(dec) + 2>>
    BY <1>1, <1>9, ReadLineStands
  <2>2. line[1] = dec /\ line[2] = (p + 1) + Len(dec) + 2
    BY <2>1
  <2>3. Len(d) < (p + 1 + Len(head) - 1) + (n + 2) /\ Len(head) = Len(dec) + 2 /\ Len(dec) \in Nat
    BY <1>1, <1>3, <1>9, <1>4 DEF Cut
  <2> HIDE DEF line, head
  <2>4. line[2] - 1 + Stoll(line[1]) + 2 > Len(d)
    BY <2>2, <2>3, <1>1, <1>4
  <2> QED BY <2>4, <1>7, Zenon DEF ParseBulkString, line
<1>10. Cut(d, p + 1, head) \/ (Stands(d, p + 1, head) /\ Cut(d, (p + 1) + Len(head), tail))
  <2> HIDE DEF head
  <2> QED BY <1>3, <1>6, CutConcat
<1>11. (p + 1) + Len(head) = p + 1 + Len(head)
  OBVIOUS
<1> QED BY <1>8, <1>9, <1>10, <1>11

\* Of the texts in a row the first k stand there and the next one is cut short.
LEMMA FlattenCut ==
  ASSUME NEW d \in Seq(Chars), NEW p, NEW ts \in Seq(Seq(Chars)), Cut(d, p, FlattenSeq(ts))
  PROVE  \E k \in Nat : \E pos : /\ k < Len(ts) /\ pos[0] = p /\ InRow(d, pos, ts, k)
                                 /\ Cut(d, pos[k], ts[k + 1])
<1> DEFINE n == Len(ts)
<1>1. n \in Nat /\ \A i \in 1 .. n : ts[i] \in Seq(Chars)
  OBVIOUS
<1>2. n > 0
  <2> SUFFICES ASSUME n = 0 PROVE FALSE
    BY <1>1
  <2>1. FlattenSeq(ts) = ts
    BY DEF FlattenSeq
  <2> QED BY <2>1 DEF Cut
<1>3. PICK f : Flattens(f, ts)
  BY <1>2, FlattenFacts DEF Flattens
<1>4. /\ f[1] = ts[1] /\ Cut(d, p, f[n]) /\ (\A i \in 1 .. n : f[i] \in Seq(Chars))
      /\ \A i \in 2 .. n : f[i] = f[i - 1] \o ts[i]
  BY <1>3 DEF Flattens
<1> HIDE DEF n
<1> DEFINE T == {i \in 1 .. n : Cut(d, p, f[i])}
<1>5. T \subseteq Nat /\ T # {}
  <2>1. n \in 1 .. n
    BY <1>1, <1>2
  <2>2. n \in T
    BY <2>1, <1>4
  <2>3. T \subseteq Nat
    OBVIOUS
  <2> QED BY <2>2, <2>3
<1> HIDE DEF T
<1>6. PICK x \in T : \A y \in T : x <= y
  BY <1>5, LeastNumber
<1>7. x \in 1 .. n /\ Cut(d, p, f[x])
  BY <1>6 DEF T
<1>8. CASE x = 1
  <2> DEFINE pos == [i \in 0 .. 0 |-> p]
  <2>1. pos[0] = p
    OBVIOUS
  <2>2. InRow(d, pos, ts, 0)
    BY DEF InRow
  <2>3. Cut(d, pos[0], ts[0 + 1])
    BY <2>1, <1>4, <1>7, <1>8
  <2> HIDE DEF pos
  <2> QED BY <2>1, <2>2, <2>3, <1>2 DEF n
<1>9. CASE x # 1
  <2> DEFINE k == x - 1
  <2>1. k \in Nat /\ k \in 1 .. n /\ k < n /\ k + 1 = x /\ x \in 2 .. n /\ x - 1 = k /\ ~(x <= k)
    BY <1>1, <1>7, <1>9
  <2> HIDE DEF k
  <2>2. f[x] = f[k] \o ts[x] /\ f[k] \in Seq(Chars) /\ ts[x] \in Seq(Chars)
    BY <2>1, <1>1, <1>4, <1>7
  <2>3. ~Cut(d, p, f[k])
    BY <2>1, <1>6 DEF T
  <2>4. Stands(d, p, f[k]) /\ Cut(d, p + Len(f[k]), ts[x])
    BY <2>2, <2>3, <1>7, CutConcat
  <2>5. PICK pos : pos[0] = p /\ pos[k] = p + Len(f[k]) /\ InRow(d, pos, ts, k)
    <3>1. k \in 1 .. Len(ts)
      BY <2>1 DEF n
    <3> QED BY <3>1, <2>4, <1>3, FlatStands
  <2> QED BY <2>1, <2>4, <2>5 DEF n
<1> QED BY <1>8, <1>9

\* A header cut short: the number it holds may be short of digits, but no element
\* is behind it.
LEMMA HeaderCut ==
  ASSUME NEW d \in Seq(Chars), NEW ts \in Seq(Seq(Chars)), Cut(d, 2, Header(ts)), d[1] = "*",
         Len(d) > 0
  PROVE  Parse(d).value = <<"null">> \/ Parse(d).value = <<"array", <<>>>>
<1> DEFINE dec == Decimal(Len(ts))
           line == ReadLine(d, 2)
<1>1. dec \in Seq(DigitChars)
  <2>1. Len(ts) \in Nat
    OBVIOUS
  <2> QED BY <2>1, NumeralReads DEF Decimal, Reads
<1>2. /\ line[1] \in Seq(DigitChars)
      /\ line[2] = Len(d) + 1 \/ (line[2] = Len(d) /\ d[Len(d)] = "CR")
  BY <1>1, LineCut DEF Header
<1>3. IsNumber(line[1]) => Stoll(line[1]) \in Nat
  BY <1>2, DigitsNumber
<1> HIDE DEF line
<1>4. CASE ~IsNumber(line[1])
  <2>1. PICK x : Parse(d) = ParseAt(d, ParseAt(d, x))[1]
    BY ParseTwice
  <2> DEFINE parse == ParseAt(d, x)
  <2> HIDE DEF parse
  <2>2. ParseAt(d, parse)[1] = ParseArray(d, 1, parse)
    BY DEF ParseAt
  <2>3. 1 + 1 = 2
    OBVIOUS
  <2>4. ParseArray(d, 1, parse) = Null
    BY <1>4, <2>3, Zenon DEF ParseArray, line
  <2> QED BY <2>1, <2>2, <2>4 DEF Null, parse
<1>5. CASE IsNumber(line[1])
  <2> DEFINE n == Stoll(line[1])
  <2>1. n \in Nat /\ 0 \in 0 .. n
    BY <1>3, <1>5
  <2>2. PICK x, l : IsLoop(l, d, line[2], ParseAt(d, x), n) /\ Parse(d) = Array(l[n].array)
    BY <2>1, <1>5, ArrayParsed DEF line
  <2> DEFINE parse == ParseAt(d, x)
  <2> HIDE DEF n
  <2>3. l[0] = [pos |-> line[2], array |-> <<>>]
    BY <2>1, <2>2 DEF IsLoop
  <2>4. line[2] > Len(d) \/ parse[line[2]] = Null
    <3>1. CASE line[2] = Len(d) + 1
      BY <3>1
    <3>2. CASE line[2] = Len(d) /\ d[Len(d)] = "CR"
      <4>1. Len(d) \in 1 .. Len(d)
        OBVIOUS
      <4> QED BY <3>2, <4>1 DEF ParseAt
    <3> QED BY <3>1, <3>2, <1>2
  <2> HIDE DEF parse
  <2>5. IsLoop(l, d, line[2], parse, n)
    BY <2>2 DEF parse
  <2>6. l[0].pos > Len(d) \/ parse[l[0].pos] = Null
    BY <2>3, <2>4
  <2>7. l[n] = l[0]
    BY <2>1, <2>5, <2>6, LoopStays
  <2>8. Array(<<>>).value = <<"array", <<>>>>
    BY DEF Array
  <2> QED BY <2>2, <2>3, <2>7, <2>8
<1> QED BY <1>4, <1>5

(***************************************************************************)
(* A message that ends within a request of bulk strings is null, or an     *)
(* array of the elements of the request that are there whole, from the     *)
(* first on, and never of all of them: what ClientConnection::receive      *)
(* hands on early is short of an argument, and no argument is shortened or *)
(* changed.                                                                *)
(***************************************************************************)
THEOREM CutUnderstood ==
  ASSUME NEW r \in Seq(BulkScalar), NEW d \in Seq(Chars), Cut(d, 1, Encode(r)), Len(d) > 0
  PROVE  \/ Parse(d).value = <<"null">>
         \/ \E k \in Nat : /\ k = 0 \/ k < Len(r)
                           /\ Parse(d).value = <<"array", SubSeq(r, 1, k)>>
<1> DEFINE n == Len(r)
           ts == [i \in 1 .. n |-> EncodeElement(r[i])]
           line == ReadLine(d, 2)
           header == Header(ts)
           body == FlattenSeq(ts)
<1>1. n \in Nat /\ r \in Seq(PlainScalar)
  BY SeqMonotonic DEF BulkScalar, PlainScalar
<1>2. ts \in Seq(Seq(Chars)) /\ Len(ts) = n /\ Encode(r) = EncodeArray(ts)
  BY <1>1, ElementTexts
<1>3. ts = [i \in 1 .. Len(r) |-> EncodeElement(r[i])]
  OBVIOUS
<1> HIDE DEF ts, line
<1>4. /\ EncodeArray(ts) = <<"*">> \o (header \o body)
      /\ <<"*">> \in Seq(Chars) /\ Len(<<"*">>) = 1 /\ <<"*">>[1] = "*"
      /\ header \in Seq(Chars) /\ Len(header) = Len(Decimal(n)) + 2
      /\ body \in Seq(Chars) /\ header \o body \in Seq(Chars)
  BY <1>2, EncodedArray
<1> HIDE DEF header, body
<1>5. d[1] = "*" /\ Cut(d, 2, header \o body)
  <2>1. ~Cut(d, 1, <<"*">>)
    BY <1>4 DEF Cut
  <2>2. Cut(d, 1, <<"*">> \o (header \o body))
    BY <1>2, <1>4
  <2>3. Stands(d, 1, <<"*">>) /\ Cut(d, 1 + 1, header \o body)
    BY <2>1, <2>2, <1>4, CutConcat
  <2> QED BY <2>3, <1>4 DEF Stands
<1>6. CASE Cut(d, 2, header)
  <2>1. Parse(d).value = <<"null">> \/ Parse(d).value = <<"array", <<>>>>
    BY <1>2, <1>5, <1>6, HeaderCut DEF header
  <2>2. SubSeq(r, 1, 0) = <<>>
    OBVIOUS
  <2> QED BY <2>1, <2>2
<1>7. CASE Stands(d, 2, header) /\ Cut(d, 2 + Len(header), body)
  <2>1. Decimal(n) \in Seq(Chars) /\ (\A i \in 1 .. Len(Decimal(n)) : Decimal(n)[i] # "CR")
        /\ IsNumber(Decimal(n)) /\ Stoll(Decimal(n)) = n /\ header = Decimal(n) \o CRLF
    BY <1>1, <1>2, DecimalFacts DEF header, Header
  <2>2. line = <<Decimal(n), 2 + Len(Decimal(n)) + 2>>
    BY <1>7, <2>1, ReadLineStands DEF line
  <2>3. line[1] = Decimal(n) /\ line[2] = 2 + Len(header)
    BY <2>1, <2>2, <1>4
  <2>4. Cut(d, line[2], FlattenSeq(ts))
    BY <2>3, <1>7 DEF body
  <2>5. PICK k \in Nat : \E pos : /\ k < Len(ts) /\ pos[0] = line[2] /\ InRow(d, pos, ts, k)
                                  /\ Cut(d, pos[k], ts[k + 1])
    BY <1>2, <2>4, FlattenCut
  <2>6. PICK pos : /\ k < Len(ts) /\ pos[0] = line[2] /\ InRow(d, pos, ts, k)
                   /\ Cut(d, pos[k], ts[k + 1])
    BY <2>5
  <2>7. PICK x, l : IsLoop(l, d, line[2], ParseAt(d, x), n) /\ Parse(d) = Array(l[n].array)
    <3>1. IsNumber(line[1]) /\ Stoll(line[1]) = n
      BY <2>1, <2>3
    <3> QED BY <3>1, <1>1, <1>5, ArrayParsed DEF line
  <2>8. k \in 0 .. n /\ k <= n /\ k < n /\ k + 1 \in 1 .. n
    BY <1>1, <1>2, <2>6
  <2>9. l[k] = LoopState(pos, r, k)
    <3>1. k \in 0 .. n /\ k <= Len(r) /\ IsLoop(l, d, pos[0], ParseAt(d, x), n)
      BY <2>6, <2>7, <2>8
    <3> HIDE DEF n
    <3> QED BY <3>1, <1>1, <1>3, <2>6, LoopItems
  <2> DEFINE parse == ParseAt(d, x)
  <2>10. pos[k] > Len(d) \/ parse[pos[k]] = Null
    <3> SUFFICES ASSUME ~(pos[k] > Len(d)) PROVE parse[pos[k]] = Null
      OBVIOUS
    <3> DEFINE v == r[k + 1]
    <3>1. v \in BulkScalar
      BY <2>8
    <3> HIDE DEF v
    <3>2. v[1] = "string" /\ v[2] \in Seq(Chars)
      BY <3>1, SeqMonotonic DEF BulkScalar, Chars
    <3>3. ts[k + 1] = CreateBulkString(v[2])
      BY <2>8, <3>2, <1>3 DEF EncodeElement, EncodeScalar, CreateBulkString, v
    <3>4. Cut(d, pos[k], CreateBulkString(v[2])) /\ pos[k] <= Len(d) /\ pos[k] \in 1 .. Len(d)
      BY <3>3, <2>6 DEF Cut
    <3>5. d[pos[k]] = "$" /\ ParseBulkString(d, pos[k]) = Null
      BY <3>2, <3>4, BulkStringCut
    <3> QED BY <3>4, <3>5 DEF ParseAt
  <2>11. l[n] = l[k]
    <3> HIDE DEF parse
    <3>1. l[k].pos > Len(d) \/ parse[l[k].pos] = Null
      BY <2>9, <2>10 DEF LoopState
    <3>2. IsLoop(l, d, line[2], parse, n)
      BY <2>7 DEF parse
    <3> HIDE DEF n
    <3> QED BY <3>1, <3>2, <1>1, <2>8, LoopStays
  <2>12. Parse(d).value = <<"array", SubSeq(r, 1, k)>>
    <3>1. k \in 0 .. Len(r)
      BY <2>8
    <3> QED BY <3>1, <1>1, <2>7, <2>9, <2>11, ItemsArray, Zenon
  <2> QED BY <2>8, <2>12
<1>8. Cut(d, 2, header) \/ (Stands(d, 2, header) /\ Cut(d, 2 + Len(header), body))
  BY <1>4, <1>5, CutConcat
<1> QED BY <1>6, <1>7, <1>8

-------------------------------------------------------------------------------
(***************************************************************************)
(* The connection: what of the bytes sent has been received.               *)
(***************************************************************************)
\* Characters that C strings can hold.
CChars == Chars \ {"NUL"}

\* to_string and the encoding put no NUL into a request.
LEMMA EncodedNulFree ==
  ASSUME NEW r \in Seq(BulkScalar), \A i \in 1 .. Len(r) : r[i][2] \in Seq(CChars)
  PROVE  Encode(r) \in Seq(CChars)
<1>1. CRLF \in Seq(CChars)
  BY DEF CRLF, CChars, Chars
<1>2. DigitChars \subseteq CChars
  BY DEF DigitChars, Digits, CChars, Chars
<1>3. ASSUME NEW n \in Nat PROVE Decimal(n) \in Seq(CChars)
  BY <1>2, NumeralReads, SeqMonotonic DEF Decimal, Reads
<1>4. <<"$">> \in Seq(CChars) /\ <<"*">> \in Seq(CChars)
  BY DEF CChars, Chars
<1> DEFINE n == Len(r)
           ts == [i \in 1 .. n |-> EncodeElement(r[i])]
<1>5. n \in Nat /\ DOMAIN r = 1 .. n
  OBVIOUS
<1>6. ASSUME NEW i \in 1 .. n PROVE EncodeElement(r[i]) \in Seq(CChars)
  <2> DEFINE s == r[i][2]
             dec == Decimal(Len(s))
  <2>1. r[i][1] = "string" /\ s \in Seq(CChars)
    BY <1>6 DEF BulkScalar
  <2>2. EncodeElement(r[i]) = <<"$">> \o dec \o CRLF \o s \o CRLF
    BY <2>1 DEF EncodeElement, EncodeScalar
  <2>3. dec \in Seq(CChars)
    BY <2>1, <1>3
  <2> HIDE DEF s, dec
  <2>4. <<"$">> \o dec \o CRLF \o s \o CRLF \in Seq(CChars)
    BY <2>1, <2>3, <1>1, <1>4
  <2> QED BY <2>2, <2>4
<1>7. ts \in Seq(Seq(CChars)) /\ Len(ts) = n
  BY <1>5, <1>6
<1>8. Encode(r) = <<"*">> \o Decimal(n) \o CRLF \o FlattenSeq(ts)
  BY <1>5, <1>7 DEF Encode, EncodeArray
<1> HIDE DEF ts
<1>9. FlattenSeq(ts) \in Seq(CChars)
  <2>1. CASE n = 0
    <3>1. FlattenSeq(ts) = ts /\ ts = <<>>
      BY <2>1, <1>7 DEF FlattenSeq
    <3> QED BY <3>1
  <2>2. CASE n > 0
    <3>1. ts \in Seq(Seq(CChars)) /\ Len(ts) > 0
      BY <2>2, <1>7
    <3>2. PICK f : /\ FlattenSeq(ts) = f[Len(ts)]
                   /\ \A i \in 1 .. Len(ts) : f[i] \in Seq(CChars)
      BY <3>1, FlattenFacts
    <3> QED BY <3>1, <3>2
  <2> QED BY <2>1, <2>2, <1>5
<1>10. <<"*">> \o Decimal(n) \o CRLF \o FlattenSeq(ts) \in Seq(CChars)
  <2> DEFINE dec == Decimal(n)
             body == FlattenSeq(ts)
  <2>1. dec \in Seq(CChars) /\ body \in Seq(CChars)
    BY <1>3, <1>5, <1>9
  <2> HIDE DEF dec, body
  <2>2. <<"*">> \o dec \o CRLF \o body \in Seq(CChars)
    BY <2>1, <1>1, <1>4
  <2> QED BY <2>2 DEF dec, body
<1> QED BY <1>8, <1>10

\* A text at the beginning of d and w together: d has it, or cuts it short.
LEMMA StandsOrCut ==
  ASSUME NEW d \in Seq(Chars), NEW w \in Seq(Chars), NEW s \in Seq(Chars),
         Stands(d \o w, 1, s)
  PROVE  Stands(d, 1, s) \/ Cut(d, 1, s)
<1> DEFINE c == d \o w
<1>1. /\ Len(d) \in Nat /\ Len(s) \in Nat /\ \A i \in 1 .. Len(d) : c[i] = d[i]
  OBVIOUS
<1>2. \A i \in 1 .. Len(s) : c[1 - 1 + i] = s[i]
  BY DEF Stands
<1> HIDE DEF c
<1>3. \A i \in 1 .. Len(s) : 1 - 1 + i = i /\ (1 - 1) + i = i /\ c[i] = s[i]
  BY <1>2
<1>4. \A i \in 1 .. Len(s) : i <= Len(d) => d[i] = s[i]
  BY <1>1, <1>3
<1>5. CASE Len(s) <= Len(d)
  BY <1>1, <1>3, <1>4, <1>5 DEF Stands
<1>6. CASE Len(d) < Len(s)
  BY <1>1, <1>3, <1>4, <1>6 DEF Cut
<1> QED BY <1>1, <1>5, <1>6

\* More behind a message leaves in place what it begins with.
LEMMA StandsBehind ==
  ASSUME NEW d \in Seq(Chars), NEW w \in Seq(Chars), NEW s \in Seq(Chars), Stands(d, 1, s)
  PROVE  Stands(d \o w, 1, s)
<1> DEFINE c == d \o w
<1>1. /\ Len(d) \in Nat /\ Len(w) \in Nat /\ Len(c) = Len(d) + Len(w) /\ Len(s) \in Nat
      /\ \A i \in 1 .. Len(d) : c[i] = d[i]
  OBVIOUS
<1> HIDE DEF c
<1>2. Stands(c, 1, s)
  BY <1>1 DEF Stands
<1> QED BY <1>2 DEF c

\* Without a NUL, what recv takes from the wire is what data gets.
LEMMA ReceivedPart ==
  ASSUME NEW d \in Seq(Chars), NEW w \in Seq(CChars), NEW n \in 1 .. Len(w)
  PROVE  LET got == CString(SubSeq(w, 1, n))
             left == SubSeq(w, n + 1, Len(w))
         IN  /\ d \o got \in Seq(Chars) /\ left \in Seq(CChars)
             /\ (d \o got) \o left = d \o w
<1> DEFINE got == SubSeq(w, 1, n)
           left == SubSeq(w, n + 1, Len(w))
<1>1. got \in Seq(CChars) /\ left \in Seq(CChars) /\ got \o left = w
  OBVIOUS
<1>2. CString(got) = got
  <2>1. {i \in 1 .. Len(got) : got[i] = "NUL"} = {}
    BY <1>1 DEF CChars
  <2> HIDE DEF got
  <2> QED BY <2>1 DEF CString, SelectInSeq
<1> HIDE DEF got, left
<1>3. got \in Seq(Chars) /\ left \in Seq(Chars) /\ w \in Seq(Chars)
  BY <1>1, SeqMonotonic DEF CChars
<1>4. (d \o got) \o left = d \o (got \o left) /\ d \o got \in Seq(Chars)
  BY <1>3, ConcatAssociative, ConcatProperties
<1> QED BY <1>1, <1>2, <1>4 DEF got, left

-------------------------------------------------------------------------------
LEMMA PlainRequest ==
  ASSUME NEW r \in Requests, Plain(r)
  PROVE  r \in Seq(PlainScalar)
<1> DEFINE V == Scalars \cup ({"array"} \X Seq(Scalars))
<1>1. r \in Seq(V)
  BY FramingAssumption
<1>2. \A v \in V : v[1] \in {"string", "integer"} => v \in PlainScalar
  BY DEF Scalars, PlainScalar
<1> HIDE DEF V
<1>3. \A i \in 1 .. Len(r) : r[i] \in PlainScalar
  BY <1>1, <1>2 DEF Plain
<1> QED BY <1>1, <1>3

\* A whole request of bulk strings and integers does what it asks for.
LEMMA PlainUnderstood ==
  ASSUME NEW r \in Requests, Plain(r)
  PROVE  Outcome(ParseCommand(Encode(r))) = Asked(r)
<1>1. r \in Seq(PlainScalar)
  BY PlainRequest
<1>2. Parse(Encode(r)).value = <<"array", r>>
  BY <1>1, RoundTrip
<1>3. ParseCommand(Encode(r)) = Command(r)
  BY <1>2 DEF ParseCommand
<1>4. [i \in DOMAIN r |-> IF r[i][1] = "simple" THEN <<"string", r[i][2]>> ELSE r[i]] = r
  BY <1>1 DEF Plain
<1> QED BY <1>3, <1>4 DEF Asked

\* s is a sequence.
IsSequence(s) == s \in Seq({s[i] : i \in DOMAIN s})

\* Append, for sequences whose elements have no common set.
LEMMA AppendSequence ==
  ASSUME NEW s, NEW e, IsSequence(s)
  PROVE  /\ IsSequence(Append(s, e)) /\ Len(s) \in Nat /\ Len(Append(s, e)) = Len(s) + 1
         /\ DOMAIN s = 1 .. Len(s) /\ DOMAIN Append(s, e) = 1 .. Len(s) + 1
         /\ \A i \in 1 .. Len(s) : Append(s, e)[i] = s[i]
         /\ Append(s, e)[Len(s) + 1] = e
<1> DEFINE S == {s[i] : i \in DOMAIN s} \cup {e}
           t == Append(s, e)
<1>1. s \in Seq(S) /\ e \in S
  BY SeqMonotonic DEF IsSequence
<1> HIDE DEF S
<1>2. /\ t \in Seq(S) /\ Len(s) \in Nat /\ Len(t) = Len(s) + 1
      /\ DOMAIN s = 1 .. Len(s) /\ DOMAIN t = 1 .. Len(s) + 1
      /\ \A i \in 1 .. Len(s) : t[i] = s[i]
      /\ t[Len(s) + 1] = e
  BY <1>1
<1> HIDE DEF t
<1>3. t \in Seq({t[i] : i \in DOMAIN t})
  BY <1>2
<1> QED BY <1>2, <1>3 DEF t, IsSequence

\* WholeUnderstood speaks of whole, which HandleCommand keeps; beside it only types
\* are needed.
FramingInv == sent \in Seq(Requests) /\ IsSequence(outcomes) /\ WholeUnderstood

(***************************************************************************)
(* As long as every message has been one whole request, and the requests   *)
(* hold bulk strings and integers only, each has done what it asks for     *)
(* (receive, parse and the checks of handleCommand together), for every    *)
(* set of requests.                                                        *)
(***************************************************************************)
THEOREM PlainRequestsUnderstood == Spec => []WholeUnderstood
<1>1. Init => FramingInv
  <2> SUFFICES ASSUME Init PROVE FramingInv
    OBVIOUS
  <2>1. sent = <<>> /\ outcomes = <<>>
    BY DEF Init
  <2>2. IsSequence(<<>>) /\ Len(<<>>) = 0 /\ DOMAIN <<>> = {}
    BY DEF IsSequence
  <2> QED BY <2>1, <2>2 DEF FramingInv, WholeUnderstood
<1>2. FramingInv /\ [Next]_vars => FramingInv'
  <2> SUFFICES ASSUME FramingInv, [Next]_vars PROVE FramingInv'
    OBVIOUS
  <2>1. /\ sent \in Seq(Requests) /\ Len(sent) \in Nat /\ DOMAIN sent = 1 .. Len(sent)
        /\ IsSequence(outcomes) /\ Len(outcomes) \in Nat
        /\ DOMAIN outcomes = 1 .. Len(outcomes)
    BY AppendSequence DEF FramingInv
  <2>2. WholeUnderstood
    BY DEF FramingInv
  <2>3. ASSUME UNCHANGED <<sent, outcomes, whole>> PROVE FramingInv'
    BY <2>1, <2>2, <2>3 DEF FramingInv, WholeUnderstood, IsSequence
  <2>4. ASSUME NEW r \in Requests, ClientSends(r) PROVE FramingInv'
    <3>1. sent' = Append(sent, r) /\ outcomes' = outcomes /\ whole' = whole
      BY <2>4 DEF ClientSends
    <3>2. /\ sent' \in Seq(Requests) /\ Len(sent') = Len(sent) + 1
          /\ DOMAIN sent' = 1 .. Len(sent) + 1
          /\ \A i \in 1 .. Len(sent) : sent'[i] = sent[i]
      BY <3>1, <2>1
    <3>3. WholeUnderstood'
      <4> SUFFICES ASSUME whole', \A i \in DOMAIN sent' : Plain(sent'[i])
                   PROVE  /\ Len(outcomes') <= Len(sent')
                          /\ \A i \in DOMAIN outcomes' : outcomes'[i] = Asked(sent'[i])
        BY DEF WholeUnderstood
      <4>1. whole /\ \A i \in DOMAIN sent : Plain(sent[i])
        BY <3>1, <3>2, <2>1
      <4>2. Len(outcomes) <= Len(sent) /\ \A i \in DOMAIN outcomes : outcomes[i] = Asked(sent[i])
        BY <4>1, <2>2 DEF WholeUnderstood
      <4> QED BY <4>2, <3>1, <3>2, <2>1
    <3> QED BY <3>1, <3>2, <3>3, <2>1 DEF FramingInv, IsSequence
  <2>5. ASSUME HandleCommand PROVE FramingInv'
    <3> DEFINE k == Len(outcomes)
               o == Outcome(ParseCommand(data))
    <3>1. /\ outcomes' = Append(outcomes, o) /\ sent' = sent
          /\ whole' = (whole /\ k < Len(sent) /\ data = Encode(sent[k + 1]))
      BY <2>5 DEF HandleCommand
    <3> HIDE DEF o
    <3>2. /\ IsSequence(outcomes') /\ Len(outcomes') = k + 1 /\ DOMAIN outcomes' = 1 .. k + 1
          /\ \A i \in 1 .. k : outcomes'[i] = outcomes[i]
          /\ outcomes'[k + 1] = o
      BY <3>1, <2>1, AppendSequence
    <3>3. WholeUnderstood'
      <4> SUFFICES ASSUME whole', \A i \in DOMAIN sent' : Plain(sent'[i])
                   PROVE  /\ Len(outcomes') <= Len(sent')
                          /\ \A i \in DOMAIN outcomes' : outcomes'[i] = Asked(sent'[i])
        BY DEF WholeUnderstood
      <4>1. whole /\ k < Len(sent) /\ data = Encode(sent[k + 1])
        BY <3>1, Zenon
      <4>2. \A i \in DOMAIN sent : Plain(sent[i])
        BY <3>1
      <4>3. \A i \in DOMAIN outcomes : outcomes[i] = Asked(sent[i])
        BY <4>1, <4>2, <2>2 DEF WholeUnderstood
      <4>4. sent[k + 1] \in Requests /\ Plain(sent[k + 1])
        BY <4>1, <4>2, <2>1
      <4>5. o = Asked(sent[k + 1])
        BY <4>1, <4>4, PlainUnderstood DEF o
      <4>6. ASSUME NEW i \in 1 .. k + 1 PROVE outcomes'[i] = Asked(sent[i])
        BY <4>3, <4>5, <3>2, <2>1
      <4>7. k + 1 <= Len(sent)
        BY <4>1, <2>1
      <4> QED BY <4>6, <4>7, <3>1, <3>2
    <3> QED BY <3>1, <3>2, <3>3, <2>1 DEF FramingInv
  <2>6. ASSUME ClientCloses PROVE UNCHANGED <<sent, outcomes, whole>>
    BY <2>6 DEF ClientCloses
  <2>7. ASSUME NEW n \in 1 .. Len(wire), Recv(n) PROVE UNCHANGED <<sent, outcomes, whole>>
    BY <2>7 DEF Recv
  <2>8. ASSUME UNCHANGED vars PROVE UNCHANGED <<sent, outcomes, whole>>
    BY <2>8 DEF vars
  <2> QED BY <2>3, <2>4, <2>5, <2>6, <2>7, <2>8 DEF Next
<1>3. FramingInv => WholeUnderstood
  BY DEF FramingInv
<1> QED BY <1>1, <1>2, <1>3, PTL DEF Spec
-------------------------------------------------------------------------------
\* A request of bulk strings that C strings can hold.
Bulk(r) == \A i \in DOMAIN r : r[i][1] = "string" /\ r[i][2] \in Seq(STRING \ {"NUL"})

\* What such a request is made of, and what it is encoded to.
LEMMA BulkRequest ==
  ASSUME NEW r \in Requests, Bulk(r)
  PROVE  r \in Seq(BulkScalar) /\ Encode(r) \in Seq(CChars)
<1> DEFINE V == Scalars \cup ({"array"} \X Seq(Scalars))
<1>1. r \in Seq(V)
  BY FramingAssumption
<1>2. \A v \in V : v[1] = "string" => v \in BulkScalar
  BY DEF Scalars, BulkScalar
<1> HIDE DEF V
<1>3. \A i \in 1 .. Len(r) : r[i] \in BulkScalar /\ r[i][2] \in Seq(STRING \ {"NUL"})
  BY <1>1, <1>2 DEF Bulk
<1>4. STRING \ {"NUL"} \subseteq CChars
  BY DEF CChars, Chars
<1>5. \A i \in 1 .. Len(r) : r[i][2] \in Seq(CChars)
  BY <1>3, <1>4, SeqMonotonic
<1>6. r \in Seq(BulkScalar)
  BY <1>1, <1>3
<1> QED BY <1>5, <1>6, EncodedNulFree

\* A message that has the request at its beginning, or cuts it short.
LEMMA FirstMessage ==
  ASSUME NEW r \in Requests, Bulk(r), NEW d \in Seq(Chars), d # <<>>,
         Stands(d, 1, Encode(r)) \/ Cut(d, 1, Encode(r))
  PROVE  \E k \in 0 .. Len(r) : Outcome(ParseCommand(d)) = Outcome(Command(SubSeq(r, 1, k)))
<1>1. r \in Seq(BulkScalar) /\ Len(r) \in Nat
  BY BulkRequest
<1>2. r \in Seq(PlainScalar)
  BY <1>1, SeqMonotonic DEF BulkScalar, PlainScalar
<1>3. ASSUME NEW k \in 0 .. Len(r), Parse(d).value = <<"array", SubSeq(r, 1, k)>>
      PROVE  Outcome(ParseCommand(d)) = Outcome(Command(SubSeq(r, 1, k)))
  <2>1. ParseCommand(d) = Command(SubSeq(r, 1, k))
    BY <1>3 DEF ParseCommand
  <2> QED BY <2>1
<1>4. CASE Stands(d, 1, Encode(r))
  <2>1. Parse(d).value = <<"array", r>> /\ SubSeq(r, 1, Len(r)) = r
    BY <1>2, <1>4, BeginningUnderstood, SubSeqFull
  <2>2. Len(r) \in 0 .. Len(r)
    BY <1>1
  <2> QED BY <1>3, <2>1, <2>2
<1>5. CASE Cut(d, 1, Encode(r))
  <2>1. \/ Parse(d).value = <<"null">>
        \/ \E k \in Nat : (k = 0 \/ k < Len(r)) /\ Parse(d).value = <<"array", SubSeq(r, 1, k)>>
    <3>1. Len(d) > 0
      OBVIOUS
    <3> QED BY <3>1, <1>1, <1>5, CutUnderstood
  <2>2. CASE Parse(d).value = <<"null">>
    <3>1. ParseCommand(d) = <<>>
      BY <2>2 DEF ParseCommand
    <3>2. SubSeq(r, 1, 0) = <<>> /\ 0 \in 0 .. Len(r)
      BY <1>1
    <3>3. Command(<<>>) = <<>>
      BY DEF Command
    <3> QED BY <3>1, <3>2, <3>3
  <2>3. CASE \E k \in Nat : (k = 0 \/ k < Len(r)) /\ Parse(d).value = <<"array", SubSeq(r, 1, k)>>
    <3>1. PICK k \in Nat : (k = 0 \/ k < Len(r)) /\ Parse(d).value = <<"array", SubSeq(r, 1, k)>>
      BY <2>3
    <3>2. k \in 0 .. Len(r)
      BY <3>1, <1>1
    <3> QED BY <3>1, <3>2, <1>3
  <2> QED BY <2>1, <2>2, <2>3
<1> QED BY <1>4, <1>5

\* All requests are of this kind.
AllBulk(requests) == \A i \in DOMAIN requests : Bulk(requests[i])

\* The first message of a connection does what the first request asks for, or what
\* its first elements ask for: with bulk strings only, a request that recv delivers
\* in parts, or together with the next one, is never another command with other
\* arguments.
FirstUnderstood ==
  AllBulk(sent) /\ outcomes # <<>>
    => /\ sent # <<>>
       /\ \E k \in 0 .. Len(sent[1]) : outcomes[1] = Outcome(Command(SubSeq(sent[1], 1, k)))

\* Until the first message is answered the bytes received and those on the wire
\* are, together, what the client sent: they begin with its first request.
StreamInv ==
  /\ sent \in Seq(Requests) /\ IsSequence(outcomes)
  /\ AllBulk(sent) =>
       /\ data \in Seq(Chars) /\ wire \in Seq(CChars)
       /\ outcomes = <<>> =>
            IF sent = <<>> THEN data = <<>> /\ wire = <<>>
            ELSE Stands(data \o wire, 1, Encode(sent[1]))
  /\ FirstUnderstood

(***************************************************************************)
(* However recv cuts or joins the bytes, the first message of a connection *)
(* is understood as the first request or as the beginning of it            *)
(* (ClientConnection::receive and RedisProtocol::parse). Of later messages *)
(* this is not true: they may begin within a value, which may look like a  *)
(* command.                                                                *)
(***************************************************************************)
THEOREM FirstMessageUnderstood == Spec => []FirstUnderstood
<1>1. Init => StreamInv
  <2> SUFFICES ASSUME Init PROVE StreamInv
    OBVIOUS
  <2>1. sent = <<>> /\ outcomes = <<>> /\ data = <<>> /\ wire = <<>>
    BY DEF Init
  <2>2. IsSequence(<<>>)
    BY DEF IsSequence
  <2> QED BY <2>1, <2>2 DEF StreamInv, FirstUnderstood
<1>2. StreamInv /\ [Next]_vars => StreamInv'
  <2> SUFFICES ASSUME StreamInv, [Next]_vars PROVE StreamInv'
    OBVIOUS
  <2>1. sent \in Seq(Requests) /\ IsSequence(outcomes) /\ FirstUnderstood
    BY DEF StreamInv
  <2>2. ASSUME AllBulk(sent)
        PROVE  /\ data \in Seq(Chars) /\ wire \in Seq(CChars) /\ wire \in Seq(Chars)
               /\ outcomes = <<>> /\ sent = <<>> => data = <<>> /\ wire = <<>>
               /\ outcomes = <<>> /\ sent # <<>> => Stands(data \o wire, 1, Encode(sent[1]))
    <3>1. data \in Seq(Chars) /\ wire \in Seq(CChars)
      BY <2>2 DEF StreamInv
    <3>2. wire \in Seq(Chars)
      BY <3>1, SeqMonotonic DEF CChars
    <3> QED BY <2>2, <3>1, <3>2, Zenon DEF StreamInv
  <2>3. ASSUME UNCHANGED <<wire, data, sent, outcomes>> PROVE StreamInv'
    <3>1. FirstUnderstood'
      BY <2>1, <2>3 DEF FirstUnderstood, AllBulk
    <3> QED BY <2>3, <3>1 DEF StreamInv, AllBulk, IsSequence
  <2>4. ASSUME NEW r \in Requests, ClientSends(r) PROVE StreamInv'
    <3>1. /\ sent' = Append(sent, r) /\ outcomes' = outcomes /\ data' = data
          /\ wire' = wire \o Encode(r)
      BY <2>4 DEF ClientSends
    <3>2. /\ sent' \in Seq(Requests) /\ Len(sent') = Len(sent) + 1 /\ Len(sent) \in Nat
          /\ DOMAIN sent' = 1 .. Len(sent) + 1 /\ DOMAIN sent = 1 .. Len(sent)
          /\ (\A i \in 1 .. Len(sent) : sent'[i] = sent[i]) /\ sent'[Len(sent) + 1] = r
          /\ sent' # <<>>
      BY <3>1, <2>1
    <3>3. AllBulk(sent') => AllBulk(sent) /\ Bulk(r)
      BY <3>2 DEF AllBulk
    <3>4. sent # <<>> => sent'[1] = sent[1]
      BY <3>2, <2>1
    <3>5. sent = <<>> => sent'[1] = r
      BY <3>2
    <3>6. ASSUME AllBulk(sent')
          PROVE  /\ data' \in Seq(Chars) /\ wire' \in Seq(CChars)
                 /\ outcomes' = <<>> => Stands(data' \o wire', 1, Encode(sent'[1]))
      <4> DEFINE e == Encode(r)
      <4>1. e \in Seq(CChars)
        BY <3>3, <3>6, BulkRequest
      <4>2. e \in Seq(Chars)
        BY <4>1, SeqMonotonic DEF CChars
      <4>3. AllBulk(sent)
        BY <3>3, <3>6
      <4>4. wire' \in Seq(CChars) /\ data' \in Seq(Chars)
        BY <4>1, <4>3, <2>2, <3>1, ConcatProperties
      <4>5. ASSUME outcomes = <<>>, sent = <<>> PROVE Stands(data' \o wire', 1, e)
        <5>1. data' = <<>> /\ wire' = <<>> \o e
          BY <4>3, <4>5, <2>2, <3>1
        <5> HIDE DEF e
        <5>2. <<>> \o e = e /\ <<>> \o (<<>> \o e) = e
          BY <4>2
        <5>3. Stands(e, 1, e)
          BY <4>2 DEF Stands
        <5> QED BY <5>1, <5>2, <5>3
      <4>6. ASSUME outcomes = <<>>, sent # <<>> PROVE Stands(data' \o wire', 1, Encode(sent[1]))
        <5>1. Stands(data \o wire, 1, Encode(sent[1])) /\ data \in Seq(Chars) /\ wire \in Seq(Chars)
          BY <4>3, <4>6, <2>2
        <5>2. Encode(sent[1]) \in Seq(Chars)
          BY <5>1 DEF Stands
        <5> HIDE DEF e
        <5>3. data \o wire \in Seq(Chars) /\ (data \o wire) \o e = data \o (wire \o e)
          BY <5>1, <4>2, ConcatProperties, ConcatAssociative
        <5>4. Stands((data \o wire) \o e, 1, Encode(sent[1]))
          BY <5>1, <5>2, <5>3, <4>2, StandsBehind
        <5> QED BY <5>3, <5>4, <3>1 DEF e
      <4> QED BY <4>4, <4>5, <4>6, <3>1, <3>4, <3>5
    <3>7. FirstUnderstood'
      <4> SUFFICES ASSUME AllBulk(sent'), outcomes' # <<>>
                   PROVE  \E k \in 0 .. Len(sent'[1]) :
                            outcomes'[1] = Outcome(Command(SubSeq(sent'[1], 1, k)))
        BY <3>2 DEF FirstUnderstood
      <4>1. AllBulk(sent) /\ outcomes # <<>>
        BY <3>1, <3>3
      <4>2. sent # <<>> /\ \E k \in 0 .. Len(sent[1]) :
                              outcomes[1] = Outcome(Command(SubSeq(sent[1], 1, k)))
        BY <4>1, <2>1 DEF FirstUnderstood
      <4> QED BY <4>2, <3>1, <3>4
    <3>8. IsSequence(outcomes')
      BY <2>1, <3>1
    <3> QED BY <3>2, <3>6, <3>7, <3>8, Zenon DEF StreamInv
  <2>5. ASSUME NEW n \in 1 .. Len(wire), Recv(n) PROVE StreamInv'
    <3>1. /\ sent' = sent /\ outcomes' = outcomes
          /\ data' = data \o CString(SubSeq(wire, 1, n)) /\ wire' = SubSeq(wire, n + 1, Len(wire))
      BY <2>5 DEF Recv
    <3>2. ASSUME AllBulk(sent)
          PROVE  data' \in Seq(Chars) /\ wire' \in Seq(CChars) /\ data' \o wire' = data \o wire
                 /\ wire # <<>>
      <4>1. data \in Seq(Chars) /\ wire \in Seq(CChars)
        BY <2>2, <3>2
      <4>2. wire # <<>>
        BY <4>1
      <4> QED BY <4>1, <4>2, <3>1, ReceivedPart
    <3>3. ASSUME AllBulk(sent)
          PROVE  outcomes = <<>> => sent # <<>> /\ Stands(data' \o wire', 1, Encode(sent[1]))
      BY <3>2, <3>3, <2>2
    <3>4. FirstUnderstood'
      BY <2>1, <3>1 DEF FirstUnderstood, AllBulk
    <3>5. AllBulk(sent') = AllBulk(sent) /\ IsSequence(outcomes') /\ sent' \in Seq(Requests)
      BY <2>1, <3>1
    <3> QED BY <3>1, <3>2, <3>3, <3>4, <3>5 DEF StreamInv
  <2>6. ASSUME HandleCommand PROVE StreamInv'
    <3> DEFINE o == Outcome(ParseCommand(data))
    <3>1. /\ sent' = sent /\ wire' = wire /\ data' = <<>> /\ outcomes' = Append(outcomes, o)
          /\ HasLine(data) \/ data # <<>>
      BY <2>6 DEF HandleCommand
    <3>2. IsSequence(outcomes') /\ outcomes' # <<>> /\ Len(outcomes) \in Nat
          /\ \A i \in 1 .. Len(outcomes) : outcomes'[i] = outcomes[i]
      <4> HIDE DEF o
      <4> QED BY <2>1, <3>1, AppendSequence
    <3>3. data # <<>>
      BY <3>1 DEF HasLine
    <3>4. ASSUME AllBulk(sent)
          PROVE  sent # <<>> /\ \E k \in 0 .. Len(sent[1]) :
                                  outcomes'[1] = Outcome(Command(SubSeq(sent[1], 1, k)))
      <4>1. CASE outcomes # <<>>
        <5>1. 1 \in 1 .. Len(outcomes)
          BY <4>1, <2>1 DEF IsSequence
        <5> QED BY <5>1, <4>1, <3>2, <3>4, <2>1 DEF FirstUnderstood
      <4>2. CASE outcomes = <<>>
        <5>1. /\ sent # <<>> /\ Stands(data \o wire, 1, Encode(sent[1]))
              /\ data \in Seq(Chars) /\ wire \in Seq(Chars)
          BY <4>2, <3>3, <3>4, <2>2
        <5>2. sent[1] \in Requests /\ Bulk(sent[1]) /\ Encode(sent[1]) \in Seq(Chars)
          BY <5>1, <3>4, <2>1 DEF AllBulk, Stands
        <5>3. Stands(data, 1, Encode(sent[1])) \/ Cut(data, 1, Encode(sent[1]))
          BY <5>1, <5>2, StandsOrCut
        <5>4. \E k \in 0 .. Len(sent[1]) : o = Outcome(Command(SubSeq(sent[1], 1, k)))
          BY <5>1, <5>2, <5>3, <3>3, FirstMessage
        <5> HIDE DEF o
        <5>5. outcomes'[1] = o
          BY <4>2, <3>1
        <5> QED BY <5>1, <5>4, <5>5
      <4> QED BY <4>1, <4>2
    <3>5. FirstUnderstood'
      BY <3>1, <3>4 DEF FirstUnderstood, AllBulk
    <3>6. ASSUME AllBulk(sent) PROVE data' \in Seq(Chars) /\ wire' \in Seq(CChars)
      BY <3>1, <3>6, <2>2
    <3>7. AllBulk(sent') = AllBulk(sent) /\ sent' \in Seq(Requests)
      BY <2>1, <3>1
    <3> QED BY <3>2, <3>5, <3>6, <3>7 DEF StreamInv
  <2>7. ASSUME ClientCloses PROVE UNCHANGED <<wire, data, sent, outcomes>>
    BY <2>7 DEF ClientCloses
  <2>8. ASSUME UNCHANGED vars PROVE UNCHANGED <<wire, data, sent, outcomes>>
    BY <2>8 DEF vars
  <2> QED BY <2>3, <2>4, <2>5, <2>6, <2>7, <2>8 DEF Next
<1>3. StreamInv => FirstUnderstood
  BY DEF StreamInv
<1> QED BY <1>1, <1>2, <1>3, PTL DEF Spec
===============================================================================
