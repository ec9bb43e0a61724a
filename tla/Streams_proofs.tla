---------------------------- MODULE Streams_proofs ----------------------------
(***************************************************************************)
(* What the four services make of a stream, for any stream that may end at *)
(* any byte, and any size of the buffer: HTTP, SCGI, FastCGI and CGI, and  *)
(* that a request that was sent whole is made.                             *)
(***************************************************************************)
EXTENDS Streams, TLAPS, FiniteSetTheorems, SequenceTheorems, WellFoundedInduction

-----------------------------------------------------------------------------
(* Natural numbers: the prover's theorems of induction, said of sets.      *)

LEMMA LeastNat ==
    ASSUME NEW S, S \subseteq Nat, S # {}
    PROVE  \E n \in S : \A m \in S : n <= m
<1> DEFINE R == OpToRel(<, Nat)
<1>1. IsWellFoundedOn(R, Nat)
  BY NatLessThanWellFounded
<1>2. \A m, n \in Nat : m < n => <<m, n>> \in R
  BY DEF OpToRel
<1> HIDE DEF R
<1>3. PICK n \in S : \A m \in S : <<m, n>> \notin R
  BY <1>1, WFMin
<1>4. n \in Nat /\ \A m \in S : m \in Nat /\ ~(m < n)
  BY <1>2, <1>3
<1>5. \A m \in S : n <= m
  BY <1>4
<1> QED
  BY <1>5

LEMMA Induct ==
    ASSUME NEW T, 0 \in T, \A n \in Nat : n \in T => n + 1 \in T
    PROVE  Nat \subseteq T
<1> SUFFICES ASSUME Nat \ T # {}
             PROVE  FALSE
  OBVIOUS
<1>1. PICK n \in Nat \ T : \A m \in Nat \ T : n <= m
  BY LeastNat
<1>2. n # 0
  BY <1>1
<1>3. n - 1 \in Nat /\ ~(n <= n - 1) /\ (n - 1) + 1 = n
  BY <1>1, <1>2
<1>4. n - 1 \in T
  BY <1>1, <1>3
<1> QED
  BY <1>1, <1>3, <1>4

LEMMA MinOf ==
    ASSUME NEW S, S \subseteq Nat, S # {}
    PROVE  Min(S) \in S /\ \A j \in S : Min(S) <= j
BY LeastNat DEF Min

\* The function that counts a number's digits is there, and is one of numbers.
LEMMA Decimals ==
    ASSUME NEW d, d \in [Nat -> Nat], NEW n \in Nat
    PROVE  \E f : f = [i \in 0..n |-> IF i = 0 THEN 0 ELSE 10 * f[i - 1] + d[i]]
<1> DEFINE Is(f, m) ==
              f = [i \in 0..m |-> IF i = 0 THEN 0 ELSE 10 * f[i - 1] + d[i]]
           T == {m \in Nat : \E f : Is(f, m)}
<1>1. 0 \in T
  <2> DEFINE f == [i \in 0..0 |-> 0]
  <2>1. Is(f, 0)
    OBVIOUS
  <2> QED
    BY <2>1
<1>2. ASSUME NEW m \in Nat, m \in T
      PROVE  m + 1 \in T
  <2>1. PICK f : Is(f, m)
    BY <1>2
  <2> DEFINE last == 10 * f[m] + d[m + 1]
             g == [i \in 0..(m + 1) |-> IF i = m + 1 THEN last ELSE f[i]]
  <2>4. \A i \in 0..m : f[i] = IF i = 0 THEN 0 ELSE 10 * f[i - 1] + d[i]
    BY <2>1
  <2>5. ASSUME NEW i \in 0..(m + 1)
        PROVE  g[i] = IF i = 0 THEN 0 ELSE 10 * g[i - 1] + d[i]
    <3>1. CASE i = m + 1
      <4>1. i # 0 /\ i - 1 = m /\ m \in 0..(m + 1) /\ m # m + 1
        BY <3>1
      <4>2. g[i] = last /\ g[i - 1] = f[m]
        BY <3>1, <4>1
      <4> QED
        BY <3>1, <4>1, <4>2
    <3>2. CASE i # m + 1
      <4>1. i \in 0..m /\ g[i] = f[i]
        BY <3>2
      <4>2. CASE i = 0
        BY <2>4, <4>1, <4>2
      <4>3. CASE i # 0
        <5>1. i - 1 \in 0..(m + 1) /\ i - 1 # m + 1
          BY <4>1, <4>3
        <5>2. g[i - 1] = f[i - 1]
          BY <5>1
        <5> HIDE DEF g
        <5> QED
          BY <2>4, <4>1, <4>3, <5>2
      <4> QED
        BY <4>2, <4>3
    <3> QED
      BY <3>1, <3>2
  <2>6. Is(g, m + 1)
    <3> DEFINE h == [i \in 0..(m + 1) |-> IF i = 0 THEN 0 ELSE 10 * g[i - 1] + d[i]]
    <3>1. DOMAIN g = 0..(m + 1) /\ DOMAIN h = 0..(m + 1)
      OBVIOUS
    <3>2. \A i \in 0..(m + 1) : g[i] = h[i]
      BY <2>5
    <3>3. g = [i \in DOMAIN g |-> g[i]] /\ h = [i \in DOMAIN h |-> h[i]]
      OBVIOUS
    <3>4. g = h
      <4> HIDE DEF g, h
      <4> QED
        BY <3>1, <3>2, <3>3
    <3> QED
      BY <3>4
  <2> HIDE DEF g, Is
  <2> QED
    BY <2>6
<1>3. n \in T
  <2> HIDE DEF T
  <2> QED
    BY <1>1, <1>2, Induct
<1> QED
  BY <1>3

LEMMA DecimalsNat ==
    ASSUME NEW d, d \in [Nat -> Nat], NEW n \in Nat, NEW f,
           f = [i \in 0..n |-> IF i = 0 THEN 0 ELSE 10 * f[i - 1] + d[i]]
    PROVE  f[n] \in Nat
<1> DEFINE T == {m \in Nat : m <= n => f[m] \in Nat}
<1>1. \A i \in 0..n : f[i] = IF i = 0 THEN 0 ELSE 10 * f[i - 1] + d[i]
  OBVIOUS
<1>2. 0 \in T
  BY <1>1
<1>3. ASSUME NEW m \in Nat, m \in T
      PROVE  m + 1 \in T
  <2> SUFFICES ASSUME m + 1 <= n PROVE f[m + 1] \in Nat
    OBVIOUS
  <2>1. f[m] \in Nat /\ d[m + 1] \in Nat
    BY <1>3
  <2>2. m + 1 \in 0..n /\ m + 1 # 0 /\ (m + 1) - 1 = m
    OBVIOUS
  <2>3. f[m + 1] = 10 * f[m] + d[m + 1]
    BY <1>1, <2>2
  <2>4. PICK a \in Nat, b \in Nat : a = f[m] /\ b = d[m + 1]
    BY <2>1
  <2>5. f[m + 1] = 10 * a + b
    BY <2>3, <2>4
  <2>6. 10 * a + b \in Nat
    OBVIOUS
  <2> QED
    BY <2>5, <2>6
<1>4. n \in T
  <2> HIDE DEF T
  <2> QED
    BY <1>2, <1>3, Induct
<1> QED
  BY <1>4

LEMMA LeadingIs ==
    ASSUME NEW s, Len(s) \in Nat, DOMAIN s = 1..Len(s)
    PROVE  Leading(s) \in Nat
<1> DEFINE other == {i \in DOMAIN s : s[i] \notin ToSet(Digits)}
           n == IF other = {} THEN Len(s) ELSE Min(other) - 1
           Digit(i) == CHOOSE v \in 0..9 : Digits[v + 1] = s[i]
           d == [i \in Nat |-> IF i \in 1..n THEN Digit(i) ELSE 0]
           Is(f) == f = [i \in 0..n |-> IF i = 0 THEN 0 ELSE 10 * f[i - 1] + Digit(i)]
           Sums(f) == f = [i \in 0..n |-> IF i = 0 THEN 0 ELSE 10 * f[i - 1] + d[i]]
<1>1. n \in Nat /\ \A i \in 1..n : s[i] \in ToSet(Digits)
  <2>1. CASE other = {}
    BY <2>1
  <2>2. CASE other # {}
    <3>1. other \subseteq Nat /\ other \subseteq 1..Len(s)
      OBVIOUS
    <3>2. Min(other) \in other /\ \A j \in other : Min(other) <= j
      BY <2>2, <3>1, MinOf
    <3>3. PICK k \in 1..Len(s) : k = Min(other)
      BY <3>1, <3>2
    <3>4. n = k - 1
      BY <2>2, <3>3
    <3>5. \A i \in 1..(k - 1) : i \in 1..Len(s) /\ i \notin other
      <4> HIDE DEF other, n
      <4> TAKE i \in 1..(k - 1)
      <4>1. i \in 1..Len(s) /\ ~(k <= i)
        BY <3>3
      <4> QED
        BY <3>2, <3>3, <4>1
    <3> QED
      BY <3>3, <3>4, <3>5
  <2> QED
    BY <2>1, <2>2
<1> HIDE DEF other
<1>2. \A i \in 1..n : Digit(i) \in Nat
  <2> TAKE i \in 1..n
  <2>1. \E v \in 0..9 : Digits[v + 1] = s[i]
    <3>1. PICK j \in DOMAIN Digits : Digits[j] = s[i]
      BY <1>1 DEF ToSet
    <3>2. j \in 1..10
      BY DEF Digits
    <3>3. PICK v \in 0..9 : v + 1 = j
      <4>1. j - 1 \in 0..9 /\ (j - 1) + 1 = j
        BY <3>2
      <4> QED
        BY <4>1
    <3> HIDE DEF n
    <3>4. Digits[v + 1] = s[i]
      BY <3>1, <3>3
    <3> QED
      BY <3>4
  <2>2. Digit(i) \in 0..9
    BY <2>1
  <2> HIDE DEF Digit
  <2>3. \A v \in 0..9 : v \in Nat
    OBVIOUS
  <2> QED
    BY <2>2, <2>3
<1>3. Leading(s) = LET value == CHOOSE f : Is(f) IN value[n]
  BY DEF Leading, other
<1> HIDE DEF n, Digit
<1>4. d \in [Nat -> Nat]
  BY <1>2
<1>5. \A i \in 1..n : d[i] = Digit(i)
  BY <1>1
<1>6. ASSUME NEW f
      PROVE  Is(f) <=> Sums(f)
  <2> DEFINE a == [i \in 0..n |-> IF i = 0 THEN 0 ELSE 10 * f[i - 1] + Digit(i)]
             b == [i \in 0..n |-> IF i = 0 THEN 0 ELSE 10 * f[i - 1] + d[i]]
  <2>1. \A i \in 0..n : i = 0 \/ i \in 1..n
    BY <1>1
  <2> HIDE DEF d
  <2>2. a = b
    BY <1>5, <2>1
  <2> QED
    BY <2>2
<1> HIDE DEF d
<1>7. \E f : Sums(f)
  BY <1>1, <1>4, Decimals
<1> HIDE DEF Sums, Is
<1>8. PICK f : f = CHOOSE g : Is(g)
  OBVIOUS
<1>9. Is(f)
  BY <1>6, <1>7, <1>8
<1>10. f[n] \in Nat
  BY <1>1, <1>4, <1>6, <1>9, DecimalsNat DEF Sums
<1> QED
  BY <1>3, <1>8, <1>10

-----------------------------------------------------------------------------
(* Texts.                                                                  *)

IsText(s) == Len(s) \in Nat /\ DOMAIN s = 1..Len(s)

LEMMA Slice ==
    ASSUME NEW s, NEW m \in Int, NEW n \in Int
    PROVE  /\ IsText(SubSeq(s, m, n))
           /\ Len(SubSeq(s, m, n)) = IF m <= n THEN n - m + 1 ELSE 0
           /\ \A i \in 1..(n - m + 1) : SubSeq(s, m, n)[i] = s[m + i - 1]
<1> DEFINE S == {s[i] : i \in m..n}
<1>1. \A i \in m..n : s[i] \in S
  OBVIOUS
<1> HIDE DEF S
<1>2. /\ SubSeq(s, m, n) \in Seq(S)
      /\ Len(SubSeq(s, m, n)) = IF m <= n THEN n - m + 1 ELSE 0
      /\ \A i \in 1..(n - m + 1) : SubSeq(s, m, n)[i] = s[m + i - 1]
  BY <1>1, SubSeqProperties
<1>3. IsText(SubSeq(s, m, n))
  <2> DEFINE t == SubSeq(s, m, n)
  <2>1. t \in Seq(S)
    BY <1>2
  <2> HIDE DEF t
  <2>2. IsText(t)
    BY <2>1, LenProperties DEF IsText
  <2> QED
    BY <2>2 DEF t
<1> QED
  BY <1>2, <1>3

LEMMA UnsignedIs ==
    ASSUME NEW s, IsText(s)
    PROVE  Unsigned(s) \in Nat /\ Unsigned(s) < Wrap
<1>0. PICK n \in Nat : n = Leading(s)
  BY LeadingIs DEF IsText
<1>a. Wrap \in Nat \ {0}
  BY NumbersAssumption
<1>1. PICK m \in Nat : m = Wrap - 1 /\ m < Wrap
  BY <1>a
<1>2. {n, m} \subseteq Nat /\ {n, m} # {}
  OBVIOUS
<1>3. Min({n, m}) \in {n, m} /\ \A j \in {n, m} : Min({n, m}) <= j
  BY <1>2, MinOf
<1>4. PICK k \in Nat : k = Min({n, m}) /\ k <= m
  BY <1>3
<1>5. Wrap \in Nat
  BY NumbersAssumption
<1> QED
  BY <1>0, <1>1, <1>4, <1>5 DEF Unsigned

\* Every text is a number for g_ascii_strtoull.
LEMMA NumberIs ==
    ASSUME NEW s, IsText(s)
    PROVE  Number(s) \in Nat
<1> DEFINE black == {i \in DOMAIN s : s[i] \notin Blanks}
           rest == SubSeq(s, Min(black) + 1, Len(s))
<1>1. Number(s) = CASE black = {} -> 0
                    [] black # {} /\ s[Min(black)] = "+" -> Unsigned(rest)
                    [] black # {} /\ s[Min(black)] = "-" -> (Wrap - Unsigned(rest)) % Wrap
                    [] OTHER -> Unsigned(SubSeq(s, Min(black), Len(s)))
  BY DEF Number
<1>2. black \subseteq 1..Len(s) /\ black \subseteq Nat /\ Len(s) \in Nat
  BY DEF IsText
<1> HIDE DEF black, rest
<1>3. CASE black = {}
  <2>1. Number(s) = 0
    BY <1>1, <1>3
  <2> QED
    BY <2>1
<1>4. CASE black # {}
  <2>a. Min(black) \in Nat
    BY <1>2, <1>4, MinOf
  <2>1. PICK f \in Int, g \in Int, l \in Int : f = Min(black) /\ g = f + 1 /\ l = Len(s)
    BY <1>2, <2>a
  <2>2. IsText(SubSeq(s, g, l)) /\ IsText(SubSeq(s, f, l))
    BY Slice
  <2>3. PICK u \in Nat, v \in Nat, w \in Nat \ {0} :
            u = Unsigned(rest) /\ v = Unsigned(SubSeq(s, f, l)) /\ w = Wrap /\ u < w
    BY <2>1, <2>2, UnsignedIs, NumbersAssumption DEF rest
  <2>4. (w - u) % w \in Nat
    OBVIOUS
  <2>5. Number(s) \in {u, v, (w - u) % w}
    BY <1>1, <1>4, <2>1, <2>3
  <2> QED
    BY <2>4, <2>5
<1> QED
  BY <1>3, <1>4

LEMMA NumberOfText ==
    ASSUME NEW table, NEW name, name \in DOMAIN table => IsText(table[name])
    PROVE  LengthOf(table, name) \in Nat
BY NumberIs DEF LengthOf

LEMMA MaxOf ==
    ASSUME NEW L \in Nat, NEW S, S \subseteq 1..L, S # {}
    PROVE  Max(S) \in S /\ \A j \in S : j <= Max(S)
<1> DEFINE T == {L - i : i \in S}
<1>1. T \subseteq Nat /\ T # {}
  <2>1. \A i \in 1..L : L - i \in Nat
    OBVIOUS
  <2>2. \A i \in S : L - i \in Nat
    BY <2>1
  <2>3. \E i \in S : TRUE
    OBVIOUS
  <2> QED
    BY <2>2, <2>3
<1>2. PICK n \in T : \A m \in T : n <= m
  <2> HIDE DEF T
  <2> QED
    BY <1>1, LeastNat
<1>3. PICK k \in S : n = L - k
  BY <1>2
<1>4. \A j \in S : j <= k
  <2> TAKE j \in S
  <2>1. L - j \in T /\ j \in Nat /\ k \in Nat
    OBVIOUS
  <2>2. L - k <= L - j
    BY <1>2, <1>3, <2>1
  <2> QED
    BY <2>1, <2>2
<1> QED
  BY <1>4 DEF Max

LEMMA StripIsText ==
    ASSUME NEW s, IsText(s)
    PROVE  IsText(Strip(s))
<1> DEFINE black == {i \in DOMAIN s : s[i] # " "}
<1>1. black \subseteq 1..Len(s) /\ Len(s) \in Nat
  BY DEF IsText
<1>2. Strip(s) = IF black = {} THEN <<>> ELSE SubSeq(s, Min(black), Max(black))
  BY DEF Strip
<1> HIDE DEF black
<1>3. CASE black = {}
  <2>1. IsText(<<>>)
    BY DEF IsText
  <2> QED
    BY <1>2, <1>3, <2>1
<1>4. CASE black # {}
  <2>1. Min(black) \in black
    <3>1. black \subseteq Nat
      BY <1>1
    <3> QED
      BY <1>4, <3>1, MinOf
  <2>2. Max(black) \in black
    BY <1>1, <1>4, MaxOf
  <2>3. \A i \in 1..Len(s) : i \in Int
    OBVIOUS
  <2>4. Min(black) \in Int /\ Max(black) \in Int
    BY <1>1, <2>1, <2>2, <2>3
  <2> QED
    BY <1>2, <1>4, <2>4, Slice
<1> QED
  BY <1>3, <1>4

\* A text with a colon makes two pieces.
LEMMA TwoPieces ==
    ASSUME NEW s, IsText(s), NEW c, Contains(s, c)
    PROVE  /\ Len(Split(s, c)) = 2 /\ IsText(Split(s, c)[1]) /\ IsText(Split(s, c)[2])
<1> DEFINE at == {i \in DOMAIN s : s[i] = c}
           a == SubSeq(s, 1, Min(at) - 1)
           b == SubSeq(s, Min(at) + 1, Len(s))
<1>1. at # {} /\ s # <<>> /\ at \subseteq 1..Len(s) /\ Len(s) \in Nat
  BY DEF Contains, IsText
<1>2. Split(s, c) = <<a, b>>
  BY <1>1 DEF Split
<1> HIDE DEF at
<1>3. Min(at) \in Nat
  <2>1. at \subseteq Nat
    BY <1>1
  <2> QED
    BY <1>1, <2>1, MinOf
<1>4. IsText(a) /\ IsText(b)
  <2>1. Min(at) - 1 \in Int /\ Min(at) + 1 \in Int /\ 1 \in Int /\ Len(s) \in Int
    BY <1>1, <1>3
  <2> QED
    BY <2>1, Slice
<1> HIDE DEF a, b
<1> QED
  BY <1>2, <1>4

\* A string is a text, and one of no bytes if the first byte is a NUL.
LEMMA StringIs ==
    ASSUME NEW s, IsText(s)
    PROVE  /\ IsText(CString(s))
           /\ Len(s) > 0 /\ s[1] = NUL => CString(s) = <<>>
           /\ Len(s) > 0 /\ s[1] # NUL => CString(s) # <<>>
           /\ s = <<>> => CString(s) = <<>>
<1> DEFINE at == {i \in DOMAIN s : s[i] = NUL}
<1>1. at \subseteq 1..Len(s) /\ at \subseteq Nat /\ Len(s) \in Nat
  BY DEF IsText
<1>2. Len(<<>>) = 0 /\ IsText(<<>>)
  BY DEF IsText
<1>3. CASE s = <<>>
  BY <1>2, <1>3 DEF CString
<1>4. CASE s # <<>> /\ at = {}
  <2>1. CString(s) = s
    BY <1>4 DEF CString, Split
  <2>2. Len(s) > 0 => s[1] # NUL
    BY <1>1, <1>4 DEF IsText
  <2> QED
    BY <1>4, <2>1, <2>2
<1>5. CASE s # <<>> /\ at # {}
  <2>1. CString(s) = SubSeq(s, 1, Min(at) - 1)
    BY <1>5 DEF CString, Split
  <2>2. Min(at) \in at /\ \A j \in at : Min(at) <= j
    BY <1>1, <1>5, MinOf
  <2> HIDE DEF at
  <2>3. PICK k \in 1..Len(s) : k = Min(at)
    BY <1>1, <2>2
  <2>4. PICK a \in Int, b \in Int : a = 1 /\ b = k - 1
    OBVIOUS
  <2>5. CString(s) = SubSeq(s, a, b)
    BY <2>1, <2>3, <2>4
  <2>6. IsText(SubSeq(s, a, b)) /\ Len(SubSeq(s, a, b)) = IF a <= b THEN b - a + 1 ELSE 0
    BY Slice
  <2>7. s[k] = NUL
    BY <2>2, <2>3 DEF at
  <2>8. ASSUME Len(s) > 0, s[1] = NUL
        PROVE  CString(s) = <<>>
    <3>1. 1 \in at
      BY <1>1, <2>8 DEF at, IsText
    <3>2. b < a
      BY <2>2, <2>3, <2>4, <3>1
    <3> QED
      BY <2>5, <3>2, SubSeqEmpty
  <2>9. ASSUME s[1] # NUL
        PROVE  CString(s) # <<>>
    <3>1. k # 1
      BY <2>7, <2>9
    <3>2. a <= b /\ b - a + 1 # 0
      BY <2>4, <3>1
    <3> QED
      BY <1>2, <2>5, <2>6, <3>2
  <2> QED
    BY <1>5, <2>5, <2>6, <2>8, <2>9
<1> QED
  BY <1>3, <1>4, <1>5

\* What was read is a piece of the stream.
LEMMA TextIs ==
    ASSUME stream \in Seq(ToSet(stream)), NEW i \in Nat, NEW j \in Nat, i <= j,
           j <= Len(stream)
    PROVE  Text(i, j) = SubSeq(stream, i + 1, j)
<1> DEFINE a == Text(i, j)
           b == SubSeq(stream, i + 1, j)
<1>1. /\ IsText(b) /\ Len(b) = j - i
      /\ \A n \in 1..(j - i) : b[n] = stream[i + n]
  <2>1. i + 1 \in Int /\ j \in Int
    OBVIOUS
  <2>2. /\ IsText(b) /\ Len(b) = IF i + 1 <= j THEN j - (i + 1) + 1 ELSE 0
        /\ \A n \in 1..(j - (i + 1) + 1) : b[n] = stream[i + 1 + n - 1]
    BY <2>1, Slice
  <2> HIDE DEF b
  <2> QED
    BY <2>2
<1>2. b = [n \in DOMAIN b |-> b[n]]
  <2>1. \A n \in (i + 1)..j : stream[n] \in ToSet(stream)
    BY ElementOfSeq, LenProperties
  <2>2. b \in Seq(ToSet(stream))
    <3>1. i + 1 \in Int /\ j \in Int
      OBVIOUS
    <3> QED
      BY <2>1, <3>1, SubSeqProperties
  <2> HIDE DEF b
  <2> QED
    BY <2>2
<1>3. \A n \in 1..(j - i) : ByteAt(i + n) = stream[i + n]
  BY DEF ByteAt
<1>4. DOMAIN b = 1..(j - i)
  BY <1>1 DEF IsText
<1> HIDE DEF b
<1>5. [n \in 1..(j - i) |-> ByteAt(i + n)] = b
  BY <1>1, <1>2, <1>3, <1>4
<1> QED
  BY <1>5 DEF Text, b

\* A piece, and the piece that is read after it.
LEMMA Goes ==
    ASSUME stream \in Seq(ToSet(stream)), NEW i \in Nat, NEW j \in Nat, NEW k \in Nat,
           i <= j, j <= k, k <= Len(stream)
    PROVE  SubSeq(stream, i + 1, j) \o Text(j, k) = SubSeq(stream, i + 1, k)
<1>1. /\ Len(stream) \in Nat /\ i + 1 \in 1..(Len(stream) + 1)
      /\ j \in (i + 1) - 1..Len(stream) /\ k \in j..Len(stream)
  BY LenProperties
<1>2. Text(j, k) = SubSeq(stream, j + 1, k)
  BY TextIs
<1> QED
  BY <1>1, <1>2, ConcatAdjacentSubSeq

-----------------------------------------------------------------------------
(* Tables: of the lines or the variables with the same name, the last.     *)

\* The elements of S are tuples, in the order of their first component.  nm and val
\* are functions on them.
LastOnes(S, nm, val, table) ==
    /\ table = [x \in DOMAIN table |-> table[x]]
    /\ DOMAIN table = {nm[l] : l \in S}
    /\ \A l \in S : \E m \in S :
          /\ nm[m] = nm[l] /\ table[nm[l]] = val[m]
          /\ \A k \in S : nm[k] = nm[l] => k[1] <= m[1]

LEMMA NoneYet ==
    ASSUME NEW nm, NEW val
    PROVE  LastOnes({}, nm, val, <<>>)
BY DEF LastOnes

LEMMA PutLast ==
    ASSUME NEW S, NEW nm, NEW val, NEW table, LastOnes(S, nm, val, table), NEW x,
           x[1] \in Int, \A k \in S : k[1] <= x[1]
    PROVE  LastOnes(S \cup {x}, nm, val, Put(table, nm[x], val[x]))
<1> DEFINE T == S \cup {x}
           t == Put(table, nm[x], val[x])
<1>1. /\ table = [y \in DOMAIN table |-> table[y]]
      /\ DOMAIN table = {nm[l] : l \in S}
  BY DEF LastOnes
<1>2. /\ DOMAIN t = DOMAIN table \cup {nm[x]}
      /\ t[nm[x]] = val[x]
      /\ \A y \in DOMAIN table : y # nm[x] => t[y] = table[y]
      /\ t = [y \in DOMAIN t |-> t[y]]
  BY DEF Put
<1> HIDE DEF t
<1>3. DOMAIN t = {nm[l] : l \in T}
  BY <1>1, <1>2
<1>4. ASSUME NEW l \in T
      PROVE  \E m \in T : /\ nm[m] = nm[l] /\ t[nm[l]] = val[m]
                          /\ \A k \in T : nm[k] = nm[l] => k[1] <= m[1]
  <2>1. CASE nm[l] = nm[x]
    <3>1. x \in T /\ t[nm[l]] = val[x]
      BY <1>2, <2>1
    <3>2. \A k \in T : k[1] <= x[1]
      OBVIOUS
    <3> QED
      BY <2>1, <3>1, <3>2
  <2>2. CASE nm[l] # nm[x]
    <3>1. l \in S
      BY <2>2
    <3>2. PICK m \in S : /\ nm[m] = nm[l] /\ table[nm[l]] = val[m]
                         /\ \A k \in S : nm[k] = nm[l] => k[1] <= m[1]
      BY <3>1 DEF LastOnes
    <3>3. t[nm[l]] = table[nm[l]]
      BY <1>1, <1>2, <2>2, <3>1
    <3>4. \A k \in T : nm[k] = nm[l] => k[1] <= m[1]
      BY <2>2, <3>2
    <3> QED
      BY <3>2, <3>3, <3>4
  <2> QED
    BY <2>1, <2>2
<1>5. LastOnes(T, nm, val, t)
  <2> HIDE DEF T
  <2> QED
    BY <1>2, <1>3, <1>4 DEF LastOnes
<1> QED
  BY <1>5 DEF t

LEMMA LastIs ==
    ASSUME NEW S, NEW nm, NEW val, NEW table, LastOnes(S, nm, val, table),
           \A k \in S : k[1] \in Int,
           \A k, m \in S : k[1] = m[1] => k = m,
           NEW l \in S, \A k \in S : nm[k] = nm[l] => k[1] <= l[1]
    PROVE  table[nm[l]] = val[l]
<1>1. PICK m \in S : /\ nm[m] = nm[l] /\ table[nm[l]] = val[m]
                     /\ \A k \in S : nm[k] = nm[l] => k[1] <= m[1]
  BY DEF LastOnes
<1>2. l[1] \in Int /\ m[1] \in Int /\ l[1] <= m[1] /\ m[1] <= l[1]
  BY <1>1
<1>3. l = m
  BY <1>2
<1> QED
  BY <1>1, <1>3

LEMMA LastExists ==
    ASSUME NEW S, NEW nm, NEW val, NEW table, LastOnes(S, nm, val, table),
           NEW n \in {nm[l] : l \in S}
    PROVE  \E l \in S : nm[l] = n /\ \A k \in S : nm[k] = n => k[1] <= l[1]
BY DEF LastOnes

-----------------------------------------------------------------------------
(* The lines of a head.                                                    *)

LEMMA FeedsAre ==
    ASSUME NEW s, IsText(s)
    PROVE  /\ Feeds(s) \subseteq 1..Len(s) /\ Feeds(s) \subseteq Nat
           /\ Empties(s) \subseteq 1..Len(s) /\ Empties(s) \subseteq Nat
<1>1. Len(s) \in Nat /\ DOMAIN s = 1..Len(s)
  BY DEF IsText
<1>2. Feeds(s) \subseteq 1..Len(s)
  BY <1>1 DEF Feeds
<1>3. ASSUME NEW e \in Empties(s)
      PROVE  e \in 1..Len(s)
  <2>1. e \in Feeds(s) \cup {Len(s)} /\ \E b \in Feeds(s) : b < e
    BY DEF Empties
  <2>2. PICK b \in Feeds(s) : b < e
    BY <2>1
  <2>3. b \in 1..Len(s)
    BY <1>2
  <2>4. CASE e = Len(s)
    BY <1>1, <2>2, <2>3, <2>4
  <2> QED
    BY <1>2, <2>1, <2>4
<1> QED
  BY <1>1, <1>2, <1>3

\* What makes a line empty, and so the end of the head.
Blank(b) == b \in {LF, NUL}

\* The next end of a line is the end of the head only behind an empty line.
LEMMA EndsEmpty ==
    ASSUME NEW s, IsText(s), NEW e \in Empties(s), NEW n \in Feeds(s), e > n,
           \A i \in Feeds(s) : i <= n \/ i >= e
    PROVE  Blank(s[n + 1])
<1>1. Feeds(s) \subseteq Nat /\ e \in Nat /\ n \in Nat
  BY FeedsAre
<1>2. PICK b \in Feeds(s) : /\ b < e /\ s[b + 1] \in {LF, NUL}
                           /\ \A i \in Feeds(s) : i <= b \/ i >= e
  BY DEF Empties
<1>3. b \in Nat /\ (n <= b \/ n >= e) /\ (b <= n \/ b >= e)
  BY <1>1, <1>2
<1>4. b = n
  BY <1>1, <1>2, <1>3
<1> QED
  BY <1>2, <1>4 DEF Blank

LEMMA LinesAre ==
    ASSUME NEW s, IsText(s), NEW n \in Nat
    PROVE  /\ \A l \in LinesUpTo(s, n) : l[1] \in Nat /\ l[2] \in Nat /\ l[1] < l[2] /\ l[2] <= n
           /\ \A l, m \in LinesUpTo(s, n) : l[1] = m[1] => l = m
<1>1. Feeds(s) \subseteq Nat
  BY FeedsAre
<1>2. ASSUME NEW l \in LinesUpTo(s, n)
      PROVE  /\ l = <<l[1], l[2]>> /\ l[1] \in Feeds(s) /\ l[2] \in Feeds(s)
             /\ l[1] < l[2] /\ l[2] <= n /\ \A i \in Feeds(s) : i <= l[1] \/ i >= l[2]
  BY DEF LinesUpTo
<1>3. ASSUME NEW l \in LinesUpTo(s, n), NEW m \in LinesUpTo(s, n), l[1] = m[1]
      PROVE  l = m
  <2>1. /\ l[1] \in Nat /\ l[2] \in Nat /\ m[2] \in Nat
        /\ l[1] < l[2] /\ m[1] < m[2]
    BY <1>1, <1>2
  <2>2. (m[2] <= l[1] \/ m[2] >= l[2]) /\ (l[2] <= m[1] \/ l[2] >= m[2])
    BY <1>2
  <2>3. l[2] = m[2]
    BY <1>3, <2>1, <2>2
  <2> QED
    BY <1>2, <1>3, <2>3
<1> QED
  BY <1>1, <1>2, <1>3

\* The first line makes no header, and is not the end of the head, even if it is empty.
LEMMA FirstLine ==
    ASSUME NEW s, IsText(s), NEW n \in Feeds(s), \A i \in Feeds(s) : n <= i
    PROVE  LinesUpTo(s, n) = {} /\ \A e \in Empties(s) : e > n
<1>1. Feeds(s) \subseteq Nat /\ n \in Nat
  BY FeedsAre
<1>2. LinesUpTo(s, n) = {}
  <2> SUFFICES ASSUME NEW l \in LinesUpTo(s, n) PROVE FALSE
    OBVIOUS
  <2>1. l[1] \in Feeds(s)
    BY DEF LinesUpTo
  <2>2. l[1] \in Nat /\ n <= l[1]
    BY <1>1, <2>1
  <2> QED
    BY <1>1, <2>2, LinesAre
<1>3. ASSUME NEW e \in Empties(s)
      PROVE  e > n
  <2>1. PICK b \in Feeds(s) : b < e
    BY DEF Empties
  <2>2. e \in Nat /\ b \in Nat /\ n <= b
    BY <1>1, FeedsAre
  <2> QED
    BY <1>1, <2>1, <2>2
<1> QED
  BY <1>2, <1>3

\* From one LF to the next there is one line more.
LEMMA NextLine ==
    ASSUME NEW s, IsText(s), NEW p \in Feeds(s), NEW n \in Feeds(s), p < n,
           \A i \in Feeds(s) : i <= p \/ i >= n
    PROVE  LinesUpTo(s, n) = LinesUpTo(s, p) \cup {<<p, n>>}
<1>1. Feeds(s) \subseteq Nat /\ p \in Nat /\ n \in Nat
  BY FeedsAre
<1>2. <<p, n>> \in LinesUpTo(s, n)
  BY <1>1 DEF LinesUpTo
<1>3. ASSUME NEW l \in LinesUpTo(s, p)
      PROVE  l \in LinesUpTo(s, n)
  <2>1. /\ l \in Feeds(s) \X Feeds(s) /\ l[1] < l[2] /\ l[2] <= p
        /\ \A i \in Feeds(s) : i <= l[1] \/ i >= l[2]
    BY DEF LinesUpTo
  <2>2. l[2] \in Nat
    BY <1>1, <2>1
  <2>3. l[2] <= n
    BY <1>1, <2>1, <2>2
  <2> QED
    BY <2>1, <2>3 DEF LinesUpTo
<1>4. ASSUME NEW l \in LinesUpTo(s, n), l \notin LinesUpTo(s, p)
      PROVE  l = <<p, n>>
  <2>1. /\ l \in Feeds(s) \X Feeds(s) /\ l[1] < l[2] /\ l[2] <= n
        /\ \A i \in Feeds(s) : i <= l[1] \/ i >= l[2]
    BY DEF LinesUpTo
  <2>2. l[1] \in Nat /\ l[2] \in Nat /\ l = <<l[1], l[2]>> /\ l[1] \in Feeds(s) /\ l[2] \in Feeds(s)
    BY <1>1, <2>1
  <2>3. ~(l[2] <= p)
    BY <1>4, <2>1 DEF LinesUpTo
  <2>4. (l[2] <= p \/ l[2] >= n) /\ (p <= l[1] \/ p >= l[2]) /\ (l[1] <= p \/ l[1] >= n)
    BY <2>1, <2>2
  <2>5. l[2] = n /\ l[1] = p
    BY <1>1, <2>1, <2>2, <2>3, <2>4
  <2> QED
    BY <2>2, <2>5
<1> QED
  BY <1>2, <1>3, <1>4

\* A text that splits in two pieces splits in two texts.
LEMMA PiecesAreTexts ==
    ASSUME NEW s, IsText(s), NEW c, Len(Split(s, c)) = 2
    PROVE  IsText(Split(s, c)[1]) /\ IsText(Split(s, c)[2])
<1>1. CASE Contains(s, c)
  BY <1>1, TwoPieces
<1>2. CASE ~Contains(s, c)
  <2>1. {i \in DOMAIN s : s[i] = c} = {}
    BY <1>2 DEF Contains, IsText
  <2>2. CASE s = <<>>
    <3>1. Split(s, c) = <<>> /\ Len(<<>>) = 0
      BY <2>2 DEF Split
    <3> QED
      BY <3>1
  <2>3. CASE s # <<>>
    <3>1. Split(s, c) = <<s>>
      BY <2>1, <2>3 DEF Split
    <3>2. Len(<<s>>) = 1
      OBVIOUS
    <3> QED
      BY <3>1, <3>2
  <2> QED
    BY <2>2, <2>3
<1> QED
  BY <1>1, <1>2

\* All the headers, and what is a header, as functions on the lines.
Names(s) == [l \in LinesUpTo(s, Len(s)) |-> HeaderName(s, l)]
Values(s) == [l \in LinesUpTo(s, Len(s)) |-> Strip(PiecesOf(s, l)[2])]

LEMMA FewerLines ==
    ASSUME NEW s, IsText(s), NEW n \in Nat, n <= Len(s)
    PROVE  LinesUpTo(s, n) \subseteq LinesUpTo(s, Len(s))
<1>1. Feeds(s) \subseteq Nat
  BY FeedsAre
<1>2. Len(s) \in Nat
  BY DEF IsText
<1>3. ASSUME NEW l \in LinesUpTo(s, n)
      PROVE  l \in LinesUpTo(s, Len(s))
  <2>1. /\ l \in Feeds(s) \X Feeds(s) /\ l[1] < l[2] /\ l[2] <= n
        /\ \A i \in Feeds(s) : i <= l[1] \/ i >= l[2]
    BY DEF LinesUpTo
  <2>2. l[2] \in Nat
    BY <1>1, <2>1
  <2>3. l[2] <= Len(s)
    BY <1>2, <2>1, <2>2
  <2> QED
    BY <2>1, <2>3 DEF LinesUpTo
<1> QED
  BY <1>3

\* The table of the lines of the whole head, if each of them is a header, is what was
\* sent.
LEMMA HeadersAre ==
    ASSUME NEW s, IsText(s), NEW n \in Nat, n <= Len(s), HeaderLines(s) = LinesUpTo(s, n),
           \A l \in LinesUpTo(s, n) : Len(PiecesOf(s, l)) = 2,
           NEW table, LastOnes(LinesUpTo(s, n), Names(s), Values(s), table)
    PROVE  table = HeadersSent(s)
<1> DEFINE L == LinesUpTo(s, n)
           right == {l \in HeaderLines(s) : Len(PiecesOf(s, l)) = 2}
           Latest(k) == CHOOSE l \in right :
                /\ HeaderName(s, l) = k
                /\ \A m \in right : HeaderName(s, m) = k => m[1] <= l[1]
           nm == Names(s)
           val == Values(s)
<1>1. right = L
  OBVIOUS
<1>2. \A l \in L : nm[l] = HeaderName(s, l) /\ val[l] = Strip(PiecesOf(s, l)[2])
  BY FewerLines DEF Names, Values
<1>3. HeadersSent(s) = [k \in {HeaderName(s, l) : l \in right} |-> Strip(PiecesOf(s, Latest(k))[2])]
  BY DEF HeadersSent
<1>4. \A k \in L : k[1] \in Int
  BY LinesAre
<1>5. \A k, m \in L : k[1] = m[1] => k = m
  BY LinesAre
<1>0. LastOnes(L, nm, val, table)
  OBVIOUS
<1> HIDE DEF right, nm, val
<1>6. ASSUME NEW k \in {HeaderName(s, l) : l \in right}
      PROVE  table[k] = Strip(PiecesOf(s, Latest(k))[2])
  <2>1. k \in {nm[l] : l \in L}
    BY <1>1, <1>2
  <2>2. \E l \in L : nm[l] = k /\ \A m \in L : nm[m] = k => m[1] <= l[1]
    <3> HIDE DEF L
    <3> QED
      BY <1>0, <2>1, LastExists
  <2>3. \E l \in right : /\ HeaderName(s, l) = k
                         /\ \A m \in right : HeaderName(s, m) = k => m[1] <= l[1]
    BY <1>1, <1>2, <2>2
  <2>4. /\ Latest(k) \in right /\ HeaderName(s, Latest(k)) = k
        /\ \A m \in right : HeaderName(s, m) = k => m[1] <= Latest(k)[1]
    BY <2>3
  <2>5. PICK l \in L : l = Latest(k)
    BY <1>1, <2>4
  <2>6. nm[l] = k /\ \A m \in L : nm[m] = nm[l] => m[1] <= l[1]
    BY <1>1, <1>2, <2>4, <2>5
  <2>7. table[nm[l]] = val[l]
    <3> HIDE DEF L
    <3> QED
      BY <1>0, <1>4, <1>5, <2>6, LastIs
  <2> HIDE DEF Latest, L
  <2> QED
    BY <1>2, <2>5, <2>6, <2>7
<1>7. table = [x \in DOMAIN table |-> table[x]] /\ DOMAIN table = {nm[l] : l \in L}
  BY <1>0 DEF LastOnes
<1>8. DOMAIN table = {HeaderName(s, l) : l \in right}
  BY <1>1, <1>2, <1>7
<1> HIDE DEF Latest
<1>9. table = [k \in {HeaderName(s, l) : l \in right} |-> Strip(PiecesOf(s, Latest(k))[2])]
  BY <1>6, <1>7, <1>8
<1> QED
  BY <1>3, <1>9

-----------------------------------------------------------------------------
(* The body, the same in both services.                                    *)

\* The stream is a sequence, and what is left of it stays so.
StreamOK == stream \in Seq(ToSet(stream))

\* So much of the body was read, right behind the head, which ends at from.
BodyRead(from, len) ==
    /\ from \in Nat /\ len \in Nat /\ content_length = len
    /\ real_content_length \in 0..len /\ to_read \in Nat
    /\ pos = from + real_content_length /\ pos <= Len(stream)
    /\ body = SubSeq(stream, from + 1, pos)

LEMMA TextIsText == ASSUME StreamOK PROVE IsText(stream)
<1>1. \A S : stream \in Seq(S) => Len(stream) \in Nat /\ DOMAIN stream = 1..Len(stream)
  BY LenProperties
<1> QED
  BY <1>1 DEF StreamOK, IsText

LEMMA MinOfTwo ==
    ASSUME NEW a \in Nat, NEW b \in Nat
    PROVE  Min({a, b}) \in Nat /\ Min({a, b}) <= a /\ Min({a, b}) <= b
<1>1. {a, b} \subseteq Nat /\ {a, b} # {}
  OBVIOUS
<1>2. Min({a, b}) \in {a, b} /\ \A j \in {a, b} : Min({a, b}) <= j
  BY <1>1, MinOf
<1> QED
  BY <1>2

LEMMA BodyGoes ==
    ASSUME NEW from, NEW len, StreamOK, BodyRead(from, len), ReadBody, fault' = {}
    PROVE  BodyRead(from, len)'
<1>1. /\ from \in Nat /\ len \in Nat /\ content_length = len
      /\ real_content_length \in 0..len /\ to_read \in Nat
      /\ pos = from + real_content_length /\ pos <= Len(stream)
      /\ body = SubSeq(stream, from + 1, pos)
  BY DEF BodyRead
<1>2. IsText(stream) /\ Len(stream) \in Nat
  BY TextIsText DEF IsText
<1>3. /\ to_read' = Wanted /\ stream' = stream /\ content_length' = content_length
  BY DEF ReadBody, input
<1>4. len - real_content_length \in Nat
  BY <1>1
<1>5. Wanted \in Nat /\ Wanted <= len - real_content_length
  BY <1>1, <1>4, MinOfTwo DEF Wanted
<1>6. PICK size \in Nat : Receive(size) /\ size <= Wanted /\ size <= Len(stream) - pos
  <2> DEFINE left == Len(stream) - pos
  <2>1. left \in Nat
    BY <1>1, <1>2
  <2>2. CASE \E size \in 1..Min({left, Wanted}) : Receive(size)
    <3>1. PICK size \in 1..Min({left, Wanted}) : Receive(size)
      BY <2>2
    <3>2. Min({left, Wanted}) \in Nat /\ Min({left, Wanted}) <= left /\ Min({left, Wanted}) <= Wanted
      BY <1>5, <2>1, MinOfTwo
    <3> HIDE DEF left
    <3>3. size \in Nat /\ size <= left /\ size <= Wanted
      BY <1>5, <2>1, <3>2
    <3> QED
      BY <3>1, <3>3 DEF left
  <2>3. CASE Receive(0)
    BY <1>5, <2>1, <2>3
  <2>4. "read_error" \notin fault'
    OBVIOUS
  <2> QED
    BY <2>2, <2>3, <2>4 DEF ReadBody
<1>7. /\ pos' = pos + size /\ body' = body \o Text(pos, pos + size)
      /\ real_content_length' = real_content_length + size
  BY <1>6 DEF Receive
<1>8. body' = SubSeq(stream, from + 1, pos + size)
  <2>1. PICK f \in Nat, p \in Nat, q \in Nat : f = from /\ p = pos /\ q = pos + size
    BY <1>1, <1>2, <1>6
  <2>2. f <= p /\ p <= q /\ q <= Len(stream)
    BY <1>1, <1>2, <1>6, <2>1
  <2>3. SubSeq(stream, f + 1, p) \o Text(p, q) = SubSeq(stream, f + 1, q)
    BY <2>2, Goes DEF StreamOK
  <2> QED
    BY <1>1, <1>7, <2>1, <2>3
<1>9. real_content_length' \in 0..len /\ pos' = from + real_content_length' /\ pos' <= Len(stream)
  BY <1>1, <1>2, <1>5, <1>6, <1>7
<1>10. to_read' \in Nat
  BY <1>3, <1>5
<1> QED
  BY <1>1, <1>3, <1>7, <1>8, <1>9, <1>10 DEF BodyRead

\* When there is no more, the body is as long as it should be.
LEMMA BodyEnds ==
    ASSUME NEW from, NEW len, StreamOK, BodyRead(from, len), ~More
    PROVE  body = BodySent(stream, from, len) /\ Len(body) = len
<1>1. /\ from \in Nat /\ len \in Nat /\ content_length = len
      /\ real_content_length \in 0..len
      /\ pos = from + real_content_length
      /\ body = SubSeq(stream, from + 1, pos)
  BY DEF BodyRead
<1>2. real_content_length = len
  BY <1>1 DEF More
<1>3. PICK a \in Int, b \in Int : a = from + 1 /\ b = from + len
  BY <1>1
<1>4. Len(SubSeq(stream, a, b)) = IF a <= b THEN b - a + 1 ELSE 0
  BY Slice
<1>5. Len(SubSeq(stream, from + 1, from + len)) = len
  BY <1>1, <1>3, <1>4
<1> QED
  BY <1>1, <1>2, <1>5 DEF BodySent

\* A body that was not begun.
LEMMA BodyBegins ==
    ASSUME NEW from \in Nat, NEW len \in Nat, StreamOK, from <= Len(stream), body = <<>>,
           real_content_length = 0, to_read \in Nat, content_length = len, pos = from
    PROVE  BodyRead(from, len)
<1>1. from + 1 \in Int /\ from \in Int /\ ~(from + 1 <= from)
  OBVIOUS
<1>2. SubSeq(stream, from + 1, from) = <<>>
  BY <1>1, SubSeqEmpty
<1>3. real_content_length \in 0..len /\ pos = from + real_content_length
  OBVIOUS
<1> QED
  BY <1>2, <1>3 DEF BodyRead

-----------------------------------------------------------------------------
(* HTTP.                                                                   *)

\* The reader is behind the LF at n, the end of the head is yet to come, every line so
\* far was a header, and the table has them.
HeadRead(s, n, table) ==
    /\ n \in Feeds(s) /\ \A e \in Empties(s) : e > n
    /\ \A l \in LinesUpTo(s, n) : Len(PiecesOf(s, l)) = 2
    /\ LastOnes(LinesUpTo(s, n), Names(s), Values(s), table)

\* The stream has no end of the head, and was read to its end.
HeadMissing == pos = Len(stream) /\ Empties(stream) = {}

\* What becomes of a request of HTTP, where nothing undefined was done.
HttpOK ==
    service = "httpd" /\ fault = {} =>
        /\ pc \in {"request_line", "header", "body"} \cup Done
        /\ pos \in 0..Len(stream)
        /\ pc = "request_line" => pos = 0 /\ headers = <<>>
        /\ pc \in {"request_line", "header"} =>
              body = <<>> /\ real_content_length = 0 /\ to_read = BufferSize
        /\ pc = "header" => HeadMissing \/ HeadRead(stream, pos, headers)
        /\ pc = "body" =>
              /\ Empties(stream) # {} /\ headers = HeadersSent(stream)
              /\ BodyRead(HeadEnd(stream), LengthOf(headers, <<"c">>))
        /\ pc = "parsed" => HttpExact

\* A line ends with the next LF, or else with the stream; it is empty if its first byte
\* is blank.
LEMMA LineEnds ==
    ASSUME IsText(stream), pos \in 0..Len(stream)
    PROVE  /\ \/ Ends = {} /\ AfterLine = Len(stream)
              \/ /\ Ends # {} /\ AfterLine \in Feeds(stream) /\ AfterLine > pos
                 /\ AfterLine <= Len(stream)
                 /\ Line = CString(SubSeq(stream, pos + 1, AfterLine - 1))
           /\ \A i \in Feeds(stream) : i <= pos \/ i >= AfterLine
           /\ IsText(Line)
           /\ ~NoLine => (Line = <<>> <=> Blank(stream[pos + 1]))
<1>a. PICK L \in Nat : L = Len(stream) /\ DOMAIN stream = 1..L
  BY DEF IsText
<1>0. PICK p \in Nat : p = pos /\ L = Len(stream) /\ p <= L /\ DOMAIN stream = 1..L
  BY <1>a
<1>1. CASE Ends = {}
  <2>1. AfterLine = L /\ Line = CString(SubSeq(stream, p + 1, L))
    BY <1>0, <1>1 DEF AfterLine, Line
  <2>2. PICK a \in Int, b \in Int : a = p + 1 /\ b = L
    BY <1>0
  <2>3. /\ IsText(SubSeq(stream, a, b))
        /\ Len(SubSeq(stream, a, b)) = IF a <= b THEN b - a + 1 ELSE 0
        /\ \A i \in 1..(b - a + 1) : SubSeq(stream, a, b)[i] = stream[a + i - 1]
    BY Slice
  <2>4. IsText(Line)
    BY <2>1, <2>2, <2>3, StringIs
  <2>5. \A i \in 1..L : i > p => stream[i] # LF
    <3> TAKE i \in 1..L
    <3>1. i > p => i \in (pos + 1)..Len(stream)
      BY <1>0
    <3> QED
      BY <1>1, <3>1 DEF Ends
  <2>6. \A i \in Feeds(stream) : i <= p \/ i >= L
    BY <1>0, <2>5 DEF Feeds
  <2>7. ASSUME ~NoLine
        PROVE  Line = <<>> <=> Blank(stream[p + 1])
    <3>1. p < L
      BY <1>0, <1>1, <2>7 DEF NoLine
    <3>2. a <= b /\ 1 \in 1..(b - a + 1) /\ a + 1 - 1 = p + 1
      BY <2>2, <3>1
    <3>3. Len(SubSeq(stream, a, b)) > 0 /\ SubSeq(stream, a, b)[1] = stream[p + 1]
      BY <2>3, <3>2
    <3>4. stream[p + 1] # LF
      <4>1. p + 1 \in 1..L /\ p + 1 > p
        BY <3>1
      <4> QED
        BY <2>5, <4>1
    <3>5. Line = <<>> <=> stream[p + 1] = NUL
      BY <2>1, <2>2, <2>3, <3>3, StringIs
    <3> QED
      BY <3>4, <3>5 DEF Blank
  <2> QED
    BY <1>0, <1>1, <2>1, <2>4, <2>6, <2>7
<1>2. CASE Ends # {}
  <2>1. AfterLine = Min(Ends) /\ Line = CString(SubSeq(stream, pos + 1, AfterLine - 1))
    BY <1>2 DEF AfterLine, Line
  <2>2. Ends \subseteq Nat
    BY DEF Ends
  <2>3. Min(Ends) \in Ends /\ \A j \in Ends : Min(Ends) <= j
    BY <1>2, <2>2, MinOf
  <2>4. PICK n \in Ends : n = AfterLine /\ \A j \in Ends : n <= j
    BY <2>1, <2>3
  <2>5. n \in (pos + 1)..Len(stream) /\ stream[n] = LF /\ Len(stream) \in Nat
    BY <2>4 DEF Ends, IsText
  <2>6. n \in Feeds(stream) /\ n > pos /\ n <= Len(stream)
    BY <2>5 DEF Feeds, IsText
  <2>7. ASSUME NEW i \in Feeds(stream)
        PROVE  i <= pos \/ i >= n
    <3>1. i \in 1..Len(stream) /\ stream[i] = LF
      BY DEF Feeds, IsText
    <3>2. i <= pos \/ i \in Ends
      BY <2>5, <3>1 DEF Ends
    <3>3. n <= i => i >= n
      BY <2>5, <3>1
    <3> QED
      BY <2>4, <3>2, <3>3
  <2>8. PICK a \in Int, b \in Int : a = p + 1 /\ b = n - 1
    BY <1>0, <2>5
  <2>9. /\ IsText(SubSeq(stream, a, b))
        /\ Len(SubSeq(stream, a, b)) = IF a <= b THEN b - a + 1 ELSE 0
        /\ \A i \in 1..(b - a + 1) : SubSeq(stream, a, b)[i] = stream[a + i - 1]
    BY Slice
  <2>10. Line = CString(SubSeq(stream, a, b))
    BY <1>0, <2>1, <2>4, <2>8
  <2>11. IsText(Line)
    BY <2>9, <2>10, StringIs
  <2>12. Line = <<>> <=> Blank(stream[p + 1])
    <3>1. CASE n = p + 1
      <4>1. b < a /\ stream[p + 1] = LF
        BY <2>5, <2>8, <3>1
      <4>2. SubSeq(stream, a, b) = <<>>
        BY <2>8, <4>1, SubSeqEmpty
      <4>3. Line = <<>>
        BY <2>9, <2>10, <4>2, StringIs
      <4> QED
        BY <4>1, <4>3 DEF Blank
    <3>2. CASE n # p + 1
      <4>1. p + 1 < n /\ p + 1 \in (pos + 1)..Len(stream)
        BY <1>0, <2>5, <3>2
      <4>2. stream[p + 1] # LF
        <5>1. p + 1 \notin Ends
          <6>1. n \in Nat
            BY <2>2
          <6> QED
            BY <2>4, <4>1, <6>1
        <5> QED
          BY <4>1, <5>1 DEF Ends
      <4>3. a <= b /\ 1 \in 1..(b - a + 1) /\ a + 1 - 1 = p + 1
        BY <1>0, <2>5, <2>8, <4>1
      <4>4. Len(SubSeq(stream, a, b)) > 0 /\ SubSeq(stream, a, b)[1] = stream[p + 1]
        BY <2>9, <4>3
      <4>5. Line = <<>> <=> stream[p + 1] = NUL
        BY <2>9, <2>10, <4>4, StringIs
      <4> QED
        BY <4>2, <4>5 DEF Blank
    <3> QED
      BY <3>1, <3>2
  <2> QED
    BY <1>0, <1>2, <2>1, <2>4, <2>6, <2>7, <2>11, <2>12
<1> QED
  BY <1>1, <1>2

\* With no LF to come, and no empty line behind the last, the head has no end.
LEMMA NoMoreFeeds ==
    ASSUME IsText(stream), pos \in 0..Len(stream), Ends = {},
           pos = 0 \/ (/\ pos \in Feeds(stream) /\ ~Blank(stream[pos + 1])
                      /\ \A e \in Empties(stream) : e > pos)
    PROVE  Empties(stream) = {}
<1> SUFFICES ASSUME NEW e \in Empties(stream) PROVE FALSE
  OBVIOUS
<1>0. PICK L \in Nat : L = Len(stream)
  BY DEF IsText
<1>1. PICK p \in Nat : p = pos /\ L = Len(stream)
  BY <1>0
<1>2. e \in 1..L /\ Feeds(stream) \subseteq 1..L
  BY <1>1, FeedsAre
<1>3. \A i \in Feeds(stream) : i <= p
  <2> SUFFICES ASSUME NEW i \in Feeds(stream), i > p PROVE FALSE
    BY <1>1, <1>2
  <2>1. i \in (pos + 1)..Len(stream)
    BY <1>1, <1>2
  <2> QED
    BY <2>1 DEF Feeds, Ends
<1>4. PICK b \in Feeds(stream) : b < e
  BY DEF Empties
<1>5. b \in 1..L /\ b <= p
  BY <1>2, <1>3
<1>6. p # 0
  BY <1>5
<1>7. p \in Feeds(stream) /\ e > p /\ ~Blank(stream[p + 1])
  BY <1>1, <1>6
<1>8. \A i \in Feeds(stream) : i <= p \/ i >= e
  BY <1>3
<1> QED
  BY <1>7, <1>8, EndsEmpty

LEMMA RequestLineKeeps ==
    ASSUME StreamOK, HttpOK, RequestLine, service = "httpd", fault = {}, fault' = {}
    PROVE  HttpOK'
<1>1. /\ pc = "request_line" /\ pos = 0 /\ headers = <<>> /\ body = <<>>
      /\ real_content_length = 0 /\ to_read = BufferSize /\ pos \in 0..Len(stream)
  BY DEF HttpOK, RequestLine
<1>2. /\ stream' = stream /\ headers' = headers /\ body' = body
      /\ real_content_length' = real_content_length /\ to_read' = to_read
  BY DEF RequestLine, input, payload
<1>3. IsText(stream)
  BY TextIsText
<1>4. CASE pc' = "rejected" /\ pos' = pos
  BY <1>1, <1>2, <1>4 DEF HttpOK, Done
<1>5. CASE pc' = "header" /\ pos' = AfterLine
  <2>1. CASE Ends = {}
    <3>1. pos' = Len(stream) /\ Len(stream) \in Nat
      BY <1>1, <1>3, <1>5, <2>1, LineEnds DEF IsText
    <3>2. pos' \in 0..Len(stream)
      BY <3>1
    <3>3. Empties(stream) = {}
      BY <1>1, <1>3, <2>1, NoMoreFeeds
    <3> QED
      BY <1>1, <1>2, <1>5, <3>1, <3>2, <3>3 DEF HttpOK, HeadMissing
  <2>2. CASE Ends # {}
    <3>1. PICK n \in Feeds(stream) : n = AfterLine
      BY <1>1, <1>3, <2>2, LineEnds
    <3>2. n > 0 /\ n <= Len(stream) /\ \A i \in Feeds(stream) : i <= 0 \/ i >= n
      <4>1. pos = 0
        BY <1>1
      <4> QED
        BY <1>3, <2>2, <3>1, <4>1, LineEnds
    <3>3. Feeds(stream) \subseteq 1..Len(stream) /\ Len(stream) \in Nat
      BY <1>3, FeedsAre DEF IsText
    <3>4. \A i \in Feeds(stream) : n <= i
      BY <3>2, <3>3
    <3>5. LinesUpTo(stream, n) = {} /\ \A e \in Empties(stream) : e > n
      BY <1>3, <3>4, FirstLine
    <3>6. LastOnes({}, Names(stream), Values(stream), <<>>)
      BY NoneYet
    <3>7. HeadRead(stream, n, <<>>)
      BY <3>5, <3>6 DEF HeadRead
    <3>8. pos' = n /\ n \in 0..Len(stream)
      BY <1>5, <3>1, <3>3
    <3> QED
      BY <1>1, <1>2, <1>5, <3>7, <3>8 DEF HttpOK
  <2> QED
    BY <2>1, <2>2
<1>6. (pc' = "rejected" /\ pos' = pos) \/ (pc' = "header" /\ pos' = AfterLine)
  <2>1. "past_vector" \notin fault'
    OBVIOUS
  <2> QED
    BY <2>1 DEF RequestLine
<1> QED
  BY <1>4, <1>5, <1>6

\* The line that ends the head.
LEMMA HeadDone ==
    ASSUME StreamOK, NEW n, HeadRead(stream, n, headers), Blank(stream[n + 1]),
           NEW e \in Feeds(stream) \cup {Len(stream)}, e > n,
           \A i \in Feeds(stream) : i <= n \/ i >= e
    PROVE  /\ Empties(stream) # {} /\ HeadEnd(stream) = e
           /\ headers = HeadersSent(stream)
<1>1. IsText(stream)
  BY TextIsText
<1>2. /\ Feeds(stream) \subseteq 1..Len(stream) /\ Empties(stream) \subseteq Nat
      /\ Len(stream) \in Nat
  BY <1>1, FeedsAre DEF IsText
<1>3. n \in Feeds(stream) /\ n \in 1..Len(stream) /\ n \in Nat /\ n <= Len(stream) /\ e \in Nat
  BY <1>2 DEF HeadRead
<1>4. e \in Empties(stream)
  BY <1>3 DEF Empties, Blank
<1>5. \A j \in Empties(stream) : e <= j
  <2> TAKE j \in Empties(stream)
  <2>1. j > n /\ j \in Feeds(stream) \cup {Len(stream)} /\ j \in Nat
    BY <1>2 DEF HeadRead, Empties
  <2>2. e <= Len(stream)
    BY <1>2, <1>3
  <2>3. j \in Feeds(stream) => j <= n \/ j >= e
    OBVIOUS
  <2> QED
    BY <1>2, <1>3, <2>1, <2>2, <2>3
<1>6. HeadEnd(stream) = e
  <2>1. /\ Min(Empties(stream)) \in Empties(stream)
        /\ \A j \in Empties(stream) : Min(Empties(stream)) <= j
    BY <1>2, <1>4, MinOf
  <2>2. PICK m \in Nat : m = HeadEnd(stream)
    BY <1>2, <2>1 DEF HeadEnd
  <2>3. m <= e /\ e <= m
    BY <1>4, <1>5, <2>1, <2>2 DEF HeadEnd
  <2> QED
    BY <1>3, <2>2, <2>3
<1>7. HeaderLines(stream) = LinesUpTo(stream, n)
  <2>1. \A i \in Feeds(stream) : i <= e - 1 <=> i <= n
    <3> TAKE i \in Feeds(stream)
    <3>1. i \in Nat /\ (i <= n \/ i >= e)
      BY <1>2
    <3> QED
      BY <1>3, <3>1
  <2>2. \A l \in Feeds(stream) \X Feeds(stream) : l[2] <= e - 1 <=> l[2] <= n
    BY <2>1
  <2> QED
    BY <1>6, <2>2 DEF HeaderLines, LinesUpTo
<1>8. headers = HeadersSent(stream)
  BY <1>1, <1>3, <1>7, HeadersAre DEF HeadRead
<1> QED
  BY <1>4, <1>6, <1>8


\* The length a header gives is a number.
LEMMA HeadLength ==
    ASSUME NEW s, IsText(s), NEW n, NEW table, HeadRead(s, n, table), NEW name
    PROVE  LengthOf(table, name) \in Nat
<1> DEFINE L == LinesUpTo(s, n)
<1>1. /\ DOMAIN table = {Names(s)[l] : l \in L}
      /\ \A l \in L : \E m \in L : table[Names(s)[l]] = Values(s)[m]
      /\ \A l \in L : Len(PiecesOf(s, l)) = 2
      /\ n \in Feeds(s)
  BY DEF HeadRead, LastOnes
<1>2. n \in Nat /\ n <= Len(s)
  <2>1. n \in 1..Len(s) /\ Len(s) \in Nat
    BY <1>1, FeedsAre DEF IsText
  <2> QED
    BY <2>1
<1>3. ASSUME name \in DOMAIN table
      PROVE  IsText(table[name])
  <2>1. PICK m \in L : table[name] = Values(s)[m]
    BY <1>1, <1>3
  <2>2. m \in LinesUpTo(s, Len(s))
    BY <1>2, FewerLines
  <2>3. table[name] = Strip(PiecesOf(s, m)[2])
    BY <2>1, <2>2 DEF Values
  <2>4. m[1] + 1 \in Int /\ m[2] - 1 \in Int
    BY <1>2, LinesAre
  <2>5. IsText(PiecesOf(s, m)[2])
    <3>1. PICK a \in Int, b \in Int : a = m[1] + 1 /\ b = m[2] - 1
      BY <2>4
    <3>2. IsText(SubSeq(s, a, b))
      BY Slice
    <3>3. PiecesOf(s, m) = Split(CString(SubSeq(s, a, b)), ":")
      BY <3>1 DEF PiecesOf
    <3>4. Len(Split(CString(SubSeq(s, a, b)), ":")) = 2 /\ IsText(CString(SubSeq(s, a, b)))
      BY <1>1, <3>2, <3>3, StringIs
    <3>5. IsText(Split(CString(SubSeq(s, a, b)), ":")[2])
      BY <3>4, PiecesAreTexts
    <3> QED
      BY <3>3, <3>5
  <2> QED
    BY <2>3, <2>5, StripIsText
<1> QED
  BY <1>3, NumberOfText

LEMMA HeaderLineKeeps ==
    ASSUME StreamOK, HttpOK, HeaderLine, service = "httpd", fault = {}, fault' = {}
    PROVE  HttpOK'
<1>1. /\ pc = "header" /\ body = <<>> /\ real_content_length = 0 /\ to_read = BufferSize
      /\ pos \in 0..Len(stream) /\ (HeadMissing \/ HeadRead(stream, pos, headers))
  BY DEF HttpOK, HeaderLine
<1>2. /\ stream' = stream /\ pos' = AfterLine
  BY DEF HeaderLine, input
<1>3. IsText(stream) /\ Len(stream) \in Nat
  BY TextIsText DEF IsText
<1>4. pos' \in 0..Len(stream)
  <2>1. pos \in Nat
    BY <1>1
  <2>2. CASE AfterLine = Len(stream)
    BY <1>2, <1>3, <2>2
  <2>3. CASE AfterLine \in Feeds(stream)
    <3>1. AfterLine \in 1..Len(stream)
      BY <1>3, <2>3, FeedsAre
    <3> QED
      BY <1>2, <1>3, <3>1
  <2> QED
    BY <1>1, <1>3, <2>2, <2>3, LineEnds
<1>5. CASE NoLine /\ pc' = "crashed"
  BY <1>2, <1>4, <1>5 DEF HttpOK, Done
<1>6. CASE /\ ~NoLine /\ Line = <<>> /\ HeadersEnd
  <2>1. PICK n \in Nat, L \in Nat : n = AfterLine /\ L = Len(stream) /\ n <= L /\ n > pos
    <3>1. CASE Ends = {}
      <4>1. AfterLine = Len(stream) /\ pos # Len(stream)
        BY <1>1, <1>3, <1>6, <3>1, LineEnds DEF NoLine
      <4> QED
        BY <1>1, <1>3, <4>1
    <3>2. CASE Ends # {}
      <4>1. AfterLine \in Feeds(stream) /\ AfterLine > pos /\ AfterLine <= Len(stream)
        BY <1>1, <1>3, <3>2, LineEnds
      <4> QED
        BY <1>3, <4>1, FeedsAre
    <3> QED
      BY <3>1, <3>2
  <2>2. n \in Feeds(stream) \cup {Len(stream)} /\ \A i \in Feeds(stream) : i <= pos \/ i >= n
    BY <1>1, <1>3, <2>1, LineEnds
  <2>3. Blank(stream[pos + 1])
    BY <1>1, <1>3, <1>6, LineEnds
  <2>5. HeadRead(stream, pos, headers)
    BY <1>1, <2>1 DEF HeadMissing
  <2>6. /\ Empties(stream) # {} /\ HeadEnd(stream) = n /\ headers = HeadersSent(stream)
    BY <2>1, <2>2, <2>3, <2>5, HeadDone
  <2>7. PICK len \in Nat : len = LengthOf(headers, <<"c">>)
    BY <1>3, <2>5, HeadLength
  <2>8. /\ pc' = "body" /\ headers' = headers /\ content_length' = len /\ body' = <<>>
        /\ real_content_length' = 0 /\ to_read' = BufferSize /\ pos' = n
    BY <1>1, <1>2, <1>6, <2>1, <2>7 DEF HeadersEnd
  <2>9. BodyRead(n, len)'
    <3>1. n + 1 \in Int /\ n \in Int /\ ~(n + 1 <= n)
      BY <2>1
    <3>2. SubSeq(stream, n + 1, n) = <<>>
      BY <3>1, SubSeqEmpty
    <3>3. 0 \in 0..len /\ n = n + 0 /\ BufferSize \in Nat
      BY <2>1, StreamsAssumption
    <3> QED
      BY <1>2, <2>1, <2>8, <3>2, <3>3 DEF BodyRead
  <2> QED
    BY <1>2, <1>4, <2>6, <2>7, <2>8, <2>9 DEF HttpOK, Done
<1>7. CASE /\ Contains(Line, ":") /\ ~NoLine /\ pc' = pc /\ payload' = payload
           /\ \E pieces \in {Split(Line, ":")} :
                headers' = Put(headers, Lower(Strip(pieces[1])), Strip(pieces[2]))
  <2>1. /\ pc' = "header" /\ body' = <<>> /\ real_content_length' = 0 /\ to_read' = BufferSize
    BY <1>1, <1>7 DEF payload
  <2>0. ~Blank(stream[pos + 1])
    <3>1. Line # <<>>
      BY <1>7 DEF Contains
    <3> QED
      BY <1>1, <1>3, <1>7, <3>1, LineEnds
  <2>2. CASE Ends = {}
    <3>1. pos' = Len(stream')
      BY <1>1, <1>2, <1>3, <2>2, LineEnds
    <3>2. HeadMissing \/ (pos \in Feeds(stream) /\ \A e \in Empties(stream) : e > pos)
      BY <1>1 DEF HeadRead
    <3>3. Empties(stream) = {}
      BY <1>1, <1>3, <2>0, <2>2, <3>2, NoMoreFeeds DEF HeadMissing
    <3> QED
      BY <1>2, <1>4, <2>1, <3>1, <3>3 DEF HttpOK, HeadMissing, Done
  <2>3. CASE Ends # {}
    <3>1. PICK n \in Feeds(stream) : n = AfterLine
      BY <1>1, <1>3, <2>3, LineEnds
    <3>2. /\ n \in Nat /\ n > pos /\ n <= Len(stream)
          /\ Line = CString(SubSeq(stream, pos + 1, n - 1))
          /\ \A i \in Feeds(stream) : i <= pos \/ i >= n
      BY <1>1, <1>3, <2>3, <3>1, LineEnds, FeedsAre
    <3>3. HeadRead(stream, pos, headers) /\ pos \in Nat /\ pos \in Feeds(stream)
      BY <1>1, <3>2 DEF HeadRead, HeadMissing
    <3> DEFINE l == <<pos, n>>
    <3>4. /\ LinesUpTo(stream, n) = LinesUpTo(stream, pos) \cup {l}
      BY <1>3, <3>2, <3>3, NextLine
    <3>5. PiecesOf(stream, l) = Split(Line, ":")
      BY <3>2 DEF PiecesOf
    <3>6. IsText(Line)
      BY <1>1, <1>3, LineEnds
    <3>7. Len(PiecesOf(stream, l)) = 2
      BY <1>7, <3>5, <3>6, TwoPieces
    <3>8. \A e \in Empties(stream) : e > n
      <4> SUFFICES ASSUME NEW e \in Empties(stream), ~(e > n) PROVE FALSE
        OBVIOUS
      <4>1. e \in Nat /\ e > pos /\ Feeds(stream) \subseteq Nat
        BY <1>3, <3>3, FeedsAre DEF HeadRead
      <4>2. \A i \in Feeds(stream) : i <= pos \/ i >= e
        BY <3>2, <3>3, <4>1
      <4>3. Blank(stream[pos + 1])
        BY <1>3, <3>3, <4>1, <4>2, EndsEmpty
      <4> QED
        BY <2>0, <4>3
    <3>9. l \in LinesUpTo(stream, Len(stream))
      BY <1>3, <3>2, <3>4, FewerLines
    <3>10. headers' = Put(headers, Names(stream)[l], Values(stream)[l])
      <4>1. /\ Names(stream)[l] = Lower(Strip(Split(Line, ":")[1]))
            /\ Values(stream)[l] = Strip(Split(Line, ":")[2])
        <5> HIDE DEF l
        <5> QED
          BY <3>5, <3>9 DEF Names, Values, HeaderName
      <4> QED
        BY <1>7, <4>1
    <3>11. LastOnes(LinesUpTo(stream, n), Names(stream), Values(stream), headers')
      <4>1. LastOnes(LinesUpTo(stream, pos), Names(stream), Values(stream), headers)
        BY <3>3 DEF HeadRead
      <4>2. l[1] \in Int /\ \A k \in LinesUpTo(stream, pos) : k[1] <= l[1]
        <5>1. \A k \in LinesUpTo(stream, pos) : k[1] \in Nat /\ k[2] \in Nat /\ k[1] < k[2] /\ k[2] <= pos
          BY <1>3, <3>3, LinesAre
        <5>2. l[1] = pos
          OBVIOUS
        <5> HIDE DEF l
        <5> QED
          BY <3>3, <5>1, <5>2
      <4> HIDE DEF l
      <4> QED
        BY <3>4, <3>10, <4>1, <4>2, PutLast
    <3>12. \A k \in LinesUpTo(stream, n) : Len(PiecesOf(stream, k)) = 2
      <4> HIDE DEF l
      <4> QED
        BY <3>3, <3>4, <3>7 DEF HeadRead
    <3>13. HeadRead(stream, n, headers')
      BY <3>8, <3>11, <3>12 DEF HeadRead
    <3> QED
      BY <1>2, <1>4, <2>1, <3>1, <3>13 DEF HttpOK, Done
  <2> QED
    BY <2>2, <2>3
<1>8. "freed_line" \notin fault'
  OBVIOUS
<1> QED
  BY <1>5, <1>6, <1>7, <1>8 DEF HeaderLine

LEMMA HttpBodyKeeps ==
    ASSUME StreamOK, HttpOK, ReadBody, service = "httpd", fault = {}, fault' = {}
    PROVE  HttpOK'
<1>1. PICK from : from = HeadEnd(stream)
  OBVIOUS
<1>2. PICK len : len = LengthOf(headers, <<"c">>)
  OBVIOUS
<1>3. pc = "body" /\ Empties(stream) # {} /\ headers = HeadersSent(stream) /\ BodyRead(from, len)
  BY <1>1, <1>2 DEF HttpOK, ReadBody
<1>4. stream' = stream /\ headers' = headers /\ pc' = pc
  BY DEF ReadBody, input
<1>5. BodyRead(from, len)'
  BY <1>3, BodyGoes
<1>6. pos' \in 0..Len(stream)
  <2>1. PICK L \in Nat : L = Len(stream)
    BY TextIsText DEF IsText
  <2>2. PICK f \in Nat, n \in Nat : f = from /\ n = len
    BY <1>3 DEF BodyRead
  <2>3. real_content_length' \in 0..n
    BY <1>5, <2>2 DEF BodyRead
  <2>4. PICK r \in 0..n : r = real_content_length'
    BY <2>3
  <2>5. pos' = f + r /\ pos' <= L
    BY <1>4, <1>5, <2>1, <2>2, <2>4 DEF BodyRead
  <2>6. pos' \in 0..L
    BY <2>5
  <2> QED
    BY <2>1, <2>6
<1> QED
  BY <1>1, <1>2, <1>3, <1>4, <1>5, <1>6 DEF HttpOK, Done

LEMMA HttpFinishKeeps ==
    ASSUME StreamOK, HttpOK, Finish, service = "httpd", fault = {}, fault' = {}
    PROVE  HttpOK'
<1>1. PICK from : from = HeadEnd(stream)
  OBVIOUS
<1>2. PICK len : len = LengthOf(headers, <<"c">>)
  OBVIOUS
<1>3. /\ pc = "body" /\ Empties(stream) # {} /\ headers = HeadersSent(stream)
      /\ BodyRead(from, len) /\ ~More /\ pos \in 0..Len(stream)
  BY <1>1, <1>2 DEF HttpOK, Finish
<1>4. stream' = stream /\ headers' = headers /\ pos' = pos /\ body' = body
  BY DEF Finish, input, payload
<1>5. body = BodySent(stream, from, len) /\ Len(body) = len
  BY <1>3, BodyEnds
<1>6. pc' \in Done
  BY DEF Finish, Done
<1>7. HttpExact'
  BY <1>1, <1>2, <1>3, <1>4, <1>5 DEF HttpExact
<1> QED
  BY <1>3, <1>4, <1>6, <1>7 DEF HttpOK, Done

LEMMA StreamStays ==
    ASSUME StreamOK, [Next]_vars
    PROVE  StreamOK' /\ stream' = stream /\ service' = service /\ (fault' = {} => fault = {})
<1>1. stream' = stream /\ service' = service /\ (fault' = {} => fault = {})
  <2>1. CASE UNCHANGED vars
    BY <2>1 DEF vars, input
  <2>2. CASE ReadLength \/ ReadKey \/ ReadValue \/ ReadComma
    BY <2>2 DEF ReadLength, ReadKey, ReadValue, ReadComma, input
  <2>3. CASE RequestLine \/ HeaderLine \/ FreedLine
    BY <2>3 DEF RequestLine, HeaderLine, FreedLine, input
  <2>4. CASE ReadBody
    BY <2>4 DEF ReadBody, input
  <2>5. CASE Finish
    BY <2>5 DEF Finish, input
  <2>6. CASE ReadPair
    BY <2>6 DEF ReadPair, input
  <2>7. CASE MakeRequest
    BY <2>7 DEF MakeRequest, input
  <2>8. CASE ReadEnviron \/ ReadStdin
    BY <2>8 DEF ReadEnviron, ReadStdin, input
  <2> QED
    BY <2>1, <2>2, <2>3, <2>4, <2>5, <2>6, <2>7, <2>8 DEF Next
<1> QED
  BY <1>1 DEF StreamOK

LEMMA StreamBegins ==
    ASSUME Init
    PROVE  StreamOK
<1>1. PICK m \in Sent : \E n \in 0..Len(m.bytes) : stream = SubSeq(m.bytes, 1, n)
  BY DEF Init
<1>2. PICK n \in 0..Len(m.bytes) : stream = SubSeq(m.bytes, 1, n)
  BY <1>1
<1>3. PICK s : s = m.bytes /\ s \in Seq(ToSet(s))
  BY StreamsAssumption
<1>4. /\ Len(s) \in Nat /\ \A i \in 1..Len(s) : s[i] \in ToSet(s)
  BY <1>3, LenProperties, ElementOfSeq
<1>5. 1 \in Int /\ n \in Int /\ \A i \in 1..n : i \in 1..Len(s)
  BY <1>2, <1>3, <1>4
<1>6. \A i \in 1..n : s[i] \in ToSet(s)
  BY <1>4, <1>5
<1>7. stream \in Seq(ToSet(s))
  BY <1>2, <1>3, <1>5, <1>6, SubSeqProperties
<1>8. PICK t : t = stream
  OBVIOUS
<1>9. \A i \in 1..Len(t) : t[i] \in ToSet(t)
  BY <1>7, <1>8, LenProperties DEF ToSet
<1>10. t \in Seq(ToSet(t))
  <2>1. t \in Seq(ToSet(s))
    BY <1>7, <1>8
  <2>2. Len(t) \in Nat /\ t \in [1..Len(t) -> ToSet(s)]
    BY <2>1, LenProperties
  <2>3. t \in [1..Len(t) -> ToSet(t)]
    BY <1>9, <2>2
  <2> QED
    BY <2>2, <2>3, SeqDef
<1> QED
  BY <1>8, <1>10 DEF StreamOK

LEMMA HttpInvariant == Spec => [](StreamOK /\ HttpOK)
<1>1. Init => StreamOK /\ HttpOK
  <2> SUFFICES ASSUME Init PROVE StreamOK /\ HttpOK
    OBVIOUS
  <2>1. StreamOK
    BY StreamBegins
  <2>2. /\ pos = 0 /\ headers = <<>> /\ body = <<>> /\ real_content_length = 0
        /\ to_read = BufferSize
    BY DEF Init
  <2>3. service = "httpd" => pc = "request_line"
    BY Zenon DEF Init
  <2>4. pos \in 0..Len(stream)
    BY <2>1, <2>2, TextIsText DEF IsText
  <2> QED
    BY <2>1, <2>2, <2>3, <2>4 DEF HttpOK, Done
<1>2. StreamOK /\ HttpOK /\ [Next]_vars => StreamOK' /\ HttpOK'
  <2> SUFFICES ASSUME StreamOK, HttpOK, [Next]_vars PROVE StreamOK' /\ HttpOK'
    OBVIOUS
  <2>1. StreamOK' /\ service' = service /\ (fault' = {} => fault = {})
    BY StreamStays
  <2>2. HttpOK'
    <3> SUFFICES ASSUME service' = "httpd", fault' = {} PROVE HttpOK'
      BY DEF HttpOK
    <3>1. service = "httpd" /\ fault = {}
      BY <2>1
    <3>2. pc \in {"request_line", "header", "body"} \cup Done
      BY <3>1 DEF HttpOK
    <3>3. CASE UNCHANGED vars
      <4>1. /\ stream' = stream /\ pos' = pos /\ pc' = pc /\ headers' = headers /\ body' = body
            /\ content_length' = content_length /\ to_read' = to_read
            /\ real_content_length' = real_content_length
        BY <3>3 DEF vars, input, payload
      <4> QED
        BY <2>1, <3>1, <4>1 DEF HttpOK, HeadMissing, BodyRead, HttpExact
    <3>4. CASE RequestLine
      BY <3>1, <3>4, RequestLineKeeps
    <3>5. CASE HeaderLine
      BY <3>1, <3>5, HeaderLineKeeps
    <3>6. CASE ReadBody
      BY <3>1, <3>6, HttpBodyKeeps
    <3>7. CASE Finish
      BY <3>1, <3>7, HttpFinishKeeps
    <3>8. ~(ReadLength \/ ReadKey \/ ReadValue \/ ReadComma \/ FreedLine \/ ReadPair
            \/ MakeRequest \/ ReadEnviron \/ ReadStdin)
      BY <3>2 DEF Done, ReadLength, ReadKey, ReadValue, ReadComma, FreedLine, ReadPair,
                  MakeRequest, ReadEnviron, ReadStdin
    <3> QED
      BY <3>3, <3>4, <3>5, <3>6, <3>7, <3>8 DEF Next
  <2> QED
    BY <2>1, <2>2
<1> QED
  BY <1>1, <1>2, PTL DEF Spec

\* HttpExact: what HTTP makes a request of, nothing undefined done, has the headers as
\* they were sent, the last of a name, and the body that Content-Length says, for
\* every stream that may be cut at any byte and every size of the buffer.
THEOREM HttpIsExact == Spec => []HttpExact
<1>1. HttpOK => HttpExact
  BY DEF HttpOK, HttpExact
<1> QED
  BY <1>1, HttpInvariant, PTL

-----------------------------------------------------------------------------
(* The NULs of a netstring, and the variables between them.                *)

LEMMA SliceIs ==
    ASSUME NEW s, NEW m \in Int, NEW n \in Int
    PROVE  SubSeq(s, m, n) = [i \in DOMAIN SubSeq(s, m, n) |-> SubSeq(s, m, n)[i]]
<1> DEFINE S == {s[i] : i \in m..n}
           t == SubSeq(s, m, n)
<1>1. \A i \in m..n : s[i] \in S
  OBVIOUS
<1> HIDE DEF S
<1>2. t \in Seq(S)
  BY <1>1, SubSeqProperties
<1> HIDE DEF t
<1>3. t \in [1..Len(t) -> S]
  BY <1>2, LenProperties
<1>4. t = [i \in DOMAIN t |-> t[i]]
  BY <1>3
<1> QED
  BY <1>4 DEF t

LEMMA SliceOfSlice ==
    ASSUME NEW s, NEW a \in Int, NEW b \in Int, NEW i \in Int, NEW j \in Int,
           NEW m \in Int, NEW n \in Int,
           1 <= i, j <= b - a + 1, m = a + i - 1, n = a + j - 1
    PROVE  SubSeq(SubSeq(s, a, b), i, j) = SubSeq(s, m, n)
<1> DEFINE t == SubSeq(s, a, b)
           u == SubSeq(t, i, j)
           v == SubSeq(s, m, n)
<1>1. \A x \in 1..(b - a + 1) : t[x] = s[a + x - 1]
  BY Slice
<1>2. /\ Len(u) = IF i <= j THEN j - i + 1 ELSE 0
      /\ \A x \in 1..(j - i + 1) : u[x] = t[i + x - 1]
      /\ DOMAIN u = 1..Len(u) /\ u = [x \in DOMAIN u |-> u[x]]
  <2> HIDE DEF t
  <2>1. /\ IsText(u) /\ Len(u) = IF i <= j THEN j - i + 1 ELSE 0
        /\ \A x \in 1..(j - i + 1) : u[x] = t[i + x - 1]
    BY Slice
  <2>2. u = [x \in DOMAIN u |-> u[x]]
    <3>1. SubSeq(t, i, j) = [x \in DOMAIN SubSeq(t, i, j) |-> SubSeq(t, i, j)[x]]
      BY SliceIs
    <3> QED
      BY <3>1
  <2> QED
    BY <2>1, <2>2 DEF IsText
<1>3. /\ Len(v) = IF m <= n THEN n - m + 1 ELSE 0
      /\ \A x \in 1..(n - m + 1) : v[x] = s[m + x - 1]
      /\ DOMAIN v = 1..Len(v) /\ v = [x \in DOMAIN v |-> v[x]]
  <2>1. /\ IsText(v) /\ Len(v) = IF m <= n THEN n - m + 1 ELSE 0
        /\ \A x \in 1..(n - m + 1) : v[x] = s[m + x - 1]
    BY Slice
  <2>2. v = [x \in DOMAIN v |-> v[x]]
    BY SliceIs
  <2> QED
    BY <2>1, <2>2 DEF IsText
<1> HIDE DEF t, u, v
<1>4. Len(u) = Len(v) /\ DOMAIN u = DOMAIN v
  <2>1. j - i + 1 = n - m + 1 /\ (i <= j <=> m <= n)
    OBVIOUS
  <2>2. Len(u) = Len(v)
    <3>1. CASE i <= j
      BY <1>2, <1>3, <2>1, <3>1
    <3>2. CASE ~(i <= j)
      BY <1>2, <1>3, <2>1, <3>2
    <3> QED
      BY <3>1, <3>2
  <2> QED
    BY <1>2, <1>3, <2>2
<1>5. ASSUME NEW x \in DOMAIN u
      PROVE  u[x] = v[x]
  <2>1. x \in 1..(j - i + 1) /\ x \in 1..(n - m + 1)
    BY <1>2
  <2>2. i + x - 1 \in 1..(b - a + 1) /\ a + (i + x - 1) - 1 = m + x - 1
    BY <2>1
  <2>3. u[x] = t[i + x - 1] /\ v[x] = s[m + x - 1]
    BY <1>2, <1>3, <2>1
  <2>4. t[i + x - 1] = s[a + (i + x - 1) - 1]
    BY <1>1, <2>2
  <2> QED
    BY <2>2, <2>3, <2>4
<1>6. u = v
  BY <1>2, <1>3, <1>4, <1>5
<1> QED
  BY <1>6 DEF u, v, t

LEMMA NulsAre ==
    ASSUME NEW T, IsText(T)
    PROVE  /\ Nuls(T) \subseteq 1..Len(T) /\ Nuls(T) \subseteq Nat
           /\ \A i : IsFiniteSet({n \in Nuls(T) : n <= i})
           /\ \A i : NulsUpTo(T, i) \in Nat
           /\ NulsUpTo(T, 0) = 0
<1>1. Nuls(T) \subseteq 1..Len(T) /\ Nuls(T) \subseteq Nat /\ Len(T) \in Nat
  BY DEF Nuls, IsText
<1>2. IsFiniteSet(1..Len(T))
  BY <1>1, FS_Interval
<1>3. ASSUME NEW i
      PROVE  IsFiniteSet({n \in Nuls(T) : n <= i}) /\ NulsUpTo(T, i) \in Nat
  <2>1. {n \in Nuls(T) : n <= i} \in SUBSET (1..Len(T))
    BY <1>1
  <2>2. IsFiniteSet({n \in Nuls(T) : n <= i})
    BY <1>2, <2>1, FS_Subset
  <2> QED
    BY <2>2, FS_CardinalityType DEF NulsUpTo
<1>4. NulsUpTo(T, 0) = 0
  <2>1. {n \in Nuls(T) : n <= 0} = {}
    BY <1>1
  <2> QED
    BY <2>1, FS_EmptySet DEF NulsUpTo
<1> QED
  BY <1>1, <1>3, <1>4

\* There is no NUL between two positions just when as many are up to the one as up to
\* the other.
LEMMA NoneBetween ==
    ASSUME NEW T, IsText(T), NEW i \in Nat, NEW j \in Nat, i <= j
    PROVE  NulsUpTo(T, i) = NulsUpTo(T, j) <=> \A m \in Nuls(T) : m <= i \/ m > j
<1> DEFINE I == {n \in Nuls(T) : n <= i}
           J == {n \in Nuls(T) : n <= j}
<1>1. Nuls(T) \subseteq Nat /\ IsFiniteSet(J)
  BY NulsAre
<1>2. I \in SUBSET J
  BY <1>1
<1>3. I = J <=> \A m \in Nuls(T) : m <= i \/ m > j
  BY <1>1
<1> HIDE DEF I, J
<1>4. Cardinality(I) = Cardinality(J) => I = J
  BY <1>1, <1>2, FS_Subset
<1> QED
  BY <1>3, <1>4 DEF NulsUpTo, I, J

\* A NUL is one more.
LEMMA OneMore ==
    ASSUME NEW T, IsText(T), NEW i \in Nat, NEW j \in Nuls(T), i < j
    PROVE  NulsUpTo(T, j) = NulsUpTo(T, i) + 1 <=> \A m \in Nuls(T) : m <= i \/ m >= j
<1> DEFINE I == {n \in Nuls(T) : n <= j - 1}
           J == {n \in Nuls(T) : n <= j}
<1>1. Nuls(T) \subseteq Nat /\ IsFiniteSet(I) /\ j \in Nat
  BY NulsAre
<1>2. J = I \cup {j} /\ j \notin I
  BY <1>1
<1> HIDE DEF I, J
<1>3. Cardinality(J) = Cardinality(I) + 1
  BY <1>1, <1>2, FS_AddElement
<1>4. NulsUpTo(T, j) = NulsUpTo(T, j - 1) + 1
  BY <1>3 DEF NulsUpTo, I, J
<1>5. j - 1 \in Nat /\ i <= j - 1
  BY <1>1
<1>6. NulsUpTo(T, i) = NulsUpTo(T, j - 1) <=> \A m \in Nuls(T) : m <= i \/ m > j - 1
  BY <1>5, NoneBetween
<1>7. \A m \in Nuls(T) : m > j - 1 <=> m >= j
  BY <1>1
<1>8. NulsUpTo(T, i) \in Nat /\ NulsUpTo(T, j) \in Nat /\ NulsUpTo(T, j - 1) \in Nat
  BY NulsAre
<1>9. PICK x \in Nat, y \in Nat, z \in Nat :
        x = NulsUpTo(T, i) /\ y = NulsUpTo(T, j) /\ z = NulsUpTo(T, j - 1)
  BY <1>8
<1>10. y = x + 1 <=> x = z
  BY <1>4, <1>9
<1> QED
  BY <1>6, <1>7, <1>9, <1>10

\* A variable: the position before its name, the NUL behind it, and where its value
\* ends.
Variable(T, b, a, e) ==
    /\ b \in {0} \cup Nuls(T) /\ a \in Nuls(T) /\ e \in Stops(T) /\ b < a /\ a < e
    /\ NulsUpTo(T, b) % 2 = 0
    /\ \A m \in Nuls(T) : m <= b \/ m >= a
    /\ \A m \in Nuls(T) : m <= a \/ m >= e

LEMMA TriplesAre ==
    ASSUME NEW T, IsText(T)
    PROVE  /\ \A b, a, e : <<b, a, e>> \in Triples(T) <=> Variable(T, b, a, e)
           /\ \A t \in Triples(T) : t = <<t[1], t[2], t[3]>>
           /\ Stops(T) \subseteq 1..(Len(T) + 1)
           /\ \A t \in Triples(T) : t[1] \in Nat /\ t[2] \in Nat /\ t[3] \in Nat
<1>1. Nuls(T) \subseteq 1..Len(T) /\ Nuls(T) \subseteq Nat /\ Len(T) \in Nat
  BY NulsAre DEF IsText
<1>2. Stops(T) \subseteq 1..(Len(T) + 1) /\ Stops(T) \subseteq Nat
  BY <1>1 DEF Stops
<1>3. \A t \in Triples(T) : t = <<t[1], t[2], t[3]>> /\ t[1] \in Nat /\ t[2] \in Nat /\ t[3] \in Nat
  BY <1>1, <1>2 DEF Triples
<1>4. ASSUME NEW b, NEW a, NEW e
      PROVE  <<b, a, e>> \in Triples(T) <=> Variable(T, b, a, e)
  <2> DEFINE Places == b \in {0} \cup Nuls(T) /\ a \in Nuls(T) /\ e \in Stops(T) /\ b < a /\ a < e
  <2>1. <<b, a, e>> \in Triples(T) <=>
          /\ Places /\ NulsUpTo(T, b) % 2 = 0 /\ NulsUpTo(T, a) = NulsUpTo(T, b) + 1
          /\ NulsUpTo(T, e - 1) = NulsUpTo(T, a)
    BY DEF Triples
  <2>2. ASSUME Places
        PROVE  /\ NulsUpTo(T, a) = NulsUpTo(T, b) + 1 <=> \A m \in Nuls(T) : m <= b \/ m >= a
               /\ NulsUpTo(T, e - 1) = NulsUpTo(T, a) <=> \A m \in Nuls(T) : m <= a \/ m >= e
    <3>1. b \in Nat /\ a \in Nat /\ e \in Nat /\ e - 1 \in Nat /\ a <= e - 1 /\ b < a
      BY <1>1, <1>2, <2>2
    <3>2. NulsUpTo(T, a) = NulsUpTo(T, b) + 1 <=> \A m \in Nuls(T) : m <= b \/ m >= a
      BY <2>2, <3>1, OneMore
    <3>3. NulsUpTo(T, a) = NulsUpTo(T, e - 1) <=> \A m \in Nuls(T) : m <= a \/ m > e - 1
      BY <3>1, NoneBetween
    <3>4. \A m \in Nuls(T) : m > e - 1 <=> m >= e
      BY <1>1, <3>1
    <3> QED
      BY <3>2, <3>3, <3>4
  <2> QED
    BY <2>1, <2>2 DEF Variable
<1> QED
  BY <1>2, <1>3, <1>4

-----------------------------------------------------------------------------
(* Where the reader of the variables is.                                   *)

NamesIn(T) == [t \in Triples(T) |-> NameIn(T, t)]
ValuesIn(T) == [t \in Triples(T) |-> SubSeq(T, t[2] + 1, t[3] - 1)]
TriplesUpTo(T, k) == {t \in Triples(T) : t[3] <= k}
VariablesRead(T, k, table) == LastOnes(TriplesUpTo(T, k), NamesIn(T), ValuesIn(T), table)

\* a is the last NUL of the k bytes read, or 0.
LastNul(T, a, k) ==
    /\ a \in {0} \cup Nuls(T) /\ k \in 0..Len(T) /\ a <= k
    /\ \A m \in Nuls(T) : m <= a \/ m > k

\* In a name, which begins behind a.
InName(T, a, k, table) ==
    /\ LastNul(T, a, k) /\ NulsUpTo(T, a) % 2 = 0 /\ VariablesRead(T, k, table)

\* In a value, which begins behind a; its name begins behind b.
InValue(T, b, a, k, table) ==
    /\ LastNul(T, a, k) /\ a \in Nuls(T)
    /\ b \in {0} \cup Nuls(T) /\ b < a /\ \A m \in Nuls(T) : m <= b \/ m >= a
    /\ NulsUpTo(T, b) % 2 = 0 /\ VariablesRead(T, k, table)

LEMMA Parity ==
    ASSUME NEW m \in Nat, m % 2 = 0
    PROVE  (m + 1) % 2 # 0 /\ (m + 2) % 2 = 0
OBVIOUS

\* From byte to byte, where no variable ends there are none more.
LEMMA SameVariables ==
    ASSUME NEW T, IsText(T), NEW k \in Nat, \A t \in Triples(T) : t[3] # k + 1,
           NEW table, VariablesRead(T, k, table)
    PROVE  VariablesRead(T, k + 1, table)
<1>1. TriplesUpTo(T, k + 1) = TriplesUpTo(T, k)
  <2>1. ASSUME NEW t \in Triples(T)
        PROVE  t[3] <= k + 1 <=> t[3] <= k
    <3>1. t[3] \in Nat /\ t[3] # k + 1
      BY TriplesAre
    <3> QED
      BY <3>1
  <2> QED
    BY <2>1 DEF TriplesUpTo
<1> QED
  BY <1>1 DEF VariablesRead

\* In a name no variable ends, not even with the netstring.
LEMMA NoneInName ==
    ASSUME NEW T, IsText(T), NEW a, NEW k, LastNul(T, a, k), NulsUpTo(T, a) % 2 = 0,
           NEW t \in Triples(T)
    PROVE  t[3] # k + 1
<1> SUFFICES ASSUME t[3] = k + 1 PROVE FALSE
  OBVIOUS
<1>1. /\ Variable(T, t[1], t[2], t[3])
      /\ t[1] \in Nat /\ t[2] \in Nat /\ t[3] \in Nat
  <2>1. t = <<t[1], t[2], t[3]>> /\ t[1] \in Nat /\ t[2] \in Nat /\ t[3] \in Nat
    BY TriplesAre
  <2> QED
    BY <2>1, TriplesAre
<1>2. k \in Nat /\ a \in Nat /\ a <= k
  BY NulsAre DEF LastNul, IsText
<1>3. t[2] <= k /\ (t[2] <= a \/ t[2] > k)
  BY <1>1, <1>2 DEF Variable, LastNul
<1>4. t[2] = a
  <2>1. a # 0
    BY <1>1, <1>2, <1>3 DEF Variable
  <2>2. a \in Nuls(T)
    BY <2>1 DEF LastNul
  <2>3. a <= t[2] \/ a >= t[3]
    BY <1>1, <2>2 DEF Variable
  <2> QED
    BY <1>1, <1>2, <1>3, <2>3
<1>5. NulsUpTo(T, a) = NulsUpTo(T, t[1]) + 1
  <2>1. /\ t[1] < a /\ a \in Nuls(T) /\ \A m \in Nuls(T) : m <= t[1] \/ m >= a
    BY <1>1, <1>4 DEF Variable
  <2> QED
    BY <1>1, <2>1, OneMore
<1>6. PICK n \in Nat : n = NulsUpTo(T, t[1])
  BY NulsAre
<1>7. n % 2 = 0 /\ (n + 1) % 2 = 0
  BY <1>1, <1>5, <1>6 DEF Variable
<1> QED
  BY <1>7, Parity

\* In a value one variable ends where the value does.
LEMMA OneInValue ==
    ASSUME NEW T, IsText(T), NEW b, NEW a, NEW k, NEW table, InValue(T, b, a, k, table),
           k + 1 \in Stops(T)
    PROVE  LET v == <<b, a, k + 1>> IN
           /\ v \in Triples(T)
           /\ TriplesUpTo(T, k + 1) = TriplesUpTo(T, k) \cup {v}
           /\ \A t \in TriplesUpTo(T, k) : t[1] <= b
<1> DEFINE v == <<b, a, k + 1>>
<1>1. k \in Nat /\ a \in Nat /\ b \in Nat /\ a <= k /\ b < a /\ a \in Nuls(T)
  BY NulsAre DEF InValue, LastNul, IsText
<1>2. /\ \A m \in Nuls(T) : m <= b \/ m >= a
      /\ \A m \in Nuls(T) : m <= a \/ m > k
      /\ b \in {0} \cup Nuls(T)
  BY DEF InValue, LastNul
<1>3. \A m \in Nuls(T) : m <= a \/ m >= k + 1
  <2>1. Nuls(T) \subseteq Nat
    BY NulsAre
  <2> QED
    BY <1>1, <1>2, <2>1
<1>4. Variable(T, b, a, k + 1)
  BY <1>1, <1>2, <1>3 DEF Variable, InValue
<1>5. v \in Triples(T)
  BY <1>4, TriplesAre
<1>6. ASSUME NEW t \in Triples(T)
      PROVE  /\ t = <<t[1], t[2], t[3]>> /\ Variable(T, t[1], t[2], t[3])
             /\ t[1] \in Nat /\ t[2] \in Nat /\ t[3] \in Nat
  <2>1. t = <<t[1], t[2], t[3]>> /\ t[1] \in Nat /\ t[2] \in Nat /\ t[3] \in Nat
    BY TriplesAre
  <2> QED
    BY <2>1, TriplesAre
<1>7. ASSUME NEW t \in Triples(T), t[3] = k + 1
      PROVE  t = v
  <2>1. t[2] \in Nuls(T) /\ t[1] \in {0} \cup Nuls(T) /\ t[1] < t[2] /\ t[2] < k + 1
    BY <1>6, <1>7 DEF Variable
  <2>2. a <= t[2] \/ a >= k + 1
    BY <1>1, <1>6, <1>7 DEF Variable
  <2>3. t[2] = a
    <3>1. t[2] <= a \/ t[2] >= k + 1
      BY <1>3, <2>1
    <3> QED
      BY <1>1, <1>6, <2>1, <2>2, <3>1
  <2>4. t[1] = b
    <3>1. t[1] = 0 \/ t[1] <= b \/ t[1] >= a
      BY <1>2, <2>1
    <3>2. b = 0 \/ b <= t[1] \/ b >= a
      BY <1>2, <1>6, <2>3 DEF Variable
    <3> QED
      BY <1>1, <1>6, <2>1, <2>3, <3>1, <3>2
  <2> QED
    BY <1>6, <1>7, <2>3, <2>4
<1>8. TriplesUpTo(T, k + 1) = TriplesUpTo(T, k) \cup {v}
  <2>1. ASSUME NEW t \in Triples(T)
        PROVE  t[3] <= k + 1 <=> t[3] <= k \/ t = v
    <3>1. t[3] \in Nat
      BY <1>6
    <3>2. t = v => t[3] = k + 1
      OBVIOUS
    <3> HIDE DEF v
    <3> QED
      BY <1>1, <1>7, <3>1, <3>2
  <2> HIDE DEF v
  <2> QED
    BY <1>5, <2>1 DEF TriplesUpTo
<1>9. ASSUME NEW t \in TriplesUpTo(T, k)
      PROVE  t[1] <= b
  <2>1. t \in Triples(T) /\ t[3] <= k
    BY DEF TriplesUpTo
  <2>2. t[1] \in {0} \cup Nuls(T) /\ t[2] \in Nuls(T) /\ t[1] < t[2] /\ t[2] < t[3]
    BY <1>6, <2>1 DEF Variable
  <2>3. t[2] <= a
    BY <1>1, <1>2, <1>6, <2>1, <2>2
  <2>4. t[1] = 0 \/ t[1] <= b \/ t[1] >= a
    BY <1>2, <2>2
  <2> QED
    BY <1>1, <1>6, <2>1, <2>2, <2>3, <2>4
<1> QED
  BY <1>5, <1>8, <1>9

LEMMA StopsAre ==
    ASSUME NEW T, IsText(T), NEW k \in Nat, k < Len(T)
    PROVE  k + 1 \in Stops(T) <=> T[k + 1] = NUL
<1>1. Len(T) \in Nat /\ DOMAIN T = 1..Len(T) /\ k + 1 \in 1..Len(T) /\ k + 1 # Len(T) + 1
  BY DEF IsText
<1> QED
  BY <1>1 DEF Stops, Nuls

LEMMA NameBegins ==
    ASSUME NEW T, IsText(T)
    PROVE  InName(T, 0, 0, <<>>)
<1>1. TriplesUpTo(T, 0) = {}
  <2> SUFFICES ASSUME NEW t \in TriplesUpTo(T, 0) PROVE FALSE
    OBVIOUS
  <2>1. t \in Triples(T) /\ t[3] <= 0
    BY DEF TriplesUpTo
  <2>2. t = <<t[1], t[2], t[3]>> /\ t[1] \in Nat /\ t[2] \in Nat /\ t[3] \in Nat
    BY <2>1, TriplesAre
  <2>3. t[1] < t[2] /\ t[2] < t[3]
    BY <2>1, <2>2, TriplesAre DEF Variable
  <2> QED
    BY <2>1, <2>2, <2>3
<1>2. VariablesRead(T, 0, <<>>)
  BY <1>1, NoneYet DEF VariablesRead
<1>3. LastNul(T, 0, 0)
  <2>1. Len(T) \in Nat /\ Nuls(T) \subseteq 1..Len(T)
    BY NulsAre DEF IsText
  <2> QED
    BY <2>1 DEF LastNul
<1> QED
  BY <1>2, <1>3, NulsAre DEF InName

LEMMA NulStays ==
    ASSUME NEW T, IsText(T), NEW a, NEW k, LastNul(T, a, k), k < Len(T), T[k + 1] # NUL
    PROVE  LastNul(T, a, k + 1)
<1>1. Len(T) \in Nat /\ Nuls(T) \subseteq Nat /\ k + 1 \notin Nuls(T) /\ a \in Nat /\ k \in Nat
  BY NulsAre DEF IsText, Nuls, LastNul
<1> QED
  BY <1>1 DEF LastNul

LEMMA NulMoves ==
    ASSUME NEW T, IsText(T), NEW a, NEW k, LastNul(T, a, k), k < Len(T), T[k + 1] = NUL
    PROVE  /\ LastNul(T, k + 1, k + 1) /\ k + 1 \in Nuls(T) /\ a < k + 1
           /\ \A m \in Nuls(T) : m <= a \/ m >= k + 1
           /\ NulsUpTo(T, k + 1) = NulsUpTo(T, a) + 1
<1>1. /\ Len(T) \in Nat /\ Nuls(T) \subseteq Nat /\ a \in Nat /\ k \in Nat /\ a <= k
      /\ \A m \in Nuls(T) : m <= a \/ m > k
  BY NulsAre DEF IsText, Nuls, LastNul
<1>2. k + 1 \in Nuls(T)
  BY <1>1 DEF Nuls, IsText
<1>3. \A m \in Nuls(T) : m <= a \/ m >= k + 1
  BY <1>1
<1>4. NulsUpTo(T, k + 1) = NulsUpTo(T, a) + 1
  BY <1>1, <1>2, <1>3, OneMore
<1>5. LastNul(T, k + 1, k + 1)
  BY <1>1, <1>2 DEF LastNul
<1> QED
  BY <1>1, <1>2, <1>3, <1>4, <1>5

LEMMA NameGoes ==
    ASSUME NEW T, IsText(T), NEW a, NEW k, NEW table, InName(T, a, k, table),
           k < Len(T), T[k + 1] # NUL
    PROVE  InName(T, a, k + 1, table)
<1>1. LastNul(T, a, k) /\ k \in Nat
  BY DEF InName, LastNul, IsText
<1>2. LastNul(T, a, k + 1)
  BY <1>1, NulStays
<1>3. \A t \in Triples(T) : t[3] # k + 1
  BY <1>1, NoneInName DEF InName
<1>4. VariablesRead(T, k + 1, table)
  BY <1>1, <1>3, SameVariables DEF InName
<1> QED
  BY <1>2, <1>4 DEF InName

LEMMA NameStops ==
    ASSUME NEW T, IsText(T), NEW a, NEW k, NEW table, InName(T, a, k, table),
           k < Len(T), T[k + 1] = NUL
    PROVE  InValue(T, a, k + 1, k + 1, table)
<1>1. LastNul(T, a, k) /\ k \in Nat
  BY DEF InName, LastNul, IsText
<1>2. \A t \in Triples(T) : t[3] # k + 1
  BY <1>1, NoneInName DEF InName
<1>3. VariablesRead(T, k + 1, table)
  BY <1>1, <1>2, SameVariables DEF InName
<1>4. a \in {0} \cup Nuls(T)
  BY <1>1 DEF LastNul
<1> QED
  BY <1>1, <1>3, <1>4, NulMoves DEF InName, InValue

LEMMA ValueGoes ==
    ASSUME NEW T, IsText(T), NEW b, NEW a, NEW k, NEW table, InValue(T, b, a, k, table),
           k < Len(T), T[k + 1] # NUL
    PROVE  InValue(T, b, a, k + 1, table)
<1>1. LastNul(T, a, k) /\ k \in Nat
  BY DEF InValue, LastNul, IsText
<1>2. LastNul(T, a, k + 1)
  BY <1>1, NulStays
<1>3. k + 1 \notin Stops(T)
  BY <1>1, StopsAre
<1>4. \A t \in Triples(T) : t[3] \in Stops(T)
  BY DEF Triples
<1>5. VariablesRead(T, k + 1, table)
  BY <1>1, <1>3, <1>4, SameVariables DEF InValue
<1> QED
  BY <1>2, <1>5 DEF InValue

\* The variable whose value ends is put in the table.
LEMMA ValuePut ==
    ASSUME NEW T, IsText(T), NEW b, NEW a, NEW k, NEW table, InValue(T, b, a, k, table),
           k + 1 \in Stops(T)
    PROVE  VariablesRead(T, k + 1, Put(table, SubSeq(T, b + 1, a - 1), SubSeq(T, a + 1, k)))
<1> DEFINE v == <<b, a, k + 1>>
<1>1. k \in Nat /\ (k + 1) - 1 = k /\ b \in Int
  BY NulsAre DEF InValue, LastNul, IsText
<1>2. /\ v \in Triples(T)
      /\ TriplesUpTo(T, k + 1) = TriplesUpTo(T, k) \cup {v}
      /\ \A t \in TriplesUpTo(T, k) : t[1] <= b
  BY OneInValue
<1>3. NamesIn(T)[v] = SubSeq(T, b + 1, a - 1) /\ ValuesIn(T)[v] = SubSeq(T, a + 1, k)
  <2>1. v[1] = b /\ v[2] = a /\ v[3] - 1 = k
    BY <1>1
  <2> HIDE DEF v
  <2> QED
    BY <1>2, <2>1 DEF NamesIn, ValuesIn, NameIn
<1>4. v[1] \in Int /\ \A t \in TriplesUpTo(T, k) : t[1] <= v[1]
  <2>1. v[1] = b
    OBVIOUS
  <2> HIDE DEF v
  <2> QED
    BY <1>1, <1>2, <2>1
<1>5. LastOnes(TriplesUpTo(T, k), NamesIn(T), ValuesIn(T), table)
  BY DEF InValue, VariablesRead
<1> HIDE DEF v
<1>6. LastOnes(TriplesUpTo(T, k) \cup {v}, NamesIn(T), ValuesIn(T),
               Put(table, NamesIn(T)[v], ValuesIn(T)[v]))
  BY <1>4, <1>5, PutLast
<1> QED
  BY <1>2, <1>3, <1>6 DEF VariablesRead

LEMMA ValueStops ==
    ASSUME NEW T, IsText(T), NEW b, NEW a, NEW k, NEW table, InValue(T, b, a, k, table),
           k < Len(T), T[k + 1] = NUL
    PROVE  InName(T, k + 1, k + 1, Put(table, SubSeq(T, b + 1, a - 1), SubSeq(T, a + 1, k)))
<1>1. /\ LastNul(T, a, k) /\ k \in Nat /\ a \in Nuls(T) /\ b \in Nat /\ b < a
      /\ \A m \in Nuls(T) : m <= b \/ m >= a
  BY NulsAre DEF InValue, LastNul, IsText
<1>2. k + 1 \in Stops(T)
  BY <1>1, StopsAre
<1>3. VariablesRead(T, k + 1, Put(table, SubSeq(T, b + 1, a - 1), SubSeq(T, a + 1, k)))
  BY <1>2, ValuePut
<1>4. LastNul(T, k + 1, k + 1) /\ NulsUpTo(T, k + 1) = NulsUpTo(T, a) + 1
  BY <1>1, NulMoves
<1>5. NulsUpTo(T, a) = NulsUpTo(T, b) + 1
  BY <1>1, OneMore
<1>6. PICK n \in Nat : n = NulsUpTo(T, b)
  BY NulsAre
<1>7. NulsUpTo(T, k + 1) % 2 = 0
  <2>1. n % 2 = 0 /\ (n + 1) + 1 = n + 2
    BY <1>6 DEF InValue
  <2> QED
    BY <1>4, <1>5, <1>6, <2>1, Parity
<1> QED
  BY <1>3, <1>4, <1>7 DEF InName

\* All the variables: the netstring ends in a name, in a value, or with the NUL of
\* either.
LEMMA AllUpTo ==
    ASSUME NEW T, IsText(T), NEW k, \A t \in Triples(T) : t[3] <= k,
           NEW table, VariablesRead(T, k, table)
    PROVE  LastOnes(Triples(T), NamesIn(T), ValuesIn(T), table)
<1>1. TriplesUpTo(T, k) = Triples(T)
  BY DEF TriplesUpTo
<1> QED
  BY <1>1 DEF VariablesRead

LEMMA EndsInName ==
    ASSUME NEW T, IsText(T), NEW a, NEW table, InName(T, a, Len(T), table)
    PROVE  LastOnes(Triples(T), NamesIn(T), ValuesIn(T), table)
<1>1. \A t \in Triples(T) : t[3] # Len(T) + 1 /\ t[3] \in 1..(Len(T) + 1)
  <2>1. \A t \in Triples(T) : t[3] # Len(T) + 1
    BY NoneInName DEF InName
  <2>2. \A t \in Triples(T) : t[3] \in Stops(T)
    BY DEF Triples
  <2> QED
    BY <2>1, <2>2, TriplesAre
<1>2. \A t \in Triples(T) : t[3] <= Len(T)
  BY <1>1 DEF IsText
<1> QED
  BY <1>2, AllUpTo DEF InName

LEMMA EndsWithNul ==
    ASSUME NEW T, IsText(T), NEW table, VariablesRead(T, Len(T), table), T[Len(T)] = NUL
    PROVE  LastOnes(Triples(T), NamesIn(T), ValuesIn(T), table)
<1>1. Stops(T) = Nuls(T) /\ Nuls(T) \subseteq 1..Len(T)
  BY NulsAre DEF Stops
<1>2. \A t \in Triples(T) : t[3] \in Stops(T)
  BY DEF Triples
<1>3. \A t \in Triples(T) : t[3] <= Len(T)
  BY <1>1, <1>2 DEF IsText
<1> QED
  BY <1>3, AllUpTo

LEMMA EndsInValue ==
    ASSUME NEW T, IsText(T), NEW b, NEW a, NEW table, InValue(T, b, a, Len(T), table),
           T[Len(T)] # NUL
    PROVE  LastOnes(Triples(T), NamesIn(T), ValuesIn(T),
                    Put(table, SubSeq(T, b + 1, a - 1), SubSeq(T, a + 1, Len(T))))
<1>1. T # <<>>
  <2>1. a \in 1..Len(T)
    BY NulsAre DEF InValue
  <2>2. Len(<<>>) = 0
    OBVIOUS
  <2> QED
    BY <2>1, <2>2
<1>2. Len(T) + 1 \in Stops(T)
  BY <1>1 DEF Stops
<1>3. VariablesRead(T, Len(T) + 1, Put(table, SubSeq(T, b + 1, a - 1), SubSeq(T, a + 1, Len(T))))
  BY <1>2, ValuePut
<1>4. \A t \in Triples(T) : t[3] \in Stops(T)
  BY DEF Triples
<1>5. \A t \in Triples(T) : t[3] <= Len(T) + 1
  BY <1>4, TriplesAre DEF IsText
<1> QED
  BY <1>3, <1>5, AllUpTo

\* The table of all the variables is what was sent, and its values are texts.
LEMMA VariablesAre ==
    ASSUME NEW T, IsText(T), NEW table, LastOnes(Triples(T), NamesIn(T), ValuesIn(T), table)
    PROVE  table = VariablesOf(T) /\ \A name : LengthOf(table, name) \in Nat
<1> DEFINE L == Triples(T)
           Latest(k) == CHOOSE t \in L :
                /\ NameIn(T, t) = k
                /\ \A u \in L : NameIn(T, u) = k => u[1] <= t[1]
           nm == NamesIn(T)
           val == ValuesIn(T)
<1>1. \A l \in L : nm[l] = NameIn(T, l) /\ val[l] = SubSeq(T, l[2] + 1, l[3] - 1)
  BY DEF NamesIn, ValuesIn
<1>2. VariablesOf(T) = [k \in {NameIn(T, l) : l \in L} |-> SubSeq(T, Latest(k)[2] + 1, Latest(k)[3] - 1)]
  BY DEF VariablesOf
<1>3. \A k \in L : k[1] \in Int
  BY TriplesAre
<1>4. ASSUME NEW k \in L, NEW m \in L, k[1] = m[1]
      PROVE  k = m
  <2>1. /\ k = <<k[1], k[2], k[3]>> /\ k[1] \in Nat /\ k[2] \in Nat /\ k[3] \in Nat
        /\ m = <<m[1], m[2], m[3]>> /\ m[1] \in Nat /\ m[2] \in Nat /\ m[3] \in Nat
    BY TriplesAre
  <2>2. Variable(T, k[1], k[2], k[3]) /\ Variable(T, m[1], m[2], m[3])
    BY <2>1, TriplesAre
  <2>3. k[2] = m[2]
    <3>1. /\ k[1] < k[2] /\ m[1] < m[2]
          /\ m[2] <= k[1] \/ m[2] >= k[2] 
          /\ k[2] <= m[1] \/ k[2] >= m[2]
      BY <2>2 DEF Variable
    <3> QED
      BY <1>4, <2>1, <3>1
  <2>4. k[3] = m[3]
    <3>1. k[2] < k[3] /\ m[2] < m[3] /\ k[3] \in Stops(T) /\ m[3] \in Stops(T)
      BY <2>2 DEF Variable
    <3>2. k[3] \in Nuls(T) => k[3] >= m[3]
      <4> SUFFICES ASSUME k[3] \in Nuls(T) PROVE k[3] >= m[3]
        OBVIOUS
      <4>1. k[3] <= m[2] \/ k[3] >= m[3]
        BY <2>2 DEF Variable
      <4> QED
        BY <2>1, <2>3, <3>1, <4>1
    <3>3. m[3] \in Nuls(T) => m[3] >= k[3]
      <4> SUFFICES ASSUME m[3] \in Nuls(T) PROVE m[3] >= k[3]
        OBVIOUS
      <4>1. m[3] <= k[2] \/ m[3] >= k[3]
        BY <2>2 DEF Variable
      <4> QED
        BY <2>1, <2>3, <3>1, <4>1
    <3>4. /\ k[3] \in Nuls(T) \/ k[3] = Len(T) + 1
          /\ m[3] \in Nuls(T) \/ m[3] = Len(T) + 1
          /\ k[3] \in 1..(Len(T) + 1) /\ m[3] \in 1..(Len(T) + 1) /\ Len(T) \in Nat
      BY <3>1, TriplesAre DEF Stops, IsText
    <3> QED
      BY <2>1, <3>2, <3>3, <3>4
  <2> QED
    BY <1>4, <2>1, <2>3, <2>4
<1>5. \A k, m \in L : k[1] = m[1] => k = m
  BY <1>4
<1>6. LastOnes(L, nm, val, table)
  OBVIOUS
<1> HIDE DEF L, nm, val
<1>7. ASSUME NEW k \in {NameIn(T, l) : l \in L}
      PROVE  table[k] = SubSeq(T, Latest(k)[2] + 1, Latest(k)[3] - 1)
  <2>1. k \in {nm[l] : l \in L}
    BY <1>1
  <2>2. \E l \in L : nm[l] = k /\ \A m \in L : nm[m] = k => m[1] <= l[1]
    BY <1>6, <2>1, LastExists
  <2>3. \E l \in L : NameIn(T, l) = k /\ \A m \in L : NameIn(T, m) = k => m[1] <= l[1]
    BY <1>1, <2>2
  <2>4. /\ Latest(k) \in L /\ NameIn(T, Latest(k)) = k
        /\ \A m \in L : NameIn(T, m) = k => m[1] <= Latest(k)[1]
    BY <2>3
  <2>5. PICK l \in L : l = Latest(k)
    BY <2>4
  <2>6. nm[l] = k /\ \A m \in L : nm[m] = nm[l] => m[1] <= l[1]
    BY <1>1, <2>4, <2>5
  <2>7. table[nm[l]] = val[l]
    BY <1>3, <1>5, <1>6, <2>6, LastIs
  <2> HIDE DEF Latest
  <2> QED
    BY <1>1, <2>5, <2>6, <2>7
<1>8. table = [x \in DOMAIN table |-> table[x]] /\ DOMAIN table = {nm[l] : l \in L}
  BY <1>6 DEF LastOnes
<1>9. DOMAIN table = {NameIn(T, l) : l \in L}
  BY <1>1, <1>8
<1>10. ASSUME NEW name
       PROVE  LengthOf(table, name) \in Nat
  <2>1. ASSUME name \in DOMAIN table
        PROVE  IsText(table[name])
    <3>1. PICK l \in L : name = nm[l]
      BY <1>8, <2>1
    <3>2. PICK m \in L : table[name] = val[m]
      BY <1>6, <3>1 DEF LastOnes
    <3>3. PICK i \in Int, j \in Int : i = m[2] + 1 /\ j = m[3] - 1
      <4>1. m[2] \in Nat /\ m[3] \in Nat
        BY TriplesAre DEF L
      <4> QED
        BY <4>1
    <3>4. table[name] = SubSeq(T, i, j)
      BY <1>1, <3>2, <3>3
    <3> QED
      BY <3>4, Slice
  <2> QED
    BY <2>1, NumberOfText
<1> HIDE DEF Latest
<1>11. table = [k \in {NameIn(T, l) : l \in L} |-> SubSeq(T, Latest(k)[2] + 1, Latest(k)[3] - 1)]
  BY <1>7, <1>8, <1>9
<1> QED
  BY <1>2, <1>10, <1>11

-----------------------------------------------------------------------------
(* SCGI.                                                                   *)

\* d digits, a colon, and n is what the digits say.
LengthIs(s, d, n) ==
    /\ d \in Nat /\ n \in Nat /\ d + 1 <= Len(s)
    /\ \A i \in 1..d : s[i] \in ToSet(Digits)
    /\ s[d + 1] = ":" /\ Number(SubSeq(s, 1, d)) = n
Part(s, d, n) == SubSeq(s, d + 2, d + n + 1)

\* Where in the variables the reader is, d and n being the length's.
InVariables(d, n) ==
    LET T == Part(stream, d, n)
        k == pos - (d + 1)
    IN
    /\ LengthIs(stream, d, n) /\ netstring_len = n /\ k \in 0..n
    /\ pc = "key" => /\ k < n /\ current = k + 1
                     /\ \E a \in Nat : start = d + 1 + a /\ InName(T, a, k, env)
    /\ pc = "value" => /\ k < n /\ current = k + 1
                       /\ \E a, b \in Nat : /\ start = d + 1 + a /\ key = SubSeq(T, b + 1, a - 1)
                                            /\ InValue(T, b, a, k, env)
    /\ pc = "comma" => k = n /\ LastOnes(Triples(T), NamesIn(T), ValuesIn(T), env)

\* What becomes of a request of SCGI, where nothing undefined was done.  A reader that
\* went past the end of the stream will find no comma.
ScgiOK ==
    service = "scgi" /\ fault = {} =>
        /\ pc \in {"length", "key", "value", "comma", "body"} \cup Done
        /\ pos \in Nat
        /\ pc \in {"length", "key", "value", "comma"} =>
              body = <<>> /\ real_content_length = 0 /\ to_read = BufferSize
        /\ pc = "length" =>
              /\ start = 0 /\ current = 0 /\ env = <<>> /\ pos <= Len(stream)
              /\ \A i \in 1..pos : stream[i] \in ToSet(Digits)
        /\ pc \in {"key", "value", "comma"} /\ pos <= Len(stream) =>
              \E d, n \in Nat : InVariables(d, n)
        /\ pc = "body" =>
              \E d, n \in Nat :
                /\ Netstring(stream, d, n) /\ env = VariablesOf(Part(stream, d, n))
                /\ BodyRead(d + n + 2, LengthOf(env, <<"C">>))
        /\ pc = "parsed" => ScgiExact

LEMMA PartIs ==
    ASSUME NEW s, NEW d \in Nat, NEW n \in Nat
    PROVE  /\ IsText(Part(s, d, n)) /\ Len(Part(s, d, n)) = n
           /\ \A i \in 1..n : Part(s, d, n)[i] = s[d + 1 + i]
<1>1. PICK a \in Int, b \in Int : a = d + 2 /\ b = d + n + 1
  OBVIOUS
<1>2. /\ IsText(SubSeq(s, a, b)) /\ Len(SubSeq(s, a, b)) = IF a <= b THEN b - a + 1 ELSE 0
      /\ \A i \in 1..(b - a + 1) : SubSeq(s, a, b)[i] = s[a + i - 1]
  BY Slice
<1>3. b - a + 1 = n /\ (a <= b <=> n > 0) /\ \A i \in 1..n : a + i - 1 = d + 1 + i
  BY <1>1
<1>4. Part(s, d, n) = SubSeq(s, a, b)
  BY <1>1 DEF Part
<1>5. Len(SubSeq(s, a, b)) = n
  BY <1>2, <1>3
<1> QED
  BY <1>2, <1>3, <1>4, <1>5

\* What was read between two places in the variables is a piece of them.
LEMMA PartText ==
    ASSUME StreamOK, NEW d \in Nat, NEW n \in Nat, NEW i \in Nat, NEW j \in Nat,
           d + 1 <= i, i <= j, j <= d + 1 + n, j <= Len(stream)
    PROVE  Text(i, j) = SubSeq(Part(stream, d, n), i - d, j - (d + 1))
<1>1. Text(i, j) = SubSeq(stream, i + 1, j)
  BY TextIs DEF StreamOK
<1>2. PICK x \in Int, y \in Int, m \in Int, u \in Int, k \in Int :
        x = d + 2 /\ y = d + n + 1 /\ m = i + 1 /\ u = i - d /\ k = j - (d + 1)
  OBVIOUS
<1>3. j \in Int /\ 1 <= u /\ k <= y - x + 1 /\ m = x + u - 1 /\ j = x + k - 1
  BY <1>2
<1>4. SubSeq(SubSeq(stream, x, y), u, k) = SubSeq(stream, m, j)
  BY <1>3, SliceOfSlice
<1> QED
  BY <1>1, <1>2, <1>4 DEF Part

\* A stream is at most one netstring.
LEMMA OneNetstring ==
    ASSUME NEW s, NEW d \in Nat, NEW n \in Nat, NEW e \in Nat, NEW m \in Nat,
           Netstring(s, d, n), Netstring(s, e, m)
    PROVE  d = e /\ n = m
<1>1. ":" \notin ToSet(Digits)
  BY DEF ToSet, Digits
<1>2. ~(d < e)
  <2> SUFFICES ASSUME d < e PROVE FALSE
    OBVIOUS
  <2>1. d + 1 \in 1..e
    OBVIOUS
  <2> QED
    BY <1>1, <2>1 DEF Netstring
<1>3. ~(e < d)
  <2> SUFFICES ASSUME e < d PROVE FALSE
    OBVIOUS
  <2>1. e + 1 \in 1..d
    OBVIOUS
  <2> QED
    BY <1>1, <2>1 DEF Netstring
<1>4. d = e
  BY <1>2, <1>3
<1> QED
  BY <1>4 DEF Netstring

LEMMA VariablesSent ==
    ASSUME NEW s, IsText(s), NEW d \in Nat, NEW n \in Nat, Netstring(s, d, n)
    PROVE  <<d, n>> \in Netstrings(s) /\ Variables(s) = VariablesOf(Part(s, d, n))
<1> DEFINE p == CHOOSE q \in Netstrings(s) : TRUE
<1>1. Len(s) \in Nat /\ d + n + 2 <= Len(s)
  BY DEF Netstring, IsText
<1>2. d \in 0..Len(s) /\ n \in 0..Len(s)
  BY <1>1
<1>3. <<d, n>> \in Netstrings(s)
  BY <1>2 DEF Netstrings
<1>4. p \in Netstrings(s)
  BY <1>3
<1> HIDE DEF p
<1>5. p = <<p[1], p[2]>> /\ p[1] \in Nat /\ p[2] \in Nat /\ Netstring(s, p[1], p[2])
  BY <1>1, <1>4 DEF Netstrings
<1>6. p[1] = d /\ p[2] = n
  BY <1>5, OneNetstring
<1>7. Variables(s) = VariablesOf(SubSeq(s, p[1] + 2, p[1] + p[2] + 1))
  BY DEF Variables, p
<1> QED
  BY <1>3, <1>6, <1>7 DEF Part

LEMMA ByteIs ==
    ASSUME StreamOK, pos \in Nat
    PROVE  /\ pos + 1 <= Len(stream) => Byte = stream[pos + 1]
           /\ ~(pos + 1 <= Len(stream)) => Byte = NUL
BY DEF Byte, ByteAt

LEMMA ReadLengthKeeps ==
    ASSUME StreamOK, ScgiOK, ReadLength, service = "scgi", fault = {}, fault' = {}
    PROVE  ScgiOK'
<1>1. /\ pc = "length" /\ start = 0 /\ current = 0 /\ env = <<>> /\ pos \in Nat /\ pos <= Len(stream)
      /\ \A i \in 1..pos : stream[i] \in ToSet(Digits)
      /\ body = <<>> /\ real_content_length = 0 /\ to_read = BufferSize
  BY DEF ScgiOK, ReadLength
<1>2. /\ stream' = stream /\ body' = body /\ real_content_length' = real_content_length
      /\ to_read' = to_read /\ pos' = pos + 1
  BY DEF ReadLength, input, payload, Turn
<1>3. IsText(stream) /\ Len(stream) \in Nat
  BY TextIsText DEF IsText
<1>4. NUL \notin ToSet(Digits) /\ NUL # ":"
  BY DEF ToSet, Digits, NUL
<1>5. pos' \in Nat
  BY <1>1, <1>2
<1>6. CASE Byte \in ToSet(Digits) /\ UNCHANGED <<pc, netstring>>
  <2>1. pos + 1 <= Len(stream) /\ stream[pos + 1] \in ToSet(Digits)
    BY <1>1, <1>4, <1>6, ByteIs
  <2>2. \A i \in 1..(pos + 1) : stream[i] \in ToSet(Digits)
    <3>1. \A i \in 1..(pos + 1) : i \in 1..pos \/ i = pos + 1
      BY <1>1
    <3> QED
      BY <1>1, <2>1, <3>1
  <2>3. pc' = "length" /\ start' = 0 /\ current' = 0 /\ env' = <<>>
    BY <1>1, <1>6 DEF netstring
  <2> QED
    BY <1>1, <1>2, <1>5, <2>1, <2>2, <2>3 DEF ScgiOK, Done
<1>7. CASE /\ Byte = ":" /\ netstring_len' = Number(Text(start, pos)) /\ start' = pos + 1
           /\ Turn("key", netstring_len') /\ UNCHANGED <<key, env>>
  <2>1. pos + 1 <= Len(stream) /\ stream[pos + 1] = ":"
    BY <1>1, <1>4, <1>7, ByteIs
  <2>2. Text(0, pos) = SubSeq(stream, 1, pos)
    <3>1. Text(0, pos) = SubSeq(stream, 0 + 1, pos)
      BY <1>1, TextIs DEF StreamOK
    <3> QED
      BY <3>1
  <2>3. PICK n : n = Number(SubSeq(stream, 1, pos))
    OBVIOUS
  <2>4. n \in Nat
    <3>1. 1 \in Int /\ pos \in Int
      BY <1>1
    <3>2. IsText(SubSeq(stream, 1, pos))
      BY <3>1, Slice
    <3> QED
      BY <2>3, <3>2, NumberIs DEF IsText
  <2>5. netstring_len' = n
    BY <1>1, <1>7, <2>2, <2>3
  <2>6. PICK d \in Nat : d = pos
    BY <1>1
  <2>7. LengthIs(stream, d, n)
    BY <1>1, <2>1, <2>3, <2>4, <2>6 DEF LengthIs
  <2> DEFINE T == Part(stream, d, n)
  <2>8. IsText(T) /\ Len(T) = n
    BY <2>4, PartIs
  <2>9. InName(T, 0, 0, <<>>)
    <3> HIDE DEF T
    <3> QED
      BY <2>8, NameBegins
  <2>10. pos' = d + 1 /\ start' = d + 1 + 0 /\ env' = <<>> /\ pos' - (d + 1) = 0 /\ 0 \in 0..n
    BY <1>1, <1>2, <1>7, <2>4, <2>6
  <2>11. CASE n = 0
    <3>1. pc' = "comma"
      BY <1>1, <1>7, <2>5, <2>11 DEF Turn
    <3>2. LastOnes(Triples(T), NamesIn(T), ValuesIn(T), env')
      <4> HIDE DEF T
      <4> QED
        BY <2>8, <2>9, <2>10, <2>11, EndsInName
    <3>3. InVariables(d, n)'
      BY <1>2, <2>5, <2>7, <2>10, <2>11, <3>1, <3>2 DEF InVariables
    <3> QED
      BY <1>1, <1>2, <1>5, <2>4, <3>1, <3>3 DEF ScgiOK, Done
  <2>12. CASE n # 0
    <3>1. pc' = "key" /\ current' = 0 + 1
      BY <1>1, <1>7, <2>5, <2>12 DEF Turn
    <3>2. 0 < n
      BY <2>4, <2>12
    <3>3. InVariables(d, n)'
      BY <1>2, <2>5, <2>7, <2>9, <2>10, <3>1, <3>2 DEF InVariables
    <3> QED
      BY <1>1, <1>2, <1>5, <2>4, <3>1, <3>3 DEF ScgiOK, Done
  <2> QED
    BY <2>11, <2>12
<1>8. CASE pc' = "rejected"
  BY <1>5, <1>8 DEF ScgiOK, Done
<1> QED
  BY <1>6, <1>7, <1>8 DEF ReadLength

\* One byte more of the variables: behind the end of the stream it does not count.
LEMMA TurnKeeps ==
    ASSUME StreamOK, ScgiOK, service = "scgi", fault = {}, stream' = stream,
           body' = body, real_content_length' = real_content_length, to_read' = to_read,
           pc \in {"key", "value"}, pos' = pos + 1, pc' \in {"key", "value", "comma"},
           pos' <= Len(stream) => \E d, n \in Nat : InVariables(d, n)'
    PROVE  ScgiOK'
<1>1. pos \in Nat /\ body = <<>> /\ real_content_length = 0 /\ to_read = BufferSize
  BY DEF ScgiOK
<1>2. pos' \in Nat
  BY <1>1
<1> QED
  BY <1>1, <1>2 DEF ScgiOK, Done

LEMMA ByteOfPart ==
    ASSUME StreamOK, NEW d \in Nat, NEW n \in Nat, InVariables(d, n), pc \in {"key", "value"},
           pos \in Nat, pos + 1 <= Len(stream)
    PROVE  \E k \in Nat : /\ k < n /\ k + 1 \in 1..n /\ pos = d + 1 + k /\ k = pos - (d + 1)
                          /\ current = k + 1 /\ Byte = Part(stream, d, n)[k + 1]
<1>1. PICK k : k = pos - (d + 1)
  OBVIOUS
<1>2. k \in 0..n /\ k < n /\ current = k + 1
  BY <1>1 DEF InVariables
<1>3. k \in Nat /\ pos = d + 1 + k /\ k + 1 \in 1..n /\ d + 1 + (k + 1) = pos + 1
  BY <1>1, <1>2
<1>4. Part(stream, d, n)[k + 1] = stream[d + 1 + (k + 1)]
  BY <1>3, PartIs
<1>5. Byte = stream[pos + 1]
  BY ByteIs
<1> QED
  BY <1>1, <1>2, <1>3, <1>4, <1>5

LEMMA ReadKeyKeeps ==
    ASSUME StreamOK, ScgiOK, ReadKey, service = "scgi", fault = {}, fault' = {}
    PROVE  ScgiOK'
<1>1. /\ stream' = stream /\ body' = body /\ real_content_length' = real_content_length
      /\ to_read' = to_read /\ env' = env /\ netstring_len' = netstring_len
      /\ pc = "key" /\ pos' = pos + 1 /\ pc' \in {"key", "value", "comma"}
  BY DEF ReadKey, input, payload, Turn
<1>2. ASSUME pos' <= Len(stream)
      PROVE  \E d, n \in Nat : InVariables(d, n)'
  <2>1. pos \in Nat /\ Len(stream) \in Nat
    BY TextIsText DEF ScgiOK, IsText
  <2>2. pos <= Len(stream) /\ pos + 1 <= Len(stream)
    BY <1>1, <1>2, <2>1
  <2>3. PICK d \in Nat, n \in Nat : InVariables(d, n)
    BY <1>1, <2>2 DEF ScgiOK
  <2> DEFINE T == Part(stream, d, n)
  <2>4. PICK k \in Nat : /\ k < n /\ k + 1 \in 1..n /\ pos = d + 1 + k /\ k = pos - (d + 1)
                         /\ current = k + 1 /\ Byte = T[k + 1]
    BY <1>1, <2>1, <2>2, <2>3, ByteOfPart
  <2>5. PICK a \in Nat : start = d + 1 + a /\ InName(T, a, k, env)
    BY <1>1, <2>3, <2>4 DEF InVariables
  <2>6. LengthIs(stream, d, n) /\ netstring_len = n
    BY <2>3 DEF InVariables
  <2>7. IsText(T) /\ Len(T) = n /\ k < Len(T)
    BY <2>4, PartIs
  <2>8. /\ pos' - (d + 1) = k + 1 /\ k + 1 \in 0..n
        /\ k + 1 # n => k + 1 < n /\ (k + 1) + 1 = current + 1
    BY <1>1, <2>4
  <2>9. CASE Byte # NUL /\ Turn("key", netstring_len) /\ UNCHANGED <<start, key>>
    <3>1. InName(T, a, k + 1, env)
      <4> HIDE DEF T
      <4> QED
        BY <2>4, <2>5, <2>7, <2>9, NameGoes
    <3>2. CASE k + 1 = n
      <4>1. pc' = "comma"
        BY <2>4, <2>6, <2>9, <3>2 DEF Turn
      <4>2. LastOnes(Triples(T), NamesIn(T), ValuesIn(T), env)
        <5> HIDE DEF T
        <5> QED
          BY <2>7, <3>1, <3>2, EndsInName
      <4> QED
        BY <1>1, <2>6, <2>8, <3>2, <4>1, <4>2 DEF InVariables
    <3>3. CASE k + 1 # n
      <4>1. pc' = "key" /\ current' = (k + 1) + 1 /\ start' = start
        BY <2>4, <2>6, <2>8, <2>9, <3>3 DEF Turn
      <4> QED
        BY <1>1, <2>5, <2>6, <2>8, <3>1, <3>3, <4>1 DEF InVariables
    <3> QED
      BY <3>2, <3>3
  <2>10. CASE Byte = NUL /\ Turn("value", netstring_len) /\ key' = Text(start, pos) /\ start' = pos + 1
    <3>1. InValue(T, a, k + 1, k + 1, env)
      <4> HIDE DEF T
      <4> QED
        BY <2>4, <2>5, <2>7, <2>10, NameStops
    <3>2. CASE k + 1 = n
      <4>1. pc' = "comma"
        BY <2>4, <2>6, <2>10, <3>2 DEF Turn
      <4>2. LastOnes(Triples(T), NamesIn(T), ValuesIn(T), env)
        <5> HIDE DEF T
        <5> QED
          BY <2>4, <2>7, <2>10, <3>1, <3>2, EndsWithNul DEF InValue
      <4> QED
        BY <1>1, <2>6, <2>8, <3>2, <4>1, <4>2 DEF InVariables
    <3>3. CASE k + 1 # n
      <4>1. pc' = "value" /\ current' = (k + 1) + 1
        BY <2>4, <2>6, <2>8, <2>10, <3>3 DEF Turn
      <4>2. start' = d + 1 + (k + 1) /\ k + 1 \in Nat /\ (k + 1) - 1 = k
        BY <2>4, <2>10
      <4>3. key' = SubSeq(T, a + 1, (k + 1) - 1)
        <5>1. a <= k
          BY <2>5 DEF InName, LastNul
        <5>2. PICK i \in Nat, j \in Nat : i = start /\ j = pos
          BY <2>1, <2>5
        <5>3. d + 1 <= i /\ i <= j /\ j <= d + 1 + n /\ j <= Len(stream)
          BY <2>2, <2>4, <2>5, <5>1, <5>2
        <5>4. Text(i, j) = SubSeq(T, i - d, j - (d + 1))
          BY <5>3, PartText
        <5>5. i - d = a + 1 /\ j - (d + 1) = k
          BY <2>4, <2>5, <5>2
        <5> QED
          BY <2>10, <4>2, <5>2, <5>4, <5>5
      <4> QED
        BY <1>1, <2>6, <2>8, <3>1, <3>3, <4>1, <4>2, <4>3 DEF InVariables
    <3> QED
      BY <3>2, <3>3
  <2> QED
    BY <2>3, <2>9, <2>10 DEF ReadKey
<1> QED
  BY <1>1, <1>2, TurnKeeps

LEMMA ReadValueKeeps ==
    ASSUME StreamOK, ScgiOK, ReadValue, service = "scgi", fault = {}, fault' = {}
    PROVE  ScgiOK'
<1>1. /\ stream' = stream /\ body' = body /\ real_content_length' = real_content_length
      /\ to_read' = to_read /\ netstring_len' = netstring_len
      /\ pc = "value" /\ pos' = pos + 1 /\ pc' \in {"key", "value", "comma"}
  BY DEF ReadValue, input, payload, Turn
<1>2. ASSUME pos' <= Len(stream)
      PROVE  \E d, n \in Nat : InVariables(d, n)'
  <2>1. pos \in Nat /\ Len(stream) \in Nat
    BY TextIsText DEF ScgiOK, IsText
  <2>2. pos <= Len(stream) /\ pos + 1 <= Len(stream)
    BY <1>1, <1>2, <2>1
  <2>3. PICK d \in Nat, n \in Nat : InVariables(d, n)
    BY <1>1, <2>2 DEF ScgiOK
  <2> DEFINE T == Part(stream, d, n)
  <2>4. PICK k \in Nat : /\ k < n /\ k + 1 \in 1..n /\ pos = d + 1 + k /\ k = pos - (d + 1)
                         /\ current = k + 1 /\ Byte = T[k + 1]
    BY <1>1, <2>1, <2>2, <2>3, ByteOfPart
  <2>5. PICK a \in Nat, b \in Nat : /\ start = d + 1 + a /\ key = SubSeq(T, b + 1, a - 1)
                                    /\ InValue(T, b, a, k, env)
    BY <1>1, <2>3, <2>4 DEF InVariables
  <2>6. LengthIs(stream, d, n) /\ netstring_len = n
    BY <2>3 DEF InVariables
  <2>7. IsText(T) /\ Len(T) = n /\ k < Len(T)
    BY <2>4, PartIs
  <2>8. /\ pos' - (d + 1) = k + 1 /\ k + 1 \in 0..n /\ k + 1 \in Nat
        /\ k + 1 # n => k + 1 < n /\ (k + 1) + 1 = current + 1
    BY <1>1, <2>4
  <2>9. a <= k
    BY <2>5 DEF InValue, LastNul
  <2>10. CASE Byte # NUL /\ current # netstring_len /\ Turn("value", netstring_len)
              /\ UNCHANGED <<start, key, env>>
    <3>1. InValue(T, b, a, k + 1, env)
      <4> HIDE DEF T
      <4> QED
        BY <2>4, <2>5, <2>7, <2>10, ValueGoes
    <3>2. pc' = "value" /\ current' = (k + 1) + 1 /\ start' = start /\ key' = key /\ env' = env
      BY <2>4, <2>6, <2>8, <2>10 DEF Turn
    <3>3. k + 1 # n
      BY <2>4, <2>6, <2>10
    <3> QED
      BY <1>1, <2>5, <2>6, <2>8, <3>1, <3>2, <3>3 DEF InVariables
  <2>11. CASE Byte = NUL /\ env' = Put(env, key, Text(start, pos)) /\ start' = pos + 1
              /\ Turn("key", netstring_len)
    <3>1. Text(start, pos) = SubSeq(T, a + 1, k)
      <4>1. PICK i \in Nat, j \in Nat : i = start /\ j = pos
        BY <2>1, <2>5
      <4>2. d + 1 <= i /\ i <= j /\ j <= d + 1 + n /\ j <= Len(stream)
        BY <2>2, <2>4, <2>5, <2>9, <4>1
      <4>3. Text(i, j) = SubSeq(T, i - d, j - (d + 1))
        BY <4>2, PartText
      <4>4. i - d = a + 1 /\ j - (d + 1) = k
        BY <2>4, <2>5, <4>1
      <4> QED
        BY <4>1, <4>3, <4>4
    <3>2. InName(T, k + 1, k + 1, env')
      <4>1. InName(T, k + 1, k + 1, Put(env, SubSeq(T, b + 1, a - 1), SubSeq(T, a + 1, k)))
        <5> HIDE DEF T
        <5> QED
          BY <2>4, <2>5, <2>7, <2>11, ValueStops
      <4> QED
        BY <2>5, <2>11, <3>1, <4>1
    <3>3. CASE k + 1 = n
      <4>1. pc' = "comma"
        BY <2>4, <2>6, <2>11, <3>3 DEF Turn
      <4>2. LastOnes(Triples(T), NamesIn(T), ValuesIn(T), env')
        <5> HIDE DEF T
        <5> QED
          BY <2>7, <3>2, <3>3, EndsInName
      <4> QED
        BY <1>1, <2>6, <2>8, <3>3, <4>1, <4>2 DEF InVariables
    <3>4. CASE k + 1 # n
      <4>1. pc' = "key" /\ current' = (k + 1) + 1
        BY <2>4, <2>6, <2>8, <2>11, <3>4 DEF Turn
      <4>2. start' = d + 1 + (k + 1)
        BY <2>4, <2>11
      <4> QED
        BY <1>1, <2>6, <2>8, <3>2, <3>4, <4>1, <4>2 DEF InVariables
    <3> QED
      BY <3>3, <3>4
  <2>12. CASE Byte # NUL /\ current = netstring_len /\ env' = Put(env, key, Text(start, pos + 1))
              /\ Turn("key", netstring_len)
    <3>1. k + 1 = n
      BY <2>4, <2>6, <2>12
    <3>2. pc' = "comma"
      BY <2>12 DEF Turn
    <3>3. Text(start, pos + 1) = SubSeq(T, a + 1, n)
      <4>1. PICK i \in Nat, j \in Nat : i = start /\ j = pos + 1
        BY <2>1, <2>5
      <4>2. d + 1 <= i /\ i <= j /\ j <= d + 1 + n /\ j <= Len(stream)
        BY <2>2, <2>4, <2>5, <2>9, <3>1, <4>1
      <4>3. Text(i, j) = SubSeq(T, i - d, j - (d + 1))
        BY <4>2, PartText
      <4>4. i - d = a + 1 /\ j - (d + 1) = n
        BY <2>4, <2>5, <3>1, <4>1
      <4> QED
        BY <4>1, <4>3, <4>4
    <3>4. InValue(T, b, a, n, env) /\ T[n] # NUL
      <4>1. InValue(T, b, a, k + 1, env)
        <5> HIDE DEF T
        <5> QED
          BY <2>4, <2>5, <2>7, <2>12, ValueGoes
      <4> QED
        BY <2>4, <2>12, <3>1, <4>1
    <3>5. LastOnes(Triples(T), NamesIn(T), ValuesIn(T),
                   Put(env, SubSeq(T, b + 1, a - 1), SubSeq(T, a + 1, n)))
      <4> HIDE DEF T
      <4> QED
        BY <2>7, <3>4, EndsInValue
    <3>6. LastOnes(Triples(T), NamesIn(T), ValuesIn(T), env')
      BY <2>5, <2>12, <3>3, <3>5
    <3> QED
      BY <1>1, <2>6, <2>8, <3>1, <3>2, <3>6 DEF InVariables
  <2> QED
    BY <2>3, <2>10, <2>11, <2>12 DEF ReadValue
<1> QED
  BY <1>1, <1>2, TurnKeeps

LEMMA ReadCommaKeeps ==
    ASSUME StreamOK, ScgiOK, ReadComma, service = "scgi", fault = {}, fault' = {}
    PROVE  ScgiOK'
<1>1. /\ pc = "comma" /\ pos \in Nat /\ body = <<>> /\ real_content_length = 0
      /\ to_read = BufferSize
  BY DEF ScgiOK, ReadComma
<1>2. /\ stream' = stream /\ body' = body /\ real_content_length' = real_content_length
      /\ to_read' = to_read /\ env' = env /\ pos' = pos + 1
  BY DEF ReadComma, input, netstring
<1>3. pos' \in Nat
  BY <1>1, <1>2
<1>4. CASE pc' = "rejected"
  BY <1>3, <1>4 DEF ScgiOK, Done
<1>5. CASE Byte = "," /\ pc' = "body" /\ content_length' = LengthOf(env, <<"C">>)
  <2>1. NUL # ","
    BY DEF NUL
  <2>2. pos + 1 <= Len(stream) /\ stream[pos + 1] = "," /\ Len(stream) \in Nat
    BY <1>1, <1>5, <2>1, ByteIs, TextIsText DEF IsText
  <2>3. pos <= Len(stream)
    <3>1. PICK x \in Nat, L \in Nat : x = pos /\ L = Len(stream)
      BY <1>1, <2>2
    <3>2. x + 1 <= L
      BY <2>2, <3>1
    <3>3. x <= L
      BY <3>2
    <3> QED
      BY <3>1, <3>3
  <2>4. PICK d \in Nat, n \in Nat : InVariables(d, n)
    BY <1>1, <2>3 DEF ScgiOK
  <2> DEFINE T == Part(stream, d, n)
  <2>5. /\ LengthIs(stream, d, n) /\ pos - (d + 1) = n
        /\ LastOnes(Triples(T), NamesIn(T), ValuesIn(T), env)
    BY <1>1, <2>4 DEF InVariables
  <2>6. IsText(T)
    BY PartIs
  <2>7. env = VariablesOf(T) /\ LengthOf(env, <<"C">>) \in Nat
    <3> HIDE DEF T
    <3> QED
      BY <2>5, <2>6, VariablesAre
  <2>8. pos + 1 = d + n + 2
    BY <1>1, <2>5
  <2>9. Netstring(stream, d, n)
    BY <2>2, <2>5, <2>8 DEF Netstring, LengthIs
  <2>10. PICK from \in Nat, len \in Nat : from = d + n + 2 /\ len = LengthOf(env, <<"C">>)
    <3>1. PICK f \in Nat : f = d + n + 2
      OBVIOUS
    <3> QED
      BY <2>7, <3>1
  <2>11. BodyRead(from, len)'
    <3>1. from + 1 \in Int /\ from \in Int /\ ~(from + 1 <= from)
      OBVIOUS
    <3>2. SubSeq(stream, from + 1, from) = <<>>
      BY <3>1, SubSeqEmpty
    <3>3. 0 \in 0..len /\ from = from + 0 /\ BufferSize \in Nat
      BY StreamsAssumption
    <3>4. pos' = from /\ content_length' = len /\ from <= Len(stream)
      BY <1>2, <1>5, <2>2, <2>8, <2>10
    <3> QED
      BY <1>1, <1>2, <3>2, <3>3, <3>4 DEF BodyRead
  <2>12. \E e, m \in Nat :
            /\ Netstring(stream', e, m) /\ env' = VariablesOf(Part(stream', e, m))
            /\ BodyRead(e + m + 2, LengthOf(env, <<"C">>))'
    BY <1>2, <2>7, <2>9, <2>10, <2>11
  <2> QED
    BY <1>3, <1>5, <2>12 DEF ScgiOK, Done
<1> QED
  BY <1>4, <1>5 DEF ReadComma

LEMMA ScgiBodyKeeps ==
    ASSUME StreamOK, ScgiOK, ReadBody, service = "scgi", fault = {}, fault' = {}
    PROVE  ScgiOK'
<1>1. /\ pc = "body" /\ pc' = pc /\ stream' = stream /\ env' = env
  BY DEF ReadBody, input, netstring
<1>2. PICK d \in Nat, n \in Nat :
        /\ Netstring(stream, d, n) /\ env = VariablesOf(Part(stream, d, n))
        /\ BodyRead(d + n + 2, LengthOf(env, <<"C">>))
  BY <1>1 DEF ScgiOK
<1>3. PICK from, len : from = d + n + 2 /\ len = LengthOf(env, <<"C">>)
  OBVIOUS
<1>4. BodyRead(from, len)
  BY <1>2, <1>3
<1>5. BodyRead(from, len)'
  BY <1>4, BodyGoes
<1>6. pos' \in Nat
  <2>1. PICK f \in Nat, m \in Nat : f = from /\ m = len
    BY <1>4 DEF BodyRead
  <2>2. real_content_length' \in 0..m
    BY <1>5, <2>1 DEF BodyRead
  <2>3. PICK r \in 0..m : r = real_content_length'
    BY <2>2
  <2>4. pos' = f + r
    BY <1>5, <2>1, <2>3 DEF BodyRead
  <2> QED
    BY <2>4
<1> QED
  BY <1>1, <1>2, <1>3, <1>5, <1>6 DEF ScgiOK, Done

LEMMA ScgiFinishKeeps ==
    ASSUME StreamOK, ScgiOK, Finish, service = "scgi", fault = {}, fault' = {}
    PROVE  ScgiOK'
<1>1. pc = "body" /\ ~More /\ stream' = stream /\ env' = env /\ body' = body /\ pos' = pos
  BY DEF Finish, input, netstring, payload
<1>2. pos \in Nat
  BY DEF ScgiOK
<1>3. PICK d \in Nat, n \in Nat :
        /\ Netstring(stream, d, n) /\ env = VariablesOf(Part(stream, d, n))
        /\ BodyRead(d + n + 2, LengthOf(env, <<"C">>))
  BY <1>1 DEF ScgiOK
<1>4. /\ body = BodySent(stream, d + n + 2, LengthOf(env, <<"C">>))
      /\ Len(body) = LengthOf(env, <<"C">>)
  <2>1. PICK from, len : from = d + n + 2 /\ len = LengthOf(env, <<"C">>)
    OBVIOUS
  <2>2. BodyRead(from, len)
    BY <1>3, <2>1
  <2>3. body = BodySent(stream, from, len) /\ Len(body) = len
    BY <1>1, <2>2, BodyEnds
  <2> QED
    BY <2>1, <2>3
<1>5. <<d, n>> \in Netstrings(stream) /\ env = Variables(stream)
  BY <1>3, TextIsText, VariablesSent
<1>6. \E p \in Netstrings(stream) :
        /\ env = Variables(stream)
        /\ body = BodySent(stream, p[1] + p[2] + 2, LengthOf(Variables(stream), <<"C">>))
        /\ Len(body) = LengthOf(Variables(stream), <<"C">>)
  <2> DEFINE p == <<d, n>>
  <2>1. p[1] = d /\ p[2] = n /\ p \in Netstrings(stream)
    BY <1>5
  <2> HIDE DEF p
  <2> QED
    BY <1>4, <1>5, <2>1
<1>7. ScgiExact'
  BY <1>1, <1>6 DEF ScgiExact
<1>8. pc' \in Done
  BY DEF Finish, Done
<1> QED
  BY <1>1, <1>2, <1>7, <1>8 DEF ScgiOK, Done

LEMMA ScgiInvariant == Spec => [](StreamOK /\ ScgiOK)
<1>1. Init => StreamOK /\ ScgiOK
  <2> SUFFICES ASSUME Init PROVE StreamOK /\ ScgiOK
    OBVIOUS
  <2>1. StreamOK
    BY StreamBegins
  <2>2. /\ pos = 0 /\ start = 0 /\ current = 0 /\ env = <<>> /\ body = <<>>
        /\ real_content_length = 0 /\ to_read = BufferSize
    BY DEF Init
  <2>3. service = "scgi" => pc = "length"
    BY Zenon DEF Init
  <2>4. pos \in Nat /\ pos <= Len(stream) /\ 1..pos = {}
    BY <2>1, <2>2, TextIsText DEF IsText
  <2> QED
    BY <2>1, <2>2, <2>3, <2>4 DEF ScgiOK, Done
<1>2. StreamOK /\ ScgiOK /\ [Next]_vars => StreamOK' /\ ScgiOK'
  <2> SUFFICES ASSUME StreamOK, ScgiOK, [Next]_vars PROVE StreamOK' /\ ScgiOK'
    OBVIOUS
  <2>1. StreamOK' /\ service' = service /\ (fault' = {} => fault = {})
    BY StreamStays
  <2>2. ScgiOK'
    <3> SUFFICES ASSUME service' = "scgi", fault' = {} PROVE ScgiOK'
      BY DEF ScgiOK
    <3>1. service = "scgi" /\ fault = {}
      BY <2>1
    <3>2. pc \in {"length", "key", "value", "comma", "body"} \cup Done
      BY <3>1 DEF ScgiOK
    <3>3. CASE UNCHANGED vars
      <4>1. /\ stream' = stream /\ pos' = pos /\ pc' = pc /\ env' = env /\ body' = body
            /\ content_length' = content_length /\ to_read' = to_read
            /\ real_content_length' = real_content_length
            /\ start' = start /\ current' = current /\ netstring_len' = netstring_len /\ key' = key
        BY <3>3 DEF vars, input, payload, netstring
      <4>2. ASSUME NEW d, NEW n, InVariables(d, n)
            PROVE  InVariables(d, n)'
        BY <4>1, <4>2 DEF InVariables
      <4>3. ASSUME NEW from, NEW len, BodyRead(from, len)
            PROVE  BodyRead(from, len)'
        BY <4>1, <4>3 DEF BodyRead
      <4>4. ScgiExact => ScgiExact'
        BY <2>1, <3>1, <4>1 DEF ScgiExact
      <4>5. pc = "body" => \E d, n \in Nat :
                /\ Netstring(stream', d, n) /\ env' = VariablesOf(Part(stream', d, n))
                /\ BodyRead(d + n + 2, LengthOf(env, <<"C">>))'
        <5> SUFFICES ASSUME pc = "body" PROVE \E d, n \in Nat :
                /\ Netstring(stream', d, n) /\ env' = VariablesOf(Part(stream', d, n))
                /\ BodyRead(d + n + 2, LengthOf(env, <<"C">>))'
          OBVIOUS
        <5>1. PICK d \in Nat, n \in Nat :
                /\ Netstring(stream, d, n) /\ env = VariablesOf(Part(stream, d, n))
                /\ BodyRead(d + n + 2, LengthOf(env, <<"C">>))
          BY <3>1 DEF ScgiOK
        <5>2. PICK from, len : from = d + n + 2 /\ len = LengthOf(env, <<"C">>)
          OBVIOUS
        <5>3. BodyRead(from, len)'
          BY <4>3, <5>1, <5>2
        <5> QED
          BY <4>1, <5>1, <5>2, <5>3
      <4> QED
        BY <3>1, <4>1, <4>2, <4>4, <4>5 DEF ScgiOK
    <3>4. CASE ReadLength
      BY <3>1, <3>4, ReadLengthKeeps
    <3>5. CASE ReadKey
      BY <3>1, <3>5, ReadKeyKeeps
    <3>6. CASE ReadValue
      BY <3>1, <3>6, ReadValueKeeps
    <3>7. CASE ReadComma
      BY <3>1, <3>7, ReadCommaKeeps
    <3>8. CASE ReadBody
      BY <3>1, <3>8, ScgiBodyKeeps
    <3>9. CASE Finish
      BY <3>1, <3>9, ScgiFinishKeeps
    <3>10. ~(RequestLine \/ HeaderLine \/ FreedLine \/ ReadPair \/ MakeRequest \/ ReadEnviron
             \/ ReadStdin)
      BY <3>2 DEF Done, RequestLine, HeaderLine, FreedLine, ReadPair, MakeRequest,
                  ReadEnviron, ReadStdin
    <3> QED
      BY <3>3, <3>4, <3>5, <3>6, <3>7, <3>8, <3>9, <3>10 DEF Next
  <2> QED
    BY <2>1, <2>2
<1> QED
  BY <1>1, <1>2, PTL DEF Spec

\* ScgiExact: what SCGI makes a request of, nothing undefined done, is one whole
\* netstring, with the variables as they were sent, the last of a name, and the body that
\* CONTENT_LENGTH says, for every stream that may be cut at any byte and every size of
\* the buffer.
THEOREM ScgiIsExact == Spec => []ScgiExact
<1>1. ScgiOK => ScgiExact
  BY DEF ScgiOK, ScgiExact
<1> QED
  BY <1>1, ScgiInvariant, PTL

-----------------------------------------------------------------------------
(* Sequences that are joined.                                              *)

\* The function that joins texts one after the other is there.
LEMMA Joins ==
    ASSUME NEW s, NEW n \in Nat
    PROVE  \E f : f = [i \in 1..n |-> IF i = 1 THEN s[1] ELSE f[i - 1] \o s[i]]
<1> DEFINE Is(f, m) == f = [i \in 1..m |-> IF i = 1 THEN s[1] ELSE f[i - 1] \o s[i]]
           T == {m \in Nat : \E f : Is(f, m)}
<1>1. 0 \in T
  <2> DEFINE f == [i \in 1..0 |-> 0]
  <2>1. Is(f, 0)
    OBVIOUS
  <2> QED
    BY <2>1
<1>2. ASSUME NEW m \in Nat, m \in T
      PROVE  m + 1 \in T
  <2>1. PICK f : Is(f, m)
    BY <1>2
  <2> DEFINE last == IF m = 0 THEN s[1] ELSE f[m] \o s[m + 1]
             g == [i \in 1..(m + 1) |-> IF i = m + 1 THEN last ELSE f[i]]
  <2>2. \A i \in 1..m : f[i] = IF i = 1 THEN s[1] ELSE f[i - 1] \o s[i]
    BY <2>1
  <2>3. ASSUME NEW i \in 1..(m + 1)
        PROVE  g[i] = IF i = 1 THEN s[1] ELSE g[i - 1] \o s[i]
    <3>1. CASE i = m + 1
      <4>1. g[i] = last /\ (m = 0 <=> i = 1)
        BY <3>1
      <4>2. CASE m = 0
        BY <4>1, <4>2
      <4>3. CASE m # 0
        <5>1. i - 1 = m /\ m \in 1..(m + 1) /\ m # m + 1
          BY <3>1, <4>3
        <5>2. g[i - 1] = f[m]
          BY <5>1
        <5> HIDE DEF g
        <5> QED
          BY <3>1, <4>1, <4>3, <5>2
      <4> QED
        BY <4>2, <4>3
    <3>2. CASE i # m + 1
      <4>1. i \in 1..m /\ g[i] = f[i]
        BY <3>2
      <4>2. CASE i = 1
        BY <2>2, <4>1, <4>2
      <4>3. CASE i # 1
        <5>1. i - 1 \in 1..(m + 1) /\ i - 1 # m + 1
          BY <4>1, <4>3
        <5>2. g[i - 1] = f[i - 1]
          BY <5>1
        <5> HIDE DEF g
        <5> QED
          BY <2>2, <4>1, <4>3, <5>2
      <4> QED
        BY <4>2, <4>3
    <3> QED
      BY <3>1, <3>2
  <2>4. Is(g, m + 1)
    <3> DEFINE h == [i \in 1..(m + 1) |-> IF i = 1 THEN s[1] ELSE g[i - 1] \o s[i]]
    <3>1. DOMAIN g = 1..(m + 1) /\ DOMAIN h = 1..(m + 1)
      OBVIOUS
    <3>2. \A i \in 1..(m + 1) : g[i] = h[i]
      BY <2>3
    <3>3. g = [i \in DOMAIN g |-> g[i]] /\ h = [i \in DOMAIN h |-> h[i]]
      OBVIOUS
    <3>4. g = h
      <4> HIDE DEF g, h
      <4> QED
        BY <3>1, <3>2, <3>3
    <3> QED
      BY <3>4
  <2> HIDE DEF g, Is
  <2> QED
    BY <2>4
<1>3. n \in T
  <2> HIDE DEF T
  <2> QED
    BY <1>1, <1>2, Induct
<1> QED
  BY <1>3

Joined(f, s, m) == \A i \in 1..m : f[i] = IF i = 1 THEN s[1] ELSE f[i - 1] \o s[i]

\* Of two such functions of the same texts, the one is a part of the other.
LEMMA SameJoin ==
    ASSUME NEW s, NEW t, NEW f, NEW g, NEW m \in Nat, NEW n \in Nat, n <= m,
           Joined(f, s, m), Joined(g, t, n), \A i \in 1..n : t[i] = s[i]
    PROVE  \A i \in 1..n : g[i] = f[i]
<1> DEFINE T == {i \in Nat : i \in 1..n => g[i] = f[i]}
<1>3. 0 \in T
  OBVIOUS
<1>4. ASSUME NEW i \in Nat, i \in T
      PROVE  i + 1 \in T
  <2> SUFFICES ASSUME i + 1 \in 1..n PROVE g[i + 1] = f[i + 1]
    OBVIOUS
  <2>1. i + 1 \in 1..m /\ t[i + 1] = s[i + 1] /\ (i + 1) - 1 = i
    OBVIOUS
  <2>2. CASE i = 0
    <3>1. i + 1 = 1
      BY <2>2
    <3> QED
      BY <2>1, <3>1 DEF Joined
  <2>3. CASE i # 0
    <3>1. i + 1 # 1 /\ i \in 1..n
      BY <2>3
    <3>2. g[i] = f[i]
      BY <1>4, <3>1
    <3>3. g[i + 1] = g[i] \o t[i + 1] /\ f[i + 1] = f[i] \o s[i + 1]
      BY <2>1, <3>1 DEF Joined
    <3> QED
      BY <2>1, <3>2, <3>3
  <2> QED
    BY <2>2, <2>3
<1>5. Nat \subseteq T
  <2> HIDE DEF T
  <2> QED
    BY <1>3, <1>4, Induct
<1>6. \A i \in 1..n : i \in Nat
  OBVIOUS
<1>7. \A i \in T : i \in 1..n => g[i] = f[i]
  OBVIOUS
<1> QED
  <2> HIDE DEF T
  <2> QED
    BY <1>5, <1>6, <1>7

\* One text more is joined at the end.
LEMMA FlattenOneMore ==
    ASSUME NEW s, NEW t, NEW n \in Nat, Len(s) = n, Len(t) = n + 1,
           \A i \in 1..n : s[i] = t[i], n = 0 => s = <<>>, NEW V, t[n + 1] \in Seq(V)
    PROVE  FlattenSeq(t) = FlattenSeq(s) \o t[n + 1]
<1> DEFINE Is(f, u, m) == f = [i \in 1..m |-> IF i = 1 THEN u[1] ELSE f[i - 1] \o u[i]]
           Join(u, m) == CHOOSE f : Is(f, u, m)
<1>1. FlattenSeq(t) = Join(t, n + 1)[n + 1]
  <2>1. n + 1 # 0
    OBVIOUS
  <2> QED
    BY <2>1 DEF FlattenSeq
<1>2. PICK g : g = Join(t, n + 1)
  OBVIOUS
<1>3. Is(g, t, n + 1)
  <2>1. n + 1 \in Nat
    OBVIOUS
  <2>2. \E f : Is(f, t, n + 1)
    BY <2>1, Joins
  <2> QED
    BY <1>2, <2>2
<1>4. CASE n = 0
  <2>1. FlattenSeq(s) = <<>>
    BY <1>4 DEF FlattenSeq
  <2>2. g[n + 1] = t[n + 1]
    BY <1>3, <1>4
  <2>3. <<>> \o t[n + 1] = t[n + 1]
    BY ConcatEmptySeq
  <2> QED
    BY <1>1, <1>2, <2>1, <2>2, <2>3
<1>5. CASE n # 0
  <2>1. FlattenSeq(s) = Join(s, n)[n]
    BY <1>5 DEF FlattenSeq
  <2>2. PICK f : f = Join(s, n)
    OBVIOUS
  <2>3. Is(f, s, n)
    <3>1. \E h : Is(h, s, n)
      BY Joins
    <3> QED
      BY <2>2, <3>1
  <2>4. f[n] = g[n]
    <3>1. PICK m \in Nat : m = n + 1 /\ n <= m /\ n \in 1..n
      BY <1>5
    <3>2. Joined(g, t, m)
      BY <1>3, <3>1 DEF Joined
    <3>3. Joined(f, s, n)
      BY <2>3 DEF Joined
    <3>4. \A i \in 1..n : f[i] = g[i]
      BY <3>1, <3>2, <3>3, SameJoin
    <3> QED
      BY <3>1, <3>4
  <2>5. g[n + 1] = g[n] \o t[n + 1]
    <3>1. n + 1 \in 1..(n + 1) /\ n + 1 # 1 /\ (n + 1) - 1 = n
      BY <1>5
    <3>2. \A i \in 1..(n + 1) : g[i] = IF i = 1 THEN t[1] ELSE g[i - 1] \o t[i]
      BY <1>3
    <3> QED
      BY <3>1, <3>2
  <2> QED
    BY <1>1, <1>2, <2>1, <2>2, <2>4, <2>5
<1> QED
  BY <1>4, <1>5

-----------------------------------------------------------------------------
(* The data of PARAMS, a variable after the other.                         *)

Code(p) == Count(p.name, "name" \in p.wide) \o Count(p.value, "value" \in p.wide)
               \o p.name \o p.value
LengthBytes(s, isWide) == IF isWide \/ Len(s) > 127 THEN 4 ELSE 1
NameBytes(p) == LengthBytes(p.name, "name" \in p.wide)
ValueBytes(p) == LengthBytes(p.value, "value" \in p.wide)
NameFrom(p) == NameBytes(p) + ValueBytes(p)

\* Two texts of bytes that a length can tell, and sequences of such variables.
IsVariable(p, V) ==
    /\ p.name \in Seq(V) /\ Len(p.name) <= MaxInt
    /\ p.value \in Seq(V) /\ Len(p.value) <= MaxInt
Bytes(V) == \A n \in 0..255 : Octets[n] \in V
AreVariables(pairs, V) ==
    /\ pairs \in Seq(ToSet(pairs)) /\ Bytes(V)
    /\ \A i \in 1..Len(pairs) : IsVariable(pairs[i], V)

\* The four octets of a number that a gint holds.
Octet(n, k) == CASE k = 1 -> 128 + n \div 16777216
                 [] k = 2 -> (n \div 65536) % 256
                 [] k = 3 -> (n \div 256) % 256
                 [] k = 4 -> n % 256

LEMMA FourOctets ==
    ASSUME NEW n \in Nat, n <= MaxInt
    PROVE  /\ \A k \in 1..4 : Octet(n, k) \in 0..255
           /\ Octet(n, 1) >= 128
           /\ 256 * (256 * (256 * (Octet(n, 1) % 128) + Octet(n, 2)) + Octet(n, 3)) + Octet(n, 4) = n
<1>1. n <= 2147483647
  BY DEF MaxInt
<1>2. PICK a \in Nat : a = n \div 16777216
  OBVIOUS
<1>3. PICK b \in Nat : b = (n \div 65536) % 256
  OBVIOUS
<1>4. PICK c \in Nat : c = (n \div 256) % 256
  OBVIOUS
<1>5. PICK d \in Nat : d = n % 256
  OBVIOUS
<1>6. a <= 127 /\ b <= 255 /\ c <= 255 /\ d <= 255
  BY <1>1, <1>2, <1>3, <1>4, <1>5
<1>7. n = 256 * (256 * (256 * a + b) + c) + d
  BY <1>1, <1>2, <1>3, <1>4, <1>5
<1>8. (128 + a) % 128 = a /\ 128 + a \in 0..255 /\ 128 + a >= 128
  BY <1>6
<1>9. Octet(n, 1) = 128 + a /\ Octet(n, 2) = b /\ Octet(n, 3) = c /\ Octet(n, 4) = d
  BY <1>2, <1>3, <1>4, <1>5 DEF Octet
<1>10. \A k \in 1..4 : Octet(n, k) \in 0..255
  <2>1. \A k \in 1..4 : k = 1 \/ k = 2 \/ k = 3 \/ k = 4
    OBVIOUS
  <2>2. b \in 0..255 /\ c \in 0..255 /\ d \in 0..255
    BY <1>6
  <2> QED
    BY <1>8, <1>9, <2>1, <2>2
<1> QED
  BY <1>7, <1>8, <1>9, <1>10

LEMMA CountIs ==
    ASSUME NEW V, Bytes(V), NEW s, NEW isWide \in BOOLEAN, Len(s) \in Nat, Len(s) <= MaxInt
    PROVE  /\ Count(s, isWide) \in Seq(V)
           /\ Len(Count(s, isWide)) = LengthBytes(s, isWide)
           /\ LengthBytes(s, isWide) = 4 =>
                \A k \in 1..4 : Count(s, isWide)[k] = Octets[Octet(Len(s), k)]
           /\ LengthBytes(s, isWide) = 1 =>
                Len(s) \in 0..127 /\ Count(s, isWide)[1] = Octets[Len(s)]
<1>0. PICK n \in Nat : n = Len(s) /\ n <= MaxInt
  OBVIOUS
<1>1. CASE LengthBytes(s, isWide) = 4
  <2>0. isWide \/ Len(s) > 127
    BY <1>1 DEF LengthBytes
  <2>a. PICK a : a = Octets[Octet(n, 1)]
    OBVIOUS
  <2>b. PICK b : b = Octets[Octet(n, 2)]
    OBVIOUS
  <2>c. PICK c : c = Octets[Octet(n, 3)]
    OBVIOUS
  <2>d. PICK d : d = Octets[Octet(n, 4)]
    OBVIOUS
  <2>1. \A k \in 1..4 : Octets[Octet(n, k)] \in V
    BY <1>0, FourOctets DEF Bytes
  <2>2. a \in V /\ b \in V /\ c \in V /\ d \in V
    BY <2>a, <2>b, <2>c, <2>d, <2>1
  <2>3. PICK t : t = <<a, b, c, d>>
    OBVIOUS
  <2>4. /\ t \in Seq(V) /\ Len(t) = 4 /\ t[1] = a /\ t[2] = b /\ t[3] = c /\ t[4] = d
    BY <2>2, <2>3
  <2>5. /\ a = Octets[128 + n \div 16777216] /\ b = Octets[(n \div 65536) % 256]
        /\ c = Octets[(n \div 256) % 256] /\ d = Octets[n % 256]
    BY <2>a, <2>b, <2>c, <2>d DEF Octet
  <2>6. Count(s, isWide) = t
    BY <1>0, <2>0, <2>3, <2>5 DEF Count
  <2>7. \A k \in 1..4 : t[k] = Octets[Octet(n, k)]
    <3>1. \A k \in 1..4 : k = 1 \/ k = 2 \/ k = 3 \/ k = 4
      OBVIOUS
    <3> QED
      BY <2>a, <2>b, <2>c, <2>d, <2>4, <3>1
  <2> QED
    BY <1>0, <1>1, <2>4, <2>6, <2>7
<1>2. CASE LengthBytes(s, isWide) = 1
  <2>0. ~(isWide \/ Len(s) > 127)
    BY <1>2 DEF LengthBytes
  <2>z. ~(Len(s) > 127)
    BY <2>0, Zenon
  <2>y. ~(n > 127)
    BY <1>0, <2>z, Zenon
  <2>1. n \in 0..127 /\ n \in 0..255
    BY <2>y
  <2>2. PICK d : d = Octets[n] /\ d \in V
    BY <2>1 DEF Bytes
  <2>3. PICK t : t = <<d>>
    OBVIOUS
  <2>4. t \in Seq(V) /\ Len(t) = 1 /\ t[1] = d
    BY <2>2, <2>3
  <2>5. Count(s, isWide) = t
    BY <1>0, <2>0, <2>2, <2>3 DEF Count
  <2>6. Count(s, isWide) \in Seq(V) /\ Len(Count(s, isWide)) = 1 /\ Count(s, isWide)[1] = Octets[n]
    BY <2>2, <2>4, <2>5
  <2>7. Len(s) \in 0..127 /\ Count(s, isWide)[1] = Octets[Len(s)]
    BY <1>0, <2>1, <2>6, Zenon
  <2>8. Len(Count(s, isWide)) = LengthBytes(s, isWide)
    BY <1>2, <2>6
  <2>9. LengthBytes(s, isWide) # 4
    BY <1>2
  <2> QED
    BY <2>6, <2>7, <2>8, <2>9, Zenon
<1>3. LengthBytes(s, isWide) \in {1, 4}
  BY DEF LengthBytes
<1> QED
  BY <1>1, <1>2, <1>3

\* Where the four parts of a variable are in its code.
LEMMA CodeIs ==
    ASSUME NEW V, Bytes(V), NEW p, IsVariable(p, V)
    PROVE  /\ Code(p) \in Seq(V)
           /\ Len(Code(p)) = NameFrom(p) + Len(p.name) + Len(p.value)
           /\ \A i \in 1..NameBytes(p) :
                Code(p)[i] = Count(p.name, "name" \in p.wide)[i]
           /\ \A i \in 1..ValueBytes(p) :
                Code(p)[NameBytes(p) + i]
                    = Count(p.value, "value" \in p.wide)[i]
           /\ \A i \in 1..Len(p.name) : Code(p)[NameFrom(p) + i] = p.name[i]
           /\ \A i \in 1..Len(p.value) : Code(p)[NameFrom(p) + Len(p.name) + i] = p.value[i]
<1> DEFINE a == Count(p.name, "name" \in p.wide)
           b == Count(p.value, "value" \in p.wide)
<1>1. PICK c, d : c = p.name /\ d = p.value
  OBVIOUS
<1>2. PICK w \in Nat, x \in Nat : w = NameBytes(p) /\ x = ValueBytes(p)
  BY DEF NameBytes, ValueBytes, LengthBytes
<1>3. PICK m \in Nat, n \in Nat : m = Len(c) /\ n = Len(d)
  BY <1>1, LenProperties DEF IsVariable
<1>4. c \in Seq(V) /\ d \in Seq(V) /\ m <= MaxInt /\ n <= MaxInt
  BY <1>1, <1>3 DEF IsVariable
<1>5. a \in Seq(V) /\ Len(a) = w
  <2>1. PICK isWide \in BOOLEAN : isWide <=> "name" \in p.wide
    BY Zenon
  <2>2. Count(c, isWide) \in Seq(V) /\ Len(Count(c, isWide)) = LengthBytes(c, isWide)
    BY <1>3, <1>4, CountIs
  <2>3. a = Count(c, isWide) /\ w = LengthBytes(c, isWide)
    BY <1>1, <1>2, <2>1 DEF NameBytes, LengthBytes, Count
  <2> QED
    BY <2>2, <2>3
<1>5b. b \in Seq(V) /\ Len(b) = x
  <2>1. PICK isWide \in BOOLEAN : isWide <=> "value" \in p.wide
    BY Zenon
  <2>2. Count(d, isWide) \in Seq(V) /\ Len(Count(d, isWide)) = LengthBytes(d, isWide)
    BY <1>3, <1>4, CountIs
  <2>3. b = Count(d, isWide) /\ x = LengthBytes(d, isWide)
    BY <1>1, <1>2, <2>1 DEF ValueBytes, LengthBytes, Count
  <2> QED
    BY <2>2, <2>3
<1>6. Code(p) = ((a \o b) \o c) \o d
  BY <1>1 DEF Code
<1> HIDE DEF a, b
<1> DEFINE e == a \o b
           f == e \o c
           g == f \o d
<1>7. e \in Seq(V) /\ Len(e) = w + x /\ \A i \in 1..(w + x) : e[i] = IF i <= w THEN a[i] ELSE b[i - w]
  BY <1>5, <1>5b, ConcatProperties
<1> HIDE DEF e
<1>8. /\ f \in Seq(V) /\ Len(f) = w + x + m
      /\ \A i \in 1..(w + x + m) : f[i] = IF i <= w + x THEN e[i] ELSE c[i - (w + x)]
  <2>1. PICK z \in Nat : z = w + x
    OBVIOUS
  <2>2. /\ f \in Seq(V) /\ Len(f) = Len(e) + Len(c)
        /\ \A i \in 1..(Len(e) + Len(c)) : f[i] = IF i <= Len(e) THEN e[i] ELSE c[i - Len(e)]
    BY <1>4, <1>7, ConcatProperties
  <2>3. /\ Len(f) = z + m
        /\ \A i \in 1..(z + m) : f[i] = IF i <= z THEN e[i] ELSE c[i - z]
    BY <1>3, <1>7, <2>1, <2>2
  <2> QED
    BY <2>1, <2>2, <2>3
<1> HIDE DEF f
<1>9. /\ g \in Seq(V) /\ Len(g) = w + x + m + n
      /\ \A i \in 1..(w + x + m + n) : g[i] = IF i <= w + x + m THEN f[i] ELSE d[i - (w + x + m)]
  <2>1. PICK z \in Nat : z = w + x + m
    OBVIOUS
  <2>2. /\ g \in Seq(V) /\ Len(g) = Len(f) + Len(d)
        /\ \A i \in 1..(Len(f) + Len(d)) : g[i] = IF i <= Len(f) THEN f[i] ELSE d[i - Len(f)]
    BY <1>4, <1>8, ConcatProperties
  <2>3. /\ Len(g) = z + n
        /\ \A i \in 1..(z + n) : g[i] = IF i <= z THEN f[i] ELSE d[i - z]
    BY <1>3, <1>8, <2>1, <2>2
  <2> QED
    BY <2>1, <2>2, <2>3
<1> HIDE DEF g
<1>10. \A i \in 1..w : g[i] = a[i]
  <2> TAKE i \in 1..w
  <2>1. g[i] = f[i] /\ f[i] = e[i] /\ e[i] = a[i]
    BY <1>7, <1>8, <1>9
  <2> QED
    BY <2>1
<1>11. \A i \in 1..x : g[w + i] = b[i]
  <2> TAKE i \in 1..x
  <2>1. PICK j \in 1..(w + x) : j = w + i /\ ~(j <= w) /\ j - w = i
    OBVIOUS
  <2>2. g[j] = f[j] /\ f[j] = e[j] /\ e[j] = b[j - w]
    BY <1>7, <1>8, <1>9, <2>1
  <2> QED
    BY <2>1, <2>2
<1>12. \A i \in 1..m : g[w + x + i] = c[i]
  <2> TAKE i \in 1..m
  <2>1. PICK j \in 1..(w + x + m) : j = w + x + i /\ ~(j <= w + x) /\ j - (w + x) = i
    OBVIOUS
  <2>2. g[j] = f[j] /\ f[j] = c[j - (w + x)]
    BY <1>8, <1>9, <2>1
  <2> QED
    BY <2>1, <2>2
<1>13. \A i \in 1..n : g[w + x + m + i] = d[i]
  <2> TAKE i \in 1..n
  <2>1. PICK j \in 1..(w + x + m + n) : j = w + x + m + i /\ ~(j <= w + x + m) /\ j - (w + x + m) = i
    OBVIOUS
  <2>2. g[j] = d[j - (w + x + m)]
    BY <1>9, <2>1
  <2> QED
    BY <2>1, <2>2
<1>14. Code(p) = g
  BY <1>6 DEF g, f, e
<1>15. NameFrom(p) = w + x
  BY <1>2 DEF NameFrom
<1>16. p.name = c /\ p.value = d
  BY <1>1
<1>17. /\ \A i \in 1..w : g[i] = Count(p.name, "name" \in p.wide)[i]
       /\ \A i \in 1..x : g[w + i] = Count(p.value, "value" \in p.wide)[i]
  BY <1>10, <1>11 DEF a, b
<1>18. PICK k : k = Code(p)
  OBVIOUS
<1>19. /\ k \in Seq(V) /\ Len(k) = w + x + m + n
       /\ \A i \in 1..w : k[i] = Count(p.name, "name" \in p.wide)[i]
       /\ \A i \in 1..x : k[w + i] = Count(p.value, "value" \in p.wide)[i]
       /\ \A i \in 1..m : k[w + x + i] = p.name[i]
       /\ \A i \in 1..n : k[w + x + m + i] = p.value[i]
  <2> HIDE DEF g
  <2> QED
    BY <1>9, <1>12, <1>13, <1>14, <1>16, <1>17, <1>18
<1> QED
  BY <1>2, <1>3, <1>15, <1>16, <1>18, <1>19

\* What was sent of the first n variables.
FirstOnes(pairs, n) == Encoded(SubSeq(pairs, 1, n))

LEMMA CodesAre ==
    ASSUME NEW V, NEW pairs, AreVariables(pairs, V), NEW n \in Nat, n <= Len(pairs)
    PROVE  \E s : /\ FirstOnes(pairs, n) = FlattenSeq(s) /\ Len(s) = n
                  /\ \A i \in 1..n : s[i] = Code(pairs[i])
                  /\ n = 0 => s = <<>>
<1> DEFINE q == SubSeq(pairs, 1, n)
           s == [i \in DOMAIN q |-> Code(q[i])]
<1>1. IsText(q) /\ Len(q) = n /\ \A i \in 1..n : q[i] = pairs[i]
  <2>1. 1 \in Int /\ n \in Int /\ \A i \in 1..n : 1 + i - 1 = i
    OBVIOUS
  <2>2. /\ IsText(SubSeq(pairs, 1, n)) /\ Len(SubSeq(pairs, 1, n)) = IF 1 <= n THEN n - 1 + 1 ELSE 0
        /\ \A i \in 1..(n - 1 + 1) : SubSeq(pairs, 1, n)[i] = pairs[1 + i - 1]
    BY <2>1, Slice
  <2> HIDE DEF q
  <2>3. /\ IsText(q) /\ Len(q) = IF 1 <= n THEN n - 1 + 1 ELSE 0
        /\ \A i \in 1..(n - 1 + 1) : q[i] = pairs[1 + i - 1]
    BY <2>2 DEF q
  <2>4. n - 1 + 1 = n /\ (1 <= n \/ n = 0)
    OBVIOUS
  <2> QED
    BY <2>1, <2>3, <2>4
<1>2. FirstOnes(pairs, n) = FlattenSeq(s)
  BY DEF FirstOnes, Encoded, Code
<1> HIDE DEF q
<1>3. DOMAIN s = 1..n /\ \A i \in 1..n : s[i] = Code(pairs[i])
  BY <1>1 DEF IsText
<1>4. Len(s) = n
  <2>1. s \in [1..n -> {Code(pairs[i]) : i \in 1..n}]
    BY <1>1 DEF IsText
  <2> HIDE DEF s
  <2>2. s \in Seq({Code(pairs[i]) : i \in 1..n})
    BY <2>1, SeqDef
  <2>3. Len(s) \in Nat /\ DOMAIN s = 1..Len(s)
    BY <2>2, LenProperties
  <2> QED
    BY <1>3, <2>3
<1>5. n = 0 => s = <<>>
  <2> SUFFICES ASSUME n = 0 PROVE s = <<>>
    OBVIOUS
  <2>1. q = <<>>
    BY SubSeqEmpty DEF q
  <2> QED
    BY <2>1
<1> HIDE DEF s
<1> QED
  BY <1>2, <1>3, <1>4, <1>5

LEMMA NothingSent ==
    ASSUME NEW V, NEW pairs, AreVariables(pairs, V)
    PROVE  FirstOnes(pairs, 0) = <<>>
<1>1. 0 <= Len(pairs)
  BY LenProperties DEF AreVariables
<1>2. PICK s : FirstOnes(pairs, 0) = FlattenSeq(s) /\ Len(s) = 0 /\ s = <<>>
  BY <1>1, CodesAre
<1> QED
  BY <1>2 DEF FlattenSeq

LEMMA OnePairMore ==
    ASSUME NEW V, NEW pairs, AreVariables(pairs, V), NEW n \in Nat, n < Len(pairs)
    PROVE  /\ FirstOnes(pairs, n + 1) = FirstOnes(pairs, n) \o Code(pairs[n + 1])
           /\ Code(pairs[n + 1]) \in Seq(V) /\ IsVariable(pairs[n + 1], V)
<1>1. Len(pairs) \in Nat
  BY LenProperties DEF AreVariables
<1>2. PICK m \in Nat : m = n + 1 /\ m <= Len(pairs) /\ n <= Len(pairs) /\ m \in 1..Len(pairs)
  BY <1>1
<1>3. PICK s : /\ FirstOnes(pairs, n) = FlattenSeq(s) /\ Len(s) = n
               /\ \A i \in 1..n : s[i] = Code(pairs[i])
               /\ n = 0 => s = <<>>
  BY <1>2, CodesAre
<1>4. PICK t : /\ FirstOnes(pairs, m) = FlattenSeq(t) /\ Len(t) = m
               /\ \A i \in 1..m : t[i] = Code(pairs[i])
  BY <1>2, CodesAre
<1>5. IsVariable(pairs[m], V) /\ Bytes(V)
  BY <1>2 DEF AreVariables
<1>6. t[m] = Code(pairs[m]) /\ Code(pairs[m]) \in Seq(V)
  <2>1. m \in 1..m
    BY <1>2
  <2> QED
    BY <1>4, <1>5, <2>1, CodeIs
<1>7. \A i \in 1..n : s[i] = t[i]
  <2>1. \A i \in 1..n : i \in 1..m
    BY <1>2
  <2> QED
    BY <1>3, <1>4, <2>1
<1>8. FlattenSeq(t) = FlattenSeq(s) \o t[n + 1]
  BY <1>2, <1>3, <1>4, <1>6, <1>7, FlattenOneMore
<1> QED
  BY <1>2, <1>3, <1>4, <1>5, <1>6, <1>8

LEMMA FirstOnesAre ==
    ASSUME NEW V, NEW pairs, AreVariables(pairs, V), NEW n \in Nat, n <= Len(pairs)
    PROVE  FirstOnes(pairs, n) \in Seq(V)
<1> DEFINE T == {k \in Nat : k <= Len(pairs) => FirstOnes(pairs, k) \in Seq(V)}
<1>1. Len(pairs) \in Nat
  BY LenProperties DEF AreVariables
<1>2. 0 \in T
  <2>1. <<>> \in Seq(V)
    BY EmptySeq
  <2> QED
    BY <2>1, NothingSent
<1>3. ASSUME NEW k \in Nat, k \in T
      PROVE  k + 1 \in T
  <2> SUFFICES ASSUME k + 1 <= Len(pairs) PROVE FirstOnes(pairs, k + 1) \in Seq(V)
    OBVIOUS
  <2>1. k < Len(pairs) /\ k <= Len(pairs)
    BY <1>1
  <2>2. FirstOnes(pairs, k) \in Seq(V)
    BY <1>3, <2>1
  <2>3. PICK a, c : /\ a = FirstOnes(pairs, k) /\ c \in Seq(V)
                    /\ FirstOnes(pairs, k + 1) = a \o c
    BY <2>1, OnePairMore
  <2>4. a \o c \in Seq(V)
    BY <2>2, <2>3, ConcatProperties
  <2> QED
    BY <2>3, <2>4
<1>4. n \in T
  <2> HIDE DEF T
  <2> QED
    BY <1>2, <1>3, Induct
<1> QED
  BY <1>4

\* What was sent first is the beginning of what was sent in the end.
LEMMA FirstOnesBegin ==
    ASSUME NEW V, NEW pairs, AreVariables(pairs, V), NEW n \in Nat, NEW m \in Nat, n <= m,
           m <= Len(pairs)
    PROVE  /\ Len(FirstOnes(pairs, n)) \in Nat /\ Len(FirstOnes(pairs, m)) \in Nat
           /\ Len(FirstOnes(pairs, n)) <= Len(FirstOnes(pairs, m))
           /\ \A i \in 1..Len(FirstOnes(pairs, n)) : FirstOnes(pairs, m)[i] = FirstOnes(pairs, n)[i]
<1> DEFINE F(k) == FirstOnes(pairs, k)
           Begins(k) == /\ Len(F(n)) <= Len(F(k))
                        /\ \A i \in 1..Len(F(n)) : F(k)[i] = F(n)[i]
           T == {d \in Nat : n + d <= Len(pairs) => Begins(n + d)}
<1>1. Len(pairs) \in Nat
  BY LenProperties DEF AreVariables
<1> HIDE DEF F
<1>2. \A k \in Nat : k <= Len(pairs) => F(k) \in Seq(V) /\ Len(F(k)) \in Nat
  BY FirstOnesAre, LenProperties DEF F
<1>3. 0 \in T
  <2>1. n + 0 = n /\ n <= Len(pairs)
    BY <1>1
  <2> QED
    BY <1>2, <2>1
<1>4. ASSUME NEW d \in Nat, d \in T
      PROVE  d + 1 \in T
  <2> SUFFICES ASSUME n + (d + 1) <= Len(pairs) PROVE Begins(n + (d + 1))
    OBVIOUS
  <2>1. PICK k \in Nat : k = n + d /\ k < Len(pairs) /\ k <= Len(pairs) /\ n + (d + 1) = k + 1
                         /\ n <= Len(pairs)
    BY <1>1
  <2>2. Begins(k)
    BY <1>4, <2>1
  <2>3. PICK c : c = Code(pairs[k + 1]) /\ c \in Seq(V) /\ F(k + 1) = F(k) \o c
    BY <2>1, OnePairMore DEF F
  <2>4. F(k) \in Seq(V) /\ F(n) \in Seq(V)
    BY <1>2, <2>1
  <2>5. PICK a \in Nat, b \in Nat, e \in Nat : a = Len(F(n)) /\ b = Len(F(k)) /\ e = Len(c)
    BY <1>2, <2>1, <2>3, LenProperties
  <2>6. /\ Len(F(k + 1)) = b + e
        /\ \A i \in 1..(b + e) : F(k + 1)[i] = IF i <= b THEN F(k)[i] ELSE c[i - b]
    BY <2>3, <2>4, <2>5, ConcatProperties
  <2>7. a <= b /\ \A i \in 1..a : F(k)[i] = F(n)[i]
    BY <2>2, <2>5
  <2>8. a <= b + e /\ \A i \in 1..a : i \in 1..(b + e) /\ i <= b
    BY <2>7
  <2>9. \A i \in 1..a : F(k + 1)[i] = F(n)[i]
    BY <2>6, <2>7, <2>8
  <2> QED
    BY <2>1, <2>5, <2>6, <2>8, <2>9
<1>5. PICK d \in Nat : n + d = m
  <2>1. m - n \in Nat /\ n + (m - n) = m
    OBVIOUS
  <2> QED
    BY <2>1
<1>6. d \in T
  <2> HIDE DEF T
  <2> QED
    BY <1>3, <1>4, Induct
<1>7. Begins(m)
  BY <1>5, <1>6
<1>8. n <= Len(pairs)
  BY <1>1
<1> QED
  BY <1>2, <1>7, <1>8 DEF F

\* Where the variable after the first n is.
LEMMA PairIs ==
    ASSUME NEW V, NEW pairs, AreVariables(pairs, V), NEW n \in Nat, n < Len(pairs)
    PROVE  /\ IsVariable(pairs[n + 1], V)
           /\ FirstOnes(pairs, Len(pairs)) = Encoded(pairs)
           /\ Encoded(pairs) \in Seq(V)
           /\ Len(FirstOnes(pairs, n)) \in Nat
           /\ Len(FirstOnes(pairs, n + 1)) = Len(FirstOnes(pairs, n)) + Len(Code(pairs[n + 1]))
           /\ Len(FirstOnes(pairs, n + 1)) <= Len(Encoded(pairs))
           /\ \A i \in 1..Len(Code(pairs[n + 1])) :
                Encoded(pairs)[Len(FirstOnes(pairs, n)) + i] = Code(pairs[n + 1])[i]
<1>1. Len(pairs) \in Nat
  BY LenProperties DEF AreVariables
<1>2. PICK m \in Nat, L \in Nat : m = n + 1 /\ L = Len(pairs) /\ n <= L /\ m <= L
  BY <1>1
<1>3. FirstOnes(pairs, L) = Encoded(pairs)
  BY <1>2, SubSeqFull DEF FirstOnes, AreVariables
<1>4. PICK E, F, G, c : /\ E = FirstOnes(pairs, L) /\ F = FirstOnes(pairs, n)
                        /\ G = FirstOnes(pairs, m) /\ c = Code(pairs[m])
  OBVIOUS
<1>5. IsVariable(pairs[m], V) /\ G = F \o c /\ c \in Seq(V)
  BY <1>2, <1>4, OnePairMore
<1>6. E \in Seq(V) /\ F \in Seq(V)
  BY <1>2, <1>4, FirstOnesAre
<1>7. Len(G) <= Len(E) /\ \A i \in 1..Len(G) : E[i] = G[i]
  BY <1>2, <1>4, FirstOnesBegin
<1>8. PICK a \in Nat, b \in Nat : a = Len(F) /\ b = Len(c)
  BY <1>5, <1>6, LenProperties
<1>9. Len(G) = a + b /\ \A i \in 1..(a + b) : G[i] = IF i <= a THEN F[i] ELSE c[i - a]
  BY <1>5, <1>6, <1>8, ConcatProperties
<1>10. ASSUME NEW i \in 1..b
       PROVE  E[a + i] = c[i]
  <2>1. PICK j \in 1..(a + b) : j = a + i /\ ~(j <= a) /\ j - a = i
    OBVIOUS
  <2> QED
    BY <1>7, <1>9, <2>1
<1> QED
  BY <1>2, <1>3, <1>4, <1>5, <1>6, <1>7, <1>8, <1>9, <1>10

-----------------------------------------------------------------------------
(* Folds: the function on sets of indices that a fold of a sequence is made of. *)

LEMMA MaxIs ==
    ASSUME NEW n \in Nat, NEW s \in SUBSET (1..(n + 1)), n + 1 \in s
    PROVE  Max(s) = n + 1
<1>1. n + 1 \in Nat /\ s # {}
  OBVIOUS
<1>2. PICK m \in s : m = Max(s) /\ \A j \in s : j <= m
  BY <1>1, MaxOf
<1>3. m \in 1..(n + 1) /\ n + 1 <= m
  BY <1>2
<1>4. m = n + 1
  BY <1>3
<1> QED
  BY <1>2, <1>4

\* f folds g, a function of what was made so far and an index.
FoldsBy(f, g, base, A, n) ==
    /\ f \in [SUBSET (1..n) -> A]
    /\ \A s \in SUBSET (1..n) :
         f[s] = IF s = {} THEN base ELSE g[<<f[s \ {Max(s)}], Max(s)>>]

LEMMA FoldExists ==
    ASSUME NEW A, NEW base \in A, NEW n \in Nat, NEW g \in [A \X (1..n) -> A]
    PROVE  \E f : FoldsBy(f, g, base, A, n)
<1> DEFINE T == {m \in Nat : m <= n => \E f : FoldsBy(f, g, base, A, m)}
<1>1. 0 \in T
  <2> DEFINE f == [s \in SUBSET (1..0) |-> base]
  <2>1. f \in [SUBSET (1..0) -> A] /\ \A s \in SUBSET (1..0) : s = {} /\ f[s] = base
    OBVIOUS
  <2> HIDE DEF f
  <2>2. FoldsBy(f, g, base, A, 0)
    BY <2>1 DEF FoldsBy
  <2> QED
    BY <2>2
<1>2. ASSUME NEW m \in Nat, m \in T
      PROVE  m + 1 \in T
  <2> SUFFICES ASSUME m + 1 <= n PROVE \E f : FoldsBy(f, g, base, A, m + 1)
    OBVIOUS
  <2>1. PICK f : FoldsBy(f, g, base, A, m)
    <3>1. m <= n
      OBVIOUS
    <3> QED
      BY <1>2, <3>1
  <2> DEFINE h == [s \in SUBSET (1..(m + 1)) |->
                     IF m + 1 \in s THEN g[<<f[s \ {m + 1}], m + 1>>] ELSE f[s]]
  <2>2. ASSUME NEW s \in SUBSET (1..(m + 1)), m + 1 \notin s
        PROVE  s \in SUBSET (1..m) /\ h[s] = f[s]
    <3>1. \A i \in 1..(m + 1) : i = m + 1 \/ i \in 1..m
      OBVIOUS
    <3>2. s \in SUBSET (1..m)
      BY <2>2, <3>1
    <3> QED
      BY <2>2, <3>2
  <2>3. ASSUME NEW s \in SUBSET (1..(m + 1)), m + 1 \in s
        PROVE  /\ s \ {m + 1} \in SUBSET (1..m) /\ s \ {m + 1} \in SUBSET (1..(m + 1))
               /\ h[s] = g[<<f[s \ {m + 1}], m + 1>>]
               /\ h[s \ {m + 1}] = f[s \ {m + 1}]
    <3>1. s \ {m + 1} \in SUBSET (1..(m + 1)) /\ m + 1 \notin s \ {m + 1}
      OBVIOUS
    <3>2. s \ {m + 1} \in SUBSET (1..m) /\ h[s \ {m + 1}] = f[s \ {m + 1}]
      <4> HIDE DEF h
      <4> QED
        BY <2>2, <3>1
    <3>3. h[s] = g[<<f[s \ {m + 1}], m + 1>>]
      BY <2>3
    <3> QED
      BY <3>1, <3>2, <3>3
  <2>4. m + 1 \in 1..n
    OBVIOUS
  <2>5. h = [s \in SUBSET (1..(m + 1)) |-> h[s]]
    OBVIOUS
  <2> HIDE DEF h
  <2>6. \A s \in SUBSET (1..m) : f[s] \in A
    BY <2>1 DEF FoldsBy
  <2>7. \A s \in SUBSET (1..(m + 1)) : h[s] \in A
    <3> TAKE s \in SUBSET (1..(m + 1))
    <3>1. CASE m + 1 \in s
      <4>1. f[s \ {m + 1}] \in A
        BY <2>3, <2>6, <3>1
      <4>2. <<f[s \ {m + 1}], m + 1>> \in A \X (1..n)
        BY <2>4, <4>1
      <4> QED
        BY <2>3, <3>1, <4>2
    <3>2. CASE m + 1 \notin s
      BY <2>2, <2>6, <3>2
    <3> QED
      BY <3>1, <3>2
  <2>8. \A s \in SUBSET (1..(m + 1)) :
          h[s] = IF s = {} THEN base ELSE g[<<h[s \ {Max(s)}], Max(s)>>]
    <3> TAKE s \in SUBSET (1..(m + 1))
    <3>1. CASE m + 1 \in s
      <4>1. Max(s) = m + 1 /\ s # {}
        BY <3>1, MaxIs
      <4> QED
        BY <2>3, <3>1, <4>1
    <3>2. CASE m + 1 \notin s
      <4>1. s \in SUBSET (1..m) /\ h[s] = f[s]
        BY <2>2, <3>2
      <4>2. s \ {Max(s)} \in SUBSET (1..(m + 1)) /\ m + 1 \notin s \ {Max(s)}
        BY <3>2
      <4>3. h[s \ {Max(s)}] = f[s \ {Max(s)}]
        BY <2>2, <4>2
      <4> QED
        BY <2>1, <4>1, <4>3 DEF FoldsBy
    <3> QED
      BY <3>1, <3>2
  <2>9. FoldsBy(h, g, base, A, m + 1)
    <3>1. h \in [SUBSET (1..(m + 1)) -> A]
      BY <2>5, <2>7
    <3> QED
      BY <2>8, <3>1 DEF FoldsBy
  <2> QED
    BY <2>9
<1>3. n \in T
  <2> HIDE DEF T
  <2> QED
    BY <1>1, <1>2, Induct
<1> QED
  BY <1>3

\* Along the sequence.
LEMMA FoldGoes ==
    ASSUME NEW n \in Nat, NEW m \in Nat, m + 1 <= n
    PROVE  /\ 1..(m + 1) \in SUBSET (1..n) /\ 1..(m + 1) # {} /\ 1..m \in SUBSET (1..n)
           /\ Max(1..(m + 1)) = m + 1 /\ (1..(m + 1)) \ {m + 1} = 1..m
<1>1. Max(1..(m + 1)) = m + 1
  <2>1. PICK s : s = 1..(m + 1)
    OBVIOUS
  <2>2. s \in SUBSET (1..(m + 1)) /\ m + 1 \in s
    BY <2>1
  <2> QED
    BY <2>1, <2>2, MaxIs
<1> QED
  BY <1>1

-----------------------------------------------------------------------------
(* The lengths in PARAMS.                                                  *)

LEMMA OctetIs ==
    \A k \in 0..255 : OctetOf(Octets[k]) = k
<1>1. DOMAIN Octets = 0..255 /\ \A m, n \in 0..255 : Octets[m] = Octets[n] => m = n
  BY NumbersAssumption
<1>a. CodeOf = Inverse(Octets, DOMAIN Octets, Range(Octets))
  BY DEF CodeOf, AntiFunction
<1>b. Inverse(Octets, DOMAIN Octets, Range(Octets))
        = [y \in Range(Octets) |->
              CHOOSE x \in DOMAIN Octets : y \in Range(Octets) => Octets[x] = y]
  BY DEF Inverse
<1>c. \A x \in DOMAIN Octets : Octets[x] \in Range(Octets)
  BY DEF Range
<1> SUFFICES ASSUME NEW k \in 0..255 PROVE OctetOf(Octets[k]) = k
  OBVIOUS
<1>3. PICK b : b = Octets[k] /\ b \in Range(Octets)
  BY <1>1, <1>c
<1>4. PICK v : v = CHOOSE x \in DOMAIN Octets : b \in Range(Octets) => Octets[x] = b
  OBVIOUS
<1>5. CodeOf[b] = v
  BY <1>a, <1>b, <1>3, <1>4
<1>6. v \in DOMAIN Octets /\ Octets[v] = b
  BY <1>1, <1>3, <1>4
<1>7. v = k
  BY <1>1, <1>3, <1>6
<1> QED
  BY <1>3, <1>5, <1>7 DEF OctetOf

\* The same along the sequence, from its beginning.
Along(h, g, base, A, n) ==
    /\ h[1..0] = base
    /\ \A k \in Nat : k + 1 <= n /\ h[1..k] \in A => h[1..(k + 1)] = g[<<h[1..k], k + 1>>]

\* Whatever is made in that way along the sequence is what the fold makes.
LEMMA SameFold ==
    ASSUME NEW A, NEW base \in A, NEW n \in Nat, NEW g, NEW f, FoldsBy(f, g, base, A, n),
           NEW h, Along(h, g, base, A, n)
    PROVE  h[1..n] = f[1..n] /\ f[1..n] \in A
<1> DEFINE T == {k \in Nat : k <= n => h[1..k] = f[1..k] /\ f[1..k] \in A}
<1>1. 0 \in T
  <2>1. 1..0 \in SUBSET (1..n) /\ 1..0 = {}
    OBVIOUS
  <2> QED
    BY <2>1 DEF FoldsBy, Along
<1>2. ASSUME NEW k \in Nat, k \in T
      PROVE  k + 1 \in T
  <2> SUFFICES ASSUME k + 1 <= n
               PROVE  h[1..(k + 1)] = f[1..(k + 1)] /\ f[1..(k + 1)] \in A
    OBVIOUS
  <2>1. k <= n
    OBVIOUS
  <2>2. h[1..k] = f[1..k] /\ f[1..k] \in A
    BY <1>2, <2>1
  <2>3. h[1..(k + 1)] = g[<<h[1..k], k + 1>>]
    BY <2>2 DEF Along
  <2>4. PICK s : s = 1..(k + 1)
    OBVIOUS
  <2>5. s \in SUBSET (1..n) /\ s # {} /\ Max(s) = k + 1 /\ s \ {k + 1} = 1..k
    BY <2>4, FoldGoes
  <2>6. f[s] = g[<<f[1..k], k + 1>>] /\ f[s] \in A
    BY <2>5 DEF FoldsBy
  <2> QED
    BY <2>2, <2>3, <2>4, <2>6
<1>3. n \in T
  <2> HIDE DEF T
  <2> QED
    BY <1>1, <1>2, Induct
<1> QED
  BY <1>3

BigEndian(base, t) == FoldLeft(LAMBDA v, b : 256 * v + OctetOf(b), base, t)

Weigh(d, n) == [q \in Nat \X (1..n) |-> 256 * q[1] + d[q[2]]]

LEMMA BigEndianFolds ==
    ASSUME NEW n \in Nat, NEW base \in Nat, NEW t, DOMAIN t = 1..n, NEW d \in [1..n -> Nat],
           \A i \in 1..n : d[i] = OctetOf(t[i])
    PROVE  \E f : /\ FoldsBy(f, Weigh(d, n), base, Nat, n)
                  /\ BigEndian(base, t) = f[1..n]
<1> DEFINE g == [q \in Nat \X (1..n) |-> 256 * q[1] + d[q[2]]]
           Is(f) == f = [s \in SUBSET (DOMAIN t) |->
                            IF s = {} THEN base
                            ELSE 256 * f[s \ {Max(s)}] + OctetOf(t[Max(s)])]
<1>1. BigEndian(base, t) = (CHOOSE f : Is(f))[DOMAIN t]
  BY DEF BigEndian, FoldLeft, MapThenFoldSet
<1>2. g \in [Nat \X (1..n) -> Nat]
  <2>1. \A q \in Nat \X (1..n) : q[1] \in Nat /\ d[q[2]] \in Nat
    OBVIOUS
  <2>2. \A q \in Nat \X (1..n) : 256 * q[1] + d[q[2]] \in Nat
    <3> TAKE q \in Nat \X (1..n)
    <3>1. PICK a \in Nat, b \in Nat : a = q[1] /\ b = d[q[2]]
      BY <2>1
    <3>2. 256 * a + b \in Nat
      OBVIOUS
    <3> QED
      BY <3>1, <3>2
  <2> QED
    BY <2>2
<1>3. \A a \in Nat, i \in 1..n : g[<<a, i>>] = 256 * a + d[i]
  OBVIOUS
<1> HIDE DEF g
<1>4. PICK f : FoldsBy(f, g, base, Nat, n)
  BY <1>2, FoldExists
<1>5. \A s \in SUBSET (1..n) : s # {} => Max(s) \in 1..n
  <2> TAKE s \in SUBSET (1..n)
  <2> SUFFICES ASSUME s # {} PROVE Max(s) \in 1..n
    OBVIOUS
  <2>1. Max(s) \in s
    BY MaxOf
  <2> QED
    BY <2>1
<1>6. Is(f)
  <2> DEFINE h == [s \in SUBSET (DOMAIN t) |->
                    IF s = {} THEN base ELSE 256 * f[s \ {Max(s)}] + OctetOf(t[Max(s)])]
  <2>1. ASSUME NEW s \in SUBSET (1..n)
        PROVE  f[s] = h[s]
    <3>1. h[s] = IF s = {} THEN base ELSE 256 * f[s \ {Max(s)}] + OctetOf(t[Max(s)])
      OBVIOUS
    <3> HIDE DEF h
    <3>2. CASE s = {}
      BY <1>4, <3>1, <3>2 DEF FoldsBy
    <3>3. CASE s # {}
      <4>1. PICK i \in 1..n : i = Max(s)
        BY <1>5, <3>3
      <4>2. s \ {i} \in SUBSET (1..n)
        OBVIOUS
      <4>3. f[s \ {i}] \in Nat
        BY <1>4, <4>2 DEF FoldsBy
      <4>4. f[s] = g[<<f[s \ {i}], i>>]
        BY <1>4, <3>3, <4>1 DEF FoldsBy
      <4>5. OctetOf(t[i]) = d[i]
        OBVIOUS
      <4>6. f[s] = 256 * f[s \ {i}] + OctetOf(t[i])
        BY <1>3, <4>3, <4>4, <4>5
      <4> QED
        BY <3>1, <3>3, <4>1, <4>6
    <3> QED
      BY <3>2, <3>3
  <2>2. DOMAIN f = SUBSET (1..n) /\ f = [s \in DOMAIN f |-> f[s]]
    BY <1>4 DEF FoldsBy
  <2>3. DOMAIN h = SUBSET (1..n) /\ h = [s \in DOMAIN h |-> h[s]]
    OBVIOUS
  <2>4. f = h
    <3> HIDE DEF h
    <3> QED
      BY <2>1, <2>2, <2>3
  <2> QED
    BY <2>4
<1> HIDE DEF Is
<1>7. PICK h : h = CHOOSE k : Is(k)
  OBVIOUS
<1>8. Is(h)
  BY <1>6, <1>7
<1>9. BigEndian(base, t) = h[1..n]
  BY <1>1, <1>7
<1>10. \A s \in SUBSET (1..n) :
         h[s] = IF s = {} THEN base ELSE 256 * h[s \ {Max(s)}] + OctetOf(t[Max(s)])
  BY <1>8 DEF Is
<1>11. h[1..0] = base
  <2>1. 1..0 \in SUBSET (1..n) /\ 1..0 = {}
    OBVIOUS
  <2> QED
    BY <1>10, <2>1
<1>12. ASSUME NEW k \in Nat, k + 1 <= n, h[1..k] \in Nat
       PROVE  h[1..(k + 1)] = g[<<h[1..k], k + 1>>]
  <2>1. PICK s : s = 1..(k + 1)
    OBVIOUS
  <2>2. s \in SUBSET (1..n) /\ s # {} /\ Max(s) = k + 1 /\ s \ {k + 1} = 1..k
    BY <1>12, <2>1, FoldGoes
  <2>3. h[s] = 256 * h[1..k] + OctetOf(t[k + 1])
    <3>1. h[s] = 256 * h[s \ {Max(s)}] + OctetOf(t[Max(s)])
      BY <1>10, <2>2
    <3> QED
      BY <2>2, <3>1
  <2>4. k + 1 \in 1..n
    BY <1>12
  <2>5. OctetOf(t[k + 1]) = d[k + 1] /\ g[<<h[1..k], k + 1>>] = 256 * h[1..k] + d[k + 1]
    BY <1>3, <1>12, <2>4
  <2> QED
    BY <2>1, <2>3, <2>5
<1>13. h[1..n] = f[1..n]
  <2>1. Along(h, g, base, Nat, n)
    BY <1>11, <1>12 DEF Along
  <2>2. PICK A, z : A = Nat /\ z = base
    OBVIOUS
  <2>3. z \in A /\ FoldsBy(f, g, z, A, n) /\ Along(h, g, z, A, n)
    BY <1>4, <2>1, <2>2
  <2> QED
    BY <2>3, SameFold
<1> QED
  BY <1>4, <1>9, <1>13 DEF g, Weigh

\* The octets of n bytes.
OctetsOf(t, d, n) ==
    /\ DOMAIN t = 1..n /\ d \in [1..n -> Nat]
    /\ \A i \in 1..n : d[i] = OctetOf(t[i])

\* A number of the first octet alone, and of three more.
LEMMA BigEndianIs ==
    ASSUME NEW n \in Nat, NEW base \in Nat, NEW t, NEW d, OctetsOf(t, d, n)
    PROVE  /\ n = 0 => BigEndian(base, t) = base
           /\ n = 3 => BigEndian(base, t) = 256 * (256 * (256 * base + d[1]) + d[2]) + d[3]
<1> DEFINE g == [q \in Nat \X (1..n) |-> 256 * q[1] + d[q[2]]]
<1>0. DOMAIN t = 1..n /\ d \in [1..n -> Nat] /\ \A i \in 1..n : d[i] = OctetOf(t[i])
  BY DEF OctetsOf
<1>1. PICK f : FoldsBy(f, g, base, Nat, n) /\ BigEndian(base, t) = f[1..n]
  <2>1. \E f : /\ FoldsBy(f, Weigh(d, n), base, Nat, n)
               /\ BigEndian(base, t) = f[1..n]
    BY <1>0, BigEndianFolds
  <2> QED
    BY <2>1 DEF Weigh
<1>2. \A a \in Nat, i \in 1..n : g[<<a, i>>] = 256 * a + d[i]
  OBVIOUS
<1> HIDE DEF g
<1>3. f[1..0] = base
  <2>1. 1..0 \in SUBSET (1..n) /\ 1..0 = {}
    OBVIOUS
  <2> QED
    BY <1>1, <2>1 DEF FoldsBy
<1> DEFINE T == {k \in Nat : k + 1 <= n /\ f[1..k] \in Nat
                                => f[1..(k + 1)] = 256 * f[1..k] + d[k + 1]}
<1>4. ASSUME NEW k \in Nat
      PROVE  k \in T
  <2> SUFFICES ASSUME k + 1 <= n, f[1..k] \in Nat
               PROVE  f[1..(k + 1)] = 256 * f[1..k] + d[k + 1]
    OBVIOUS
  <2>1. PICK s : s = 1..(k + 1)
    OBVIOUS
  <2>2. s \in SUBSET (1..n) /\ s # {} /\ Max(s) = k + 1 /\ s \ {k + 1} = 1..k
    BY <2>1, FoldGoes
  <2>3. f[s] = g[<<f[1..k], k + 1>>]
    BY <1>1, <2>2 DEF FoldsBy
  <2>4. k + 1 \in 1..n
    OBVIOUS
  <2> QED
    BY <1>2, <2>1, <2>3, <2>4
<1>5. 0 \in T /\ 1 \in T /\ 2 \in T
  <2> HIDE DEF T
  <2> QED
    BY <1>4
<1>6. CASE n = 3
  <2>1. PICK a \in Nat : a = d[1]
    BY <1>0, <1>6
  <2>2. PICK b \in Nat : b = d[2]
    BY <1>0, <1>6
  <2>3. PICK e \in Nat : e = d[3]
    BY <1>0, <1>6
  <2>4. PICK u \in Nat : u = 256 * base + a
    OBVIOUS
  <2>5. PICK v \in Nat : v = 256 * u + b
    OBVIOUS
  <2>6. f[1..1] = u
    <3>1. 0 + 1 <= n /\ f[1..0] \in Nat => f[1..(0 + 1)] = 256 * f[1..0] + d[0 + 1]
      BY <1>5
    <3> QED
      BY <1>3, <1>6, <2>1, <2>4, <3>1
  <2>7. f[1..2] = v
    <3>1. 1 + 1 <= n /\ f[1..1] \in Nat => f[1..(1 + 1)] = 256 * f[1..1] + d[1 + 1]
      BY <1>5
    <3> QED
      BY <1>6, <2>2, <2>5, <2>6, <3>1
  <2>8. f[1..3] = 256 * v + e
    <3>1. 2 + 1 <= n /\ f[1..2] \in Nat => f[1..(2 + 1)] = 256 * f[1..2] + d[2 + 1]
      BY <1>5
    <3> QED
      BY <1>6, <2>3, <2>7, <3>1
  <2>9. BigEndian(base, t) = f[1..3]
    BY <1>1, <1>6
  <2> QED
    BY <1>6, <2>1, <2>2, <2>3, <2>4, <2>5, <2>8, <2>9
<1>7. CASE n = 0
  <2>1. BigEndian(base, t) = f[1..0]
    BY <1>1, <1>7
  <2> QED
    BY <1>3, <1>7, <2>1
<1> QED
  BY <1>6, <1>7

\* Where the stream has the bytes of a length, the reader reads that length; it finds them
\* cut short if and only if they are.
\* The w bytes that tell the number n.
Codes(c, n, w) ==
    /\ w = 4 => \A k \in 1..4 : c[k] = Octets[Octet(n, k)]
    /\ w = 1 => n \in 0..127 /\ c[1] = Octets[n]

\* They stand after i, as far as the data goes.
CodesAfter(i, c, w, L) == \A k \in 1..w : i + k <= L => ByteAt(i + k) = c[k]

LEMMA NumberReads ==
    ASSUME NEW i \in Nat, NEW n \in Nat, n <= MaxInt, NEW w \in Nat, w = 1 \/ w = 4,
           NEW c, Codes(c, n, w), NEW L \in Nat, i < L, CodesAfter(i, c, w, L)
    PROVE  /\ Wide(i) <=> w = 4
           /\ Width(i) = w
           /\ i + w <= L => LengthAt(i) = n
<1>6. i + 1 <= L /\ 1 \in 1..w
  OBVIOUS
<1>7. PICK f \in Nat : /\ f = OctetOf(ByteAt(i + 1)) /\ (w = 4 => f = Octet(n, 1) /\ f >= 128)
                       /\ (w = 1 => f = n /\ ~(f >= 128))
  <2>1. ByteAt(i + 1) = c[1]
    BY <1>6 DEF CodesAfter
  <2>2. CASE w = 4
    <3>1. Octet(n, 1) \in 0..255 /\ Octet(n, 1) >= 128
      BY FourOctets
    <3>2. c[1] = Octets[Octet(n, 1)]
      BY <2>2 DEF Codes
    <3>4. OctetOf(Octets[Octet(n, 1)]) = Octet(n, 1)
      BY <3>1, OctetIs
    <3>3. OctetOf(ByteAt(i + 1)) = Octet(n, 1)
      BY <2>1, <3>2, <3>4
    <3>a. Octet(n, 1) \in Nat
      BY <3>1
    <3>5. PICK v \in Nat : v = Octet(n, 1)
      BY <3>a
    <3>6. v = OctetOf(ByteAt(i + 1)) /\ w = 4 /\ w # 1 /\ v >= 128
      BY <2>2, <3>1, <3>3, <3>5
    <3> QED
      BY <3>5, <3>6
  <2>3. CASE w = 1
    <3>1. n \in 0..127 /\ c[1] = Octets[n]
      BY <2>3 DEF Codes
    <3>2. n \in 0..255 /\ ~(n >= 128)
      BY <3>1
    <3>4. OctetOf(Octets[n]) = n
      BY <3>2, OctetIs
    <3>3. OctetOf(ByteAt(i + 1)) = n
      BY <2>1, <3>1, <3>4
    <3> QED
      BY <2>3, <3>2, <3>3
  <2> QED
    BY <2>2, <2>3
<1>8. Wide(i) <=> w = 4
  BY <1>7 DEF Wide
<1>9. Width(i) = w
  BY <1>8 DEF Width
<1>11. ASSUME i + w <= L
       PROVE  LengthAt(i) = n
  <2>0. PICK b \in Nat : b = f % 128
    OBVIOUS
  <2>1. CASE w = 4
    <3> DEFINE t == Text(i + 1, i + 4)
               d == [k \in 1..3 |-> Octet(n, k + 1)]
    <3>1. LengthAt(i) = BigEndian(b, t)
      BY <1>7, <1>9, <2>0, <2>1 DEF LengthAt, BigEndian
    <3>2. ByteAt(i + 2) = c[2] /\ ByteAt(i + 3) = c[3] /\ ByteAt(i + 4) = c[4]
      <4>1. i + 2 <= L /\ i + 3 <= L /\ i + 4 <= L /\ 2 \in 1..w /\ 3 \in 1..w /\ 4 \in 1..w
        BY <1>11, <2>1
      <4> QED
        BY <4>1 DEF CodesAfter
    <3>3. DOMAIN t = 1..3 /\ t[1] = ByteAt(i + 2) /\ t[2] = ByteAt(i + 3) /\ t[3] = ByteAt(i + 4)
      <4>1. (i + 4) - (i + 1) = 3 /\ (i + 1) + 1 = i + 2 /\ (i + 1) + 2 = i + 3 /\ (i + 1) + 3 = i + 4
        OBVIOUS
      <4>2. t = [k \in 1..3 |-> ByteAt((i + 1) + k)]
        BY <4>1 DEF Text
      <4> HIDE DEF t
      <4>3. DOMAIN t = 1..3 /\ t[1] = ByteAt((i + 1) + 1) /\ t[2] = ByteAt((i + 1) + 2)
            /\ t[3] = ByteAt((i + 1) + 3)
        BY <4>2
      <4> QED
        BY <4>1, <4>3
    <3>4. \A k \in 1..4 : Octet(n, k) \in 0..255 /\ OctetOf(c[k]) = Octet(n, k)
      <4>1. \A k \in 1..4 : Octet(n, k) \in 0..255
        BY FourOctets
      <4>2. \A k \in 1..4 : c[k] = Octets[Octet(n, k)]
        BY <2>1 DEF Codes
      <4>3. \A k \in 1..4 : OctetOf(Octets[Octet(n, k)]) = Octet(n, k)
        BY <4>1, OctetIs
      <4> QED
        BY <4>1, <4>2, <4>3
    <3>5. d \in [1..3 -> Nat] /\ d[1] = Octet(n, 2) /\ d[2] = Octet(n, 3) /\ d[3] = Octet(n, 4)
      <4>1. \A k \in 1..3 : k + 1 \in 1..4 /\ \A m \in 0..255 : m \in Nat
        OBVIOUS
      <4>2. \A k \in 1..3 : Octet(n, k + 1) \in Nat
        BY <3>4, <4>1
      <4> QED
        BY <4>2
    <3> HIDE DEF t, d
    <3>6. \A k \in 1..3 : d[k] = OctetOf(t[k])
      <4>1. \A k \in 1..3 : k = 1 \/ k = 2 \/ k = 3
        OBVIOUS
      <4>2. OctetOf(c[2]) = Octet(n, 2) /\ OctetOf(c[3]) = Octet(n, 3) /\ OctetOf(c[4]) = Octet(n, 4)
        BY <3>4
      <4> QED
        BY <3>2, <3>3, <3>5, <4>1, <4>2
    <3>7. PICK m \in Nat : m = 3
      OBVIOUS
    <3>8. OctetsOf(t, d, m)
      BY <3>3, <3>5, <3>6, <3>7 DEF OctetsOf
    <3>9. BigEndian(b, t) = 256 * (256 * (256 * b + d[1]) + d[2]) + d[3]
      BY <3>7, <3>8, BigEndianIs
    <3>10. b = Octet(n, 1) % 128
      BY <1>7, <2>0, <2>1
    <3>11. 256 * (256 * (256 * (Octet(n, 1) % 128) + Octet(n, 2)) + Octet(n, 3)) + Octet(n, 4) = n
      BY FourOctets
    <3> QED
      BY <3>1, <3>5, <3>9, <3>10, <3>11
  <2>2. CASE w = 1
    <3> DEFINE t == Text(i + 1, i + 1)
    <3>1. LengthAt(i) = BigEndian(b, t)
      BY <1>7, <1>9, <2>0, <2>2 DEF LengthAt, BigEndian
    <3>2. DOMAIN t = 1..0
      <4>1. (i + 1) - (i + 1) = 0
        OBVIOUS
      <4>2. t = [k \in 1..0 |-> ByteAt((i + 1) + k)]
        BY <4>1 DEF Text
      <4> QED
        BY <4>2
    <3> HIDE DEF t
    <3>3. PICK m \in Nat : m = 0
      OBVIOUS
    <3>4. PICK d : d = [k \in 1..m |-> 0]
      OBVIOUS
    <3>5. OctetsOf(t, d, m)
      <4>1. DOMAIN t = 1..m /\ \A k \in 1..m : FALSE
        BY <3>2, <3>3
      <4>2. d \in [1..m -> Nat]
        BY <3>4
      <4>3. \A k \in 1..m : d[k] = OctetOf(t[k])
        BY <4>1
      <4> QED
        BY <4>1, <4>2, <4>3 DEF OctetsOf
    <3>6. BigEndian(b, t) = b
      BY <3>3, <3>5, BigEndianIs
    <3>7. b = n
      <4>1. n \in 0..127 /\ f = n
        BY <1>7, <2>2 DEF Codes
      <4> QED
        BY <2>0, <4>1
    <3> QED
      BY <3>1, <3>6, <3>7
  <2> QED
    BY <2>1, <2>2
<1> QED
  BY <1>8, <1>9, <1>11

LEMMA LengthReads ==
    ASSUME NEW i \in Nat, NEW s, NEW isWide \in BOOLEAN, Len(s) \in Nat, Len(s) <= MaxInt,
           NEW L \in Nat, L = Len(stream), i < L,
           \A k \in 1..LengthBytes(s, isWide) : i + k <= L => stream[i + k] = Count(s, isWide)[k]
    PROVE  /\ Width(i) = LengthBytes(s, isWide)
           /\ CutShort(i) <=> i + LengthBytes(s, isWide) > L
           /\ ~CutShort(i) => LengthAt(i) = Len(s)
<1>1. PICK n \in Nat : n = Len(s) /\ n <= MaxInt
  OBVIOUS
<1>2. PICK c : c = Count(s, isWide)
  OBVIOUS
<1>3. PICK w \in Nat : w = LengthBytes(s, isWide) /\ (w = 1 \/ w = 4)
  BY DEF LengthBytes
<1>4. Codes(c, n, w)
  <2> DEFINE V == {Octets[m] : m \in 0..255}
  <2>1. Bytes(V)
    BY DEF Bytes
  <2> HIDE DEF V
  <2>2. /\ LengthBytes(s, isWide) = 4 =>
              \A k \in 1..4 : Count(s, isWide)[k] = Octets[Octet(Len(s), k)]
        /\ LengthBytes(s, isWide) = 1 =>
              Len(s) \in 0..127 /\ Count(s, isWide)[1] = Octets[Len(s)]
    BY <2>1, CountIs
  <2>3. w = 4 => \A k \in 1..4 : c[k] = Octets[Octet(n, k)]
    BY <1>1, <1>2, <1>3, <2>2, Zenon
  <2>4. w = 1 => n \in 0..127 /\ c[1] = Octets[n]
    BY <1>1, <1>2, <1>3, <2>2, Zenon
  <2> QED
    BY <2>3, <2>4 DEF Codes
<1>5. CodesAfter(i, c, w, L)
  <2> SUFFICES ASSUME NEW k \in 1..w, i + k <= L PROVE ByteAt(i + k) = c[k]
    BY DEF CodesAfter
  <2>1. k \in 1..LengthBytes(s, isWide)
    BY <1>3, Zenon
  <2>2. stream[i + k] = Count(s, isWide)[k]
    BY <2>1, Zenon
  <2>3. ByteAt(i + k) = stream[i + k]
    BY DEF ByteAt
  <2> QED
    BY <1>2, <2>2, <2>3, Zenon
<1>6. (Wide(i) <=> w = 4) /\ Width(i) = w /\ (i + w <= L => LengthAt(i) = n)
  BY <1>1, <1>3, <1>4, <1>5, NumberReads
<1>7. CutShort(i) <=> i + w > L
  <2>1. CutShort(i) <=> i >= L \/ (w = 4 /\ L - i < 4)
    BY <1>6 DEF CutShort
  <2>2. w = 4 => (L - i < 4 <=> i + w > L)
    OBVIOUS
  <2>3. w = 1 => ~(i + w > L)
    OBVIOUS
  <2>4. ~(i >= L)
    OBVIOUS
  <2> QED
    BY <1>3, <2>1, <2>2, <2>3, <2>4
<1>8. ~CutShort(i) => i + w <= L
  BY <1>7
<1>9. ~CutShort(i) => LengthAt(i) = Len(s)
  BY <1>1, <1>6, <1>8
<1> QED
  BY <1>3, <1>6, <1>7, <1>9, Zenon

-----------------------------------------------------------------------------
(* FastCGI.                                                                *)

\* The bytes of the variables that were meant.
AllBytes(pairs) ==
    {Octets[n] : n \in 0..255}
        \cup UNION {ToSet(pairs[i].name) \cup ToSet(pairs[i].value) : i \in 1..Len(pairs)}

\* What the reader of PARAMS has is the beginning of what was meant.
ParamsSent ==
    service = "fcgi" =>
        /\ AreVariables(meant, AllBytes(meant))
        /\ Len(stream) <= Len(Encoded(meant))
        /\ \A i \in 1..Len(stream) : stream[i] = Encoded(meant)[i]

LEMMA SameText ==
    ASSUME StreamOK, NEW i \in Nat, NEW n \in Nat, NEW V, NEW s \in Seq(V), Len(s) = n,
           i + n <= Len(stream), \A k \in 1..n : stream[i + k] = s[k]
    PROVE  Text(i, i + n) = s
<1>1. s = [k \in 1..n |-> s[k]]
  <2>1. s \in [1..n -> V]
    BY LenProperties
  <2> QED
    BY <2>1
<1>2. Len(stream) \in Nat
  BY TextIsText DEF IsText
<1>3. (i + n) - i = n
  OBVIOUS
<1>4. \A k \in 1..n : ByteAt(i + k) = s[k]
  BY <1>2 DEF ByteAt
<1>5. Text(i, i + n) = [k \in 1..n |-> ByteAt(i + k)]
  BY <1>3 DEF Text
<1> QED
  BY <1>1, <1>4, <1>5

\* Where a variable that was meant begins the reader finds that variable, if it was not
\* cut short.
LEMMA PairReads ==
    ASSUME StreamOK, NEW V, NEW p, Bytes(V), IsVariable(p, V), NEW i \in Nat, i < Len(stream),
           \A k \in 1..Len(Code(p)) : i + k <= Len(stream) => stream[i + k] = Code(p)[k]
    PROVE  LET j == i + Width(i)
               from == j + Width(j)
               to == from + LengthAt(i) + LengthAt(j)
           IN /\ CutShort(i) \/ CutShort(j) => i + Len(Code(p)) > Len(stream)
              /\ ~CutShort(i) /\ ~CutShort(j) =>
                    /\ to = i + Len(Code(p))
                    /\ i + Len(Code(p)) <= Len(stream) =>
                          /\ Strings(from, LengthAt(i)) = {CString(p.name)}
                          /\ Strings(from + LengthAt(i), to - from - LengthAt(i))
                                = {CString(p.value)}
                          /\ ~PastData(from, LengthAt(i))
                          /\ ~PastData(from + LengthAt(i), to - from - LengthAt(i))
<1>1. PICK w \in Nat, x \in Nat : /\ w > 0 /\ x > 0
                                  /\ w = NameBytes(p) /\ x = ValueBytes(p)
  BY DEF NameBytes, ValueBytes, LengthBytes
<1>2. PICK m \in Nat, n \in Nat : /\ m = Len(p.name) /\ n = Len(p.value)
                                  /\ m <= MaxInt /\ n <= MaxInt
  BY LenProperties DEF IsVariable
<1>3. PICK c, a, b : /\ c = Code(p) /\ a = Count(p.name, "name" \in p.wide)
                     /\ b = Count(p.value, "value" \in p.wide)
  OBVIOUS
<1>4. PICK L \in Nat : L = Len(stream)
  BY TextIsText DEF IsText
<1>5. NameFrom(p) = w + x
  BY <1>1 DEF NameFrom
<1>6. /\ Len(c) = w + x + m + n
      /\ \A k \in 1..w : c[k] = a[k]
      /\ \A k \in 1..x : c[w + k] = b[k]
      /\ \A k \in 1..m : c[w + x + k] = p.name[k]
      /\ \A k \in 1..n : c[w + x + m + k] = p.value[k]
  <2>1. /\ Len(c) = NameFrom(p) + Len(p.name) + Len(p.value)
        /\ \A k \in 1..NameBytes(p) : c[k] = a[k]
        /\ \A k \in 1..ValueBytes(p) : c[NameBytes(p) + k] = b[k]
        /\ \A k \in 1..Len(p.name) : c[NameFrom(p) + k] = p.name[k]
        /\ \A k \in 1..Len(p.value) : c[NameFrom(p) + Len(p.name) + k] = p.value[k]
    BY <1>3, CodeIs
  <2>2. Len(c) = w + x + m + n
    BY <1>2, <1>5, <2>1
  <2>3. \A k \in 1..w : c[k] = a[k]
    BY <1>1, <2>1
  <2>4. \A k \in 1..x : c[w + k] = b[k]
    BY <1>1, <2>1
  <2>5. \A k \in 1..m : c[w + x + k] = p.name[k]
    BY <1>2, <1>5, <2>1
  <2>6. \A k \in 1..n : c[w + x + m + k] = p.value[k]
    BY <1>2, <1>5, <2>1
  <2> QED
    BY <2>2, <2>3, <2>4, <2>5, <2>6
<1>7. \A k \in 1..(w + x + m + n) : i + k <= L => stream[i + k] = c[k]
  BY <1>3, <1>4, <1>6
<1>8. /\ Width(i) = w
      /\ CutShort(i) <=> i + w > L
      /\ ~CutShort(i) => LengthAt(i) = m
  <2>1. PICK isWide \in BOOLEAN : isWide <=> "name" \in p.wide
    BY Zenon
  <2>5. w = LengthBytes(p.name, isWide) /\ a = Count(p.name, isWide)
    BY <1>1, <1>3, <2>1 DEF NameBytes, LengthBytes, Count
  <2>6. \A k \in 1..w : i + k <= L => stream[i + k] = a[k]
    BY <1>6, <1>7
  <2>2. \A k \in 1..LengthBytes(p.name, isWide) : i + k <= L => stream[i + k] = Count(p.name, isWide)[k]
    BY <2>5, <2>6
  <2>3. i < L
    BY <1>4
  <2>4. /\ Width(i) = LengthBytes(p.name, isWide)
        /\ CutShort(i) <=> i + LengthBytes(p.name, isWide) > L
        /\ ~CutShort(i) => LengthAt(i) = Len(p.name)
    BY <1>2, <1>4, <2>2, <2>3, LengthReads
  <2> QED
    BY <1>2, <2>4, <2>5
<1>9. PICK j \in Nat : j = i + w
  OBVIOUS
<1>10. j < L => /\ Width(j) = x
                /\ CutShort(j) <=> j + x > L
                /\ ~CutShort(j) => LengthAt(j) = n
  <2> SUFFICES ASSUME j < L
               PROVE  /\ Width(j) = x
                      /\ CutShort(j) <=> j + x > L
                      /\ ~CutShort(j) => LengthAt(j) = n
    OBVIOUS
  <2>1. PICK isWide \in BOOLEAN : isWide <=> "value" \in p.wide
    BY Zenon
  <2>5. x = LengthBytes(p.value, isWide) /\ b = Count(p.value, isWide)
    BY <1>1, <1>3, <2>1 DEF ValueBytes, LengthBytes, Count
  <2>2. ASSUME NEW k \in 1..x, j + k <= L
        PROVE  stream[j + k] = b[k]
    <3>1. PICK h \in 1..(w + x + m + n) : h = w + k /\ i + h = j + k
      BY <1>9
    <3> QED
      BY <1>6, <1>7, <2>2, <3>1
  <2>3. \A k \in 1..LengthBytes(p.value, isWide) : j + k <= L => stream[j + k] = Count(p.value, isWide)[k]
    BY <2>2, <2>5
  <2>4. /\ Width(j) = LengthBytes(p.value, isWide)
        /\ CutShort(j) <=> j + LengthBytes(p.value, isWide) > L
        /\ ~CutShort(j) => LengthAt(j) = Len(p.value)
    <3>1. Len(p.value) \in Nat /\ Len(p.value) <= MaxInt
      BY <1>2
    <3> QED
      BY <1>4, <2>3, <3>1, LengthReads
  <2> QED
    BY <1>2, <2>4, <2>5
<1>11. ~(j < L) => CutShort(j)
  BY <1>4 DEF CutShort
<1>12. CutShort(i) \/ CutShort(j) => i + Len(c) > L
  <2>1. w > 0 /\ x > 0
    BY <1>1
  <2>2. CutShort(i) => i + w > L
    BY <1>8
  <2>3. CutShort(j) => j + x > L
    BY <1>10, <2>1
  <2> QED
    BY <1>6, <1>9, <2>1, <2>2, <2>3
<1>13. ASSUME ~CutShort(i), ~CutShort(j)
       PROVE  /\ LengthAt(i) = m /\ LengthAt(j) = n /\ Width(j) = x
  BY <1>8, <1>10, <1>11, <1>13
<1>14. PICK from \in Nat : from = j + x
  OBVIOUS
<1>15. ASSUME i + Len(c) <= L
       PROVE  /\ Strings(from, m) = {CString(p.name)} /\ Strings(from + m, n) = {CString(p.value)}
              /\ ~PastData(from, m) /\ ~PastData(from + m, n)
  <2>1. from + m + n <= L /\ from = i + w + x
    BY <1>6, <1>9, <1>14, <1>15
  <2>2. Text(from, from + m) = p.name
    <3>1. ASSUME NEW k \in 1..m
          PROVE  stream[from + k] = p.name[k]
      <4>1. PICK h \in 1..(w + x + m + n) : h = w + x + k /\ i + h = from + k /\ i + h <= L
        BY <2>1
      <4> QED
        BY <1>6, <1>7, <4>1
    <3>2. from + m <= Len(stream)
      BY <1>4, <2>1
    <3>3. PICK s \in Seq(V) : s = p.name
      BY DEF IsVariable
    <3> QED
      BY <1>2, <3>1, <3>2, <3>3, SameText
  <2>3. PICK f \in Nat : f = from + m
    OBVIOUS
  <2>4. Text(f, f + n) = p.value
    <3>1. ASSUME NEW k \in 1..n
          PROVE  stream[f + k] = p.value[k]
      <4>1. PICK h \in 1..(w + x + m + n) : h = w + x + m + k /\ i + h = f + k /\ i + h <= L
        BY <2>1, <2>3
      <4> QED
        BY <1>6, <1>7, <4>1
    <3>2. f + n <= Len(stream)
      BY <1>4, <2>1, <2>3
    <3>3. PICK s \in Seq(V) : s = p.value
      BY DEF IsVariable
    <3> QED
      BY <1>2, <3>1, <3>2, <3>3, SameText
  <2>5. from + m <= Len(stream) /\ f + n <= Len(stream)
    BY <1>4, <2>1, <2>3
  <2>6. Strings(from, m) = {CString(p.name)} /\ ~PastData(from, m)
    <3>1. ~(from + m > Len(stream))
      BY <1>4, <2>1
    <3> QED
      BY <2>2, <2>5, <3>1 DEF Strings, PastData
  <2>7. Strings(f, n) = {CString(p.value)} /\ ~PastData(f, n)
    <3>1. ~(f + n > Len(stream))
      BY <1>4, <2>1, <2>3
    <3> QED
      BY <2>4, <2>5, <3>1 DEF Strings, PastData
  <2> QED
    BY <2>3, <2>6, <2>7
<1>16. from + m + n = i + Len(c) /\ (from + m + n) - from - m = n
  <2>1. Len(c) = w + x + m + n
    BY <1>6
  <2>2. from + m + n = i + Len(c)
    BY <1>9, <1>14, <2>1
  <2>3. \A u, v, y \in Nat : (u + v + y) - u - v = y
    OBVIOUS
  <2> QED
    BY <2>2, <2>3
<1> QED
  BY <1>3, <1>4, <1>8, <1>9, <1>12, <1>13, <1>14, <1>15, <1>16

\* Of the first n variables: the headers, the path and the query, each with what it was
\* given last.
Ones(pairs) == {<<i>> : i \in 1..Len(pairs)}
HeaderNames(pairs) == [l \in Ones(pairs) |-> Lower(Tail(pairs[l[1]].name))]
GivenNames(pairs) == [l \in Ones(pairs) |-> pairs[l[1]].name]
GivenValues(pairs) == [l \in Ones(pairs) |-> pairs[l[1]].value]
HeaderOnes(pairs, n) == {<<i>> : i \in {j \in 1..n : IsHeader(pairs[j].name)}}
FieldOnes(pairs, n) == {<<i>> : i \in {j \in 1..n : pairs[j].name \in {<<"P">>, <<"Q">>}}}
PairsRead(pairs, n) ==
    /\ LastOnes(HeaderOnes(pairs, n), HeaderNames(pairs), GivenValues(pairs), headers)
    /\ LastOnes(FieldOnes(pairs, n), GivenNames(pairs), GivenValues(pairs), env)

\* The variables as they are seen.
LEMMA PlainIs ==
    ASSUME NEW V, NEW pairs, AreVariables(pairs, V)
    PROVE  /\ Len(Plain(pairs)) = Len(pairs) /\ Len(pairs) \in Nat
           /\ \A i \in 1..Len(pairs) :
                /\ Plain(pairs)[i].name = CString(pairs[i].name)
                /\ Plain(pairs)[i].value = CString(pairs[i].value)
                /\ IsText(CString(pairs[i].value))
<1>1. PICK n \in Nat : n = Len(pairs) /\ DOMAIN pairs = 1..n
  BY LenProperties DEF AreVariables
<1> DEFINE f(i) == [name |-> CString(pairs[i].name), value |-> CString(pairs[i].value)]
<1>2. Plain(pairs) = [i \in 1..n |-> f(i)]
  BY <1>1 DEF Plain
<1>3. \A i \in 1..n : f(i).name = CString(pairs[i].name) /\ f(i).value = CString(pairs[i].value)
  OBVIOUS
<1> HIDE DEF f
<1>4. PICK q : q = [i \in 1..n |-> f(i)]
  OBVIOUS
<1>5. q \in Seq({f(i) : i \in 1..n})
  <2>1. q \in [1..n -> {f(i) : i \in 1..n}]
    BY <1>4
  <2> QED
    BY <2>1, SeqDef
<1>6. PICK k \in Nat : k = Len(q) /\ DOMAIN q = 1..k
  BY <1>5, LenProperties
<1>6b. DOMAIN q = 1..n
  BY <1>4
<1>6c. k = n
  BY <1>6, <1>6b
<1>7. Len(q) = n
  BY <1>6, <1>6c
<1>8. \A i \in 1..n : IsText(CString(pairs[i].value))
  <2> SUFFICES ASSUME NEW i \in 1..n PROVE IsText(CString(pairs[i].value))
    OBVIOUS
  <2>1. PICK v : v = pairs[i].value /\ v \in Seq(V)
    BY <1>1 DEF AreVariables, IsVariable
  <2>2. IsText(v)
    BY <2>1, LenProperties DEF IsText
  <2> QED
    BY <2>1, <2>2, StringIs
<1>9. \A i \in 1..n : q[i] = f(i)
  BY <1>4
<1>10. Plain(pairs) = q
  BY <1>2, <1>4
<1> QED
  BY <1>1, <1>3, <1>7, <1>8, <1>9, <1>10

\* The first of them.
LEMMA PlainFirst ==
    ASSUME NEW V, NEW pairs, AreVariables(pairs, V), NEW n \in Nat, n <= Len(pairs)
    PROVE  SubSeq(Plain(pairs), 1, n) = Plain(SubSeq(pairs, 1, n))
<1> DEFINE f(p) == [name |-> CString(p.name), value |-> CString(p.value)]
           q == Plain(pairs)
           a == SubSeq(q, 1, n)
           b == SubSeq(pairs, 1, n)
<1>1. PICK N \in Nat : N = Len(pairs) /\ DOMAIN pairs = 1..N
  BY LenProperties DEF AreVariables
<1>2. \A i \in 1..N : q[i] = f(pairs[i])
  BY <1>1 DEF Plain
<1>3. DOMAIN b = 1..n /\ (\A i \in 1..n : b[i] = pairs[i])
  <2>1. /\ IsText(b) /\ Len(b) = IF 1 <= n THEN n - 1 + 1 ELSE 0
        /\ \A i \in 1..(n - 1 + 1) : b[i] = pairs[1 + i - 1]
    BY Slice
  <2>2. n - 1 + 1 = n /\ \A i \in 1..n : 1 + i - 1 = i
    OBVIOUS
  <2>3. Len(b) = n
    BY <2>1, <2>2
  <2> HIDE DEF b
  <2> QED
    BY <2>1, <2>2, <2>3 DEF IsText
<1>4. /\ DOMAIN a = 1..n /\ (\A i \in 1..n : a[i] = q[i])
      /\ a = [i \in DOMAIN a |-> a[i]]
  <2> HIDE DEF q
  <2>1. /\ IsText(a) /\ Len(a) = IF 1 <= n THEN n - 1 + 1 ELSE 0
        /\ \A i \in 1..(n - 1 + 1) : a[i] = q[1 + i - 1]
    BY Slice
  <2>2. n - 1 + 1 = n /\ \A i \in 1..n : 1 + i - 1 = i
    OBVIOUS
  <2>3. Len(a) = n
    BY <2>1, <2>2
  <2>4. SubSeq(q, 1, n) = [i \in DOMAIN SubSeq(q, 1, n) |-> SubSeq(q, 1, n)[i]]
    BY SliceIs
  <2>5. a = [i \in DOMAIN a |-> a[i]]
    BY <2>4
  <2> HIDE DEF a
  <2> QED
    BY <2>1, <2>2, <2>3, <2>5 DEF IsText
<1>5. Plain(b) = [i \in DOMAIN b |-> f(b[i])]
  BY DEF Plain
<1>6. \A i \in 1..n : i \in 1..N
  BY <1>1
<1> HIDE DEF f, q, a, b
<1>7. \A i \in 1..n : a[i] = f(b[i])
  BY <1>2, <1>3, <1>4, <1>6
<1>8. a = [i \in 1..n |-> f(b[i])]
  BY <1>4, <1>7
<1>9. Plain(b) = a
  BY <1>3, <1>5, <1>8
<1> QED
  BY <1>9 DEF a, b, q

LEMMA NoPairsYet ==
    ASSUME NEW pairs, headers = <<>>, env = <<>>
    PROVE  PairsRead(pairs, 0)
<1>1. HeaderOnes(pairs, 0) = {} /\ FieldOnes(pairs, 0) = {}
  BY DEF HeaderOnes, FieldOnes
<1> QED
  BY <1>1, NoneYet DEF PairsRead

\* A pair is put into the tables it belongs to.
LEMMA PairStored ==
    ASSUME NEW pairs, Len(pairs) \in Nat, NEW n \in Nat, n < Len(pairs), PairsRead(pairs, n),
           StorePair(pairs[n + 1].name, pairs[n + 1].value)
    PROVE  PairsRead(pairs, n + 1)'
<1> DEFINE x == <<n + 1>>
           S == HeaderOnes(pairs, n)
           F == FieldOnes(pairs, n)
           hn == HeaderNames(pairs)
           gn == GivenNames(pairs)
           gv == GivenValues(pairs)
<1>1. PICK k, v : k = pairs[n + 1].name /\ v = pairs[n + 1].value
  OBVIOUS
<1>2. x \in Ones(pairs) /\ x[1] = n + 1 /\ x[1] \in Int
  BY DEF Ones
<1>3. hn[x] = Lower(Tail(k)) /\ gn[x] = k /\ gv[x] = v
  BY <1>1, <1>2 DEF HeaderNames, GivenNames, GivenValues
<1>4. (\A l \in S : l[1] <= x[1]) /\ (\A l \in F : l[1] <= x[1])
  BY <1>2 DEF HeaderOnes, FieldOnes
<1>5. /\ HeaderOnes(pairs, n + 1) = IF IsHeader(k) THEN S \cup {x} ELSE S
      /\ FieldOnes(pairs, n + 1) = IF k \in {<<"P">>, <<"Q">>} THEN F \cup {x} ELSE F
  <2>1. 1..(n + 1) = 1..n \cup {n + 1}
    OBVIOUS
  <2>2. HeaderOnes(pairs, n + 1) = IF IsHeader(k) THEN S \cup {x} ELSE S
    <3>1. CASE IsHeader(k)
      <4>1. {j \in 1..(n + 1) : IsHeader(pairs[j].name)}
                = {j \in 1..n : IsHeader(pairs[j].name)} \cup {n + 1}
        BY <1>1, <2>1, <3>1
      <4> QED
        BY <3>1, <4>1 DEF HeaderOnes
    <3>2. CASE ~IsHeader(k)
      <4>1. {j \in 1..(n + 1) : IsHeader(pairs[j].name)} = {j \in 1..n : IsHeader(pairs[j].name)}
        BY <1>1, <2>1, <3>2
      <4> QED
        BY <3>2, <4>1 DEF HeaderOnes
    <3> QED
      BY <3>1, <3>2
  <2>3. FieldOnes(pairs, n + 1) = IF k \in {<<"P">>, <<"Q">>} THEN F \cup {x} ELSE F
    <3> DEFINE PQ == {<<"P">>, <<"Q">>}
    <3>0. F = {<<i>> : i \in {j \in 1..n : pairs[j].name \in PQ}}
      BY DEF FieldOnes
    <3>00. FieldOnes(pairs, n + 1) = {<<i>> : i \in {j \in 1..(n + 1) : pairs[j].name \in PQ}}
      BY DEF FieldOnes
    <3> HIDE DEF PQ, F
    <3>1. ASSUME k \in PQ
          PROVE  FieldOnes(pairs, n + 1) = F \cup {x}
      <4>1. {j \in 1..(n + 1) : pairs[j].name \in PQ}
                = {j \in 1..n : pairs[j].name \in PQ} \cup {n + 1}
        BY <1>1, <2>1, <3>1
      <4> QED
        BY <3>0, <3>00, <4>1
    <3>2. ASSUME k \notin PQ
          PROVE  FieldOnes(pairs, n + 1) = F
      <4>1. {j \in 1..(n + 1) : pairs[j].name \in PQ} = {j \in 1..n : pairs[j].name \in PQ}
        BY <1>1, <2>1, <3>2
      <4> QED
        BY <3>0, <3>00, <4>1
    <3>3. FieldOnes(pairs, n + 1) = IF k \in PQ THEN F \cup {x} ELSE F
      BY <3>1, <3>2
    <3> QED
      BY <3>3 DEF PQ
  <2> QED
    BY <2>2, <2>3
<1>6. LastOnes(S, hn, gv, headers) /\ LastOnes(F, gn, gv, env)
  BY DEF PairsRead
<1>7. /\ headers' = IF IsHeader(k) THEN Put(headers, Lower(Tail(k)), v) ELSE headers
      /\ env' = IF k \in {<<"P">>, <<"Q">>} THEN Put(env, k, v) ELSE env
  BY <1>1 DEF StorePair
<1> HIDE DEF x, S, F, hn, gn, gv
<1>8. LastOnes(S \cup {x}, hn, gv, Put(headers, hn[x], gv[x]))
  BY <1>2, <1>4, <1>6, PutLast
<1>9. LastOnes(F \cup {x}, gn, gv, Put(env, gn[x], gv[x]))
  BY <1>2, <1>4, <1>6, PutLast
<1>10. LastOnes(HeaderOnes(pairs, n + 1), hn, gv, headers')
  <2>1. CASE IsHeader(k)
    BY <1>3, <1>5, <1>7, <1>8, <2>1
  <2>2. CASE ~IsHeader(k)
    BY <1>5, <1>6, <1>7, <2>2
  <2> QED
    BY <2>1, <2>2
<1>11. LastOnes(FieldOnes(pairs, n + 1), gn, gv, env')
  <2>1. CASE k \in {<<"P">>, <<"Q">>}
    BY <1>3, <1>5, <1>7, <1>9, <2>1
  <2>2. CASE k \notin {<<"P">>, <<"Q">>}
    BY <1>5, <1>6, <1>7, <2>2
  <2> QED
    BY <2>1, <2>2
<1> QED
  BY <1>10, <1>11 DEF PairsRead, hn, gn, gv

\* The value of a name in a table is the one it was given last.
Numbered(S, n) == \A l \in S : \E i \in 1..n : l = <<i>>
Given(at, S, nm, k, n) == at = {i \in 1..n : <<i>> \in S /\ nm[<<i>>] = k}

LEMMA GivenLast ==
    ASSUME NEW n \in Nat, NEW S, NEW nm, NEW val, NEW table, LastOnes(S, nm, val, table),
           Numbered(S, n), NEW k, NEW at, Given(at, S, nm, k, n)
    PROVE  /\ k \in DOMAIN table <=> at # {}
           /\ at # {} => Max(at) \in at /\ table[k] = val[<<Max(at)>>]
<1> USE DEF Numbered, Given
<1>1. table = [y \in DOMAIN table |-> table[y]] /\ DOMAIN table = {nm[l] : l \in S}
  BY DEF LastOnes
<1>2. k \in DOMAIN table <=> at # {}
  <2>1. ASSUME k \in DOMAIN table
        PROVE  at # {}
    <3>1. PICK l \in S : nm[l] = k
      BY <1>1, <2>1
    <3>2. PICK i \in 1..n : l = <<i>>
      BY <3>1
    <3> QED
      BY <3>1, <3>2
  <2>2. ASSUME at # {}
        PROVE  k \in DOMAIN table
    <3>1. PICK i \in at : TRUE
      BY <2>2
    <3> QED
      BY <1>1, <3>1
  <2> QED
    BY <2>1, <2>2
<1>3. ASSUME at # {}
      PROVE  Max(at) \in at /\ table[k] = val[<<Max(at)>>]
  <2>1. at \subseteq 1..n
    OBVIOUS
  <2>2. PICK m : m = Max(at)
    OBVIOUS
  <2>3. m \in at /\ \A j \in at : j <= m
    BY <1>3, <2>1, <2>2, MaxOf
  <2>4. m \in 1..n /\ <<m>> \in S /\ nm[<<m>>] = k
    BY <2>3
  <2>5. PICK l : l = <<m>> /\ l[1] = m /\ l \in S
    BY <2>4
  <2>6. \A o \in S : nm[o] = nm[l] => o[1] <= l[1]
    <3> SUFFICES ASSUME NEW o \in S, nm[o] = nm[l] PROVE o[1] <= l[1]
      OBVIOUS
    <3>1. PICK i \in 1..n : o = <<i>>
      OBVIOUS
    <3>2. i \in at /\ o[1] = i
      BY <2>4, <2>5, <3>1
    <3> QED
      BY <2>3, <2>5, <3>2
  <2>7. \A o \in S : o[1] \in Int
    <3> SUFFICES ASSUME NEW o \in S PROVE o[1] \in Int
      OBVIOUS
    <3>1. PICK i \in 1..n : o = <<i>>
      OBVIOUS
    <3> QED
      BY <3>1
  <2>8. \A o, p \in S : o[1] = p[1] => o = p
    <3> SUFFICES ASSUME NEW o \in S, NEW p \in S, o[1] = p[1] PROVE o = p
      OBVIOUS
    <3>1. PICK i \in 1..n, j \in 1..n : o = <<i>> /\ p = <<j>>
      OBVIOUS
    <3> QED
      BY <3>1
  <2>9. table[nm[l]] = val[l]
    BY <2>5, <2>6, <2>7, <2>8, LastIs
  <2> QED
    BY <2>2, <2>3, <2>4, <2>5, <2>9
<1> QED
  BY <1>2, <1>3

\* What was read of the first n variables is what they mean.
LEMMA HeadersAreMeant ==
    ASSUME NEW pairs, Len(pairs) \in Nat, NEW n \in Nat, n <= Len(pairs), PairsRead(pairs, n)
    PROVE  headers = HeadersMeant(SubSeq(pairs, 1, n))
<1> DEFINE p == SubSeq(pairs, 1, n)
           S == HeaderOnes(pairs, n)
           nm == HeaderNames(pairs)
           val == GivenValues(pairs)
           At(h) == {i \in DOMAIN p : IsHeader(p[i].name) /\ Lower(Tail(p[i].name)) = h}
           keys == {Lower(Tail(p[i].name)) : i \in {j \in DOMAIN p : IsHeader(p[j].name)}}
<1>1. DOMAIN p = 1..n /\ \A i \in 1..n : p[i] = pairs[i] /\ <<i>> \in Ones(pairs)
  <2>1. DOMAIN p = 1..n /\ \A i \in 1..n : p[i] = pairs[i]
    BY Slice DEF IsText
  <2>2. \A i \in 1..n : <<i>> \in Ones(pairs)
    BY DEF Ones
  <2> QED
    BY <2>1, <2>2
<1>2. LastOnes(S, nm, val, headers)
  BY DEF PairsRead
<1>3. \A l \in S : \E i \in 1..n : l = <<i>>
  BY DEF HeaderOnes
<1>4. \A i \in 1..n : /\ nm[<<i>>] = Lower(Tail(p[i].name)) /\ val[<<i>>] = p[i].value
                      /\ <<i>> \in S <=> IsHeader(p[i].name)
  <2>1. \A i \in 1..n : nm[<<i>>] = Lower(Tail(p[i].name)) /\ val[<<i>>] = p[i].value
    BY <1>1 DEF HeaderNames, GivenValues
  <2>2. \A i \in 1..n : <<i>> \in S <=> IsHeader(p[i].name)
    <3>1. S = {<<i>> : i \in {j \in 1..n : IsHeader(p[j].name)}}
      BY <1>1 DEF HeaderOnes
    <3>2. \A i, j \in 1..n : <<i>> = <<j>> => i = j
      OBVIOUS
    <3> QED
      BY <3>1, <3>2
  <2> QED
    BY <2>1, <2>2
<1>5. HeadersMeant(p) = [h \in keys |-> IF At(h) = {} THEN Null ELSE p[Max(At(h))].value]
  BY DEF HeadersMeant, ValueOf
<1>6. \A h : At(h) = {i \in 1..n : <<i>> \in S /\ nm[<<i>>] = h}
  BY <1>1, <1>4
<1>7. \A h : h \in keys <=> At(h) # {}
  OBVIOUS
<1>8. headers = [y \in DOMAIN headers |-> headers[y]]
  BY <1>2 DEF LastOnes
<1> HIDE DEF p, S, nm, val, At, keys
<1>9. ASSUME NEW h
      PROVE  /\ h \in DOMAIN headers <=> h \in keys
             /\ h \in keys => headers[h] = p[Max(At(h))].value /\ At(h) # {}
  <2>1. PICK at : at = At(h)
    OBVIOUS
  <2>6. at = {i \in 1..n : <<i>> \in S /\ nm[<<i>>] = h}
    BY <1>6, <2>1
  <2>2. Given(at, S, nm, h, n) /\ Numbered(S, n)
    BY <1>3, <2>6 DEF Given, Numbered
  <2>3. /\ h \in DOMAIN headers <=> at # {}
        /\ at # {} => Max(at) \in at /\ headers[h] = val[<<Max(at)>>]
    BY <1>2, <2>2, GivenLast
  <2>4. at # {} => Max(at) \in 1..n
    BY <2>3, <2>6
  <2>5. at # {} => headers[h] = p[Max(at)].value
    BY <1>4, <2>3, <2>4
  <2> QED
    BY <1>7, <2>1, <2>3, <2>5
<1>10. headers = [h \in keys |-> IF At(h) = {} THEN Null ELSE p[Max(At(h))].value]
  <2>1. DOMAIN headers = keys
    BY <1>8, <1>9
  <2>2. \A h \in keys : headers[h] = IF At(h) = {} THEN Null ELSE p[Max(At(h))].value
    BY <1>9
  <2> QED
    BY <1>8, <2>1, <2>2
<1> QED
  BY <1>5, <1>10 DEF p

LEMMA FieldIsMeant ==
    ASSUME NEW pairs, Len(pairs) \in Nat, NEW n \in Nat, n <= Len(pairs), PairsRead(pairs, n),
           NEW k \in {<<"P">>, <<"Q">>}
    PROVE  Field(k) = ValueOf(SubSeq(pairs, 1, n), LAMBDA name : name = k)
<1> DEFINE p == SubSeq(pairs, 1, n)
           S == FieldOnes(pairs, n)
           nm == GivenNames(pairs)
           val == GivenValues(pairs)
           at == {i \in DOMAIN p : p[i].name = k}
<1>1. DOMAIN p = 1..n /\ \A i \in 1..n : p[i] = pairs[i] /\ <<i>> \in Ones(pairs)
  <2>1. DOMAIN p = 1..n /\ \A i \in 1..n : p[i] = pairs[i]
    BY Slice DEF IsText
  <2>2. \A i \in 1..n : <<i>> \in Ones(pairs)
    BY DEF Ones
  <2> QED
    BY <2>1, <2>2
<1>2. LastOnes(S, nm, val, env)
  BY DEF PairsRead
<1>3. \A l \in S : \E i \in 1..n : l = <<i>>
  BY DEF FieldOnes
<1>4. \A i \in 1..n : /\ nm[<<i>>] = p[i].name /\ val[<<i>>] = p[i].value
                      /\ p[i].name = k => <<i>> \in S
  <2>1. \A i \in 1..n : nm[<<i>>] = p[i].name /\ val[<<i>>] = p[i].value
    BY <1>1 DEF GivenNames, GivenValues
  <2>2. \A i \in 1..n : p[i].name = k => <<i>> \in S
    BY <1>1 DEF FieldOnes
  <2> QED
    BY <2>1, <2>2
<1>5. ValueOf(p, LAMBDA name : name = k) = IF at = {} THEN Null ELSE p[Max(at)].value
  BY DEF ValueOf
<1>6. at = {i \in 1..n : <<i>> \in S /\ nm[<<i>>] = k}
  BY <1>1, <1>4
<1> HIDE DEF p, S, nm, val, at
<1>7. /\ k \in DOMAIN env <=> at # {}
      /\ at # {} => Max(at) \in at /\ env[k] = val[<<Max(at)>>]
  <2>1. Given(at, S, nm, k, n) /\ Numbered(S, n)
    BY <1>3, <1>6 DEF Given, Numbered
  <2> QED
    BY <1>2, <2>1, GivenLast
<1>8. at # {} => Max(at) \in 1..n
  BY <1>6, <1>7
<1>9. at # {} => env[k] = p[Max(at)].value
  BY <1>4, <1>7, <1>8
<1>10. Field(k) = IF at = {} THEN Null ELSE p[Max(at)].value
  BY <1>7, <1>9 DEF Field
<1> QED
  BY <1>5, <1>10 DEF p

\* What stands in the tables are values that were sent, so the length is a number.
LEMMA LengthMeant ==
    ASSUME NEW pairs, Len(pairs) \in Nat, \A i \in 1..Len(pairs) : IsText(pairs[i].value),
           NEW n \in Nat, n <= Len(pairs), PairsRead(pairs, n)
    PROVE  LengthOf(headers, <<"c">>) \in Nat
<1>1. ASSUME <<"c">> \in DOMAIN headers
      PROVE  IsText(headers[<<"c">>])
  <2> DEFINE S == HeaderOnes(pairs, n)
             nm == HeaderNames(pairs)
             val == GivenValues(pairs)
  <2>1. LastOnes(S, nm, val, headers)
    BY DEF PairsRead
  <2>2. \A m \in S : \E i \in 1..n : m = <<i>>
    BY DEF HeaderOnes
  <2> HIDE DEF S, nm
  <2>3. PICK l \in S : nm[l] = <<"c">>
    BY <1>1, <2>1 DEF LastOnes
  <2>4. PICK m \in S : headers[<<"c">>] = val[m]
    BY <2>1, <2>3 DEF LastOnes
  <2>5. PICK i \in 1..n : m = <<i>>
    BY <2>2, <2>4
  <2>7. i \in 1..Len(pairs) /\ m \in Ones(pairs) /\ m[1] = i
    BY <2>5 DEF Ones
  <2>8. val[m] = pairs[i].value
    BY <2>7 DEF GivenValues
  <2>9. IsText(pairs[i].value)
    BY <2>7
  <2> QED
    BY <2>4, <2>8, <2>9
<1> QED
  BY <1>1, NumberOfText

LEMMA AllOnes ==
    ASSUME NEW V, NEW pairs, AreVariables(pairs, V)
    PROVE  Len(pairs) \in Nat /\ FirstOnes(pairs, Len(pairs)) = Encoded(pairs)
BY LenProperties, SubSeqFull DEF FirstOnes, AreVariables

\* One turn of the loop reads the next variable, or the stream ends within it.
LEMMA PairTurn ==
    ASSUME StreamOK, ParamsSent, service = "fcgi", NEW n \in Nat, n <= Len(meant),
           pos = Len(FirstOnes(meant, n)), pos <= Len(stream), PairsRead(Plain(meant), n), fault = {},
           ReadPair
    PROVE  /\ n < Len(meant)
           /\ \/ /\ pos' = Len(FirstOnes(meant, n + 1)) /\ pos' <= Len(stream)
                 /\ pc' = "pair" /\ fault' = {} /\ PairsRead(Plain(meant), n + 1)'
              \/ /\ Len(FirstOnes(meant, n + 1)) > Len(stream) /\ pos < Len(stream)
                 /\ \/ pc' = "rejected" /\ fault' = {}
                    \/ pc' \in {"pair", "crashed"} /\ fault' # {}
<1> DEFINE V == AllBytes(meant)
<1>1. /\ AreVariables(meant, V) /\ Len(stream) <= Len(Encoded(meant))
      /\ \A i \in 1..Len(stream) : stream[i] = Encoded(meant)[i]
  BY DEF ParamsSent
<1> HIDE DEF V
<1>2. PICK L \in Nat : L = Len(stream)
  BY TextIsText DEF IsText
<1>3. pc = "pair" /\ pos < L
  BY <1>2 DEF ReadPair
<1>4. PICK N \in Nat : N = Len(meant) /\ FirstOnes(meant, N) = Encoded(meant)
  BY <1>1, AllOnes
<1>5. n < N
  <2>1. N \in Nat /\ Len(FirstOnes(meant, N)) \in Nat /\ Len(FirstOnes(meant, n)) \in Nat
    BY <1>1, <1>4, FirstOnesBegin
  <2>2. CASE n = N
    BY <1>1, <1>2, <1>3, <1>4, <2>1, <2>2
  <2> QED
    BY <1>4, <2>2
<1>6. PICK p, E : p = meant[n + 1] /\ E = Encoded(meant)
  OBVIOUS
<1>7. /\ IsVariable(p, V) /\ pos \in Nat
      /\ Len(FirstOnes(meant, n + 1)) = pos + Len(Code(p))
      /\ \A i \in 1..Len(Code(p)) : E[pos + i] = Code(p)[i]
  BY <1>1, <1>4, <1>5, <1>6, PairIs
<1>8. Bytes(V)
  BY <1>1 DEF AreVariables
<1>9. PICK c : c = Code(p)
  OBVIOUS
<1>9b. PICK b \in Nat : b = Len(Code(p))
  BY <1>7, <1>8, CodeIs, LenProperties
<1>10. ASSUME NEW k \in 1..b, pos + k <= L
       PROVE  stream[pos + k] = c[k]
  <2>1. PICK i \in 1..L : i = pos + k
    BY <1>7, <1>10
  <2>2. stream[i] = E[i]
    BY <1>1, <1>2, <1>6, <2>1
  <2>3. E[pos + k] = c[k]
    BY <1>7, <1>9, <1>9b
  <2> QED
    BY <2>1, <2>2, <2>3
<1>11. PICK i \in Nat : i = pos
  BY <1>7
<1>12. PICK j, from, a, to : /\ j = i + Width(i) /\ from = j + Width(j) /\ a = LengthAt(i)
                             /\ to = from + a + LengthAt(j)
  OBVIOUS
<1>13. /\ CutShort(i) \/ CutShort(j) => i + b > L
       /\ ~CutShort(i) /\ ~CutShort(j) =>
             /\ to = i + b
             /\ i + b <= L =>
                   /\ Strings(from, a) = {CString(p.name)}
                   /\ Strings(from + a, to - from - a) = {CString(p.value)}
                   /\ ~PastData(from, a) /\ ~PastData(from + a, to - from - a)
  <2>1. \A k \in 1..Len(Code(p)) : i + k <= Len(stream) => stream[i + k] = Code(p)[k]
    BY <1>2, <1>9, <1>9b, <1>10, <1>11
  <2>2. i < Len(stream)
    BY <1>2, <1>3, <1>11
  <2>3. LET v == i + Width(i)
            f == v + Width(v)
            u == f + LengthAt(i) + LengthAt(v)
        IN /\ CutShort(i) \/ CutShort(v) => i + Len(Code(p)) > Len(stream)
           /\ ~CutShort(i) /\ ~CutShort(v) =>
                 /\ u = i + Len(Code(p))
                 /\ i + Len(Code(p)) <= Len(stream) =>
                       /\ Strings(f, LengthAt(i)) = {CString(p.name)}
                       /\ Strings(f + LengthAt(i), u - f - LengthAt(i)) = {CString(p.value)}
                       /\ ~PastData(f, LengthAt(i))
                       /\ ~PastData(f + LengthAt(i), u - f - LengthAt(i))
    BY <1>7, <1>8, <2>1, <2>2, PairReads
  <2> QED
    BY <1>2, <1>9, <1>9b, <1>12, <2>3
<1>14. \/ (CutShort(i) \/ CutShort(j)) /\ pc' = "rejected" /\ fault' = {}
       \/ /\ ~CutShort(i) /\ ~CutShort(j) /\ pos' = to
          /\ fault' = IF to > L THEN {"past_params"} ELSE {}
          /\ \/ /\ pc' = "pair"
                /\ \E k \in Strings(from, a), v \in Strings(from + a, to - from - a) : StorePair(k, v)
             \/ /\ PastData(from, a) \/ PastData(from + a, to - from - a)
                /\ pc' = "crashed"
  BY <1>2, <1>3, <1>11, <1>12 DEF ReadPair
<1>15. meant' = meant
  BY DEF ReadPair, input
<1>16. CASE (CutShort(i) \/ CutShort(j)) /\ pc' = "rejected" /\ fault' = {}
  BY <1>2, <1>3, <1>4, <1>5, <1>7, <1>9, <1>9b, <1>11, <1>13, <1>16
<1>17. CASE ~CutShort(i) /\ ~CutShort(j) /\ ~(i + b <= L)
  <2>1. to = i + b /\ i + b > L
    BY <1>13, <1>17
  <2>2. fault' = {"past_params"} /\ pc' \in {"pair", "crashed"}
    BY <1>14, <1>17, <2>1
  <2> QED
    BY <1>2, <1>3, <1>4, <1>5, <1>7, <1>9, <1>9b, <1>11, <2>1, <2>2
<1>18. CASE ~CutShort(i) /\ ~CutShort(j) /\ i + b <= L
  <2>0. /\ to = i + b
        /\ Strings(from, a) = {CString(p.name)}
        /\ Strings(from + a, to - from - a) = {CString(p.value)}
        /\ ~PastData(from, a) /\ ~PastData(from + a, to - from - a)
    BY <1>13, <1>18
  <2>1. ~(to > L)
    BY <1>18, <2>0
  <2>2. pos' = i + b /\ fault' = {} /\ pc' = "pair" /\ StorePair(CString(p.name), CString(p.value))
    BY <1>14, <1>18, <2>0, <2>1
  <2>a. PICK q : q = Plain(meant) /\ q' = q
    BY <1>15, Zenon DEF Plain
  <2>3. n < Len(q) /\ Len(q) \in Nat
    BY <1>1, <1>4, <1>5, <2>a, PlainIs
  <2>4. StorePair(q[n + 1].name, q[n + 1].value)
    <3>1. n + 1 \in 1..Len(meant)
      BY <1>4, <1>5
    <3>2. q[n + 1].name = CString(p.name) /\ q[n + 1].value = CString(p.value)
      BY <1>1, <1>6, <2>a, <3>1, PlainIs
    <3> QED
      BY <2>2, <3>2
  <2>5. PairsRead(Plain(meant), n + 1)'
    <3>1. PairsRead(q, n)
      BY <2>a
    <3>2. PairsRead(q, n + 1)'
      BY <2>3, <2>4, <3>1, PairStored
    <3> QED
      BY <1>15, <2>a, <3>2
  <2> QED
    BY <1>2, <1>4, <1>5, <1>7, <1>9, <1>9b, <1>11, <1>18, <2>2, <2>5
<1> QED
  BY <1>14, <1>16, <1>17, <1>18

\* So many whole variables were read.
PairsDone(n) ==
    /\ n <= Len(meant) /\ pos = Len(FirstOnes(meant, n)) /\ pos <= Len(stream)
    /\ PairsRead(Plain(meant), n)

\* The request is made of these variables, and of the data of STDIN.
MadeOf(sent, pairs) ==
    LET len == LengthOf(HeadersMeant(pairs), <<"c">>)
    IN /\ stream = Encoded(sent)
       /\ path = ValueOf(pairs, LAMBDA name : name = <<"P">>)
       /\ query = ValueOf(pairs, LAMBDA name : name = <<"Q">>)
       /\ headers = HeadersMeant(pairs)
       /\ body = SubSeq(stdin, 1, IF len <= Len(stdin) THEN len ELSE 0)

NotWholePairs == \A n \in 0..Len(meant) : stream # FirstOnes(meant, n)

FcgiOK ==
    service = "fcgi" =>
        /\ pc \in {"pair", "parsed", "rejected", "crashed"}
        /\ pc = "pair" /\ fault = {} => \E n \in Nat : PairsDone(n)
        /\ pc = "parsed" /\ fault = {} =>
              \E n, sent, pairs : /\ n \in 0..Len(meant) /\ sent = SubSeq(meant, 1, n)
                                  /\ pairs = Plain(sent) /\ MadeOf(sent, pairs)
        /\ pc \in {"rejected", "crashed"} \/ fault # {} => NotWholePairs

LEMMA EndsBetween ==
    ASSUME NEW V, AreVariables(meant, V), NEW n \in Nat, n < Len(meant),
           NEW i \in Nat, i = Len(FirstOnes(meant, n)), NEW L \in Nat, L = Len(stream),
           i < L, Len(FirstOnes(meant, n + 1)) > L
    PROVE  NotWholePairs
<1>1. PICK N \in Nat : N = Len(meant)
  BY AllOnes
<1>2. PICK k \in Nat : k = n + 1 /\ k <= N
  BY <1>1
<1>3. ASSUME NEW m \in 0..N, stream = FirstOnes(meant, m)
      PROVE  FALSE
  <2>1. m \in Nat /\ m <= N /\ L = Len(FirstOnes(meant, m))
    BY <1>1, <1>3
  <2>2. CASE m <= n
    <3>1. /\ Len(FirstOnes(meant, m)) <= Len(FirstOnes(meant, n))
      BY <1>1, <2>1, <2>2, FirstOnesBegin
    <3> QED
      BY <2>1, <3>1
  <2>3. CASE ~(m <= n)
    <3>1. k <= m
      BY <1>2, <2>1, <2>3
    <3>2. /\ Len(FirstOnes(meant, k)) \in Nat
          /\ Len(FirstOnes(meant, k)) <= Len(FirstOnes(meant, m))
      BY <1>1, <2>1, <3>1, FirstOnesBegin
    <3>3. Len(FirstOnes(meant, k)) > L
      BY <1>2
    <3> QED
      BY <2>1, <3>2, <3>3
  <2> QED
    BY <2>2, <2>3
<1> QED
  BY <1>1, <1>3 DEF NotWholePairs

LEMMA ReadPairKeeps ==
    ASSUME StreamOK, ParamsSent, FcgiOK, ReadPair, service = "fcgi"
    PROVE  FcgiOK'
<1>1. /\ meant' = meant /\ stream' = stream /\ service' = service /\ stdin' = stdin /\ pc = "pair"
      /\ fault \subseteq fault' /\ pc' \in {"pair", "rejected", "crashed"}
  BY DEF ReadPair, input
<1>2. NotWholePairs' <=> NotWholePairs
  BY <1>1 DEF NotWholePairs
<1>3. CASE fault # {}
  <2>1. NotWholePairs /\ fault' # {}
    BY <1>1, <1>3 DEF FcgiOK
  <2> QED
    BY <1>1, <1>2, <2>1 DEF FcgiOK
<1>4. CASE fault = {}
  <2>1. PICK n \in Nat : PairsDone(n)
    BY <1>1, <1>4 DEF FcgiOK
  <2>2. /\ n < Len(meant)
        /\ \/ /\ pos' = Len(FirstOnes(meant, n + 1)) /\ pos' <= Len(stream)
              /\ pc' = "pair" /\ fault' = {} /\ PairsRead(Plain(meant), n + 1)'
           \/ /\ Len(FirstOnes(meant, n + 1)) > Len(stream) /\ pos < Len(stream)
              /\ \/ pc' = "rejected" /\ fault' = {}
                 \/ pc' \in {"pair", "crashed"} /\ fault' # {}
    BY <1>4, <2>1, PairTurn DEF PairsDone
  <2>3. AreVariables(meant, AllBytes(meant))
    BY DEF ParamsSent
  <2>4. PICK N \in Nat, L \in Nat : N = Len(meant) /\ L = Len(stream)
    BY <2>3, AllOnes, TextIsText DEF IsText
  <2>5. CASE /\ pos' = Len(FirstOnes(meant, n + 1)) /\ pos' <= Len(stream)
             /\ pc' = "pair" /\ fault' = {} /\ PairsRead(Plain(meant), n + 1)'
    <3>1. PICK m \in Nat : m = n + 1 /\ m <= N
      BY <2>2, <2>4
    <3>2. pos' = Len(FirstOnes(meant, m)) /\ PairsRead(Plain(meant), m)'
      BY <2>5, <3>1
    <3>3. FirstOnes(meant', m) = FirstOnes(meant, m)
      BY <1>1
    <3>4. PairsDone(m)'
      BY <1>1, <2>4, <2>5, <3>1, <3>2, <3>3 DEF PairsDone
    <3> QED
      BY <2>5, <3>4 DEF FcgiOK
  <2>6. CASE /\ Len(FirstOnes(meant, n + 1)) > Len(stream) /\ pos < Len(stream)
             /\ \/ pc' = "rejected" /\ fault' = {}
                \/ pc' \in {"pair", "crashed"} /\ fault' # {}
    <3>1. PICK i \in Nat : i = Len(FirstOnes(meant, n)) /\ i = pos
      BY <2>1, <2>2, <2>3, <2>4, FirstOnesBegin DEF PairsDone
    <3>2. NotWholePairs
      BY <2>2, <2>3, <2>4, <2>6, <3>1, EndsBetween
    <3> QED
      BY <1>1, <1>2, <2>6, <3>2 DEF FcgiOK
  <2> QED
    BY <2>2, <2>5, <2>6
<1> QED
  BY <1>3, <1>4

\* All of the data was read: it is the code of the variables that were read.
LEMMA WholePairs ==
    ASSUME StreamOK, ParamsSent, service = "fcgi", NEW n \in Nat, PairsDone(n),
           pos >= Len(stream)
    PROVE  stream = FirstOnes(meant, n)
<1>1. /\ AreVariables(meant, AllBytes(meant)) /\ Len(stream) <= Len(Encoded(meant))
      /\ \A i \in 1..Len(stream) : stream[i] = Encoded(meant)[i]
  BY DEF ParamsSent
<1>2. PICK N \in Nat, L \in Nat : N = Len(meant) /\ L = Len(stream) /\ n <= N
                                  /\ FirstOnes(meant, N) = Encoded(meant)
  BY <1>1, AllOnes, TextIsText DEF IsText, PairsDone
<1>3. PICK F : F = FirstOnes(meant, n)
  OBVIOUS
<1>4. Len(F) \in Nat /\ \A i \in 1..Len(F) : Encoded(meant)[i] = F[i]
  <2>1. /\ Len(FirstOnes(meant, n)) \in Nat
        /\ \A i \in 1..Len(FirstOnes(meant, n)) : FirstOnes(meant, N)[i] = FirstOnes(meant, n)[i]
    BY <1>1, <1>2, FirstOnesBegin
  <2> QED
    BY <1>2, <1>3, <2>1
<1>5. Len(F) = L
  BY <1>2, <1>3, <1>4 DEF PairsDone
<1>6. \A i \in 1..L : stream[i] = F[i]
  BY <1>1, <1>2, <1>4, <1>5
<1>7. F = [i \in 1..L |-> F[i]]
  <2>1. F \in Seq(AllBytes(meant))
    BY <1>1, <1>2, <1>3, FirstOnesAre
  <2>2. F \in [1..Len(F) -> AllBytes(meant)]
    BY <2>1, LenProperties
  <2> QED
    BY <1>5, <2>2
<1>8. stream = [i \in 1..L |-> stream[i]]
  <2>1. PICK s, S : s = stream /\ S = ToSet(stream) /\ s \in Seq(S)
    BY DEF StreamOK
  <2>2. s \in [1..Len(s) -> S]
    BY <2>1, LenProperties
  <2> QED
    BY <1>2, <2>1, <2>2
<1> QED
  BY <1>3, <1>6, <1>7, <1>8

LEMMA MakeRequestKeeps ==
    ASSUME StreamOK, ParamsSent, FcgiOK, MakeRequest, service = "fcgi"
    PROVE  FcgiOK'
<1>1. /\ meant' = meant /\ stream' = stream /\ service' = service /\ stdin' = stdin /\ pc = "pair"
      /\ fault' = fault /\ pc' = "parsed" /\ headers' = headers
      /\ path' = Field(<<"P">>) /\ query' = Field(<<"Q">>) /\ pos >= Len(stream)
      /\ content_length' = LengthOf(headers, <<"c">>)
      /\ body' = IF content_length' > 0 /\ content_length' <= Len(stdin)
                 THEN SubSeq(stdin, 1, content_length') ELSE <<>>
  BY DEF MakeRequest, input, BodyTaken
<1>2. NotWholePairs' <=> NotWholePairs
  BY <1>1 DEF NotWholePairs
<1>3. CASE fault # {}
  BY <1>1, <1>2, <1>3 DEF FcgiOK
<1>4. CASE fault = {}
  <2>1. PICK n \in Nat : PairsDone(n)
    BY <1>1, <1>4 DEF FcgiOK
  <2>2. AreVariables(meant, AllBytes(meant))
    BY DEF ParamsSent
  <2>3. PICK N \in Nat : N = Len(meant) /\ n <= N
    BY <2>1, <2>2, AllOnes DEF PairsDone
  <2>a. PICK q : q = Plain(meant)
    OBVIOUS
  <2>b. /\ Len(q) \in Nat /\ n <= Len(q) /\ PairsRead(q, n)
        /\ \A i \in 1..Len(q) : IsText(q[i].value)
    BY <2>1, <2>2, <2>3, <2>a, PlainIs DEF PairsDone
  <2>4. PICK len \in Nat : len = LengthOf(headers, <<"c">>)
    BY <2>b, LengthMeant
  <2>5. PICK sent : sent = SubSeq(meant, 1, n)
    OBVIOUS
  <2>c. PICK pairs : pairs = Plain(sent) /\ pairs = SubSeq(q, 1, n)
    BY <2>2, <2>3, <2>5, <2>a, PlainFirst
  <2>6. stream = Encoded(sent)
    BY <1>1, <2>1, <2>5, WholePairs DEF FirstOnes
  <2>7. headers = HeadersMeant(pairs)
    BY <2>b, <2>c, HeadersAreMeant
  <2>8. Field(<<"P">>) = ValueOf(pairs, LAMBDA name : name = <<"P">>)
    BY <2>b, <2>c, FieldIsMeant
  <2>9. Field(<<"Q">>) = ValueOf(pairs, LAMBDA name : name = <<"Q">>)
    BY <2>b, <2>c, FieldIsMeant
  <2>10. body' = SubSeq(stdin, 1, IF len <= Len(stdin) THEN len ELSE 0)
    <3>1. SubSeq(stdin, 1, 0) = <<>>
      BY SubSeqEmpty
    <3>2. CASE len > 0 /\ len <= Len(stdin)
      BY <1>1, <2>4, <3>2
    <3>3. CASE len > 0 /\ ~(len <= Len(stdin))
      BY <1>1, <2>4, <3>1, <3>3
    <3>4. CASE ~(len > 0)
      <4>1. len = 0
        BY <3>4
      <4> QED
        BY <1>1, <2>4, <3>1, <4>1
    <3> QED
      BY <3>2, <3>3, <3>4
  <2>11. MadeOf(sent, pairs)'
    <3>2. len = LengthOf(HeadersMeant(pairs), <<"c">>)
      BY <2>4, <2>7
    <3>3. /\ stream' = Encoded(sent) /\ headers' = HeadersMeant(pairs)
          /\ body' = SubSeq(stdin', 1, IF LengthOf(HeadersMeant(pairs), <<"c">>) <= Len(stdin')
                                      THEN LengthOf(HeadersMeant(pairs), <<"c">>) ELSE 0)
      BY <1>1, <2>6, <2>7, <2>10, <3>2
    <3>4. path' = ValueOf(pairs, LAMBDA name : name = <<"P">>)
      BY <1>1, <2>8, Zenon
    <3>5. query' = ValueOf(pairs, LAMBDA name : name = <<"Q">>)
      BY <1>1, <2>9, Zenon
    <3> QED
      BY <3>3, <3>4, <3>5 DEF MadeOf, ValueOf
  <2>12. n \in 0..Len(meant') /\ sent = SubSeq(meant', 1, n) /\ pairs = Plain(sent)
    BY <1>1, <2>3, <2>5, <2>c
  <2> QED
    BY <1>1, <1>4, <2>11, <2>12 DEF FcgiOK
<1> QED
  BY <1>3, <1>4

LEMMA InputStays ==
    ASSUME [Next]_vars
    PROVE  meant' = meant /\ stdin' = stdin /\ stream' = stream /\ service' = service
<1>1. CASE UNCHANGED vars
  BY <1>1 DEF vars, input
<1>2. CASE ReadLength \/ ReadKey \/ ReadValue \/ ReadComma
  BY <1>2 DEF ReadLength, ReadKey, ReadValue, ReadComma, input
<1>3. CASE RequestLine \/ HeaderLine \/ FreedLine
  BY <1>3 DEF RequestLine, HeaderLine, FreedLine, input
<1>4. CASE ReadBody
  BY <1>4 DEF ReadBody, input
<1>5. CASE Finish
  BY <1>5 DEF Finish, input
<1>6. CASE ReadPair
  BY <1>6 DEF ReadPair, input
<1>7. CASE MakeRequest
  BY <1>7 DEF MakeRequest, input
<1>8. CASE ReadEnviron \/ ReadStdin
  BY <1>8 DEF ReadEnviron, ReadStdin, input
<1> QED
  BY <1>1, <1>2, <1>3, <1>4, <1>5, <1>6, <1>7, <1>8 DEF Next

\* A sequence is one of any set that has its elements.
LEMMA InLargerSet ==
    ASSUME NEW s, s \in Seq(ToSet(s)), NEW V, ToSet(s) \subseteq V
    PROVE  s \in Seq(V)
<1>1. PICK S : S = ToSet(s) /\ s \in Seq(S) /\ S \subseteq V
  OBVIOUS
<1>2. Len(s) \in Nat /\ s \in [1..Len(s) -> S]
  BY <1>1, LenProperties
<1>3. s \in [1..Len(s) -> V]
  BY <1>1, <1>2
<1> QED
  BY <1>2, <1>3, SeqDef

LEMMA IsAnItem ==
    ASSUME NEW s, s \in Seq(ToSet(s)), NEW i \in 1..Len(s)
    PROVE  s[i] \in ToSet(s)
<1>1. PICK S : S = ToSet(s) /\ s \in Seq(S)
  OBVIOUS
<1>2. s[i] \in S
  BY <1>1, ElementOfSeq
<1> QED
  BY <1>1, <1>2

LEMMA ParamsBegin ==
    ASSUME Init
    PROVE  ParamsSent
<1> SUFFICES ASSUME service = "fcgi" PROVE ParamsSent
  BY DEF ParamsSent
<1>1. PICK m \in Sent : /\ m.service = "fcgi" /\ meant = m.pairs
                        /\ \E n \in 0..Len(m.bytes) : stream = SubSeq(m.bytes, 1, n)
  BY DEF Init
<1>2. /\ meant \in Seq(ToSet(meant)) /\ m.bytes = Encoded(meant)
      /\ \A p \in ToSet(meant) : /\ p.name \in Seq(ToSet(p.name))
                                 /\ p.value \in Seq(ToSet(p.value))
                                 /\ Len(p.name) <= MaxInt /\ Len(p.value) <= MaxInt
  BY <1>1, VariablesAssumption
<1>3. PICK s : s = m.bytes /\ s \in Seq(ToSet(s))
  BY StreamsAssumption
<1>4. PICK n \in 0..Len(s) : stream = SubSeq(s, 1, n)
  BY <1>1, <1>3
<1>5. Len(s) \in Nat
  BY <1>3, LenProperties
<1>6. Len(stream) = n /\ \A i \in 1..n : stream[i] = s[i]
  <2>1. n \in Int /\ n >= 0
    BY <1>4, <1>5
  <2>2. Len(stream) = IF 1 <= n THEN n - 1 + 1 ELSE 0
    BY <1>4, <2>1, Slice
  <2>3. \A i \in 1..(n - 1 + 1) : stream[i] = s[1 + i - 1]
    BY <1>4, <2>1, Slice
  <2> QED
    BY <2>1, <2>2, <2>3
<1>7. PICK V : V = AllBytes(meant)
  OBVIOUS
<1>8. Bytes(V)
  BY <1>7 DEF AllBytes, Bytes
<1>9. ASSUME NEW i \in 1..Len(meant)
      PROVE  IsVariable(meant[i], V)
  <2>1. PICK p : p = meant[i]
    OBVIOUS
  <2>2. p \in ToSet(meant)
    <3>1. meant \in Seq(ToSet(meant))
      BY <1>2
    <3> QED
      BY <2>1, <3>1, IsAnItem
  <2>3. ToSet(p.name) \subseteq V /\ ToSet(p.value) \subseteq V
    <3>1. PICK F : F = {ToSet(meant[j].name) \cup ToSet(meant[j].value) : j \in 1..Len(meant)}
      OBVIOUS
    <3>2. ToSet(p.name) \cup ToSet(p.value) \in F
      BY <2>1, <3>1
    <3>3. UNION F \subseteq V
      BY <1>7, <3>1, Zenon DEF AllBytes
    <3>4. ToSet(p.name) \cup ToSet(p.value) \subseteq UNION F
      BY <3>2, Zenon
    <3> QED
      BY <3>3, <3>4, Zenon
  <2>4. p.name \in Seq(V) /\ p.value \in Seq(V)
    BY <1>2, <2>2, <2>3, InLargerSet
  <2> QED
    BY <1>2, <2>1, <2>2, <2>4 DEF IsVariable
<1>10. AreVariables(meant, V)
  BY <1>2, <1>8, <1>9 DEF AreVariables
<1> QED
  BY <1>2, <1>3, <1>4, <1>5, <1>6, <1>7, <1>10 DEF ParamsSent

LEMMA ParamsStay ==
    ASSUME ParamsSent, [Next]_vars
    PROVE  ParamsSent'
BY InputStays DEF ParamsSent

LEMMA FcgiBegins ==
    ASSUME Init, ParamsSent
    PROVE  FcgiOK
<1> SUFFICES ASSUME service = "fcgi" PROVE FcgiOK
  BY DEF FcgiOK
<1>1. pos = 0 /\ fault = {} /\ headers = <<>> /\ env = <<>>
  BY DEF Init
<1>2. pc = "pair"
  BY Zenon DEF Init
<1>3. StreamOK
  BY StreamBegins
<1>4. PICK V : AreVariables(meant, V)
  BY DEF ParamsSent
<1>5. PICK z \in Nat : z = 0
  OBVIOUS
<1>6. z <= Len(meant) /\ z <= Len(stream)
  BY <1>3, <1>4, <1>5, AllOnes, TextIsText DEF IsText
<1>7. pos = Len(FirstOnes(meant, z))
  <2>1. FirstOnes(meant, z) = <<>> /\ Len(<<>>) = 0
    BY <1>4, <1>5, NothingSent
  <2> QED
    BY <1>1, <2>1
<1>8. PairsRead(Plain(meant), z)
  BY <1>1, <1>5, NoPairsYet
<1>9. PairsDone(z)
  BY <1>1, <1>5, <1>6, <1>7, <1>8 DEF PairsDone
<1> QED
  BY <1>1, <1>2, <1>9 DEF FcgiOK

LEMMA FcgiStays ==
    ASSUME StreamOK, ParamsSent, FcgiOK, [Next]_vars
    PROVE  FcgiOK'
<1> SUFFICES ASSUME service' = "fcgi" PROVE FcgiOK'
  BY DEF FcgiOK
<1>1. service = "fcgi"
  BY InputStays
<1>2. pc \in {"pair", "parsed", "rejected", "crashed"}
  BY <1>1 DEF FcgiOK
<1>3. CASE UNCHANGED vars
  <2>1. /\ stream' = stream /\ meant' = meant /\ stdin' = stdin /\ pos' = pos /\ pc' = pc
        /\ headers' = headers /\ env' = env /\ body' = body /\ path' = path /\ query' = query
        /\ fault' = fault
    BY <1>3 DEF vars, input, netstring, target, payload
  <2>2. NotWholePairs' <=> NotWholePairs
    BY <2>1 DEF NotWholePairs
  <2>3. \A n \in Nat : PairsDone(n) => PairsDone(n)'
    BY <2>1 DEF PairsDone, PairsRead
  <2>4. \A sent, pairs : MadeOf(sent, pairs) => MadeOf(sent, pairs)'
    BY <2>1 DEF MadeOf, ValueOf
  <2> QED
    BY <1>1, <2>1, <2>2, <2>3, <2>4 DEF FcgiOK
<1>4. CASE ReadPair
  BY <1>1, <1>4, ReadPairKeeps
<1>5. CASE MakeRequest
  BY <1>1, <1>5, MakeRequestKeeps
<1>6. ~(ReadLength \/ ReadKey \/ ReadValue \/ ReadComma \/ RequestLine \/ HeaderLine
        \/ FreedLine \/ ReadBody \/ Finish \/ ReadEnviron \/ ReadStdin)
  BY <1>2 DEF ReadLength, ReadKey, ReadValue, ReadComma, RequestLine, HeaderLine, FreedLine,
              ReadBody, Finish, ReadEnviron, ReadStdin
<1> QED
  BY <1>3, <1>4, <1>5, <1>6 DEF Next

-----------------------------------------------------------------------------
(* CGI.                                                                    *)

\* In an environment there is a name once, whatever its case.
OneOfAName(pairs) ==
    /\ pairs \in Seq(ToSet(pairs))
    /\ \A i \in 1..Len(pairs) : /\ pairs[i].name \in Seq(ToSet(pairs[i].name))
                                /\ pairs[i].value \in Seq(ToSet(pairs[i].value))
    /\ \A i, j \in 1..Len(pairs) : Lower(pairs[i].name) = Lower(pairs[j].name) => i = j

EnvironSent == service = "cgi" => OneOfAName(meant)

LEMMA LowerOfHeader ==
    ASSUME NEW V, NEW a \in Seq(V), NEW b \in Seq(V), IsHeader(a), IsHeader(b),
           Lower(Tail(a)) = Lower(Tail(b))
    PROVE  Lower(a) = Lower(b)
<1> DEFINE c(x) == IF x \in DOMAIN Capitals THEN Capitals[x] ELSE x
<1>1. \A s : Lower(s) = [i \in DOMAIN s |-> c(s[i])]
  BY DEF Lower
<1>2. PICK m \in Nat, n \in Nat : m = Len(a) /\ n = Len(b)
  BY LenProperties
<1>3. /\ a # <<>> /\ a[1] = "H" /\ b # <<>> /\ b[1] = "H"
      /\ DOMAIN a = 1..m /\ DOMAIN b = 1..n
  BY <1>2, LenProperties DEF IsHeader
<1>4. m # 0 /\ n # 0
  BY <1>2, <1>3, EmptySeq
<1>5. PICK s, t : s = Tail(a) /\ t = Tail(b)
  OBVIOUS
<1>6. /\ s \in Seq(V) /\ t \in Seq(V) /\ Len(s) = m - 1 /\ Len(t) = n - 1
      /\ \A i \in 1..(m - 1) : s[i] = a[i + 1]
      /\ \A i \in 1..(n - 1) : t[i] = b[i + 1]
  BY <1>2, <1>3, <1>5, HeadTailProperties
<1>7. DOMAIN s = 1..(m - 1) /\ DOMAIN t = 1..(n - 1)
  BY <1>6, LenProperties
<1> HIDE DEF c
<1>8. Lower(s) = [i \in 1..(m - 1) |-> c(s[i])] /\ Lower(t) = [i \in 1..(n - 1) |-> c(t[i])]
  BY <1>1, <1>7
<1>9. 1..(m - 1) = 1..(n - 1) /\ \A i \in 1..(m - 1) : c(s[i]) = c(t[i])
  <2>1. PICK f, g : f = Lower(s) /\ g = Lower(t) /\ f = g
    BY <1>5
  <2>2. /\ DOMAIN f = 1..(m - 1) /\ DOMAIN g = 1..(n - 1)
        /\ \A i \in 1..(m - 1) : f[i] = c(s[i])
        /\ \A i \in 1..(n - 1) : g[i] = c(t[i])
    BY <1>8, <2>1
  <2> QED
    BY <2>1, <2>2
<1>10. m = n
  <2>1. m - 1 \in Nat /\ n - 1 \in Nat
    BY <1>4
  <2>2. \A i \in Int : i \in 1..(m - 1) <=> i \in 1..(n - 1)
    BY <1>9
  <2>3. m - 1 \in 1..(m - 1) \/ m - 1 = 0
    BY <2>1
  <2>4. n - 1 \in 1..(n - 1) \/ n - 1 = 0
    BY <2>1
  <2> QED
    BY <2>1, <2>2, <2>3, <2>4
<1>11. ASSUME NEW i \in 1..m
       PROVE  c(a[i]) = c(b[i])
  <2>1. CASE i = 1
    BY <1>3, <2>1
  <2>2. CASE i # 1
    <3>1. PICK j \in 1..(m - 1) : i = j + 1
      BY <2>2
    <3>2. s[j] = a[i] /\ t[j] = b[i]
      BY <1>6, <1>10, <3>1
    <3> QED
      BY <1>9, <3>1, <3>2
  <2> QED
    BY <2>1, <2>2
<1>12. Lower(a) = [i \in 1..m |-> c(a[i])] /\ Lower(b) = [i \in 1..m |-> c(b[i])]
  BY <1>1, <1>3, <1>10
<1> QED
  BY <1>11, <1>12

LEMMA MaxOfOne ==
    ASSUME NEW n \in Nat, NEW i \in 1..n, NEW at, at = {i}
    PROVE  Max(at) = i
<1>1. at \subseteq 1..n /\ at # {}
  OBVIOUS
<1>2. Max(at) \in at
  BY <1>1, MaxOf
<1> QED
  BY <1>2

\* The environment as a table, and the headers made of it.
LEMMA EnvironIs ==
    ASSUME NEW pairs, OneOfAName(pairs), NEW table,
           table = [k \in {pairs[i].name : i \in DOMAIN pairs} |->
                        ValueOf(pairs, LAMBDA name : name = k)]
    PROVE  /\ \A i \in 1..Len(pairs) : table[pairs[i].name] = pairs[i].value
           /\ Filtered(table) = HeadersMeant(pairs)
           /\ \A k : LengthOf(table, k) \in Nat
<1>1. PICK N \in Nat : N = Len(pairs) /\ DOMAIN pairs = 1..N
  BY LenProperties DEF OneOfAName
<1> DEFINE At(k) == {i \in DOMAIN pairs : pairs[i].name = k}
           names == {pairs[i].name : i \in DOMAIN pairs}
           Has(h) == {i \in DOMAIN pairs : IsHeader(pairs[i].name) /\ Lower(Tail(pairs[i].name)) = h}
           keys == {Lower(Tail(pairs[i].name)) : i \in {j \in DOMAIN pairs : IsHeader(pairs[j].name)}}
           prefixed == {k \in DOMAIN table : IsHeader(k)}
           Named(h) == CHOOSE k \in prefixed : Lower(Tail(k)) = h
<1>2. table = [k \in names |-> IF At(k) = {} THEN Null ELSE pairs[Max(At(k))].value]
  BY DEF ValueOf
<1>3. HeadersMeant(pairs) = [h \in keys |-> IF Has(h) = {} THEN Null ELSE pairs[Max(Has(h))].value]
  BY DEF HeadersMeant, ValueOf
<1>4. Filtered(table) = [h \in {Lower(Tail(k)) : k \in prefixed} |-> table[Named(h)]]
  BY DEF Filtered
<1>5. \A i, j \in 1..N : Lower(pairs[i].name) = Lower(pairs[j].name) => i = j
  BY <1>1 DEF OneOfAName
<1>6. ASSUME NEW i \in 1..N
      PROVE  pairs[i].name \in names /\ table[pairs[i].name] = pairs[i].value
  <2>1. PICK at, k : at = At(k) /\ k = pairs[i].name
    OBVIOUS
  <2>2. at = {i}
    BY <1>1, <1>5, <2>1
  <2>3. Max(at) = i
    BY <2>2, MaxOfOne
  <2>4. k \in names
    BY <1>1, <2>1
  <2>5. table[k] = IF at = {} THEN Null ELSE pairs[Max(at)].value
    <3> HIDE DEF At, names
    <3> QED
      BY <1>2, <2>1, <2>4
  <2> QED
    BY <2>1, <2>2, <2>3, <2>4, <2>5
<1>7. DOMAIN table = names
  BY <1>2
<1>8. {Lower(Tail(k)) : k \in prefixed} = keys
  <2>1. \A k : k \in prefixed <=> \E i \in 1..N : k = pairs[i].name /\ IsHeader(k)
    BY <1>1, <1>7
  <2> HIDE DEF prefixed
  <2> QED
    BY <1>1, <2>1
<1>9. ASSUME NEW i \in 1..N, NEW j \in 1..N, IsHeader(pairs[i].name), IsHeader(pairs[j].name),
             Lower(Tail(pairs[i].name)) = Lower(Tail(pairs[j].name))
      PROVE  i = j
  <2>1. PICK a, b, V : /\ a = pairs[i].name /\ b = pairs[j].name
                       /\ V = ToSet(a) \cup ToSet(b)
    OBVIOUS
  <2>2. a \in Seq(ToSet(a)) /\ b \in Seq(ToSet(b))
    BY <1>1, <2>1 DEF OneOfAName
  <2>3. a \in Seq(V) /\ b \in Seq(V)
    BY <2>1, <2>2, InLargerSet
  <2>4. Lower(a) = Lower(b)
    BY <1>9, <2>1, <2>3, LowerOfHeader
  <2> QED
    BY <1>5, <2>1, <2>4
<1>10. ASSUME NEW h \in keys
       PROVE  table[Named(h)] = IF Has(h) = {} THEN Null ELSE pairs[Max(Has(h))].value
  <2>1. PICK i \in 1..N : IsHeader(pairs[i].name) /\ h = Lower(Tail(pairs[i].name))
    BY <1>1
  <2>2. PICK at : at = Has(h)
    OBVIOUS
  <2>3. at = {i}
    BY <1>1, <1>9, <2>1, <2>2
  <2>4. Max(at) = i
    BY <2>3, MaxOfOne
  <2>5. pairs[i].name \in prefixed
    BY <1>6, <1>7, <2>1
  <2>6. PICK k : k = Named(h)
    OBVIOUS
  <2>7. k \in prefixed /\ Lower(Tail(k)) = h
    <3> HIDE DEF prefixed
    <3> QED
      BY <2>1, <2>5, <2>6
  <2>8. PICK j \in 1..N : k = pairs[j].name /\ IsHeader(k)
    BY <1>1, <1>7, <2>7
  <2>9. j = i
    BY <1>9, <2>1, <2>7, <2>8
  <2>10. table[k] = pairs[i].value
    BY <1>6, <2>8, <2>9
  <2> HIDE DEF Named, Has
  <2> QED
    BY <2>2, <2>3, <2>4, <2>6, <2>10
<1>11. Filtered(table) = HeadersMeant(pairs)
  <2> HIDE DEF Named, Has, keys, prefixed
  <2> QED
    BY <1>3, <1>4, <1>8, <1>10
<1>12. ASSUME NEW k
       PROVE  LengthOf(table, k) \in Nat
  <2>1. ASSUME k \in DOMAIN table
        PROVE  IsText(table[k])
    <3>1. PICK i \in 1..N : k = pairs[i].name
      BY <1>1, <1>7, <2>1
    <3>2. PICK v : v = pairs[i].value /\ v = table[k] /\ v \in Seq(ToSet(v))
      BY <1>1, <1>6, <3>1 DEF OneOfAName
    <3> QED
      BY <3>2, LenProperties DEF IsText
  <2> QED
    BY <2>1, NumberOfText
<1> QED
  BY <1>1, <1>6, <1>11, <1>12

\* What was read of the environment, and so much of the standard input.
EnvironRead ==
    /\ headers = HeadersMeant(meant)
    /\ content_length \in Nat /\ content_length = LengthOf(env, <<"C">>)
InputRead ==
    /\ pos \in Nat /\ pos <= Len(stream) /\ pos <= content_length
    /\ body = SubSeq(stream, 1, pos)

CgiOK ==
    service = "cgi" =>
        /\ pc \in {"environ", "stdin", "parsed", "rejected"} /\ fault = {}
        /\ pc = "environ" => pos = 0 /\ body = <<>>
        /\ pc # "environ" => EnvironRead
        /\ pc \in {"stdin", "parsed"} => InputRead
        /\ pc = "parsed" => pos = content_length
        /\ pc = "rejected" => content_length > Len(stream)

LEMMA BodyLength ==
    ASSUME InputRead
    PROVE  Len(body) = pos
<1>1. 1 \in Int /\ pos \in Int /\ pos \in Nat
  BY DEF InputRead
<1>2. Len(body) = IF 1 <= pos THEN pos - 1 + 1 ELSE 0
  BY <1>1, Slice DEF InputRead
<1> QED
  BY <1>1, <1>2

LEMMA EnvironBegins ==
    ASSUME Init
    PROVE  EnvironSent
<1> SUFFICES ASSUME service = "cgi" PROVE OneOfAName(meant)
  BY DEF EnvironSent
<1>1. PICK m \in Sent : m.service = "cgi" /\ meant = m.pairs
  BY DEF Init
<1>2. /\ meant \in Seq(ToSet(meant))
      /\ \A p \in ToSet(meant) : p.name \in Seq(ToSet(p.name)) /\ p.value \in Seq(ToSet(p.value))
      /\ \A i, j \in DOMAIN meant : Lower(meant[i].name) = Lower(meant[j].name) => i = j
  BY <1>1, VariablesAssumption
<1>3. DOMAIN meant = 1..Len(meant) /\ \A i \in 1..Len(meant) : meant[i] \in ToSet(meant)
  BY <1>2, LenProperties DEF ToSet
<1> QED
  BY <1>2, <1>3 DEF OneOfAName

LEMMA EnvironStays ==
    ASSUME EnvironSent, [Next]_vars
    PROVE  EnvironSent'
BY InputStays DEF EnvironSent

LEMMA ReadEnvironKeeps ==
    ASSUME StreamOK, EnvironSent, CgiOK, ReadEnviron, service = "cgi"
    PROVE  CgiOK'
<1>1. PICK table, pairs : table = env' /\ pairs = meant
  OBVIOUS
<1>2. OneOfAName(pairs)
  BY <1>1 DEF EnvironSent
<1>3. table = [k \in {pairs[i].name : i \in DOMAIN pairs} |->
                    ValueOf(pairs, LAMBDA name : name = k)]
  BY <1>1 DEF ReadEnviron, ValueOf
<1>4. Filtered(table) = HeadersMeant(pairs) /\ LengthOf(table, <<"C">>) \in Nat
  BY <1>2, <1>3, EnvironIs
<1>5. /\ headers' = Filtered(table) /\ content_length' = LengthOf(table, <<"C">>)
      /\ pc = "environ" /\ pc' = "stdin" /\ pos' = pos /\ body' = body /\ fault' = fault
      /\ meant' = meant /\ stream' = stream
  BY <1>1 DEF ReadEnviron, input
<1>6. pos = 0 /\ body = <<>> /\ fault = {}
  BY <1>5 DEF CgiOK
<1>7. EnvironRead'
  BY <1>1, <1>4, <1>5 DEF EnvironRead
<1>8. InputRead'
  <2>1. Len(stream) \in Nat /\ SubSeq(stream, 1, 0) = <<>>
    BY TextIsText, SubSeqEmpty DEF IsText
  <2> QED
    BY <1>4, <1>5, <1>6, <2>1 DEF InputRead
<1> QED
  BY <1>5, <1>6, <1>7, <1>8 DEF CgiOK

LEMMA ReadStdinKeeps ==
    ASSUME StreamOK, CgiOK, ReadStdin, service = "cgi"
    PROVE  CgiOK'
<1>1. /\ pc = "stdin" /\ fault' = fault /\ meant' = meant /\ stream' = stream
      /\ headers' = headers /\ env' = env /\ content_length' = content_length
  BY DEF ReadStdin, input, netstring
<1>2. EnvironRead /\ InputRead /\ fault = {} /\ Len(body) = pos
  BY <1>1, BodyLength DEF CgiOK
<1>3. EnvironRead'
  BY <1>1, <1>2 DEF EnvironRead
<1>4. PICK L \in Nat, c \in Nat, n \in Nat : /\ L = Len(stream) /\ c = content_length /\ n = pos
                                             /\ n <= L /\ n <= c
  BY <1>2, TextIsText DEF IsText, EnvironRead, InputRead
<1>5. CASE n < c /\ n < L /\ pos' = n + 1 /\ body' = Append(body, Byte) /\ pc' = "stdin"
  <2>1. Byte = stream[n + 1]
    BY <1>4, <1>5 DEF Byte, ByteAt
  <2>2. PICK s, S : s = stream /\ S = ToSet(stream) /\ s \in Seq(S)
    BY DEF StreamOK
  <2>3. PICK m \in 1..L : m = n + 1 /\ m - 1 = n
    BY <1>4, <1>5
  <2>4. SubSeq(s, 1, m) = SubSeq(s, 1, m - 1) \o <<s[m]>>
    <3>1. 1 \in 1..Len(s) /\ m \in 1..Len(s)
      BY <1>4, <2>2, <2>3
    <3> QED
      BY <2>2, <3>1, SubSeqRecursiveSecond
  <2>5. SubSeq(s, 1, n) \in Seq(S) /\ s[m] \in S
    <3>1. \A i \in 1..L : s[i] \in S
      BY <1>4, <2>2, ElementOfSeq
    <3>2. \A i \in 1..n : s[i] \in S
      BY <1>4, <3>1
    <3>3. 1 \in Int /\ n \in Int
      OBVIOUS
    <3>4. SubSeq(s, 1, n) \in Seq(S)
      BY <3>2, <3>3, SubSeqProperties
    <3> QED
      BY <2>3, <3>1, <3>4
  <2>6. Append(SubSeq(s, 1, n), s[m]) = SubSeq(s, 1, n) \o <<s[m]>>
    BY <2>5, AppendIsConcat
  <2>7. body' = SubSeq(s, 1, m)
    <3>1. body = SubSeq(s, 1, n)
      BY <1>2, <1>4, <2>2 DEF InputRead
    <3>2. Byte = s[m]
      BY <2>1, <2>2, <2>3
    <3> QED
      BY <1>5, <2>3, <2>4, <2>6, <3>1, <3>2
  <2>8. InputRead'
    <3>1. pos' = m /\ m \in Nat /\ m <= L /\ m <= c
      BY <1>4, <1>5, <2>3
    <3> QED
      BY <1>1, <1>4, <2>2, <2>7, <3>1 DEF InputRead
  <2> QED
    BY <1>1, <1>2, <1>3, <1>5, <2>8 DEF CgiOK
<1>6. CASE n < c /\ n = L /\ pc' = "rejected"
  BY <1>1, <1>2, <1>3, <1>4, <1>6 DEF CgiOK
<1>7. CASE n = c /\ pc' = "parsed" /\ pos' = pos /\ body' = body
  <2>1. InputRead'
    BY <1>1, <1>2, <1>7 DEF InputRead
  <2> QED
    BY <1>1, <1>2, <1>3, <1>4, <1>7, <2>1 DEF CgiOK
<1> QED
  BY <1>1, <1>2, <1>4, <1>5, <1>6, <1>7 DEF ReadStdin

LEMMA CgiBegins ==
    ASSUME Init
    PROVE  CgiOK
<1> SUFFICES ASSUME service = "cgi" PROVE CgiOK
  BY DEF CgiOK
<1>1. pos = 0 /\ fault = {} /\ body = <<>>
  BY DEF Init
<1>2. pc = "environ"
  BY Zenon DEF Init
<1> QED
  BY <1>1, <1>2 DEF CgiOK

LEMMA CgiStays ==
    ASSUME StreamOK, EnvironSent, CgiOK, [Next]_vars
    PROVE  CgiOK'
<1> SUFFICES ASSUME service' = "cgi" PROVE CgiOK'
  BY DEF CgiOK
<1>1. service = "cgi"
  BY InputStays
<1>2. pc \in {"environ", "stdin", "parsed", "rejected"}
  BY <1>1 DEF CgiOK
<1>3. CASE UNCHANGED vars
  <2>1. /\ stream' = stream /\ meant' = meant /\ pos' = pos /\ pc' = pc /\ headers' = headers
        /\ env' = env /\ body' = body /\ content_length' = content_length /\ fault' = fault
    BY <1>3 DEF vars, input, netstring, target, payload
  <2>2. (EnvironRead => EnvironRead') /\ (InputRead => InputRead')
    BY <2>1 DEF EnvironRead, InputRead
  <2> QED
    BY <1>1, <2>1, <2>2 DEF CgiOK
<1>4. CASE ReadEnviron
  BY <1>1, <1>4, ReadEnvironKeeps
<1>5. CASE ReadStdin
  BY <1>1, <1>5, ReadStdinKeeps
<1>6. ~(ReadLength \/ ReadKey \/ ReadValue \/ ReadComma \/ RequestLine \/ HeaderLine
        \/ FreedLine \/ ReadBody \/ Finish \/ ReadPair \/ MakeRequest)
  BY <1>2 DEF ReadLength, ReadKey, ReadValue, ReadComma, RequestLine, HeaderLine, FreedLine,
              ReadBody, Finish, ReadPair, MakeRequest
<1> QED
  BY <1>3, <1>4, <1>5, <1>6 DEF Next

\* The four together, on which EnvExact rests.
EnvOK == StreamOK /\ ParamsSent /\ EnvironSent /\ FcgiOK /\ CgiOK

LEMMA EnvInvariant == Spec => []EnvOK
<1>1. Init => EnvOK
  BY StreamBegins, ParamsBegin, EnvironBegins, FcgiBegins, CgiBegins DEF EnvOK
<1>2. EnvOK /\ [Next]_vars => EnvOK'
  BY StreamStays, ParamsStay, EnvironStays, FcgiStays, CgiStays DEF EnvOK
<1> QED
  BY <1>1, <1>2, PTL DEF Spec

\* EnvExact: what FastCGI makes a request of, nothing undefined done, are whole
\* variables, each name with the value it was given last, and the data of STDIN that the
\* header says; what CGI makes a request of are the headers of the environment and the
\* bytes of the standard input that CONTENT_LENGTH says; for all variables, in either
\* form of the lengths, and every stream that may be cut at any byte.
THEOREM EnvIsExact == Spec => []EnvExact
<1>1. EnvOK => EnvExact
  <2> SUFFICES ASSUME EnvOK PROVE EnvExact
    OBVIOUS
  <2>1. ASSUME service = "fcgi", pc = "parsed", fault = {}
        PROVE  \E n \in 0..Len(meant) :
                    LET pairs == Plain(SubSeq(meant, 1, n))
                        len == LengthOf(HeadersMeant(pairs), <<"c">>)
                    IN /\ stream = Encoded(SubSeq(meant, 1, n))
                       /\ path = ValueOf(pairs, LAMBDA name : name = <<"P">>)
                       /\ query = ValueOf(pairs, LAMBDA name : name = <<"Q">>)
                       /\ headers = HeadersMeant(pairs)
                       /\ body = SubSeq(stdin, 1, IF len <= Len(stdin) THEN len ELSE 0)
    <3>1. PICK n, sent, pairs : /\ n \in 0..Len(meant) /\ sent = SubSeq(meant, 1, n)
                                /\ pairs = Plain(sent) /\ MadeOf(sent, pairs)
      BY <2>1 DEF EnvOK, FcgiOK
    <3> QED
      BY <3>1 DEF MadeOf, ValueOf
  <2>2. ASSUME service = "cgi", pc = "parsed"
        PROVE  /\ headers = HeadersMeant(meant)
               /\ body = BodySent(stream, 0, LengthOf(env, <<"C">>))
               /\ Len(body) = LengthOf(env, <<"C">>)
    <3>1. EnvironRead /\ InputRead /\ pos = content_length
      BY <2>2 DEF EnvOK, CgiOK
    <3>2. PICK n \in Nat : n = pos /\ n = LengthOf(env, <<"C">>) /\ 0 + n = n /\ 0 + 1 = 1
      BY <3>1 DEF EnvironRead, InputRead
    <3>3. BodySent(stream, 0, n) = SubSeq(stream, 1, n)
      BY <3>2 DEF BodySent
    <3>4. Len(body) = pos
      BY <3>1, BodyLength
    <3> QED
      BY <3>1, <3>2, <3>3, <3>4 DEF EnvironRead, InputRead
  <2> QED
    BY <2>1, <2>2, Zenon DEF EnvExact
<1> QED
  BY <1>1, EnvInvariant, PTL

-----------------------------------------------------------------------------
(* Whole requests.                                                         *)

\* As long as the stream has the whole body every read gives some of it.
LEMMA BodyIsThere ==
    ASSUME StreamOK, NEW from, NEW len, BodyRead(from, len), from + len <= Len(stream),
           fault = {}
    PROVE  /\ More => pos < Len(stream)
           /\ ~Starved
<1>1. PICK f \in Nat, n \in Nat : f = from /\ n = len
  BY DEF BodyRead
<1>2. PICK L \in Nat : L = Len(stream)
  BY TextIsText DEF IsText
<1>3. PICK r \in 0..n : r = real_content_length
  BY <1>1 DEF BodyRead
<1>4. pos = f + r /\ content_length = n /\ f + n <= L
  BY <1>1, <1>2, <1>3 DEF BodyRead
<1>5. More => pos < L
  BY <1>3, <1>4 DEF More
<1>6. Len(body) = r
  <2>1. PICK a \in Int, b \in Int : a = f + 1 /\ b = f + r /\ b - a + 1 = r /\ (a <= b <=> r > 0)
    OBVIOUS
  <2>2. Len(SubSeq(stream, a, b)) = IF a <= b THEN b - a + 1 ELSE 0
    BY Slice
  <2>3. body = SubSeq(stream, a, b)
    BY <1>1, <1>4, <2>1 DEF BodyRead
  <2> QED
    BY <2>1, <2>2, <2>3
<1>7. ~Starved
  <2> SUFFICES ASSUME Starved PROVE FALSE
    OBVIOUS
  <2>1. pos = L /\ (Len(body) < content_length \/ "read_error" \in fault)
    BY <1>2 DEF Starved
  <2>2. r < n
    BY <1>4, <1>6, <2>1
  <2> QED
    BY <1>3, <1>4, <2>1, <2>2
<1> QED
  BY <1>2, <1>5, <1>7

LEMMA ReadGives ==
    ASSUME StreamOK, NEW from, NEW len, BodyRead(from, len), from + len <= Len(stream),
           fault = {}, ReadBody
    PROVE  fault' = {} /\ pc' = "body"
<1>1. More /\ pc = "body" /\ pc' = pc
  BY DEF ReadBody
<1>2. pos < Len(stream)
  BY <1>1, BodyIsThere
<1>3. PICK L \in Nat : L = Len(stream)
  BY TextIsText DEF IsText
<1>4. pos \in Int
  <2>1. PICK f \in Nat, n \in Nat : f = from /\ n = len
    BY DEF BodyRead
  <2>2. PICK r \in 0..n : r = real_content_length
    BY <2>1 DEF BodyRead
  <2>3. pos = f + r
    BY <2>1, <2>2 DEF BodyRead
  <2> QED
    BY <2>3
<1>5. L - pos # 0
  BY <1>2, <1>3, <1>4
<1>6. fault' = fault
  BY <1>3, <1>5 DEF ReadBody
<1> QED
  BY <1>1, <1>6

\* The peer of SCGI sent a netstring of d digits and n bytes of variables, with a path
\* among them, and all of the body.
WholeNetstring(d, n) ==
    LET sent == VariablesOf(Part(stream, d, n)) IN
    /\ d \in Nat /\ n \in Nat /\ Netstring(stream, d, n)
    /\ <<"P">> \in DOMAIN sent \/ (<<"U">> \in DOMAIN sent /\ sent[<<"U">>] # <<>>)
    /\ d + n + 2 + LengthOf(sent, <<"C">>) <= Len(stream)

\* Where the reader of such a request may be.
ScgiGoes ==
    service = "scgi" =>
        \A d, n \in Nat : WholeNetstring(d, n) =>
            /\ fault = {} /\ pc \in {"length", "key", "value", "comma", "body", "parsed"}
            /\ pc = "length" => pos <= d
            /\ pc \in {"key", "value", "comma"} => pos <= d + 1 + n

\* The colon ends the digits.
LEMMA SameLength ==
    ASSUME NEW s, NEW d \in Nat, NEW n \in Nat, Netstring(s, d, n), NEW e, NEW m, LengthIs(s, e, m)
    PROVE  e = d /\ m = n
<1>1. ":" \notin ToSet(Digits)
  BY DEF ToSet, Digits
<1>2. e \in Nat /\ m \in Nat
  BY DEF LengthIs
<1>3. ~(d < e)
  <2> SUFFICES ASSUME d < e PROVE FALSE
    OBVIOUS
  <2>1. d + 1 \in 1..e
    BY <1>2
  <2> QED
    BY <1>1, <2>1 DEF Netstring, LengthIs
<1>4. ~(e < d)
  <2> SUFFICES ASSUME e < d PROVE FALSE
    OBVIOUS
  <2>1. e + 1 \in 1..d
    BY <1>2
  <2> QED
    BY <1>1, <2>1 DEF Netstring, LengthIs
<1>5. d = e
  BY <1>2, <1>3, <1>4
<1> QED
  BY <1>5 DEF Netstring, LengthIs

LEMMA InItsVariables ==
    ASSUME StreamOK, ScgiOK, service = "scgi", fault = {}, NEW d \in Nat, NEW n \in Nat,
           Netstring(stream, d, n), pc \in {"key", "value", "comma"}, pos <= d + 1 + n
    PROVE  InVariables(d, n) /\ d + n + 2 <= Len(stream) /\ pos \in Nat
<1>1. PICK L \in Nat : L = Len(stream)
  BY TextIsText DEF IsText
<1>2. d + n + 2 <= L /\ pos \in Nat
  BY <1>1 DEF Netstring, ScgiOK
<1>3. pos <= L
  BY <1>1, <1>2
<1>4. PICK e \in Nat, m \in Nat : InVariables(e, m)
  BY <1>1, <1>3 DEF ScgiOK
<1>5. LengthIs(stream, e, m)
  BY <1>4 DEF InVariables
<1>6. e = d /\ m = n
  BY <1>5, SameLength
<1> QED
  BY <1>1, <1>2, <1>4, <1>6

LEMMA ReadLengthGoes ==
    ASSUME StreamOK, ScgiOK, service = "scgi", fault = {}, NEW d \in Nat, NEW n \in Nat,
           WholeNetstring(d, n), pc = "length", pos <= d, ReadLength
    PROVE  /\ fault' = {} /\ pc' \in {"length", "key", "comma"} /\ (pc' = "length" => pos' <= d)
           /\ pos' <= d + 1 + n
<1>1. pos \in Nat
  BY DEF ScgiOK
<1>2. /\ d + n + 2 <= Len(stream) /\ stream[d + 1] = ":"
      /\ \A i \in 1..d : stream[i] \in ToSet(Digits)
  BY DEF WholeNetstring, Netstring
<1>3. PICK L \in Nat : L = Len(stream)
  BY TextIsText DEF IsText
<1>4. pos + 1 <= L /\ d + n + 2 <= L
  BY <1>1, <1>2, <1>3
<1>5. Byte = stream[pos + 1]
  BY <1>1, <1>3, <1>4, ByteIs
<1>6. ":" \notin ToSet(Digits)
  BY DEF ToSet, Digits
<1>7. fault' = fault /\ pos' = pos + 1
  BY DEF ReadLength, Turn
<1>8. CASE pos < d
  <2>1. Byte \in ToSet(Digits)
    <3>1. pos + 1 \in 1..d
      BY <1>1, <1>8
    <3> QED
      BY <1>2, <1>5, <3>1
  <2>2. pc' = pc
    BY <1>6, <2>1 DEF ReadLength
  <2> QED
    BY <1>1, <1>7, <1>8, <2>2
<1>9. CASE pos = d
  <2>1. Byte = ":"
    BY <1>2, <1>5, <1>9
  <2>2. pc' \in {"key", "comma"}
    BY <1>6, <2>1 DEF ReadLength, Turn
  <2> QED
    BY <1>7, <1>9, <2>2
<1> QED
  BY <1>1, <1>8, <1>9

LEMMA ReadVariableGoes ==
    ASSUME StreamOK, ScgiOK, service = "scgi", fault = {}, NEW d \in Nat, NEW n \in Nat,
           WholeNetstring(d, n), pc \in {"key", "value"}, pos <= d + 1 + n, ReadKey \/ ReadValue
    PROVE  fault' = {} /\ pc' \in {"key", "value", "comma"} /\ pos' <= d + 1 + n
<1>1. InVariables(d, n) /\ pos \in Nat
  BY InItsVariables DEF WholeNetstring
<1>2. pos - (d + 1) < n
  BY <1>1 DEF InVariables
<1>3. fault' = fault /\ pos' = pos + 1 /\ pc' \in {"key", "value", "comma"}
  <2>1. CASE ReadKey
    BY <2>1 DEF ReadKey, Turn
  <2>2. CASE ReadValue
    BY <2>2 DEF ReadValue, Turn
  <2> QED
    BY <2>1, <2>2
<1>4. pos + 1 <= d + 1 + n
  BY <1>1, <1>2
<1> QED
  BY <1>3, <1>4

LEMMA ReadCommaGoes ==
    ASSUME StreamOK, ScgiOK, service = "scgi", fault = {}, NEW d \in Nat, NEW n \in Nat,
           WholeNetstring(d, n), pc = "comma", pos <= d + 1 + n, ReadComma
    PROVE  fault' = {} /\ pc' = "body"
<1>1. InVariables(d, n) /\ d + n + 2 <= Len(stream) /\ pos \in Nat
  BY InItsVariables DEF WholeNetstring
<1>2. pos - (d + 1) = n
  BY <1>1 DEF InVariables
<1>3. pos + 1 = d + n + 2
  BY <1>1, <1>2
<1>4. Byte = stream[d + n + 2]
  BY <1>1, <1>3, ByteIs
<1>5. Byte = ","
  BY <1>4 DEF WholeNetstring, Netstring
<1> QED
  BY <1>5 DEF ReadComma

\* Behind the comma: the variables are those that were sent.
LEMMA InItsBody ==
    ASSUME StreamOK, ScgiOK, service = "scgi", fault = {}, NEW d \in Nat, NEW n \in Nat,
           WholeNetstring(d, n), pc = "body"
    PROVE  /\ env = VariablesOf(Part(stream, d, n))
           /\ \E from, len : BodyRead(from, len) /\ from + len <= Len(stream)
<1>1. PICK e \in Nat, m \in Nat :
        /\ Netstring(stream, e, m) /\ env = VariablesOf(Part(stream, e, m))
        /\ BodyRead(e + m + 2, LengthOf(env, <<"C">>))
  BY DEF ScgiOK
<1>2. e = d /\ m = n
  BY <1>1, OneNetstring DEF WholeNetstring
<1>3. env = VariablesOf(Part(stream, d, n))
  BY <1>1, <1>2
<1>4. PICK from, len : from = d + n + 2 /\ len = LengthOf(env, <<"C">>)
  OBVIOUS
<1>5. BodyRead(from, len)
  BY <1>1, <1>2, <1>4
<1>6. from + len <= Len(stream)
  BY <1>3, <1>4 DEF WholeNetstring
<1> QED
  BY <1>3, <1>5, <1>6

LEMMA FinishScgiGoes ==
    ASSUME StreamOK, ScgiOK, service = "scgi", fault = {}, NEW d \in Nat, NEW n \in Nat,
           WholeNetstring(d, n), Finish
    PROVE  fault' = {} /\ pc' = "parsed"
<1>1. pc = "body"
  BY DEF Finish
<1>2. env = VariablesOf(Part(stream, d, n))
  BY <1>1, InItsBody
<1>3. <<"P">> \in DOMAIN env \/ (<<"U">> \in DOMAIN env /\ env[<<"U">>] # <<>>)
  BY <1>2 DEF WholeNetstring
<1>4. CASE <<"P">> \in DOMAIN env
  BY <1>4 DEF Finish
<1>5. CASE <<"P">> \notin DOMAIN env /\ <<"U">> \in DOMAIN env /\ env[<<"U">>] # <<>>
  <2>1. Split(env[<<"U">>], "?") # <<>>
    <3>1. PICK u : u = env[<<"U">>]
      OBVIOUS
    <3> DEFINE at == {i \in DOMAIN u : u[i] = "?"}
    <3>2. Split(u, "?") = IF at = {} THEN <<u>>
                          ELSE <<SubSeq(u, 1, Min(at) - 1), SubSeq(u, Min(at) + 1, Len(u))>>
      BY <1>5, <3>1 DEF Split
    <3> HIDE DEF at
    <3>3. \A x, y : <<x>> # <<>> /\ <<x, y>> # <<>>
      OBVIOUS
    <3> QED
      BY <3>1, <3>2, <3>3
  <2> QED
    BY <1>5, <2>1 DEF Finish
<1> QED
  BY <1>3, <1>4, <1>5

LEMMA ScgiGoesOn ==
    ASSUME StreamOK, ScgiOK, ScgiGoes, [Next]_vars
    PROVE  ScgiGoes'
<1>1. stream' = stream /\ service' = service
  BY InputStays
<1> SUFFICES ASSUME service = "scgi", NEW d \in Nat, NEW n \in Nat, WholeNetstring(d, n)'
             PROVE  /\ fault' = {}
                    /\ pc' \in {"length", "key", "value", "comma", "body", "parsed"}
                    /\ pc' = "length" => pos' <= d
                    /\ pc' \in {"key", "value", "comma"} => pos' <= d + 1 + n
  BY <1>1 DEF ScgiGoes
<1>2. WholeNetstring(d, n)
  BY <1>1 DEF WholeNetstring
<1>3. /\ fault = {} /\ pc \in {"length", "key", "value", "comma", "body", "parsed"}
      /\ pc = "length" => pos <= d
      /\ pc \in {"key", "value", "comma"} => pos <= d + 1 + n
  BY <1>2 DEF ScgiGoes
<1>4. CASE UNCHANGED vars
  BY <1>3, <1>4 DEF vars
<1>5. CASE ReadLength
  <2>1. pc = "length" /\ pos <= d
    BY <1>3, <1>5 DEF ReadLength
  <2> QED
    BY <1>2, <1>3, <1>5, <2>1, ReadLengthGoes
<1>6. CASE ReadKey \/ ReadValue
  <2>1. pc \in {"key", "value"} /\ pos <= d + 1 + n
    BY <1>3, <1>6 DEF ReadKey, ReadValue
  <2> QED
    BY <1>2, <1>3, <1>6, <2>1, ReadVariableGoes
<1>7. CASE ReadComma
  <2>1. pc = "comma" /\ pos <= d + 1 + n
    BY <1>3, <1>7 DEF ReadComma
  <2> QED
    BY <1>2, <1>3, <1>7, <2>1, ReadCommaGoes
<1>8. CASE ReadBody
  <2>1. pc = "body"
    BY <1>8 DEF ReadBody
  <2>2. PICK from, len : BodyRead(from, len) /\ from + len <= Len(stream)
    BY <1>2, <1>3, <2>1, InItsBody
  <2> QED
    BY <1>3, <1>8, <2>2, ReadGives
<1>9. CASE Finish
  BY <1>2, <1>3, <1>9, FinishScgiGoes
<1>10. CASE RequestLine \/ HeaderLine \/ FreedLine \/ ReadPair \/ MakeRequest \/ ReadEnviron \/ ReadStdin
  BY <1>3, <1>10 DEF RequestLine, HeaderLine, FreedLine, ReadPair, MakeRequest, ReadEnviron, ReadStdin
<1> QED
  BY <1>4, <1>5, <1>6, <1>7, <1>8, <1>9, <1>10 DEF Next

LEMMA ScgiGoesAlong == Spec => [](StreamOK /\ ScgiOK /\ ScgiGoes)
<1>1. Init => ScgiGoes
  <2> SUFFICES ASSUME Init, service = "scgi" PROVE fault = {} /\ pc = "length" /\ pos = 0
    BY DEF ScgiGoes
  <2>1. fault = {} /\ pos = 0
    BY DEF Init
  <2>2. pc = "length"
    BY Zenon DEF Init
  <2> QED
    BY <2>1, <2>2
<1>2. StreamOK /\ ScgiOK /\ ScgiGoes /\ [Next]_vars => ScgiGoes'
  BY ScgiGoesOn
<1> QED
  BY <1>1, <1>2, ScgiInvariant, PTL DEF Spec

-----------------------------------------------------------------------------
(* A whole head.                                                           *)

\* The peer of HTTP sent a head that ends, a colon in every header, a target if there is
\* a third word, and all of the body.
WholeHead ==
    /\ Empties(stream) # {} /\ HeadEnd(stream) \in Feeds(stream)
    /\ \A l \in HeaderLines(stream) : Len(PiecesOf(stream, l)) = 2
    /\ LET words == Words(CString(SubSeq(stream, 1, Min(Feeds(stream)) - 1)))
       IN Len(words) = 3 => words[2] # <<>>
    /\ HeadEnd(stream) + LengthOf(HeadersSent(stream), <<"c">>) <= Len(stream)

HttpGoes ==
    service = "httpd" /\ WholeHead =>
        fault = {} /\ pc \in {"request_line", "header", "body", "parsed"}

LEMMA RequestLineGoes ==
    ASSUME StreamOK, HttpOK, service = "httpd", fault = {}, WholeHead, RequestLine
    PROVE  fault' = {} /\ pc' = "header"
<1>1. pc = "request_line" /\ pos = 0
  BY DEF RequestLine, HttpOK
<1>2. Ends = Feeds(stream) /\ Feeds(stream) # {}
  <2>1. PICK L \in Nat : L = Len(stream) /\ DOMAIN stream = 1..L
    BY TextIsText DEF IsText
  <2>2. 0 + 1 = 1
    OBVIOUS
  <2>3. Ends = Feeds(stream)
    BY <1>1, <2>1, <2>2 DEF Ends, Feeds
  <2>4. Feeds(stream) # {}
    BY DEF WholeHead
  <2> QED
    BY <2>3, <2>4
<1>3. ~NoLine /\ Line = CString(SubSeq(stream, 1, Min(Feeds(stream)) - 1))
  <2>1. pos + 1 = 1
    BY <1>1
  <2> QED
    BY <1>2, <2>1 DEF NoLine, Line
<1>4. Known(Words(Line)) => Words(Line)[2] # <<>>
  BY <1>3 DEF WholeHead, Known
<1> QED
  BY <1>3, <1>4 DEF RequestLine

LEMMA FinishHttpGoes ==
    ASSUME service = "httpd", fault = {}, Finish
    PROVE  fault' = {} /\ pc' = "parsed"
  BY DEF Finish

\* There are two pieces of a text only if there is a separator.
LEMMA TwoAreParted ==
    ASSUME NEW s, IsText(s), NEW c, Len(Split(s, c)) = 2
    PROVE  Contains(s, c)
<1> SUFFICES ASSUME ~Contains(s, c) PROVE FALSE
  OBVIOUS
<1>1. {i \in DOMAIN s : s[i] = c} = {}
  BY DEF Contains, IsText
<1>2. CASE s = <<>>
  <2>1. Split(s, c) = <<>> /\ Len(<<>>) = 0
    BY <1>2 DEF Split
  <2> QED
    BY <2>1
<1>3. CASE s # <<>>
  <2>1. Split(s, c) = <<s>>
    BY <1>1, <1>3 DEF Split
  <2>2. Len(<<s>>) = 1
    OBVIOUS
  <2> QED
    BY <2>1, <2>2
<1> QED
  BY <1>2, <1>3

\* The next line of a whole head is a header with a colon, or the empty line.
LEMMA NextOfHead ==
    ASSUME StreamOK, WholeHead, pos \in 0..Len(stream), HeadRead(stream, pos, headers)
    PROVE  ~NoLine /\ (Line = <<>> \/ Contains(Line, ":"))
<1>1. IsText(stream)
  BY TextIsText
<1>2. PICK L \in Nat : L = Len(stream)
  BY <1>1 DEF IsText
<1>3. Feeds(stream) \subseteq 1..L /\ Empties(stream) \subseteq Nat
  BY <1>1, <1>2, FeedsAre
<1>4. PICK e \in Empties(stream) : e = HeadEnd(stream)
  BY <1>3, MinOf DEF WholeHead, HeadEnd
<1>5. e \in 1..L /\ e > pos /\ e \in Feeds(stream)
  BY <1>3, <1>4 DEF HeadRead, WholeHead
<1>6. Ends # {}
  <2>1. e \in (pos + 1)..Len(stream) /\ stream[e] = LF
    BY <1>2, <1>5 DEF Feeds
  <2> QED
    BY <2>1 DEF Ends
<1>7. PICK n \in Feeds(stream) :
        /\ n > pos /\ Line = CString(SubSeq(stream, pos + 1, n - 1))
        /\ \A i \in Feeds(stream) : i <= pos \/ i >= n
  BY <1>1, <1>6, LineEnds
<1>8. PICK p \in Nat : p = pos /\ p \in Feeds(stream)
  BY <1>2 DEF HeadRead
<1>9. n \in 1..L /\ n > p
  BY <1>3, <1>7, <1>8
<1>10. ~NoLine
  BY <1>6 DEF NoLine
<1>11. CASE Blank(stream[p + 1])
  BY <1>1, <1>8, <1>10, <1>11, LineEnds
<1>12. CASE ~Blank(stream[p + 1])
  <2>0. e # n
    <3> SUFFICES ASSUME e = n PROVE FALSE
      OBVIOUS
    <3>1. \A i \in Feeds(stream) : i <= p \/ i >= e
      BY <1>7, <1>8
    <3>2. e > p
      BY <1>5, <1>8
    <3> QED
      BY <1>1, <1>4, <1>8, <1>12, <3>1, <3>2, EndsEmpty
  <2>1. n <= e - 1
    <3>1. e <= p \/ e >= n
      BY <1>5, <1>7, <1>8
    <3>2. e > p
      BY <1>5, <1>8
    <3> QED
      BY <1>5, <1>9, <2>0, <3>1, <3>2
  <2> DEFINE l == <<p, n>>
  <2>2. l \in HeaderLines(stream)
    <3>1. \A i \in Feeds(stream) : i <= p \/ i >= n
      BY <1>7, <1>8
    <3> QED
      BY <1>4, <1>8, <1>9, <2>1, <3>1 DEF HeaderLines, LinesUpTo
  <2>3. PiecesOf(stream, l) = Split(Line, ":")
    BY <1>7, <1>8 DEF PiecesOf
  <2>4. Len(PiecesOf(stream, l)) = 2
    <3> HIDE DEF l
    <3> QED
      BY <2>2 DEF WholeHead
  <2>5. IsText(Line)
    BY <1>1, LineEnds
  <2>6. Contains(Line, ":")
    BY <2>3, <2>4, <2>5, TwoAreParted
  <2> QED
    BY <1>10, <2>6
<1> QED
  BY <1>11, <1>12

LEMMA HeaderLineGoes ==
    ASSUME StreamOK, HttpOK, service = "httpd", fault = {}, WholeHead, HeaderLine
    PROVE  fault' = {} /\ pc' \in {"header", "body"}
<1>1. pc = "header"
  BY DEF HeaderLine
<1>2. pos \in 0..Len(stream) /\ HeadRead(stream, pos, headers)
  BY <1>1 DEF HttpOK, HeadMissing, WholeHead
<1>3. ~NoLine /\ (Line = <<>> \/ Contains(Line, ":"))
  BY <1>2, NextOfHead
<1> QED
  BY <1>1, <1>3 DEF HeaderLine, HeadersEnd

\* What is read of the body of a whole request is there.
LEMMA HttpBodyIsThere ==
    ASSUME StreamOK, HttpOK, service = "httpd", fault = {}, WholeHead, pc = "body"
    PROVE  \E from, len : BodyRead(from, len) /\ from + len <= Len(stream)
<1>1. PICK from, len : from = HeadEnd(stream) /\ len = LengthOf(headers, <<"c">>)
  OBVIOUS
<1>2. BodyRead(from, len) /\ headers = HeadersSent(stream)
  BY <1>1 DEF HttpOK
<1>3. from + len <= Len(stream)
  BY <1>1, <1>2 DEF WholeHead
<1> QED
  BY <1>2, <1>3

LEMMA HttpGoesOn ==
    ASSUME StreamOK, HttpOK, HttpGoes, [Next]_vars
    PROVE  HttpGoes'
<1>1. stream' = stream /\ service' = service
  BY InputStays
<1> SUFFICES ASSUME service = "httpd", WholeHead'
             PROVE  fault' = {} /\ pc' \in {"request_line", "header", "body", "parsed"}
  BY <1>1 DEF HttpGoes
<1>2. WholeHead
  BY <1>1 DEF WholeHead
<1>3. fault = {} /\ pc \in {"request_line", "header", "body", "parsed"}
  BY <1>2 DEF HttpGoes
<1>4. CASE UNCHANGED vars
  BY <1>3, <1>4 DEF vars
<1>5. CASE RequestLine
  BY <1>2, <1>3, <1>5, RequestLineGoes
<1>6. CASE HeaderLine
  BY <1>2, <1>3, <1>6, HeaderLineGoes
<1>7. CASE ReadBody
  <2>1. pc = "body"
    BY <1>7 DEF ReadBody
  <2>2. PICK from, len : BodyRead(from, len) /\ from + len <= Len(stream)
    BY <1>2, <1>3, <2>1, HttpBodyIsThere
  <2> QED
    BY <1>3, <1>7, <2>2, ReadGives
<1>8. CASE Finish
  BY <1>3, <1>8, FinishHttpGoes
<1>9. CASE ReadLength \/ ReadKey \/ ReadValue \/ ReadComma \/ FreedLine \/ ReadPair \/ MakeRequest
            \/ ReadEnviron \/ ReadStdin
  BY <1>3, <1>9 DEF ReadLength, ReadKey, ReadValue, ReadComma, FreedLine, ReadPair, MakeRequest,
                    ReadEnviron, ReadStdin
<1> QED
  BY <1>4, <1>5, <1>6, <1>7, <1>8, <1>9 DEF Next

LEMMA HttpGoesAlong == Spec => [](StreamOK /\ HttpOK /\ HttpGoes)
<1>1. Init => HttpGoes
  <2> SUFFICES ASSUME Init, service = "httpd" PROVE fault = {} /\ pc = "request_line"
    BY DEF HttpGoes
  <2>1. fault = {}
    BY DEF Init
  <2>2. pc = "request_line"
    BY Zenon DEF Init
  <2> QED
    BY <2>1, <2>2
<1>2. StreamOK /\ HttpOK /\ HttpGoes /\ [Next]_vars => HttpGoes'
  BY HttpGoesOn
<1> QED
  BY <1>1, <1>2, HttpInvariant, PTL DEF Spec

\* A SCGI request, a HTTP request: neither is turned down, nor is it waited for more.
LEMMA ScgiIsParsed ==
    ASSUME StreamOK, ScgiOK, ScgiGoes, service = "scgi", Whole
    PROVE  fault = {} /\ pc \notin {"rejected", "crashed"} /\ ~Starved
<1>1. PICK p \in Netstrings(stream) :
        /\ <<"P">> \in DOMAIN Variables(stream)
           \/ (<<"U">> \in DOMAIN Variables(stream) /\ Variables(stream)[<<"U">>] # <<>>)
        /\ p[1] + p[2] + 2 + LengthOf(Variables(stream), <<"C">>) <= Len(stream)
  BY DEF Whole
<1>2. PICK d \in Nat, n \in Nat : d = p[1] /\ n = p[2] /\ Netstring(stream, d, n)
  <2>1. PICK L \in Nat : L = Len(stream)
    BY TextIsText DEF IsText
  <2> QED
    BY <2>1 DEF Netstrings
<1>3. Variables(stream) = VariablesOf(Part(stream, d, n))
  BY <1>2, TextIsText, VariablesSent
<1>4. WholeNetstring(d, n)
  <2>1. PICK len : len = LengthOf(Variables(stream), <<"C">>)
    OBVIOUS
  <2>2. d + n + 2 + len <= Len(stream)
    BY <1>1, <1>2, <2>1
  <2> QED
    BY <1>1, <1>2, <1>3, <2>1, <2>2 DEF WholeNetstring
<1>5. fault = {} /\ pc \in {"length", "key", "value", "comma", "body", "parsed"}
  BY <1>4 DEF ScgiGoes
<1>6. ~Starved
  <2>1. CASE pc = "body"
    <3>1. PICK from, len : BodyRead(from, len) /\ from + len <= Len(stream)
      BY <1>4, <1>5, <2>1, InItsBody
    <3> QED
      BY <1>5, <3>1, BodyIsThere
  <2> QED
    BY <2>1 DEF Starved
<1> QED
  BY <1>5, <1>6

LEMMA HttpIsParsed ==
    ASSUME StreamOK, HttpOK, HttpGoes, service = "httpd", Whole
    PROVE  fault = {} /\ pc \notin {"rejected", "crashed"} /\ ~Starved
<1>1. WholeHead
  BY DEF Whole, WholeHead
<1>2. fault = {} /\ pc \in {"request_line", "header", "body", "parsed"}
  BY <1>1 DEF HttpGoes
<1>3. ~Starved
  <2>1. CASE pc = "body"
    <3>1. PICK from, len : BodyRead(from, len) /\ from + len <= Len(stream)
      BY <1>1, <1>2, <2>1, HttpBodyIsThere
    <3> QED
      BY <1>2, <3>1, BodyIsThere
  <2> QED
    BY <2>1 DEF Starved
<1> QED
  BY <1>2, <1>3

LEMMA EnvIsParsed ==
    ASSUME EnvOK, service \in {"fcgi", "cgi"}, Whole
    PROVE  fault = {} /\ pc \notin {"rejected", "crashed"} /\ ~Starved
<1>1. CASE service = "fcgi"
  <2>1. ~NotWholePairs
    BY <1>1 DEF Whole, NotWholePairs, FirstOnes
  <2> QED
    BY <1>1, <2>1 DEF EnvOK, FcgiOK, Starved
<1>2. CASE service = "cgi"
  <2>1. pc # "environ" /\ LengthOf(env, <<"C">>) <= Len(stream)
    BY <1>2 DEF Whole
  <2>2. fault = {} /\ pc \in {"stdin", "parsed", "rejected"}
    BY <1>2, <2>1 DEF EnvOK, CgiOK
  <2>3. PICK n \in Nat, L \in Nat : n = LengthOf(env, <<"C">>) /\ n = content_length /\ L = Len(stream)
    BY <1>2, <2>1, TextIsText DEF EnvOK, CgiOK, EnvironRead, IsText
  <2>4. pc # "rejected"
    BY <1>2, <2>1, <2>3 DEF EnvOK, CgiOK
  <2> QED
    BY <2>2, <2>4 DEF Starved
<1> QED
  BY <1>1, <1>2

\* A request the peer sent whole is made: no service turns it down, ends the process,
\* does anything undefined on the way, or waits for bytes that do not come.
THEOREM WholeRequestsAreParsed == Spec => []WholeRequestsParsed
<1>1. /\ StreamOK /\ ScgiOK /\ ScgiGoes /\ HttpOK /\ HttpGoes /\ EnvOK
      => WholeRequestsParsed
  <2> SUFFICES ASSUME StreamOK, ScgiOK, ScgiGoes, HttpOK, HttpGoes, EnvOK, Whole
               PROVE  fault = {} /\ pc \notin {"rejected", "crashed"} /\ ~Starved
    BY DEF WholeRequestsParsed
  <2>1. service \in {"scgi", "httpd", "fcgi", "cgi"}
    BY DEF Whole
  <2> QED
    BY <2>1, ScgiIsParsed, HttpIsParsed, EnvIsParsed
<1> QED
  BY <1>1, ScgiGoesAlong, HttpGoesAlong, EnvInvariant, PTL
=============================================================================
