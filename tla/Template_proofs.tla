---------------------------- MODULE Template_proofs ----------------------------
(***************************************************************************)
(* The generator reports an error if, and only if, a file it read is       *)
(* wrong, and lists every file a page is made of, for any files.           *)
(***************************************************************************)
EXTENDS Template, Integers, FiniteSetTheorems, SequenceTheorems, WellFoundedInduction, TLAPS

-----------------------------------------------------------------------------
(* Sequences, of whatever elements.                                        *)

LEMMA AnySeq ==
    ASSUME NEW T, NEW s \in Seq(T)
    PROVE  IsSeq(s)
<1>1. Len(s) \in Nat /\ DOMAIN s = 1..Len(s) /\ s \in [1..Len(s) -> T]
  BY LenProperties
<1>2. s \in [1..Len(s) -> ToSet(s)]
  BY <1>1 DEF ToSet
<1> QED
  BY <1>1, <1>2, SeqDef DEF IsSeq

LEMMA SeqFacts ==
    ASSUME NEW s, IsSeq(s)
    PROVE  /\ Len(s) \in Nat /\ DOMAIN s = 1..Len(s)
           /\ s = <<>> <=> Len(s) = 0
BY LenProperties, EmptySeq DEF IsSeq

LEMMA AppendFacts ==
    ASSUME NEW s, IsSeq(s), NEW e
    PROVE  /\ IsSeq(Append(s, e)) /\ Len(Append(s, e)) = Len(s) + 1
           /\ \A i \in 1..Len(s) : Append(s, e)[i] = s[i]
           /\ Append(s, e)[Len(s) + 1] = e
           /\ ToSet(Append(s, e)) = ToSet(s) \cup {e}
<1> DEFINE T == ToSet(s) \cup {e}
           t == Append(s, e)
<1>1. s \in Seq(T) /\ e \in T
  BY SeqMonotonic DEF IsSeq
<1> HIDE DEF T
<1>2. /\ t \in Seq(T) /\ Len(t) = Len(s) + 1
      /\ \A i \in 1..Len(s) : t[i] = s[i]
      /\ t[Len(s) + 1] = e
  BY <1>1, AppendProperties
<1>3. IsSeq(t)
  BY <1>2, AnySeq
<1>4. /\ Len(s) \in Nat /\ DOMAIN s = 1..Len(s)
      /\ DOMAIN t = 1..(Len(s) + 1)
  BY <1>2, <1>3, SeqFacts
<1>5. ToSet(t) = ToSet(s) \cup {e}
  <2> HIDE DEF t
  <2>1. 1..(Len(s) + 1) = 1..Len(s) \cup {Len(s) + 1}
    BY <1>4
  <2> QED
    BY <1>2, <1>4, <2>1 DEF ToSet
<1> QED
  BY <1>2, <1>3, <1>5

LEMMA TailFacts ==
    ASSUME NEW s, IsSeq(s), s # <<>>
    PROVE  /\ Len(s) >= 1 /\ Head(s) = s[1]
           /\ IsSeq(Tail(s)) /\ Len(Tail(s)) = Len(s) - 1
           /\ \A i \in 1..(Len(s) - 1) : Tail(s)[i] = s[i + 1]
<1>1. Len(s) >= 1
  BY SeqFacts
<1>2. /\ Tail(s) \in Seq(ToSet(s)) /\ Len(Tail(s)) = Len(s) - 1
      /\ \A i \in 1..Len(Tail(s)) : Tail(s)[i] = s[i + 1]
  BY HeadTailProperties DEF IsSeq
<1>3. Head(s) = s[1]
  BY DEF IsSeq
<1> QED
  BY <1>1, <1>2, <1>3, AnySeq

LEMMA ReplaceFacts ==
    ASSUME NEW s, IsSeq(s), NEW n \in 1..Len(s), NEW e
    PROVE  LET r == [s EXCEPT ![n] = e] IN
           /\ IsSeq(r) /\ Len(r) = Len(s)
           /\ \A i \in 1..Len(s) : r[i] = IF i = n THEN e ELSE s[i]
<1>1. s \in Seq(ToSet(s) \cup {e})
  BY SeqMonotonic DEF IsSeq
<1> DEFINE T == ToSet(s) \cup {e}
           r == [s EXCEPT ![n] = e]
<1>2. e \in T
  OBVIOUS
<1> HIDE DEF T
<1>3. /\ r \in Seq(T) /\ Len(r) = Len(s)
      /\ \A i \in 1..Len(s) : r[i] = IF i = n THEN e ELSE s[i]
  BY <1>1, <1>2, ExceptSeq DEF T
<1> QED
  BY <1>3, AnySeq

LEMMA FrontFacts ==
    ASSUME NEW s, IsSeq(s), s # <<>>
    PROVE  /\ IsSeq(Front(s)) /\ Len(Front(s)) = Len(s) - 1
           /\ \A i \in 1..(Len(s) - 1) : Front(s)[i] = s[i]
<1> DEFINE n == Len(s) - 1
<1>1. n \in Nat /\ DOMAIN s = 1..(n + 1)
  BY SeqFacts
<1>2. \A i \in 1..n : s[i] \in ToSet(s)
  BY <1>1 DEF ToSet
<1>3. Front(s) = SubSeq(s, 1, n)
  BY DEF Front
<1> HIDE DEF n
<1>4. /\ SubSeq(s, 1, n) \in Seq(ToSet(s))
      /\ Len(SubSeq(s, 1, n)) = IF 1 <= n THEN n - 1 + 1 ELSE 0
      /\ \A i \in 1..(n - 1 + 1) : SubSeq(s, 1, n)[i] = s[1 + i - 1]
  BY <1>1, <1>2, SubSeqProperties
<1>5. /\ Len(SubSeq(s, 1, n)) = n
      /\ \A i \in 1..n : SubSeq(s, 1, n)[i] = s[i]
  BY <1>1, <1>4
<1> QED
  BY <1>3, <1>4, <1>5, AnySeq DEF n

-----------------------------------------------------------------------------
(* Natural numbers: what the prover's theorems of induction, with their    *)
(* operators, say of sets.                                                 *)

LEMMA LeastNat ==
    ASSUME NEW S, S \subseteq Nat, S # {}
    PROVE  \E n \in S : \A m \in S : n <= m
<1> DEFINE R == OpToRel(<, Nat)
<1>1. IsWellFoundedOn(R, Nat)
  BY NatLessThanWellFounded
<1>2. \A m, n \in Nat : m < n => <<m, n>> \in R
  BY DEF OpToRel
<1> HIDE DEF R
<1>3. PICK n \in S : \A m \in S : <<m, n>> \notin R
  BY <1>1, WFMin
<1>4. n \in Nat /\ \A m \in S : m \in Nat /\ ~(m < n)
  BY <1>2, <1>3
<1>5. \A m \in S : n <= m
  BY <1>4
<1> QED
  BY <1>5

LEMMA Induct ==
    ASSUME NEW T, 0 \in T, \A n \in Nat : n \in T => n + 1 \in T
    PROVE  Nat \subseteq T
<1> SUFFICES ASSUME Nat \ T # {}
             PROVE  FALSE
  OBVIOUS
<1>1. PICK n \in Nat \ T : \A m \in Nat \ T : n <= m
  BY LeastNat
<1>2. n # 0 /\ n \in Nat
  BY <1>1
<1>3. n - 1 \in Nat /\ n - 1 \in T
  BY <1>1, <1>2
<1>4. (n - 1) + 1 \in T
  BY <1>3
<1> QED
  BY <1>1, <1>2, <1>4

\* A set of numbers that are not above n has a greatest one.
LEMMA Greatest ==
    ASSUME NEW n \in Nat, NEW S, S \subseteq 1..n, S # {}
    PROVE  \E i \in S : \A j \in S : i >= j
<1> DEFINE Bounds == {m \in Nat : \A j \in S : j <= m}
<1>1. n \in Bounds /\ Bounds \subseteq Nat
  OBVIOUS
<1>2. PICK m \in Bounds : \A b \in Bounds : m <= b
  BY <1>1, LeastNat
<1>3. m \in Nat /\ \A j \in S : j <= m /\ j \in Nat /\ j >= 1
  BY <1>2
<1>4. m \in S
  <2> SUFFICES ASSUME m \notin S
               PROVE  FALSE
    OBVIOUS
  <2>1. \A j \in S : j <= m - 1
    BY <1>3
  <2>2. m - 1 \in Nat
    <3>1. PICK j \in S : j \in Nat /\ j >= 1 /\ j <= m
      BY <1>3
    <3> QED
      BY <1>3, <3>1
  <2>3. m - 1 \in Bounds
    BY <2>1, <2>2
  <2> QED
    BY <1>2, <1>3, <2>3
<1> QED
  BY <1>3, <1>4

-----------------------------------------------------------------------------
(* Counting.                                                               *)

LEMMA CountNone ==
    ASSUME NEW s, NEW kind
    PROVE  Count(s, kind, 1, 0) = 0
<1>1. {k \in 1..0 : s[k].kind = kind} = {}
  OBVIOUS
<1> QED
  BY <1>1, FS_EmptySet DEF Count

LEMMA CountNext ==
    ASSUME NEW s, NEW kind, NEW n \in Nat
    PROVE  /\ Count(s, kind, 1, n) \in Nat
           /\ Count(s, kind, 1, n + 1) =
                Count(s, kind, 1, n) + (IF s[n + 1].kind = kind THEN 1 ELSE 0)
<1> DEFINE S == {k \in 1..n : s[k].kind = kind}
           T == {k \in 1..(n + 1) : s[k].kind = kind}
<1>1. IsFiniteSet(S) /\ Cardinality(S) \in Nat
  <2>1. IsFiniteSet(1..n) /\ S \in SUBSET (1..n)
    BY FS_Interval
  <2> QED
    BY <2>1, FS_Subset, FS_CardinalityType
<1>2. n + 1 \notin S
  OBVIOUS
<1>3. IF s[n + 1].kind = kind THEN T = S \cup {n + 1} ELSE T = S
  OBVIOUS
<1>4. Count(s, kind, 1, n) = Cardinality(S) /\ Count(s, kind, 1, n + 1) = Cardinality(T)
  BY DEF Count
<1> HIDE DEF S, T
<1>5. Cardinality(S \cup {n + 1}) = Cardinality(S) + 1
  BY <1>1, <1>2, FS_AddElement
<1>6. CASE s[n + 1].kind = kind
  BY <1>1, <1>3, <1>4, <1>5, <1>6
<1>7. CASE s[n + 1].kind # kind
  BY <1>1, <1>3, <1>4, <1>7
<1> QED
  BY <1>6, <1>7

\* One item more.
LEMMA BalanceNext ==
    ASSUME NEW s, NEW n \in Nat
    PROVE  /\ Balance(s, 1, 0) = 0 /\ Balance(s, 1, n) \in Int
           /\ Balance(s, 1, n + 1) =
                IF s[n + 1].kind = "if" THEN Balance(s, 1, n) + 1
                ELSE IF s[n + 1].kind = "endif" THEN Balance(s, 1, n) - 1
                ELSE Balance(s, 1, n)
<1>1. Balance(s, 1, 0) = 0
  BY CountNone DEF Balance
<1> DEFINE opens == "if"
           closes == "endif"
           k == s[n + 1].kind
<1>2. opens # closes
  OBVIOUS
<1> HIDE DEF opens, closes, k
<1>3. /\ Count(s, opens, 1, n) \in Nat /\ Count(s, closes, 1, n) \in Nat
      /\ Count(s, opens, 1, n + 1) = Count(s, opens, 1, n) + (IF k = opens THEN 1 ELSE 0)
      /\ Count(s, closes, 1, n + 1) = Count(s, closes, 1, n) + (IF k = closes THEN 1 ELSE 0)
  BY CountNext DEF k
<1>4. \A i : Balance(s, 1, i) = Count(s, opens, 1, i) - Count(s, closes, 1, i)
  BY DEF Balance, opens, closes
<1>5. /\ Balance(s, 1, n) \in Int
      /\ Balance(s, 1, n + 1) =
                IF k = opens THEN Balance(s, 1, n) + 1
                ELSE IF k = closes THEN Balance(s, 1, n) - 1
                ELSE Balance(s, 1, n)
  BY <1>2, <1>3, <1>4
<1> QED
  BY <1>1, <1>5 DEF k, opens, closes

-----------------------------------------------------------------------------
(* The invariant.                                                          *)

\* The files on the disk that were opened.
FilesRead == {Main} \cup ToSet(includes)

Plain(frame) == frame = [file |-> frame.file, items |-> frame.items, blocks |-> frame.blocks]

ShapeInv ==
    /\ sources \in Sources
    /\ IsSeq(includes) /\ IsSeq(stack) /\ stack # <<>>
    /\ \A j \in DOMAIN stack :
        Plain(stack[j]) /\ stack[j].file \in FilesRead \cap DOMAIN sources

\* How many items of the file on top were parsed; the others are left.
Parsed == Len(sources[Top.file]) - Len(Top.items)
ItemsLeft ==
    /\ IsSeq(Top.items) /\ Parsed \in Nat
    /\ \A i \in 1..Len(Top.items) : Top.items[i] = sources[Top.file][Parsed + i]
ReadInv == status = "parse" /\ ~leftover => ItemsLeft

\* As long as nothing was left over, the parser's buffer is empty.
BufferInv == leftover \/ buffer = <<>>

\* No item of s up to the nth is wrong.
GoodUpTo(s, n) ==
    \A i \in 1..n :
        /\ s[i].kind \notin Unreadable /\ Balance(s, 1, i) >= 0
        /\ s[i].kind = "else" => Balance(s, 1, i) > 0

\* What ends the parser is a file that is wrong.  Until then the counter is
\* the number of open blocks of the file that is parsed, and every other file
\* that was opened is well formed.
SyntaxInv ==
    /\ leftover \/ status = "error" => \E f \in FilesRead : ~WellFormed(f)
    /\ status = "build" => ifCount = 0
    /\ status \in {"build", "done"} /\ ~leftover => \A f \in FilesRead : WellFormed(f)
    /\ status = "parse" /\ ~leftover =>
        /\ ifCount = Balance(sources[Top.file], 1, Parsed)
        /\ GoodUpTo(sources[Top.file], Parsed)
        /\ \A f \in FilesRead : f = Top.file \/ WellFormed(f)

GeneratorInv == ShapeInv /\ ReadInv /\ SyntaxInv

-----------------------------------------------------------------------------
(* The stack.                                                              *)

LEMMA FrameFields ==
    ASSUME NEW f, NEW i, NEW b
    PROVE  LET r == [file |-> f, items |-> i, blocks |-> b] IN
           r.file = f /\ r.items = i /\ r.blocks = b /\ Plain(r)
BY DEF Plain

LEMMA FrameWith ==
    ASSUME NEW r, Plain(r), NEW x
    PROVE  /\ [r EXCEPT !.items = x] = [file |-> r.file, items |-> x, blocks |-> r.blocks]
           /\ [r EXCEPT !.blocks = x] = [file |-> r.file, items |-> r.items, blocks |-> x]
<1> DEFINE f == r.file
           i == r.items
           b == r.blocks
           q == [file |-> f, items |-> i, blocks |-> b]
<1>1. r = q
  BY DEF Plain
<1> HIDE DEF f, i, b
<1>2. [q EXCEPT !.items = x] = [file |-> f, items |-> x, blocks |-> b]
  BY Z3
<1>3. [q EXCEPT !.blocks = x] = [file |-> f, items |-> i, blocks |-> x]
  BY Z3
<1> QED
  BY <1>1, <1>2, <1>3 DEF f, i, b

\* The frame on top is replaced.
LEMMA Replaced ==
    ASSUME ShapeInv, NEW r, Plain(r), r.file = Top.file
    PROVE  LET t == [stack EXCEPT ![Len(stack)] = r] IN
           /\ Len(stack) \in 1..Len(stack) /\ DOMAIN stack = 1..Len(stack)
           /\ IsSeq(t) /\ Len(t) = Len(stack)
           /\ \A j \in 1..Len(stack) : t[j] = IF j = Len(stack) THEN r ELSE stack[j]
           /\ \A j \in 1..Len(stack) :
                Plain(t[j]) /\ t[j].file \in FilesRead \cap DOMAIN sources
<1> DEFINE t == [stack EXCEPT ![Len(stack)] = r]
<1>1. Len(stack) \in 1..Len(stack) /\ DOMAIN stack = 1..Len(stack)
  BY SeqFacts DEF ShapeInv
<1>2. /\ IsSeq(t) /\ Len(t) = Len(stack)
      /\ \A i \in 1..Len(stack) : t[i] = IF i = Len(stack) THEN r ELSE stack[i]
  BY <1>1, ReplaceFacts DEF ShapeInv
<1>3. r.file \in FilesRead \cap DOMAIN sources
  BY <1>1 DEF ShapeInv, Top
<1> HIDE DEF t
<1>4. ASSUME NEW j \in 1..Len(stack)
      PROVE  Plain(t[j]) /\ t[j].file \in FilesRead \cap DOMAIN sources
  BY <1>1, <1>2, <1>3, <1>4 DEF ShapeInv
<1> QED
  BY <1>1, <1>2, <1>4 DEF t

LEMMA TopReplaced ==
    ASSUME ShapeInv, NEW r, Plain(r), r.file = Top.file,
           stack' = [stack EXCEPT ![Len(stack)] = r],
           UNCHANGED <<sources, includes>>
    PROVE  ShapeInv' /\ Top' = r /\ Len(stack') = Len(stack)
<1>1. /\ Len(stack) \in 1..Len(stack) /\ IsSeq(stack') /\ Len(stack') = Len(stack)
      /\ \A j \in 1..Len(stack) :
            Plain(stack'[j]) /\ stack'[j].file \in FilesRead \cap DOMAIN sources
      /\ stack'[Len(stack)] = r
  BY Replaced
<1>2. DOMAIN stack' = 1..Len(stack) /\ stack' # <<>>
  <2> DEFINE t == stack'
  <2>1. IsSeq(t) /\ Len(t) = Len(stack) /\ Len(stack) \in 1..Len(stack)
    BY <1>1
  <2> HIDE DEF t
  <2>2. DOMAIN t = 1..Len(t) /\ (t = <<>> <=> Len(t) = 0)
    BY <2>1, SeqFacts
  <2> QED
    BY <2>1, <2>2 DEF t
<1>3. FilesRead' = FilesRead /\ Top' = r
  BY <1>1 DEF FilesRead, Top
<1>4. \A j \in DOMAIN stack' :
        Plain(stack'[j]) /\ stack'[j].file \in FilesRead' \cap DOMAIN sources'
  BY <1>1, <1>2, <1>3
<1>5. sources' \in Sources /\ IsSeq(includes') /\ IsSeq(stack')
  BY <1>1 DEF ShapeInv
<1> QED
  BY <1>1, <1>2, <1>3, <1>4, <1>5 DEF ShapeInv

LEMMA TopPlain ==
    ASSUME ShapeInv
    PROVE  /\ Len(stack) \in 1..Len(stack) /\ DOMAIN stack = 1..Len(stack)
           /\ Plain(Top) /\ Top.file \in FilesRead \cap DOMAIN sources
<1>1. Len(stack) \in 1..Len(stack) /\ DOMAIN stack = 1..Len(stack)
  BY SeqFacts DEF ShapeInv
<1> QED
  BY <1>1 DEF ShapeInv, Top

\* The items of the frame on top are others, or its blocks.
LEMMA TopWith ==
    ASSUME ShapeInv, NEW x, UNCHANGED <<sources, includes>>
    PROVE  /\ stack' = [stack EXCEPT ![Len(stack)].items = x] =>
                /\ ShapeInv' /\ Len(stack') = Len(stack)
                /\ Top' = [file |-> Top.file, items |-> x, blocks |-> Top.blocks]
           /\ stack' = [stack EXCEPT ![Len(stack)].blocks = x] =>
                /\ ShapeInv' /\ Len(stack') = Len(stack)
                /\ Top' = [file |-> Top.file, items |-> Top.items, blocks |-> x]
<1> DEFINE p == [Top EXCEPT !.items = x]
           q == [Top EXCEPT !.blocks = x]
<1>1. /\ p = [file |-> Top.file, items |-> x, blocks |-> Top.blocks]
      /\ q = [file |-> Top.file, items |-> Top.items, blocks |-> x]
  BY TopPlain, FrameWith
<1>2. Plain(p) /\ p.file = Top.file /\ Plain(q) /\ q.file = Top.file
  BY <1>1, FrameFields
<1>3. /\ [stack EXCEPT ![Len(stack)].items = x] = [stack EXCEPT ![Len(stack)] = p]
      /\ [stack EXCEPT ![Len(stack)].blocks = x] = [stack EXCEPT ![Len(stack)] = q]
  BY DEF Top
<1> HIDE DEF p, q
<1>4. /\ stack' = [stack EXCEPT ![Len(stack)] = p] =>
            ShapeInv' /\ Len(stack') = Len(stack) /\ Top' = p
      /\ stack' = [stack EXCEPT ![Len(stack)] = q] =>
            ShapeInv' /\ Len(stack') = Len(stack) /\ Top' = q
  BY <1>2, TopReplaced
<1> QED
  BY <1>1, <1>3, <1>4

-----------------------------------------------------------------------------
(* Reading and opening files.                                              *)

LEMMA FilesAreSeqs ==
    ASSUME ShapeInv, NEW f \in DOMAIN sources
    PROVE  /\ IsSeq(sources[f]) /\ Len(sources[f]) \in Nat
           /\ DOMAIN sources[f] = 1..Len(sources[f])
<1>1. IsSeq(sources[f])
  BY SourcesAssumption DEF ShapeInv
<1> QED
  BY <1>1, SeqFacts

LEMMA ReadGives ==
    ASSUME ShapeInv, ReadInv, Parsing, ~leftover, Read,
           UNCHANGED <<sources, leftover, includes>>
    PROVE  /\ ShapeInv' /\ ReadInv' /\ FilesRead' = FilesRead
           /\ Top'.file = Top.file /\ Top'.blocks = Top.blocks
           /\ Parsed \in Nat /\ Parsed' = Parsed + 1
           /\ Parsed + 1 \in 1..Len(sources[Top.file])
           /\ Item = sources[Top.file][Parsed + 1] /\ ~leftover
<1> DEFINE items == Top.items
           s == sources[Top.file]
<1>1. IsSeq(items) /\ items # <<>> /\ ItemsLeft /\ ~leftover
  BY DEF ReadInv, ItemsLeft, Parsing
<1>2. ShapeInv' /\ Top' = [file |-> Top.file, items |-> Tail(items), blocks |-> Top.blocks]
  BY TopWith DEF Read, Top
<1>3. /\ Top'.file = Top.file /\ Top'.items = Tail(items)
      /\ Top'.blocks = Top.blocks
  BY <1>2, FrameFields
<1>4. /\ Len(items) >= 1 /\ Head(items) = items[1]
      /\ IsSeq(Tail(items)) /\ Len(Tail(items)) = Len(items) - 1
      /\ \A i \in 1..(Len(items) - 1) : Tail(items)[i] = items[i + 1]
  BY <1>1, TailFacts
<1>5. Len(s) \in Nat /\ Len(items) \in Nat
  BY <1>1, TopPlain, FilesAreSeqs, SeqFacts
<1>6. Parsed = Len(s) - Len(items) /\ Parsed \in Nat
  BY <1>1 DEF Parsed, ItemsLeft
<1>7. Parsed' = Len(s) - Len(Tail(items))
  BY <1>3 DEF Parsed
<1>8. \A i \in 1..Len(items) : items[i] = s[Parsed + i]
  BY <1>1 DEF ItemsLeft
<1> HIDE DEF items, s
<1>9. Parsed' = Parsed + 1 /\ Parsed + 1 \in 1..Len(s) /\ Parsed' \in Nat
  <2> DEFINE t == Tail(items)
  <2>1. Len(items) >= 1 /\ Len(t) = Len(items) - 1
    BY <1>4
  <2>2. Parsed' = Len(s) - Len(t)
    BY <1>7
  <2> HIDE DEF t
  <2> QED
    BY <1>5, <1>6, <2>1, <2>2
<1>10. \A i \in 1..Len(Tail(items)) : Tail(items)[i] = s[Parsed' + i]
  <2>1. ASSUME NEW i \in 1..Len(Tail(items))
        PROVE  Tail(items)[i] = s[Parsed' + i]
    <3>1. /\ i \in 1..(Len(items) - 1) /\ i + 1 \in 1..Len(items)
          /\ Parsed + (i + 1) = Parsed' + i
      BY <1>4, <1>5, <1>6, <1>9, <2>1
    <3> QED
      BY <1>4, <1>8, <3>1
  <2> QED
    BY <2>1
<1>11. Item = s[Parsed + 1]
  <2>1. 1 \in 1..Len(items)
    BY <1>4, <1>5
  <2> QED
    BY <1>4, <1>8, <2>1 DEF Item, items
<1>12. ItemsLeft'
  BY <1>3, <1>4, <1>9, <1>10 DEF ItemsLeft, s
<1>13. FilesRead' = FilesRead
  BY DEF FilesRead
<1> QED
  BY <1>1, <1>2, <1>3, <1>6, <1>9, <1>11, <1>12, <1>13 DEF ReadInv, s

LEMMA FileOpened ==
    ASSUME ShapeInv, NEW f \in DOMAIN sources,
           sources' = sources, Top' = Frame(f)
    PROVE  ItemsLeft' /\ Top'.file = f /\ Parsed' = 0
<1>1. Top'.file = f /\ Top'.items = sources[f]
  BY FrameFields DEF Frame
<1>2. IsSeq(sources[f]) /\ Len(sources[f]) \in Nat
  BY FilesAreSeqs
<1>3. Parsed' = 0
  BY <1>1, <1>2 DEF Parsed
<1>4. \A i \in 1..Len(sources[f]) : 0 + i = i
  BY <1>2
<1> QED
  BY <1>1, <1>2, <1>3, <1>4 DEF ItemsLeft

LEMMA InitGenerator == Init => GeneratorInv
<1> SUFFICES ASSUME Init
             PROVE  GeneratorInv
  OBVIOUS
<1> DEFINE none == <<>>
<1>1. IsSeq(none) /\ ToSet(none) = {}
  <2>1. none \in Seq({})
    BY EmptySeq
  <2>2. DOMAIN none = {}
    OBVIOUS
  <2> QED
    BY <2>1, <2>2, AnySeq DEF ToSet
<1>2. /\ sources \in Sources /\ stack = <<Frame(Main)>> /\ includes = none
      /\ ifCount = 0 /\ leftover = FALSE /\ status = "parse"
  BY DEF Init
<1>3. FilesRead = {Main} /\ Main \in DOMAIN sources
  BY <1>1, <1>2, SourcesAssumption DEF FilesRead
<1>4. IsSeq(stack) /\ stack # <<>> /\ DOMAIN stack = {1} /\ Top = Frame(Main)
  <2>1. stack \in Seq({Frame(Main)})
    BY <1>2
  <2>2. IsSeq(stack)
    BY <2>1, AnySeq
  <2> QED
    BY <1>2, <2>2 DEF Top
<1>5. Plain(Frame(Main)) /\ Frame(Main).file = Main /\ Frame(Main).items = sources[Main]
  BY FrameFields DEF Frame
<1>6. ShapeInv
  <2>1. stack[1] = Frame(Main)
    BY <1>2
  <2> QED
    BY <1>1, <1>2, <1>3, <1>4, <1>5, <2>1 DEF ShapeInv
<1>7. IsSeq(sources[Main]) /\ Len(sources[Main]) \in Nat
  BY <1>3, <1>6, FilesAreSeqs
<1>8. Parsed = 0
  BY <1>4, <1>5, <1>7 DEF Parsed
<1>9. ItemsLeft
  <2>1. \A i \in 1..Len(sources[Main]) : 0 + i = i
    BY <1>7
  <2> QED
    BY <1>4, <1>5, <1>7, <1>8, <2>1 DEF ItemsLeft
<1>10. SyntaxInv
  <2>1. GoodUpTo(sources[Main], 0)
    BY DEF GoodUpTo
  <2>2. Balance(sources[Main], 1, 0) = 0
    BY BalanceNext
  <2> QED
    BY <1>2, <1>3, <1>4, <1>5, <1>8, <2>1, <2>2 DEF SyntaxInv
<1> QED
  BY <1>6, <1>9, <1>10 DEF GeneratorInv, ReadInv

-----------------------------------------------------------------------------
(* The steps of the parser.                                                *)

LEMMA WrongItem ==
    ASSUME ShapeInv, NEW f \in DOMAIN sources, NEW i \in 1..Len(sources[f]),
           \/ sources[f][i].kind \in Unreadable
           \/ ~(Balance(sources[f], 1, i) >= 0)
           \/ sources[f][i].kind = "else" /\ ~(Balance(sources[f], 1, i) > 0)
    PROVE  ~WellFormed(f)
<1>1. i \in DOMAIN sources[f]
  BY FilesAreSeqs
<1> QED
  BY <1>1 DEF WellFormed

\* An item that is not wrong was read.
LEMMA ItemRead ==
    ASSUME GeneratorInv, Parsing, ~leftover, Read,
           UNCHANGED <<sources, leftover, includes, status>>,
           ifCount' = Balance(sources[Top.file], 1, Parsed + 1),
           Item.kind \notin Unreadable, ifCount' >= 0, Item.kind = "else" => ifCount' > 0
    PROVE  GeneratorInv'
<1> DEFINE s == sources[Top.file]
<1>1. /\ ShapeInv' /\ ReadInv' /\ FilesRead' = FilesRead
      /\ Top'.file = Top.file
      /\ Parsed \in Nat /\ Parsed' = Parsed + 1
      /\ Item = s[Parsed + 1] /\ ~leftover /\ status = "parse"
  BY ReadGives DEF GeneratorInv, Parsing
<1>2. GoodUpTo(s, Parsed) /\ \A f \in FilesRead : f = Top.file \/ WellFormed(f)
  BY <1>1 DEF GeneratorInv, SyntaxInv
<1>3. GoodUpTo(s, Parsed + 1)
  <2> SUFFICES ASSUME NEW i \in 1..(Parsed + 1)
               PROVE  /\ s[i].kind \notin Unreadable /\ Balance(s, 1, i) >= 0
                      /\ s[i].kind = "else" => Balance(s, 1, i) > 0
    BY DEF GoodUpTo
  <2>1. i \in 1..Parsed \/ i = Parsed + 1
    BY <1>1
  <2>2. CASE i \in 1..Parsed
    BY <1>2, <2>2 DEF GoodUpTo
  <2>3. CASE i = Parsed + 1
    BY <1>1, <2>3
  <2> QED
    BY <2>1, <2>2, <2>3
<1>4. \A f : WellFormed(f)' <=> WellFormed(f)
  BY DEF WellFormed
<1> HIDE DEF s
<1>5. status' = "parse" /\ ~leftover'
  BY <1>1
<1>6. ifCount' = Balance(s, 1, Parsed') /\ GoodUpTo(s, Parsed') /\ s = sources'[Top'.file]
  BY <1>1, <1>3 DEF s
<1>7. \A f \in FilesRead' : f = Top'.file \/ WellFormed(f)'
  BY <1>1, <1>2, <1>4
<1>8. SyntaxInv'
  BY <1>5, <1>6, <1>7 DEF SyntaxInv
<1> QED
  BY <1>1, <1>8 DEF GeneratorInv

\* An item that opens nothing and closes nothing.
LEMMA SimpleItem ==
    ASSUME GeneratorInv, Parsing, ~leftover, Read,
           UNCHANGED <<sources, leftover, includes, status, ifCount>>,
           Item.kind \notin Unreadable, Item.kind \notin {"if", "endif", "else"}
    PROVE  GeneratorInv'
<1> DEFINE s == sources[Top.file]
<1>1. Parsed \in Nat /\ Item = s[Parsed + 1]
  BY ReadGives DEF GeneratorInv
<1>2. /\ ~leftover /\ status = "parse"
      /\ ifCount = Balance(s, 1, Parsed) /\ GoodUpTo(s, Parsed)
  BY DEF GeneratorInv, SyntaxInv, Parsing
<1>3. Balance(s, 1, Parsed + 1) = Balance(s, 1, Parsed)
  BY <1>1, BalanceNext
<1>4. Balance(s, 1, Parsed) >= 0
  <2>1. CASE Parsed = 0
    BY <2>1, BalanceNext
  <2>2. CASE Parsed # 0
    <3>1. Parsed \in 1..Parsed
      BY <1>1, <2>2
    <3> QED
      BY <1>2, <3>1 DEF GoodUpTo
  <2> QED
    BY <2>1, <2>2
<1> QED
  BY <1>2, <1>3, <1>4, ItemRead

LEMMA TagKeeps ==
    ASSUME GeneratorInv, ParseTag, ~leftover
    PROVE  GeneratorInv'
<1> DEFINE s == sources[Top.file]
           k == Item.kind
           b == Balance(s, 1, Parsed)
           c == Balance(s, 1, Parsed + 1)
<1>1. /\ Parsing /\ Read /\ k \in Tags
      /\ UNCHANGED <<sources, leftover, includes>>
  BY DEF ParseTag, Same
<1>2. /\ ShapeInv' /\ ReadInv' /\ FilesRead' = FilesRead /\ ShapeInv
      /\ Parsed \in Nat /\ Parsed + 1 \in 1..Len(s)
      /\ Item = s[Parsed + 1] /\ ~leftover /\ status = "parse"
      /\ Top.file \in FilesRead \cap DOMAIN sources
  BY <1>1, ReadGives, TopPlain DEF GeneratorInv, Parsing
<1>3. ifCount = b /\ GoodUpTo(s, Parsed)
  BY <1>2 DEF GeneratorInv, SyntaxInv
<1>4. b \in Int /\ c = IF k = "if" THEN b + 1 ELSE IF k = "endif" THEN b - 1 ELSE b
  BY <1>2, BalanceNext
<1>5. b >= 0
  <2>1. CASE Parsed = 0
    BY <2>1, BalanceNext
  <2>2. CASE Parsed # 0
    <3>1. Parsed \in 1..Parsed
      BY <1>2, <2>2
    <3> QED
      BY <1>3, <3>1 DEF GoodUpTo
  <2> QED
    BY <2>1, <2>2
<1>6. CASE k \in {"else", "endif"} /\ ifCount <= 0
  <2>1. status' = "error"
    BY <1>6 DEF ParseTag
  <2>2. IF k = "endif" THEN ~(c >= 0) ELSE k = "else" /\ ~(c > 0)
    <3>1. CASE k = "endif"
      <4>1. c = b - 1
        BY <1>4, <3>1
      <4> HIDE DEF b, c
      <4>2. ~(c >= 0)
        BY <1>3, <1>4, <1>6, <4>1
      <4> QED
        BY <3>1, <4>2
    <3>2. CASE k = "else"
      <4>1. c = b
        BY <1>4, <3>2
      <4> HIDE DEF b, c
      <4>2. ~(c > 0)
        BY <1>3, <1>4, <1>6, <4>1
      <4> QED
        BY <3>2, <4>2
    <3> QED
      BY <1>6, <3>1, <3>2
  <2>3. ~WellFormed(Top.file)
    BY <1>2, <2>2, WrongItem
  <2>4. \A f : WellFormed(f)' <=> WellFormed(f)
    BY <1>1 DEF WellFormed
  <2>5. \E f \in FilesRead' : ~WellFormed(f)'
    BY <1>2, <2>3, <2>4
  <2>6. SyntaxInv'
    BY <2>1, <2>5 DEF SyntaxInv
  <2> QED
    BY <1>2, <2>6 DEF GeneratorInv
<1>7. CASE ~(k \in {"else", "endif"} /\ ifCount <= 0)
  <2>1. /\ status' = status
        /\ ifCount' = CASE k = "if" -> ifCount + 1
                        [] k = "endif" -> ifCount - 1
                        [] OTHER -> ifCount
    BY <1>7 DEF ParseTag
  <2>2. ifCount' = IF k = "if" THEN ifCount + 1 ELSE IF k = "endif" THEN ifCount - 1 ELSE ifCount
    <3>1. k = "if" => k # "endif"
      OBVIOUS
    <3> QED
      BY <2>1, <3>1, Zenon
  <2>3. ifCount' = c
    BY <1>3, <1>4, <2>2
  <2>4. c >= 0 /\ (k = "else" => c > 0)
    <3>1. CASE k = "if"
      BY <1>4, <1>5, <3>1
    <3>2. CASE k \in {"endif", "else"}
      <4>1. b > 0
        BY <1>3, <1>4, <1>7, <3>2
      <4> QED
        BY <1>4, <3>2, <4>1
    <3>3. CASE k \notin {"if", "endif", "else"}
      BY <1>4, <1>5, <3>3
    <3> QED
      BY <3>1, <3>2, <3>3
  <2>5. k \notin Unreadable
    BY <1>1 DEF Tags, Unreadable
  <2> HIDE DEF b
  <2> QED
    BY <1>1, <2>1, <2>3, <2>4, <2>5, ItemRead
<1> QED
  BY <1>6, <1>7

LEMMA TextKeeps ==
    ASSUME GeneratorInv, ParseText \/ ParsePrint, ~leftover
    PROVE  GeneratorInv'
<1>1. /\ Parsing /\ Read /\ Item.kind \in {"text", "var", "call"}
      /\ UNCHANGED <<sources, leftover, includes, status, ifCount>>
  BY DEF ParseText, ParsePrint, Same
<1>2. Item.kind \notin Unreadable /\ Item.kind \notin {"if", "endif", "else"}
  BY <1>1 DEF Unreadable
<1> QED
  BY <1>1, <1>2, SimpleItem

\* After a line was left over the parser may read on, and nothing is claimed
\* but that a file is wrong.
LEMMA LeftoverKeeps ==
    ASSUME GeneratorInv, leftover, ParseText \/ ParseTag \/ ParsePrint \/ ParseRest
    PROVE  GeneratorInv'
<1>1. /\ \E x : stack' = [stack EXCEPT ![Len(stack)].items = x]
      /\ UNCHANGED <<sources, includes, leftover>>
      /\ status = "parse" /\ status' \in {"parse", "error"}
  <2>1. CASE ParseText \/ ParsePrint
    BY <2>1 DEF ParseText, ParsePrint, Parsing, Read, Same
  <2>2. CASE ParseTag
    BY <2>2 DEF ParseTag, Parsing, Read, Same
  <2>3. CASE ParseRest
    BY <2>3 DEF ParseRest
  <2> QED
    BY <2>1, <2>2, <2>3
<1>2. ShapeInv'
  BY <1>1, TopWith DEF GeneratorInv
<1>3. \E f \in FilesRead' : ~WellFormed(f)'
  BY <1>1 DEF GeneratorInv, SyntaxInv, FilesRead, WellFormed
<1> QED
  BY <1>1, <1>2, <1>3 DEF GeneratorInv, ReadInv, SyntaxInv

LEMMA NextItem ==
    ASSUME ShapeInv, ReadInv, status = "parse", Top.items # <<>>, ~leftover
    PROVE  /\ Item = sources[Top.file][Parsed + 1]
           /\ Parsed \in Nat /\ Parsed + 1 \in 1..Len(sources[Top.file])
<1> DEFINE items == Top.items
           s == sources[Top.file]
<1>1. IsSeq(items) /\ items # <<>> /\ ItemsLeft
  BY DEF ReadInv, ItemsLeft
<1>2. Len(items) >= 1 /\ Head(items) = items[1] /\ Len(items) \in Nat
  BY <1>1, TailFacts, SeqFacts
<1>3. Len(s) \in Nat /\ Parsed = Len(s) - Len(items) /\ Parsed \in Nat
  BY <1>1, TopPlain, FilesAreSeqs DEF Parsed, ItemsLeft
<1>4. \A i \in 1..Len(items) : items[i] = s[Parsed + i]
  BY <1>1 DEF ItemsLeft
<1> HIDE DEF items, s
<1>5. 1 \in 1..Len(items) /\ Parsed + 1 \in 1..Len(s)
  BY <1>2, <1>3
<1> QED
  BY <1>2, <1>3, <1>4, <1>5 DEF Item, items, s

LEMMA WrongKeeps ==
    ASSUME GeneratorInv, BufferInv, ParseWrong
    PROVE  GeneratorInv'
<1>1. /\ status = "parse" /\ Top.items # <<>> /\ (leftover \/ Item.kind \in Unreadable)
      /\ UNCHANGED <<sources, includes>>
      /\ \/ status' = "error" /\ stack' = stack
         \/ /\ leftover' = TRUE /\ status' = status
            /\ stack' = [stack EXCEPT ![Len(stack)].items = <<>>]
  BY DEF ParseWrong, BufferInv
<1>2. ShapeInv'
  <2>1. CASE stack' = stack
    BY <1>1, <2>1 DEF GeneratorInv, ShapeInv, FilesRead
  <2>2. CASE stack' = [stack EXCEPT ![Len(stack)].items = <<>>]
    BY <1>1, <2>2, TopWith DEF GeneratorInv
  <2> QED
    BY <1>1, <2>1, <2>2
<1>3. \E f \in FilesRead : ~WellFormed(f)
  <2>1. CASE leftover
    BY <2>1 DEF GeneratorInv, SyntaxInv
  <2>2. CASE ~leftover
    <3>1. /\ Item = sources[Top.file][Parsed + 1] /\ Item.kind \in Unreadable
          /\ Parsed + 1 \in 1..Len(sources[Top.file])
      BY <1>1, <2>2, NextItem DEF GeneratorInv
    <3>2. Top.file \in FilesRead \cap DOMAIN sources
      BY TopPlain DEF GeneratorInv
    <3> QED
      BY <3>1, <3>2, WrongItem DEF GeneratorInv
  <2> QED
    BY <2>1, <2>2
<1>4. \E f \in FilesRead' : ~WellFormed(f)'
  BY <1>1, <1>3 DEF FilesRead, WellFormed
<1>5. \/ status' = "error"
      \/ status' = "parse" /\ leftover' = TRUE
  BY <1>1
<1> QED
  BY <1>2, <1>4, <1>5 DEF GeneratorInv, ReadInv, SyntaxInv

LEMMA EndKeeps ==
    ASSUME GeneratorInv, ParseEnd
    PROVE  GeneratorInv'
<1> DEFINE s == sources[Top.file]
<1>1. /\ status = "parse" /\ Top.items = <<>>
      /\ UNCHANGED <<sources, includes, leftover, ifCount>>
      /\ \/ ifCount # 0 /\ status' = "error" /\ stack' = stack
         \/ /\ ifCount = 0 /\ status' = "build"
            /\ stack' = [stack EXCEPT ![Len(stack)].blocks = nodes]
  BY DEF ParseEnd, Same
<1>2. ShapeInv' /\ FilesRead' = FilesRead /\ (\A f : WellFormed(f)' <=> WellFormed(f))
  <2>1. CASE stack' = stack
    BY <1>1, <2>1 DEF GeneratorInv, ShapeInv, FilesRead, WellFormed
  <2>2. CASE stack' = [stack EXCEPT ![Len(stack)].blocks = nodes]
    BY <1>1, <2>2, TopWith DEF GeneratorInv, FilesRead, WellFormed
  <2> QED
    BY <1>1, <2>1, <2>2
<1>3. ASSUME ~leftover
      PROVE  /\ ifCount = Balance(s, 1, Len(s)) /\ GoodUpTo(s, Len(s))
             /\ Top.file \in FilesRead \cap DOMAIN sources
             /\ DOMAIN s = 1..Len(s)
             /\ \A f \in FilesRead : f = Top.file \/ WellFormed(f)
  <2>1. Len(s) \in Nat /\ DOMAIN s = 1..Len(s) /\ Top.file \in FilesRead \cap DOMAIN sources
    BY TopPlain, FilesAreSeqs DEF GeneratorInv
  <2>2. Parsed = Len(s)
    <3> DEFINE n == Len(s)
    <3>1. Parsed = n - 0
      BY <1>1 DEF Parsed
    <3>2. n \in Nat
      BY <2>1
    <3> HIDE DEF n
    <3>3. Parsed = n
      BY <3>1, <3>2
    <3> QED
      BY <3>3 DEF n
  <2> QED
    BY <1>1, <1>3, <2>1, <2>2 DEF GeneratorInv, SyntaxInv
<1>4. leftover => \E f \in FilesRead : ~WellFormed(f)
  BY DEF GeneratorInv, SyntaxInv
<1>5. CASE ifCount # 0
  <2>1. ~leftover => ~WellFormed(Top.file)
    BY <1>3, <1>5 DEF WellFormed
  <2>2. \E f \in FilesRead : ~WellFormed(f)
    BY <1>3, <1>4, <2>1
  <2> QED
    BY <1>1, <1>2, <1>5, <2>2 DEF GeneratorInv, ReadInv, SyntaxInv
<1>6. CASE ifCount = 0
  <2>1. ~leftover => WellFormed(Top.file)
    BY <1>3, <1>6 DEF WellFormed, GoodUpTo
  <2>2. ~leftover => \A f \in FilesRead : WellFormed(f)
    BY <1>3, <2>1
  <2>3. status' = "build" /\ ifCount' = 0 /\ leftover' = leftover
    BY <1>1, <1>6
  <2> QED
    BY <1>2, <1>4, <2>2, <2>3 DEF GeneratorInv, ReadInv, SyntaxInv
<1> QED
  BY <1>5, <1>6

-----------------------------------------------------------------------------
(* The steps of the builder.                                               *)

LEMMA BlockKeeps ==
    ASSUME GeneratorInv, BuildImport \/ BuildStatement
    PROVE  GeneratorInv'
<1>1. /\ status = "build" /\ stack' = Built
      /\ UNCHANGED <<sources, includes, leftover, ifCount, status>>
  BY DEF BuildImport, BuildStatement, Building
<1>2. ShapeInv'
  BY <1>1, TopWith DEF GeneratorInv, Built, Top
<1>3. FilesRead' = FilesRead /\ (\A f : WellFormed(f)' <=> WellFormed(f))
  BY <1>1 DEF FilesRead, WellFormed
<1> QED
  BY <1>1, <1>2, <1>3 DEF GeneratorInv, ReadInv, SyntaxInv

LEMMA IncludeKeeps ==
    ASSUME GeneratorInv, BuildInclude
    PROVE  GeneratorInv'
<1>0. PICK file : file = PathOf(Top.file, Block.arg)
  OBVIOUS
<1>1. /\ status = "build" /\ includes' = Append(includes, file)
      /\ UNCHANGED <<sources, leftover, ifCount>>
      /\ IF file \in DOMAIN sources
         THEN stack' = Append(Built, Frame(file)) /\ status' = "parse"
         ELSE status' = "error" /\ stack' = stack
  BY <1>0 DEF BuildInclude, Building
<1>2. /\ ShapeInv /\ ifCount = 0
      /\ leftover => \E f \in FilesRead : ~WellFormed(f)
      /\ ~leftover => \A f \in FilesRead : WellFormed(f)
  BY <1>1 DEF GeneratorInv, SyntaxInv
<1>3. IsSeq(includes') /\ FilesRead' = FilesRead \cup {file}
  BY <1>1, <1>2, AppendFacts DEF ShapeInv, FilesRead
<1>4. \A f : WellFormed(f)' <=> WellFormed(f)
  BY <1>1 DEF WellFormed
<1>5. CASE file \notin DOMAIN sources
  <2>1. status' = "error" /\ stack' = stack
    BY <1>1, <1>5
  <2>2. ShapeInv'
    BY <1>1, <1>2, <1>3, <2>1 DEF ShapeInv
  <2>3. ~WellFormed(file)'
    BY <1>4, <1>5 DEF WellFormed
  <2> QED
    BY <1>3, <2>1, <2>2, <2>3 DEF GeneratorInv, ReadInv, SyntaxInv
<1>6. CASE file \in DOMAIN sources
  <2> DEFINE frame == Frame(file)
             r == [Top EXCEPT !.blocks = Tail(Top.blocks)]
             t == [stack EXCEPT ![Len(stack)] = r]
  <2>1. stack' = Append(t, frame) /\ status' = "parse"
    BY <1>1, <1>6 DEF Built, Top
  <2>2. Plain(frame) /\ frame.file = file
    BY FrameFields DEF Frame
  <2>3. Plain(r) /\ r.file = Top.file
    <3> DEFINE b == Tail(Top.blocks)
    <3>1. [Top EXCEPT !.blocks = b] = [file |-> Top.file, items |-> Top.items, blocks |-> b]
      BY <1>2, TopPlain, FrameWith
    <3> HIDE DEF b
    <3> QED
      BY <3>1, FrameFields DEF b
  <2>4. /\ IsSeq(t) /\ Len(t) = Len(stack) /\ Len(stack) \in 1..Len(stack)
        /\ \A j \in 1..Len(stack) :
             Plain(t[j]) /\ t[j].file \in FilesRead \cap DOMAIN sources
    BY <1>2, <2>3, Replaced
  <2> HIDE DEF frame, r, t
  <2>5. /\ IsSeq(stack') /\ Len(stack') = Len(stack) + 1
        /\ \A i \in 1..Len(stack) : stack'[i] = t[i]
        /\ stack'[Len(stack) + 1] = frame
    BY <2>1, <2>4, AppendFacts
  <2>6. DOMAIN stack' = 1..(Len(stack) + 1) /\ stack' # <<>>
    BY <2>4, <2>5, SeqFacts
  <2>7. ASSUME NEW j \in DOMAIN stack'
        PROVE  Plain(stack'[j]) /\ stack'[j].file \in FilesRead' \cap DOMAIN sources
    <3>1. j \in 1..Len(stack) \/ j = Len(stack) + 1
      BY <2>4, <2>6, <2>7
    <3>2. CASE j \in 1..Len(stack)
      BY <1>3, <2>4, <2>5, <3>2
    <3>3. CASE j = Len(stack) + 1
      BY <1>3, <1>6, <2>2, <2>5, <3>3
    <3> QED
      BY <3>1, <3>2, <3>3
  <2>8. ShapeInv'
    BY <1>1, <1>2, <1>3, <2>5, <2>6, <2>7 DEF ShapeInv
  <2>9. Top' = frame
    BY <2>5 DEF Top
  <2>10. ItemsLeft' /\ Top'.file = file /\ Parsed' = 0
    BY <1>1, <1>2, <1>6, <2>9, FileOpened DEF frame
  <2>11. SyntaxInv'
    <3>1. Balance(sources'[file], 1, 0) = 0 /\ GoodUpTo(sources'[file], 0)
      BY BalanceNext DEF GoodUpTo
    <3>2. leftover' => \E f \in FilesRead' : ~WellFormed(f)'
      BY <1>1, <1>2, <1>3, <1>4
    <3>3. ~leftover' => \A f \in FilesRead' : f = file \/ WellFormed(f)'
      BY <1>1, <1>2, <1>3, <1>4
    <3>4. ifCount' = 0
      BY <1>1, <1>2
    <3>5. status' # "error" /\ status' # "build" /\ status' # "done"
      BY <2>1
    <3> QED
      BY <2>10, <3>1, <3>2, <3>3, <3>4, <3>5 DEF SyntaxInv
  <2> QED
    BY <2>8, <2>10, <2>11 DEF GeneratorInv, ReadInv
<1> QED
  BY <1>5, <1>6

LEMMA ReturnKeeps ==
    ASSUME GeneratorInv, BuildReturn
    PROVE  GeneratorInv'
<1>1. /\ status = "build" /\ UNCHANGED <<sources, includes, leftover, ifCount>>
      /\ \/ status' = "done" /\ stack' = stack
         \/ status' = "build" /\ Len(stack) # 1 /\ stack' = Front(stack)
  BY DEF BuildReturn
<1>2. FilesRead' = FilesRead /\ (\A f : WellFormed(f)' <=> WellFormed(f)) /\ ShapeInv
  BY <1>1 DEF FilesRead, WellFormed, GeneratorInv
<1>3. ShapeInv'
  <2>1. CASE stack' = stack
    BY <1>1, <1>2, <2>1 DEF ShapeInv
  <2>2. CASE Len(stack) # 1 /\ stack' = Front(stack)
    <3>1. Len(stack) \in 1..Len(stack) /\ DOMAIN stack = 1..Len(stack) /\ IsSeq(stack)
      BY <1>2, TopPlain DEF ShapeInv
    <3>2. /\ IsSeq(stack') /\ Len(stack') = Len(stack) - 1
          /\ \A i \in 1..(Len(stack) - 1) : stack'[i] = stack[i]
      BY <1>2, <2>2, FrontFacts DEF ShapeInv
    <3>3. DOMAIN stack' = 1..(Len(stack) - 1) /\ stack' # <<>>
      <4>1. Len(stack') # 0
        BY <2>2, <3>1, <3>2
      <4> QED
        BY <3>2, <4>1, SeqFacts
    <3>4. \A j \in DOMAIN stack' : stack'[j] = stack[j] /\ j \in DOMAIN stack
      BY <3>1, <3>2, <3>3
    <3> QED
      BY <1>1, <1>2, <3>2, <3>3, <3>4 DEF ShapeInv
  <2> QED
    BY <1>1, <2>1, <2>2
<1> QED
  BY <1>1, <1>2, <1>3 DEF GeneratorInv, ReadInv, SyntaxInv

LEMMA BufferStep == BufferInv /\ [Next]_vars => BufferInv'
<1> SUFFICES ASSUME BufferInv, [Next]_vars
             PROVE  BufferInv'
  OBVIOUS
<1>1. CASE ParseText \/ ParseTag \/ ParsePrint \/ ParseEnd
  BY <1>1 DEF ParseText, ParseTag, ParsePrint, ParseEnd, Same, BufferInv
<1>2. CASE ParseRest \/ ParseWrong
  BY <1>2 DEF ParseRest, ParseWrong, BufferInv
<1>3. CASE BuildImport \/ BuildInclude \/ BuildStatement \/ BuildReturn
  BY <1>3 DEF BuildImport, BuildInclude, BuildStatement, BuildReturn, BufferInv
<1>4. CASE UNCHANGED vars
  BY <1>4 DEF vars, BufferInv
<1> QED
  BY <1>1, <1>2, <1>3, <1>4 DEF Next

LEMMA GeneratorStep == GeneratorInv /\ BufferInv /\ [Next]_vars => GeneratorInv'
<1> SUFFICES ASSUME GeneratorInv, BufferInv, [Next]_vars
             PROVE  GeneratorInv'
  OBVIOUS
<1>1. CASE (ParseText \/ ParsePrint) /\ ~leftover
  BY <1>1, TextKeeps
<1>2. CASE ParseTag /\ ~leftover
  BY <1>2, TagKeeps
<1>3. CASE (ParseText \/ ParseTag \/ ParsePrint) /\ leftover
  BY <1>3, LeftoverKeeps
<1>4. CASE ParseRest
  <2>1. leftover
    BY <1>4 DEF ParseRest, Completes, BufferInv
  <2> QED
    BY <1>4, <2>1, LeftoverKeeps
<1>5. CASE ParseWrong
  BY <1>5, WrongKeeps
<1>6. CASE ParseEnd
  BY <1>6, EndKeeps
<1>7. CASE BuildImport \/ BuildStatement
  BY <1>7, BlockKeeps
<1>8. CASE BuildInclude
  BY <1>8, IncludeKeeps
<1>9. CASE BuildReturn
  BY <1>9, ReturnKeeps
<1>10. CASE UNCHANGED vars
  <2>1. UNCHANGED <<sources, stack, includes, ifCount, leftover, status>>
    BY <1>10 DEF vars
  <2> QED
    BY <2>1 DEF GeneratorInv, ShapeInv, ReadInv, SyntaxInv, ItemsLeft, FilesRead, Parsed,
                Top, WellFormed
<1> QED
  BY <1>1, <1>2, <1>3, <1>4, <1>5, <1>6, <1>7, <1>8, <1>9, <1>10 DEF Next

-----------------------------------------------------------------------------
\* The counter of open blocks, what is left of the file on top, and which of
\* the files that were opened are well formed.
THEOREM Invariant == Spec => [](GeneratorInv /\ BufferInv)
<1>1. Init => BufferInv
  BY DEF Init, BufferInv
<1> QED
  BY <1>1, InitGenerator, GeneratorStep, BufferStep, PTL DEF Spec

LEMMA ListedAreRead ==
    ASSUME ShapeInv
    PROVE  ToSet(Dependencies) = FilesRead
<1> DEFINE T == ToSet(includes) \cup {Main}
           one == <<Main>>
           d == one \o includes
<1>1. one \in Seq(T) /\ includes \in Seq(T) /\ Len(one) = 1 /\ one[1] = Main
  BY SeqMonotonic DEF ShapeInv, IsSeq
<1>2. Len(includes) \in Nat /\ DOMAIN includes = 1..Len(includes)
  BY SeqFacts DEF ShapeInv
<1>3. \A i \in 1..Len(includes) : includes[i] \in ToSet(includes)
  BY <1>2 DEF ToSet
<1> HIDE DEF T, one
<1>4. /\ d \in Seq(T) /\ Len(d) = 1 + Len(includes)
      /\ \A i \in 1..(1 + Len(includes)) : d[i] = IF i <= 1 THEN one[i] ELSE includes[i - 1]
  <2>1. /\ d \in Seq(T) /\ Len(d) = Len(one) + Len(includes)
        /\ \A i \in 1..Len(one) + Len(includes) :
              d[i] = IF i <= Len(one) THEN one[i] ELSE includes[i - Len(one)]
    BY <1>1, ConcatProperties
  <2> HIDE DEF d
  <2> QED
    BY <1>1, <2>1
<1>5. DOMAIN d = 1..(1 + Len(includes))
  BY <1>4, LenProperties
<1> HIDE DEF d
<1>6. d[1] = Main /\ \A i \in 1..Len(includes) : i + 1 \in DOMAIN d /\ d[i + 1] = includes[i]
  BY <1>1, <1>2, <1>4, <1>5
<1>7. \A i \in DOMAIN d : i = 1 \/ (i - 1 \in 1..Len(includes) /\ d[i] = includes[i - 1])
  BY <1>2, <1>4, <1>5
<1>8. 1 \in DOMAIN d
  BY <1>2, <1>5
<1>9. ToSet(d) = {Main} \cup ToSet(includes)
  BY <1>2, <1>3, <1>6, <1>7, <1>8 DEF ToSet
<1> QED
  BY <1>9 DEF Dependencies, FilesRead, d, one

\* balde-template-gen ends with an error only if a file it read is wrong, and
\* without one only if all are well formed, or the line that is not has no end:
\* the counter of balde_template_parse, which goes on from one file to the
\* next, and the files that are opened between two blocks confuse nothing.
THEOREM ErrorsAreReported == Spec => []SyntaxChecked
<1>1. GeneratorInv => SyntaxChecked
  <2> SUFFICES ASSUME GeneratorInv
               PROVE  SyntaxChecked
    OBVIOUS
  <2>1. ToSet(Dependencies) = FilesRead
    BY ListedAreRead DEF GeneratorInv
  <2> QED
    BY <2>1 DEF GeneratorInv, SyntaxInv, SyntaxChecked
<1> QED
  BY <1>1, Invariant, PTL

-----------------------------------------------------------------------------
(* The files a template is made of.                                        *)

\* What the items of s include, if it is part of the file f.
Asked(f, s) == {PathOf(f, s[i].arg) : i \in {k \in DOMAIN s : s[k].kind = "include"}}
Included(f) == Asked(f, sources[f])
Grown(S) == S \cup UNION {Included(f) : f \in S \cap DOMAIN sources}
Closed(S) == \A f \in S \cap DOMAIN sources : Included(f) \subseteq S
Most == Cardinality(DOMAIN sources)

LEMMA GrownFacts ==
    ASSUME NEW S
    PROVE  /\ S \subseteq Grown(S) /\ (Closed(S) => Grown(S) = S)
           /\ \A f \in S \cap DOMAIN sources : Included(f) \subseteq Grown(S)
           /\ \A T : Closed(T) /\ S \subseteq T => Grown(S) \subseteq T
BY DEF Grown, Closed

\* The recursion has a solution, step by step.
LEMMA ReachedExists ==
    ASSUME NEW n \in Nat
    PROVE  \E g : g = [d \in 0..n |-> IF d = 0 THEN {Main} ELSE Grown(g[d - 1])]
<1> DEFINE Solves(g, m) == g = [d \in 0..m |-> IF d = 0 THEN {Main} ELSE Grown(g[d - 1])]
           T == {m \in Nat : \E g : Solves(g, m)}
<1>1. 0 \in T
  <2>1. Solves([d \in 0..0 |-> {Main}], 0)
    OBVIOUS
  <2> QED
    BY <2>1
<1>2. ASSUME NEW m \in Nat, m \in T
      PROVE  m + 1 \in T
  <2>1. PICK g : Solves(g, m)
    BY <1>2
  <2> DEFINE more == Grown(g[m])
             h == [d \in 0..(m + 1) |-> IF d <= m THEN g[d] ELSE more]
  <2>2. \A d \in 0..m : h[d] = g[d]
    OBVIOUS
  <2>3. ASSUME NEW d \in 0..(m + 1)
        PROVE  h[d] = IF d = 0 THEN {Main} ELSE Grown(h[d - 1])
    <3>1. CASE d <= m
      <4>1. h[d] = g[d] /\ d \in 0..m
        BY <2>2, <3>1
      <4>2. d # 0 => h[d - 1] = g[d - 1]
        BY <2>2, <3>1
      <4>3. g[d] = IF d = 0 THEN {Main} ELSE Grown(g[d - 1])
        BY <2>1, <4>1
      <4> HIDE DEF h
      <4> QED
        BY <4>1, <4>2, <4>3
    <3>2. CASE d = m + 1
      <4>1. h[d] = more
        BY <3>2
      <4>2. h[d - 1] = g[m] /\ d # 0
        BY <2>2, <3>2
      <4> HIDE DEF h
      <4> QED
        BY <4>1, <4>2
    <3> QED
      BY <3>1, <3>2
  <2>4. h = [d \in 0..(m + 1) |-> h[d]]
    OBVIOUS
  <2> HIDE DEF h
  <2>5. Solves(h, m + 1)
    BY <2>3, <2>4
  <2> QED
    BY <2>5
<1> HIDE DEF T
<1>3. n \in T
  BY <1>1, <1>2, Induct
<1> QED
  BY <1>3 DEF T

LEMMA ReachedSteps ==
    ASSUME IsFiniteSet(DOMAIN sources)
    PROVE  /\ Most \in Nat /\ Reached[0] = {Main}
           /\ \A d \in 0..Most : d # 0 => Reached[d] = Grown(Reached[d - 1])
<1>1. Most \in Nat
  BY FS_CardinalityType DEF Most
<1> DEFINE Solves(g) == g = [d \in 0..Most |-> IF d = 0 THEN {Main} ELSE Grown(g[d - 1])]
<1>2. \E g : Solves(g)
  BY <1>1, ReachedExists
<1>3. Reached = CHOOSE g : Solves(g)
  BY DEF Reached, Grown, Included, Asked, Depth, Most
<1> HIDE DEF Solves
<1>4. Solves(Reached)
  BY <1>2, <1>3
<1> DEFINE r == Reached
<1>5. r = [d \in 0..Most |-> IF d = 0 THEN {Main} ELSE Grown(r[d - 1])]
  BY <1>4 DEF Solves
<1> HIDE DEF r
<1>6. \A d \in 0..Most : r[d] = IF d = 0 THEN {Main} ELSE Grown(r[d - 1])
  <2> TAKE d \in 0..Most
  <2> QED
    BY <1>5, Zenon
<1>7. 0 \in 0..Most
  BY <1>1
<1> QED
  BY <1>1, <1>6, <1>7 DEF r

\* After as many steps as there are files nothing is added: every step before
\* adds one of them.
LEMMA ReachedIsLeast ==
    ASSUME IsFiniteSet(DOMAIN sources), Main \in DOMAIN sources
    PROVE  /\ Main \in Reached[Most] /\ Closed(Reached[Most])
           /\ \A S : Main \in S /\ Closed(S) => Reached[Most] \subseteq S
<1> DEFINE On(d) == Reached[d] \cap DOMAIN sources
           Good(d) == /\ Main \in Reached[d]
                      /\ Closed(Reached[d]) \/ Cardinality(On(d)) >= d + 1
           T == {d \in Nat : d <= Most => Good(d)}
<1>1. /\ Most \in Nat /\ Reached[0] = {Main}
      /\ \A d \in 0..Most : d # 0 => Reached[d] = Grown(Reached[d - 1])
  BY ReachedSteps
<1>2. ASSUME NEW S
      PROVE  IsFiniteSet(S \cap DOMAIN sources) /\ Cardinality(S \cap DOMAIN sources) \in Nat
  <2>1. S \cap DOMAIN sources \in SUBSET DOMAIN sources
    OBVIOUS
  <2> QED
    BY <2>1, FS_Subset, FS_CardinalityType
<1>3. 0 \in T
  <2>1. On(0) = {Main}
    BY <1>1
  <2>2. Cardinality({Main}) = 1
    BY FS_Singleton
  <2>3. Cardinality(On(0)) >= 0 + 1
    BY <2>1, <2>2
  <2> QED
    BY <1>1, <2>3
<1>4. ASSUME NEW d \in Nat, d \in T
      PROVE  d + 1 \in T
  <2> SUFFICES ASSUME d + 1 <= Most
               PROVE  Good(d + 1)
    OBVIOUS
  <2> DEFINE A == Reached[d]
             B == Reached[d + 1]
  <2>1. B = Grown(A)
    <3>1. d + 1 \in 0..Most /\ d + 1 # 0 /\ (d + 1) - 1 = d
      BY <1>1
    <3>2. Reached[d + 1] = Grown(Reached[(d + 1) - 1])
      BY <1>1, <3>1
    <3> QED
      BY <3>1, <3>2
  <2>2. Good(d)
    <3>1. d <= Most
      BY <1>1
    <3> QED
      BY <1>4, <3>1
  <2>3. Main \in A /\ (Closed(A) \/ Cardinality(A \cap DOMAIN sources) >= d + 1)
    BY <2>2
  <2> HIDE DEF A, B
  <2>4. A \subseteq B /\ Main \in B
    BY <2>1, <2>3, GrownFacts
  <2>5. CASE Closed(A)
    <3>1. B = A
      BY <2>1, <2>5, GrownFacts
    <3> QED
      BY <2>4, <2>5, <3>1 DEF B
  <2>6. CASE ~Closed(A)
    <3>1. CASE A \cap DOMAIN sources = B \cap DOMAIN sources
      <4>1. Closed(B)
        BY <2>1, <3>1, GrownFacts DEF Closed
      <4> QED
        BY <2>4, <4>1 DEF B
    <3>2. CASE A \cap DOMAIN sources # B \cap DOMAIN sources
      <4> DEFINE a == A \cap DOMAIN sources
                 b == B \cap DOMAIN sources
      <4>1. PICK x \in b : x \notin a
        BY <2>4, <3>2
      <4>2. a \cup {x} \in SUBSET b /\ IsFiniteSet(a) /\ IsFiniteSet(b)
        BY <1>2, <2>4, <4>1
      <4>3. Cardinality(a) >= d + 1 /\ Cardinality(a) \in Nat /\ Cardinality(b) \in Nat
        BY <1>2, <2>3, <2>6
      <4> HIDE DEF a, b
      <4>4. Cardinality(a \cup {x}) = Cardinality(a) + 1
        BY <4>1, <4>2, FS_AddElement
      <4>5. Cardinality(a \cup {x}) <= Cardinality(b)
        BY <4>2, FS_Subset
      <4>6. Cardinality(b) >= (d + 1) + 1
        BY <4>3, <4>4, <4>5
      <4> QED
        BY <2>4, <4>6 DEF b, B
    <3> QED
      BY <3>1, <3>2
  <2> QED
    BY <2>5, <2>6
<1> HIDE DEF T
<1>5. Most \in T
  BY <1>1, <1>3, <1>4, Induct
<1> DEFINE R == Reached[Most]
<1>6. Main \in R /\ (Closed(R) \/ Cardinality(R \cap DOMAIN sources) >= Most + 1)
  BY <1>1, <1>5 DEF T
<1> HIDE DEF R
<1>7. Closed(R)
  <2> DEFINE a == R \cap DOMAIN sources
  <2>1. a \in SUBSET DOMAIN sources
    OBVIOUS
  <2> HIDE DEF a
  <2>2. Cardinality(a) <= Most
    BY <2>1, FS_Subset DEF Most
  <2>3. Cardinality(a) \in Nat
    BY <1>2 DEF a
  <2>4. ~(Cardinality(a) >= Most + 1)
    BY <1>1, <2>2, <2>3
  <2> QED
    BY <1>6, <2>4 DEF a
<1>8. ASSUME NEW S, Main \in S, Closed(S)
      PROVE  R \subseteq S
  <2> DEFINE U == {d \in Nat : d <= Most => Reached[d] \subseteq S}
  <2>1. 0 \in U
    BY <1>1, <1>8
  <2>2. ASSUME NEW d \in Nat, d \in U
        PROVE  d + 1 \in U
    <3> SUFFICES ASSUME d + 1 <= Most
                 PROVE  Reached[d + 1] \subseteq S
      OBVIOUS
    <3>1. d + 1 \in 0..Most /\ d + 1 # 0 /\ (d + 1) - 1 = d /\ d <= Most
      BY <1>1
    <3>2. Reached[d + 1] = Grown(Reached[(d + 1) - 1])
      BY <1>1, <3>1
    <3>3. Reached[d + 1] = Grown(Reached[d])
      BY <3>1, <3>2
    <3>4. Reached[d] \subseteq S
      BY <2>2, <3>1
    <3> QED
      BY <1>8, <3>3, <3>4, GrownFacts
  <2> HIDE DEF U
  <2>3. Most \in U
    BY <1>1, <2>1, <2>2, Induct
  <2> QED
    BY <1>1, <2>3 DEF U, R
<1> QED
  BY <1>6, <1>7, <1>8 DEF R

LEMMA SameDisk ==
    ASSUME UNCHANGED sources
    PROVE  /\ Reached' = Reached /\ Most' = Most
           /\ \A f : Included(f)' = Included(f)
<1>1. Most' = Most /\ \A f : Included(f)' = Included(f)
  BY DEF Most, Included, Asked
<1> DEFINE R(disk) ==
              CHOOSE g : g = [d \in 0..Cardinality(DOMAIN disk) |->
                IF d = 0 THEN {Main}
                ELSE g[d - 1] \cup
                     UNION {{PathOf(f, disk[f][i].arg) :
                             i \in {k \in DOMAIN disk[f] : disk[f][k].kind = "include"}} :
                            f \in g[d - 1] \cap DOMAIN disk}]
<1>2. Reached = R(sources)
  BY Zenon DEF Reached, Depth
<1>3. Reached' = R(sources')
  BY Zenon DEF Reached, Depth
<1> HIDE DEF R
<1>4. R(sources') = R(sources)
  OBVIOUS
<1> QED
  BY <1>1, <1>2, <1>3, <1>4

-----------------------------------------------------------------------------
(* What a sequence of items includes.                                      *)

\* A text is nothing but a text, also when its blanks are removed.
PlainText(item) == item.kind = "text" => item = [kind |-> "text", text |-> item.text]
PlainTexts(s) == IsSeq(s) /\ \A i \in DOMAIN s : PlainText(s[i])

AskedBy(f, item) == IF item.kind = "include" THEN {PathOf(f, item.arg)} ELSE {}

LEMMA AskedMembers ==
    ASSUME NEW f, NEW s, IsSeq(s)
    PROVE  /\ \A p : p \in Asked(f, s) <=> \E i \in 1..Len(s) : p \in AskedBy(f, s[i])
           /\ Asked(f, <<>>) = {}
<1>1. DOMAIN s = 1..Len(s)
  BY SeqFacts
<1>2. \A p : p \in Asked(f, s) <=> \E i \in 1..Len(s) : p \in AskedBy(f, s[i])
  BY <1>1 DEF Asked, AskedBy
<1>3. Asked(f, <<>>) = {}
  BY DEF Asked
<1> QED
  BY <1>2, <1>3

LEMMA AskedAppend ==
    ASSUME NEW f, NEW s, IsSeq(s), NEW item
    PROVE  Asked(f, Append(s, item)) = Asked(f, s) \cup AskedBy(f, item)
<1> DEFINE t == Append(s, item)
<1>1. /\ IsSeq(t) /\ Len(t) = Len(s) + 1 /\ Len(s) \in Nat
      /\ \A i \in 1..Len(s) : t[i] = s[i]
      /\ t[Len(s) + 1] = item
  BY AppendFacts, SeqFacts
<1> HIDE DEF t
<1>2. 1..Len(t) = 1..Len(s) \cup {Len(s) + 1}
  BY <1>1
<1>3. ASSUME NEW p
      PROVE  p \in Asked(f, t) <=> p \in Asked(f, s) \/ p \in AskedBy(f, item)
  <2>1. p \in Asked(f, t) <=> \E i \in 1..Len(t) : p \in AskedBy(f, t[i])
    BY <1>1, AskedMembers
  <2>2. p \in Asked(f, s) <=> \E i \in 1..Len(s) : p \in AskedBy(f, s[i])
    BY AskedMembers
  <2> QED
    BY <1>1, <1>2, <2>1, <2>2
<1> QED
  BY <1>3 DEF t

LEMMA AskedTail ==
    ASSUME NEW f, NEW s, IsSeq(s), s # <<>>
    PROVE  Asked(f, s) = AskedBy(f, Head(s)) \cup Asked(f, Tail(s))
<1> DEFINE t == Tail(s)
<1>1. /\ Len(s) >= 1 /\ Len(s) \in Nat /\ Head(s) = s[1]
      /\ IsSeq(t) /\ Len(t) = Len(s) - 1
      /\ \A i \in 1..(Len(s) - 1) : t[i] = s[i + 1]
  BY TailFacts, SeqFacts
<1> HIDE DEF t
<1>2. /\ 1 \in 1..Len(s)
      /\ \A i \in 1..Len(t) : i + 1 \in 1..Len(s) /\ t[i] = s[i + 1]
      /\ \A i \in 1..Len(s) : i # 1 => i - 1 \in 1..Len(t) /\ t[i - 1] = s[i]
  <2> DEFINE n == Len(s)
             m == Len(t)
  <2>1. n >= 1 /\ n \in Nat /\ m = n - 1
    BY <1>1
  <2>2. \A i \in 1..m : t[i] = s[i + 1]
    BY <1>1
  <2> HIDE DEF n, m
  <2>3. \A i \in 1..n : i # 1 => i - 1 \in 1..m /\ (i - 1) + 1 = i
    BY <2>1
  <2>4. \A i \in 1..m : i + 1 \in 1..n
    BY <2>1
  <2>5. \A i \in 1..n : i # 1 => t[i - 1] = s[i]
    BY <2>2, <2>3
  <2> QED
    BY <2>1, <2>2, <2>3, <2>4, <2>5 DEF n, m
<1>3. ASSUME NEW p
      PROVE  p \in Asked(f, s) <=> p \in AskedBy(f, Head(s)) \/ p \in Asked(f, t)
  <2>1. p \in Asked(f, t) <=> \E i \in 1..Len(t) : p \in AskedBy(f, t[i])
    BY <1>1, AskedMembers
  <2>2. p \in Asked(f, s) <=> \E i \in 1..Len(s) : p \in AskedBy(f, s[i])
    BY AskedMembers
  <2>3. ASSUME p \in Asked(f, s)
        PROVE  p \in AskedBy(f, s[1]) \/ p \in Asked(f, t)
    BY <1>2, <2>1, <2>2, <2>3
  <2>4. ASSUME p \in AskedBy(f, s[1]) \/ p \in Asked(f, t)
        PROVE  p \in Asked(f, s)
    BY <1>2, <2>1, <2>2, <2>4
  <2> QED
    BY <1>1, <2>3, <2>4
<1> QED
  BY <1>3 DEF t

\* Other text, the same kind.
LEMMA TextWith ==
    ASSUME NEW item, PlainText(item), item.kind = "text", NEW x
    PROVE  LET r == [item EXCEPT !.text = x] IN
           r.kind = "text" /\ PlainText(r) /\ \A f : AskedBy(f, r) = {}
<1> DEFINE k == "text"
           t == item.text
           q == [kind |-> k, text |-> t]
           r == [kind |-> k, text |-> x]
<1>1. item = q
  BY DEF PlainText
<1>2. [item EXCEPT !.text = x] = r
  <2> HIDE DEF k, t
  <2>1. [q EXCEPT !.text = x] = r
    BY Z3
  <2> QED
    BY <1>1, <2>1
<1>3. r.kind = k /\ r.text = x
  OBVIOUS
<1>4. PlainText(r)
  <2>1. r = [kind |-> k, text |-> r.text]
    BY <1>3
  <2> QED
    BY <2>1 DEF PlainText
<1>5. \A f : AskedBy(f, r) = {}
  BY <1>3 DEF AskedBy
<1> QED
  BY <1>2, <1>3, <1>4, <1>5

\* balde_template_clean_whitespace_prev adds no file and loses none.
LEMMA CleanPrevFacts ==
    ASSUME NEW s, PlainTexts(s)
    PROVE  PlainTexts(CleanPrev(s)) /\ \A f : Asked(f, CleanPrev(s)) = Asked(f, s)
<1> DEFINE Texts == {i \in DOMAIN s : s[i].kind = "text"}
           last == CHOOSE i \in Texts : \A j \in Texts : i >= j
<1>0. IsSeq(s) /\ Len(s) \in Nat /\ DOMAIN s = 1..Len(s)
  BY SeqFacts DEF PlainTexts
<1>1. CASE Texts = {}
  <2>1. CleanPrev(s) = s
    BY <1>1 DEF CleanPrev
  <2> QED
    BY <2>1
<1>2. CASE Texts # {}
  <2>1. \E i \in Texts : \A j \in Texts : i >= j
    <3>1. Texts \subseteq 1..Len(s)
      BY <1>0
    <3> HIDE DEF Texts
    <3> QED
      BY <1>0, <1>2, <3>1, Greatest
  <2>2. last \in Texts
    BY <2>1
  <2> DEFINE r == [s[last] EXCEPT !.text = Chomp(s[last].text)]
             t == [s EXCEPT ![last] = r]
  <2>3. CleanPrev(s) = t
    BY <1>2 DEF CleanPrev
  <2>4. last \in 1..Len(s) /\ PlainText(s[last]) /\ s[last].kind = "text"
    BY <1>0, <2>2 DEF PlainTexts
  <2> HIDE DEF last, Texts
  <2>5. PlainText(r) /\ \A f : AskedBy(f, r) = {}
    BY <2>4, TextWith
  <2>6. \A f : AskedBy(f, s[last]) = {}
    BY <2>4 DEF AskedBy
  <2> HIDE DEF r
  <2>7. /\ IsSeq(t) /\ Len(t) = Len(s)
        /\ \A i \in 1..Len(s) : t[i] = IF i = last THEN r ELSE s[i]
    BY <1>0, <2>4, ReplaceFacts
  <2> HIDE DEF t
  <2>8. DOMAIN t = 1..Len(s)
    BY <2>7, SeqFacts
  <2>9. PlainTexts(t)
    BY <1>0, <2>5, <2>7, <2>8 DEF PlainTexts
  <2>10. ASSUME NEW f
         PROVE  Asked(f, t) = Asked(f, s)
    <3>1. \A i \in 1..Len(s) : AskedBy(f, t[i]) = AskedBy(f, s[i])
      BY <2>5, <2>6, <2>7
    <3>2. \A p : p \in Asked(f, t) <=> \E i \in 1..Len(t) : p \in AskedBy(f, t[i])
      BY <2>7, AskedMembers
    <3>3. \A p : p \in Asked(f, s) <=> \E i \in 1..Len(s) : p \in AskedBy(f, s[i])
      BY <1>0, AskedMembers
    <3> QED
      BY <2>7, <3>1, <3>2, <3>3
  <2> QED
    BY <2>3, <2>9, <2>10
<1> QED
  BY <1>1, <1>2

-----------------------------------------------------------------------------
(* The invariant.                                                          *)

\* What p, included by f, waits for: it was opened, or its block is still to
\* be built, or to be parsed.
Waits(f, p) ==
    \/ p \in FilesRead
    \/ \E j \in DOMAIN stack : stack[j].file = f /\ p \in Asked(f, stack[j].blocks)
    \/ /\ status = "parse" /\ f = Top.file
       /\ p \in Asked(f, nodes) \/ p \in Asked(f, Top.items)

\* As long as nothing is wrong, what was opened is needed, what is needed waits,
\* and the blocks of a file include nothing but what the file includes.
DependInv ==
    ~leftover /\ status # "error" =>
        /\ FilesRead \subseteq Reached[Most]
        /\ PlainTexts(nodes)
        /\ \A j \in DOMAIN stack :
            /\ IsSeq(stack[j].blocks)
            /\ Asked(stack[j].file, stack[j].blocks) \subseteq Included(stack[j].file)
        /\ status = "parse" =>
            Top.blocks = <<>> /\ Asked(Top.file, nodes) \subseteq Included(Top.file)
        /\ status # "parse" => nodes = <<>>
        /\ status = "done" => Len(stack) = 1 /\ Top.blocks = <<>>
        /\ \A f \in FilesRead \cap DOMAIN sources : \A p \in Included(f) : Waits(f, p)

LEMMA EmptyFacts == IsSeq(<<>>) /\ PlainTexts(<<>>)
<1> DEFINE none == <<>>
<1>1. none \in Seq({})
  BY EmptySeq
<1>2. DOMAIN none = {}
  OBVIOUS
<1> QED
  BY <1>1, <1>2, AnySeq DEF PlainTexts

\* The disk is as assumed.
LEMMA DiskFacts ==
    ASSUME ShapeInv
    PROVE  /\ IsFiniteSet(DOMAIN sources) /\ Main \in DOMAIN sources
           /\ Main \in Reached[Most] /\ Closed(Reached[Most])
           /\ \A S : Main \in S /\ Closed(S) => Reached[Most] \subseteq S
<1>1. IsFiniteSet(DOMAIN sources) /\ Main \in DOMAIN sources
  BY SourcesAssumption DEF ShapeInv
<1> QED
  BY <1>1, ReachedIsLeast

\* The next item of a file: a text is plain, and an "include" is one of the file.
LEMMA ItemFacts ==
    ASSUME ShapeInv, NEW f \in DOMAIN sources, NEW i \in 1..Len(sources[f])
    PROVE  PlainText(sources[f][i]) /\ AskedBy(f, sources[f][i]) \subseteq Included(f)
<1>1. IsSeq(sources[f]) /\ DOMAIN sources[f] = 1..Len(sources[f])
  BY FilesAreSeqs
<1>2. sources[f][i] \in ToSet(sources[f])
  BY <1>1 DEF ToSet
<1>3. PlainText(sources[f][i])
  BY <1>2, SourcesAssumption DEF ShapeInv, PlainText
<1>4. AskedBy(f, sources[f][i]) \subseteq Included(f)
  BY <1>1, AskedMembers DEF Included
<1> QED
  BY <1>3, <1>4

\* The frames when the items of the one on top are others, or its blocks.
LEMMA FramesWith ==
    ASSUME ShapeInv, NEW x
    PROVE  /\ LET t == [stack EXCEPT ![Len(stack)].items = x] IN
              /\ Len(t) = Len(stack) /\ DOMAIN t = DOMAIN stack /\ IsSeq(t)
              /\ \A j \in DOMAIN stack :
                    t[j].file = stack[j].file /\ t[j].blocks = stack[j].blocks
              /\ t[Len(stack)].items = x
           /\ LET t == [stack EXCEPT ![Len(stack)].blocks = x] IN
              /\ Len(t) = Len(stack) /\ DOMAIN t = DOMAIN stack /\ IsSeq(t)
              /\ \A j \in DOMAIN stack :
                    /\ t[j].file = stack[j].file
                    /\ t[j].blocks = IF j = Len(stack) THEN x ELSE stack[j].blocks
              /\ t[Len(stack)].items = Top.items
<1> DEFINE p == [Top EXCEPT !.items = x]
           q == [Top EXCEPT !.blocks = x]
           t == [stack EXCEPT ![Len(stack)] = p]
           u == [stack EXCEPT ![Len(stack)] = q]
<1>1. /\ p = [file |-> Top.file, items |-> x, blocks |-> Top.blocks]
      /\ q = [file |-> Top.file, items |-> Top.items, blocks |-> x]
  BY TopPlain, FrameWith
<1>2. /\ Plain(p) /\ p.file = Top.file /\ p.items = x /\ p.blocks = Top.blocks
      /\ Plain(q) /\ q.file = Top.file /\ q.items = Top.items /\ q.blocks = x
  BY <1>1, FrameFields
<1>3. /\ [stack EXCEPT ![Len(stack)].items = x] = t
      /\ [stack EXCEPT ![Len(stack)].blocks = x] = u
  BY DEF Top
<1> HIDE DEF p, q
<1>4. /\ Len(stack) \in 1..Len(stack) /\ DOMAIN stack = 1..Len(stack)
      /\ IsSeq(t) /\ Len(t) = Len(stack)
      /\ \A j \in 1..Len(stack) : t[j] = IF j = Len(stack) THEN p ELSE stack[j]
      /\ IsSeq(u) /\ Len(u) = Len(stack)
      /\ \A j \in 1..Len(stack) : u[j] = IF j = Len(stack) THEN q ELSE stack[j]
  BY <1>2, Replaced
<1> HIDE DEF t, u
<1>5. DOMAIN t = 1..Len(stack) /\ DOMAIN u = 1..Len(stack)
  BY <1>4, SeqFacts
<1>6. Top = stack[Len(stack)]
  BY DEF Top
<1> QED
  BY <1>2, <1>3, <1>4, <1>5, <1>6

LEMMA InitDepend == Init => DependInv
<1> SUFFICES ASSUME Init
             PROVE  DependInv
  OBVIOUS
<1>1. ShapeInv
  BY InitGenerator DEF GeneratorInv
<1>2. /\ stack = <<Frame(Main)>> /\ includes = <<>> /\ nodes = <<>> /\ status = "parse"
  BY DEF Init
<1>3. FilesRead = {Main}
  BY <1>2 DEF FilesRead, ToSet
<1>4. DOMAIN stack = {1} /\ stack[1] = Frame(Main) /\ Top = Frame(Main)
  <2>1. stack \in Seq({Frame(Main)})
    BY <1>2
  <2>2. DOMAIN stack = 1..Len(stack)
    BY <2>1, LenProperties
  <2> QED
    BY <1>2, <2>2 DEF Top
<1>5. /\ Frame(Main).file = Main /\ Frame(Main).items = sources[Main]
      /\ Frame(Main).blocks = <<>>
  BY FrameFields DEF Frame
<1>6. \A f : Asked(f, <<>>) = {}
  BY DEF Asked
<1>7. Main \in Reached[Most]
  BY <1>1, DiskFacts
<1>8. \A p \in Included(Main) : Waits(Main, p)
  BY <1>2, <1>4, <1>5 DEF Waits, Included
<1> QED
  BY <1>2, <1>3, <1>4, <1>5, <1>6, <1>7, <1>8, EmptyFacts DEF DependInv

-----------------------------------------------------------------------------
(* What is parsed waits to be built.                                       *)

LEMMA ParsedWaits ==
    ASSUME GeneratorInv, DependInv, Parsing, ~leftover, Read,
           UNCHANGED <<sources, leftover, includes, status>>,
           NEW old, PlainTexts(old), \A f : Asked(f, old) = Asked(f, nodes),
           NEW item, PlainText(item), \A f : AskedBy(f, item) = AskedBy(f, Item),
           nodes' = Append(old, item)
    PROVE  DependInv'
<1>1. /\ FilesRead' = FilesRead /\ Top'.file = Top.file /\ Top'.blocks = Top.blocks
      /\ Parsed + 1 \in 1..Len(sources[Top.file])
      /\ Item = sources[Top.file][Parsed + 1] /\ ~leftover /\ status = "parse"
      /\ ShapeInv /\ ItemsLeft
  BY ReadGives DEF GeneratorInv, Parsing, ReadInv
<1>2. PICK file : file = Top.file
  OBVIOUS
<1>3. file \in FilesRead \cap DOMAIN sources
  BY <1>1, <1>2, TopPlain
<1>4. /\ DOMAIN stack' = DOMAIN stack
      /\ \A j \in DOMAIN stack :
            stack'[j].file = stack[j].file /\ stack'[j].blocks = stack[j].blocks
      /\ Top'.items = Tail(Top.items)
  <2> DEFINE x == Tail(Top.items)
             t == [stack EXCEPT ![Len(stack)].items = x]
  <2>1. stack' = t /\ Top = stack[Len(stack)]
    BY <1>1 DEF Read, Top
  <2> HIDE DEF x
  <2>2. /\ Len(t) = Len(stack) /\ DOMAIN t = DOMAIN stack
        /\ \A j \in DOMAIN stack :
              t[j].file = stack[j].file /\ t[j].blocks = stack[j].blocks
        /\ t[Len(stack)].items = x
    BY <1>1, FramesWith
  <2> HIDE DEF t
  <2>3. Top'.items = x
    BY <2>1, <2>2 DEF Top
  <2> QED
    BY <2>1, <2>2, <2>3 DEF x
<1>5. /\ FilesRead \subseteq Reached[Most] /\ Top.blocks = <<>>
      /\ \A j \in DOMAIN stack :
            /\ IsSeq(stack[j].blocks)
            /\ Asked(stack[j].file, stack[j].blocks) \subseteq Included(stack[j].file)
      /\ Asked(file, nodes) \subseteq Included(file)
      /\ \A f \in FilesRead \cap DOMAIN sources : \A p \in Included(f) : Waits(f, p)
  BY <1>1, <1>2 DEF DependInv
<1>6. Reached' = Reached /\ Most' = Most /\ \A f : Included(f)' = Included(f)
  BY SameDisk
<1>7. /\ PlainTexts(nodes')
      /\ \A f : Asked(f, nodes') = Asked(f, nodes) \cup AskedBy(f, Item)
  <2>1. IsSeq(old) /\ Len(old) \in Nat /\ DOMAIN old = 1..Len(old)
    BY SeqFacts DEF PlainTexts
  <2> DEFINE t == Append(old, item)
  <2>2. /\ IsSeq(t) /\ Len(t) = Len(old) + 1
        /\ \A i \in 1..Len(old) : t[i] = old[i]
        /\ t[Len(old) + 1] = item
    BY <2>1, AppendFacts
  <2>3. \A f : Asked(f, t) = Asked(f, old) \cup AskedBy(f, item)
    BY <2>1, AskedAppend
  <2> HIDE DEF t
  <2>4. DOMAIN t = 1..Len(old) \cup {Len(old) + 1}
    <3>1. DOMAIN t = 1..(Len(old) + 1)
      BY <2>2, SeqFacts
    <3> QED
      BY <2>1, <3>1
  <2>5. PlainTexts(t)
    BY <2>1, <2>2, <2>4 DEF PlainTexts
  <2>6. \A f : Asked(f, t) = Asked(f, nodes) \cup AskedBy(f, Item)
    BY <2>3
  <2> QED
    BY <2>5, <2>6 DEF t
<1>8. \A f : Asked(f, Top.items) = AskedBy(f, Item) \cup Asked(f, Top'.items)
  <2> DEFINE items == Top.items
  <2>1. IsSeq(items) /\ items # <<>> /\ Item = Head(items) /\ Top'.items = Tail(items)
    BY <1>1, <1>4 DEF ItemsLeft, Parsing, Item
  <2> HIDE DEF items
  <2>2. \A f : Asked(f, items) = AskedBy(f, Head(items)) \cup Asked(f, Tail(items))
    BY <2>1, AskedTail
  <2> QED
    BY <2>1, <2>2 DEF items
<1>9. AskedBy(file, Item) \subseteq Included(file)
  BY <1>1, <1>2, <1>3, ItemFacts
<1>10. Asked(file, nodes') \subseteq Included(file)
  BY <1>5, <1>7, <1>9
<1>11. ASSUME NEW f \in FilesRead \cap DOMAIN sources, NEW p \in Included(f)
       PROVE  Waits(f, p)'
  <2>1. Waits(f, p)
    BY <1>5
  <2>2. CASE p \in FilesRead
    BY <1>1, <2>2 DEF Waits
  <2>3. CASE \E j \in DOMAIN stack : stack[j].file = f /\ p \in Asked(f, stack[j].blocks)
    <3>1. \E j \in DOMAIN stack' : stack'[j].file = f /\ p \in Asked(f, stack'[j].blocks)
      BY <1>4, <2>3
    <3> QED
      BY <3>1 DEF Waits, Asked
  <2>4. CASE f = Top.file /\ (p \in Asked(f, nodes) \/ p \in Asked(f, Top.items))
    <3>1. p \in Asked(f, nodes') \/ p \in Asked(f, Top'.items)
      BY <1>7, <1>8, <2>4
    <3>2. status' = "parse" /\ f = Top'.file
      BY <1>1, <2>4
    <3> QED
      BY <3>1, <3>2 DEF Waits, Asked
  <2> QED
    BY <2>1, <2>2, <2>3, <2>4 DEF Waits
<1>12. FilesRead' \subseteq Reached'[Most']
  BY <1>1, <1>5, <1>6
<1>13. \A j \in DOMAIN stack' :
         /\ IsSeq(stack'[j].blocks)
         /\ Asked(stack'[j].file, stack'[j].blocks)
                \subseteq Asked(stack'[j].file, sources'[stack'[j].file])
  BY <1>4, <1>5 DEF Included
<1>14. Top'.blocks = <<>> /\ Asked(Top'.file, nodes') \subseteq Asked(Top'.file, sources'[Top'.file])
  BY <1>1, <1>2, <1>5, <1>10 DEF Included
<1>15. \A f \in FilesRead' \cap DOMAIN sources' : \A p \in Included(f)' : Waits(f, p)'
  BY <1>1, <1>6, <1>11
<1>16. status' = "parse"
  BY <1>1
<1> QED
  BY <1>7, <1>12, <1>13, <1>14, <1>15, <1>16 DEF DependInv, Included

LEMMA ParseDepends ==
    ASSUME GeneratorInv, DependInv, ParseText \/ ParseTag \/ ParsePrint
    PROVE  DependInv'
<1> SUFFICES ASSUME ~leftover'
             PROVE  DependInv'
  BY DEF DependInv
<1>1. /\ Parsing /\ Read /\ UNCHANGED <<sources, leftover, includes>>
      /\ status = "parse" /\ ~leftover
  BY DEF ParseText, ParseTag, ParsePrint, Same, Parsing
<1>2. PlainTexts(nodes)
  BY <1>1 DEF DependInv
<1>3. PlainText(Item)
  <2>1. /\ Parsed + 1 \in 1..Len(sources[Top.file])
        /\ Item = sources[Top.file][Parsed + 1]
    BY <1>1, ReadGives DEF GeneratorInv
  <2>2. Top.file \in DOMAIN sources
    BY TopPlain DEF GeneratorInv
  <2> QED
    BY <2>1, <2>2, ItemFacts DEF GeneratorInv
<1>4. CASE ParseText
  <2>1. /\ Item.kind = "text" /\ status' = status
        /\ nodes' = Append(nodes, IF cleanNext THEN [Item EXCEPT !.text = Chug(Item.text)] ELSE Item)
    BY <1>4 DEF ParseText
  <2> DEFINE r == [Item EXCEPT !.text = Chug(Item.text)]
  <2>2. PlainText(r) /\ \A f : AskedBy(f, r) = {}
    BY <1>3, <2>1, TextWith
  <2>3. \A f : AskedBy(f, Item) = {}
    BY <2>1 DEF AskedBy
  <2> HIDE DEF r
  <2>4. PICK item : /\ PlainText(item) /\ \A f : AskedBy(f, item) = AskedBy(f, Item)
                    /\ nodes' = Append(nodes, item)
    <3>1. CASE cleanNext
      BY <2>1, <2>2, <2>3, <3>1 DEF r
    <3>2. CASE ~cleanNext
      BY <1>3, <2>1, <3>2
    <3> QED
      BY <3>1, <3>2
  <2> QED
    BY <1>1, <1>2, <2>1, <2>4, ParsedWaits
<1>5. CASE ParsePrint
  <2>1. status' = status /\ nodes' = Append(nodes, Item)
    BY <1>5 DEF ParsePrint
  <2> QED
    BY <1>1, <1>2, <1>3, <2>1, ParsedWaits
<1>6. CASE ParseTag /\ status' = "error"
  BY <1>6 DEF DependInv
<1>7. CASE ParseTag /\ status' # "error"
  <2>1. status' = status /\ nodes' = Append(IF Item.open THEN CleanPrev(nodes) ELSE nodes, Item)
    BY <1>7 DEF ParseTag
  <2>2. PlainTexts(CleanPrev(nodes)) /\ \A f : Asked(f, CleanPrev(nodes)) = Asked(f, nodes)
    BY <1>2, CleanPrevFacts
  <2>3. PICK old : /\ PlainTexts(old) /\ \A f : Asked(f, old) = Asked(f, nodes)
                   /\ nodes' = Append(old, Item)
    <3>1. CASE Item.open
      BY <2>1, <2>2, <3>1
    <3>2. CASE ~Item.open
      BY <1>2, <2>1, <3>2
    <3> QED
      BY <3>1, <3>2
  <2> QED
    BY <1>1, <1>3, <2>1, <2>3, ParsedWaits
<1> QED
  BY <1>4, <1>5, <1>6, <1>7

LEMMA WrongDepends ==
    ASSUME ParseWrong
    PROVE  DependInv'
<1>1. status' = "error" \/ leftover' = TRUE
  BY DEF ParseWrong
<1> QED
  BY <1>1 DEF DependInv

LEMMA EndDepends ==
    ASSUME GeneratorInv, DependInv, ParseEnd
    PROVE  DependInv'
<1> SUFFICES ASSUME ~leftover', status' # "error"
             PROVE  DependInv'
  BY DEF DependInv
<1>1. /\ status = "parse" /\ status' = "build" /\ Top.items = <<>> /\ nodes' = <<>>
      /\ UNCHANGED <<sources, includes, leftover>> /\ ~leftover
      /\ stack' = [stack EXCEPT ![Len(stack)].blocks = nodes]
  BY DEF ParseEnd, Same
<1>2. PICK file : file = Top.file
  OBVIOUS
<1>3. /\ FilesRead \subseteq Reached[Most] /\ PlainTexts(nodes) /\ Top.blocks = <<>>
      /\ \A j \in DOMAIN stack :
            /\ IsSeq(stack[j].blocks)
            /\ Asked(stack[j].file, stack[j].blocks) \subseteq Included(stack[j].file)
      /\ Asked(file, nodes) \subseteq Included(file)
      /\ \A f \in FilesRead \cap DOMAIN sources : \A p \in Included(f) : Waits(f, p)
  BY <1>1, <1>2 DEF DependInv
<1>4. ShapeInv /\ Len(stack) \in DOMAIN stack /\ Top = stack[Len(stack)]
  BY TopPlain DEF GeneratorInv, Top
<1>5. /\ DOMAIN stack' = DOMAIN stack
      /\ \A j \in DOMAIN stack :
            /\ stack'[j].file = stack[j].file
            /\ stack'[j].blocks = IF j = Len(stack) THEN nodes ELSE stack[j].blocks
  BY <1>1, <1>4, FramesWith
<1>6. Reached' = Reached /\ Most' = Most /\ (\A f : Included(f)' = Included(f))
      /\ FilesRead' = FilesRead
  BY <1>1, SameDisk DEF FilesRead
<1>7. \A f : Asked(f, <<>>) = {}
  BY DEF Asked
<1>8. ASSUME NEW f \in FilesRead \cap DOMAIN sources, NEW p \in Included(f)
      PROVE  Waits(f, p)'
  <2>1. Waits(f, p)
    BY <1>3
  <2>2. CASE p \in FilesRead
    BY <1>6, <2>2 DEF Waits
  <2>3. ASSUME NEW j \in DOMAIN stack, stack[j].file = f, p \in Asked(f, stack[j].blocks)
        PROVE  Waits(f, p)'
    <3>1. j # Len(stack)
      BY <1>3, <1>4, <1>7, <2>3
    <3>2. stack'[j].file = f /\ p \in Asked(f, stack'[j].blocks) /\ j \in DOMAIN stack'
      BY <1>5, <2>3, <3>1
    <3> QED
      BY <3>2 DEF Waits, Asked
  <2>4. CASE f = Top.file /\ (p \in Asked(f, nodes) \/ p \in Asked(f, Top.items))
    <3>1. p \in Asked(f, nodes)
      BY <1>1, <1>7, <2>4
    <3>2. /\ Len(stack) \in DOMAIN stack' /\ stack'[Len(stack)].file = f
          /\ p \in Asked(f, stack'[Len(stack)].blocks)
      BY <1>4, <1>5, <2>4, <3>1
    <3>3. PICK j \in DOMAIN stack' : stack'[j].file = f /\ p \in Asked(f, stack'[j].blocks)
      BY <3>2
    <3> QED
      BY <3>3 DEF Waits, Asked
  <2> QED
    BY <2>1, <2>2, <2>3, <2>4 DEF Waits
<1>9. \A j \in DOMAIN stack' :
        /\ IsSeq(stack'[j].blocks)
        /\ Asked(stack'[j].file, stack'[j].blocks)
                \subseteq Asked(stack'[j].file, sources'[stack'[j].file])
  <2>1. IsSeq(nodes)
    BY <1>3 DEF PlainTexts
  <2> TAKE j \in DOMAIN stack'
  <2>4. sources' = sources /\ j \in DOMAIN stack /\ stack'[j].file = stack[j].file
    BY <1>1, <1>5
  <2>5. PICK g : g = stack[j].file
    OBVIOUS
  <2>2. CASE j = Len(stack)
    <3>1. stack'[j].blocks = nodes /\ g = Top.file
      BY <1>4, <1>5, <2>2, <2>4, <2>5
    <3>2. Asked(g, nodes) \subseteq Asked(g, sources[g])
      BY <1>2, <1>3, <3>1 DEF Included
    <3> QED
      BY <2>1, <2>4, <2>5, <3>1, <3>2
  <2>3. CASE j # Len(stack)
    <3>1. stack'[j].blocks = stack[j].blocks
      BY <1>5, <2>3, <2>4
    <3>2. IsSeq(stack[j].blocks) /\ Asked(g, stack[j].blocks) \subseteq Asked(g, sources[g])
      BY <1>3, <2>4, <2>5 DEF Included
    <3> QED
      BY <2>4, <2>5, <3>1, <3>2
  <2> QED
    BY <2>2, <2>3
<1>10. FilesRead' \subseteq Reached'[Most']
  BY <1>3, <1>6
<1>11. \A f \in FilesRead' \cap DOMAIN sources' : \A p \in Included(f)' : Waits(f, p)'
  BY <1>1, <1>6, <1>8
<1>12. status' # "parse" /\ status' # "done" /\ PlainTexts(nodes') /\ nodes' = <<>>
  BY <1>1, EmptyFacts
<1> QED
  BY <1>9, <1>10, <1>11, <1>12 DEF DependInv, Included

-----------------------------------------------------------------------------
(* What is built was opened.                                               *)

\* A block is built: the files are as they were, and the others wait on.
LEMMA BuiltFrames ==
    ASSUME GeneratorInv, DependInv, Building, ~leftover, NEW t, t = Built
    PROVE  /\ DOMAIN t = DOMAIN stack /\ Len(t) = Len(stack) /\ IsSeq(t)
           /\ \A j \in DOMAIN stack :
                /\ t[j].file = stack[j].file /\ IsSeq(t[j].blocks)
                /\ Asked(t[j].file, t[j].blocks) \subseteq Included(t[j].file)
           /\ AskedBy(Top.file, Block) \subseteq Included(Top.file)
           /\ \A f, p :
                (\E j \in DOMAIN stack : stack[j].file = f /\ p \in Asked(f, stack[j].blocks)) =>
                    \/ \E j \in DOMAIN t : t[j].file = f /\ p \in Asked(f, t[j].blocks)
                    \/ f = Top.file /\ p \in AskedBy(f, Block)
<1>1. ShapeInv /\ Len(stack) \in DOMAIN stack /\ Top = stack[Len(stack)]
  BY TopPlain DEF GeneratorInv, Top
<1>2. \A j \in DOMAIN stack :
        /\ IsSeq(stack[j].blocks)
        /\ Asked(stack[j].file, stack[j].blocks) \subseteq Included(stack[j].file)
  BY DEF DependInv, Building
<1> DEFINE blocks == Top.blocks
           rest == Tail(blocks)
<1>3. t = [stack EXCEPT ![Len(stack)].blocks = rest]
  BY DEF Built, Top
<1>4. IsSeq(blocks) /\ blocks # <<>> /\ Block = Head(blocks)
  BY <1>1, <1>2 DEF Building, Block
<1> HIDE DEF blocks
<1>5. /\ IsSeq(rest)
      /\ \A f : Asked(f, blocks) = AskedBy(f, Block) \cup Asked(f, rest)
  BY <1>4, TailFacts, AskedTail
<1> HIDE DEF rest
<1>6. /\ DOMAIN t = DOMAIN stack /\ Len(t) = Len(stack) /\ IsSeq(t)
      /\ \A j \in DOMAIN stack :
            /\ t[j].file = stack[j].file
            /\ t[j].blocks = IF j = Len(stack) THEN rest ELSE stack[j].blocks
  <2> DEFINE u == [stack EXCEPT ![Len(stack)].blocks = rest]
  <2>1. /\ DOMAIN u = DOMAIN stack /\ Len(u) = Len(stack) /\ IsSeq(u)
        /\ \A j \in DOMAIN stack :
              /\ u[j].file = stack[j].file
              /\ u[j].blocks = IF j = Len(stack) THEN rest ELSE stack[j].blocks
    BY <1>1, FramesWith
  <2> HIDE DEF u
  <2>2. t = u
    BY <1>3 DEF u
  <2> QED
    BY <2>1, <2>2
<1>7. Asked(Top.file, blocks) \subseteq Included(Top.file)
  BY <1>1, <1>2 DEF blocks
<1>8. ASSUME NEW j \in DOMAIN stack
      PROVE  /\ IsSeq(t[j].blocks)
             /\ Asked(t[j].file, t[j].blocks) \subseteq Included(t[j].file)
  <2>1. CASE j = Len(stack)
    BY <1>1, <1>5, <1>6, <1>7, <2>1
  <2>2. CASE j # Len(stack)
    BY <1>2, <1>6, <2>2
  <2> QED
    BY <2>1, <2>2
<1>9. ASSUME NEW f, NEW p, NEW j \in DOMAIN stack, stack[j].file = f,
             p \in Asked(f, stack[j].blocks)
      PROVE  \/ \E i \in DOMAIN t : t[i].file = f /\ p \in Asked(f, t[i].blocks)
             \/ f = Top.file /\ p \in AskedBy(f, Block)
  <2>1. CASE j = Len(stack)
    <3>1. f = Top.file /\ p \in Asked(f, blocks)
      BY <1>1, <1>9, <2>1 DEF blocks
    <3>2. p \in AskedBy(f, Block) \/ p \in Asked(f, t[j].blocks)
      BY <1>5, <1>6, <2>1, <3>1
    <3>3. j \in DOMAIN t /\ t[j].file = f
      BY <1>6, <1>9
    <3> QED
      BY <3>1, <3>2, <3>3
  <2>2. CASE j # Len(stack)
    BY <1>6, <1>9, <2>2
  <2> QED
    BY <2>1, <2>2
<1> QED
  BY <1>5, <1>6, <1>7, <1>8, <1>9

LEMMA BlockDepends ==
    ASSUME GeneratorInv, DependInv, BuildImport \/ BuildStatement
    PROVE  DependInv'
<1> SUFFICES ASSUME ~leftover', status' # "error"
             PROVE  DependInv'
  BY DEF DependInv
<1>1. /\ Building /\ status = "build" /\ status' = "build" /\ stack' = Built
      /\ UNCHANGED <<sources, includes, leftover, nodes>> /\ ~leftover
  BY DEF BuildImport, BuildStatement, Building
<1>2. \A f : AskedBy(f, Block) = {}
  BY DEF BuildImport, BuildStatement, AskedBy
<1>3. PICK t : t = stack'
  OBVIOUS
<1>4. /\ DOMAIN t = DOMAIN stack
      /\ \A j \in DOMAIN stack :
            /\ IsSeq(t[j].blocks)
            /\ Asked(t[j].file, t[j].blocks) \subseteq Included(t[j].file)
      /\ \A f, p :
            (\E j \in DOMAIN stack : stack[j].file = f /\ p \in Asked(f, stack[j].blocks)) =>
                \E j \in DOMAIN t : t[j].file = f /\ p \in Asked(f, t[j].blocks)
  <2>1. t = Built
    BY <1>1, <1>3
  <2>2. /\ DOMAIN t = DOMAIN stack
        /\ \A j \in DOMAIN stack :
              /\ IsSeq(t[j].blocks)
              /\ Asked(t[j].file, t[j].blocks) \subseteq Included(t[j].file)
        /\ \A f, p :
              (\E j \in DOMAIN stack : stack[j].file = f /\ p \in Asked(f, stack[j].blocks)) =>
                  \/ \E j \in DOMAIN t : t[j].file = f /\ p \in Asked(f, t[j].blocks)
                  \/ f = Top.file /\ p \in AskedBy(f, Block)
    BY <1>1, <2>1, BuiltFrames
  <2> QED
    BY <1>2, <2>2
<1>5. Reached' = Reached /\ Most' = Most /\ (\A f : Included(f)' = Included(f))
      /\ FilesRead' = FilesRead
  BY <1>1, SameDisk DEF FilesRead
<1>6. /\ FilesRead \subseteq Reached[Most] /\ PlainTexts(nodes) /\ nodes = <<>>
      /\ \A f \in FilesRead \cap DOMAIN sources : \A p \in Included(f) : Waits(f, p)
  BY <1>1 DEF DependInv
<1>7. ASSUME NEW f \in FilesRead \cap DOMAIN sources, NEW p \in Included(f)
      PROVE  Waits(f, p)'
  <2>1. \/ p \in FilesRead
        \/ \E j \in DOMAIN t : t[j].file = f /\ p \in Asked(f, t[j].blocks)
    BY <1>1, <1>4, <1>6 DEF Waits
  <2>2. CASE p \in FilesRead
    BY <1>5, <2>2 DEF Waits
  <2>3. CASE \E j \in DOMAIN t : t[j].file = f /\ p \in Asked(f, t[j].blocks)
    BY <1>3, <2>3 DEF Waits, Asked
  <2> QED
    BY <2>1, <2>2, <2>3
<1>8. \A j \in DOMAIN stack' :
        /\ IsSeq(stack'[j].blocks)
        /\ Asked(stack'[j].file, stack'[j].blocks)
                \subseteq Asked(stack'[j].file, sources'[stack'[j].file])
  BY <1>1, <1>3, <1>4 DEF Included
<1>9. \A f \in FilesRead' \cap DOMAIN sources' : \A p \in Included(f)' : Waits(f, p)'
  BY <1>1, <1>5, <1>7
<1>10. FilesRead' \subseteq Reached'[Most'] /\ PlainTexts(nodes') /\ nodes' = <<>>
  BY <1>1, <1>5, <1>6
<1>11. status' # "parse" /\ status' # "done"
  BY <1>1
<1> QED
  BY <1>8, <1>9, <1>10, <1>11 DEF DependInv, Included

LEMMA IncludeDepends ==
    ASSUME GeneratorInv, DependInv, BuildInclude
    PROVE  DependInv'
<1> SUFFICES ASSUME ~leftover', status' # "error"
             PROVE  DependInv'
  BY DEF DependInv
<1>0. PICK file, from : file = PathOf(Top.file, Block.arg) /\ from = Top.file
  OBVIOUS
<1>1. /\ Building /\ status = "build" /\ Block.kind = "include" /\ ~leftover
      /\ UNCHANGED <<sources, leftover, nodes>> /\ includes' = Append(includes, file)
      /\ file \in DOMAIN sources
      /\ stack' = Append(Built, Frame(file)) /\ status' = "parse"
  BY <1>0 DEF BuildInclude, Building
<1>2. AskedBy(from, Block) = {file}
  BY <1>0, <1>1 DEF AskedBy
<1>3. PICK t : t = Built
  OBVIOUS
<1>4. /\ DOMAIN t = DOMAIN stack /\ Len(t) = Len(stack) /\ IsSeq(t)
      /\ \A j \in DOMAIN stack :
            /\ IsSeq(t[j].blocks)
            /\ Asked(t[j].file, t[j].blocks) \subseteq Included(t[j].file)
      /\ file \in Included(from)
      /\ \A f, p :
            (\E j \in DOMAIN stack : stack[j].file = f /\ p \in Asked(f, stack[j].blocks)) =>
                \/ \E j \in DOMAIN t : t[j].file = f /\ p \in Asked(f, t[j].blocks)
                \/ p = file
  BY <1>0, <1>1, <1>2, <1>3, BuiltFrames
<1>5. Reached' = Reached /\ Most' = Most /\ (\A f : Included(f)' = Included(f))
  BY <1>1, SameDisk
<1>6. /\ ShapeInv /\ from \in FilesRead \cap DOMAIN sources
      /\ Len(stack) \in Nat /\ DOMAIN stack = 1..Len(stack)
  BY <1>0, TopPlain, SeqFacts DEF GeneratorInv, ShapeInv
<1>7. FilesRead' = FilesRead \cup {file}
  BY <1>1, <1>6, AppendFacts DEF ShapeInv, FilesRead
<1>8. /\ FilesRead \subseteq Reached[Most] /\ nodes = <<>>
      /\ \A f \in FilesRead \cap DOMAIN sources : \A p \in Included(f) : Waits(f, p)
  BY <1>1 DEF DependInv
<1>9. FilesRead' \subseteq Reached[Most]
  <2>1. Closed(Reached[Most])
    BY <1>6, DiskFacts
  <2> QED
    BY <1>4, <1>6, <1>7, <1>8, <2>1 DEF Closed
<1> DEFINE frame == Frame(file)
           n == Len(stack) + 1
<1>10. frame.file = file /\ frame.items = sources[file] /\ frame.blocks = <<>>
  BY FrameFields DEF Frame
<1> HIDE DEF frame
<1>11. /\ Len(stack') = n /\ DOMAIN stack' = 1..n /\ stack'[n] = frame
       /\ \A j \in 1..Len(stack) : stack'[j] = t[j]
  <2>1. stack' = Append(t, frame)
    BY <1>1, <1>3 DEF frame
  <2>2. IsSeq(stack') /\ Len(stack') = n /\ stack'[n] = frame
    BY <1>4, <2>1, AppendFacts
  <2> QED
    BY <1>4, <2>1, <2>2, AppendFacts, SeqFacts
<1>12. Top' = frame /\ 1..n = 1..Len(stack) \cup {n} /\ n \notin 1..Len(stack)
  BY <1>6, <1>11 DEF Top
<1> HIDE DEF n
<1>13. ASSUME NEW f \in FilesRead' \cap DOMAIN sources, NEW p \in Included(f)
       PROVE  Waits(f, p)'
  <2>1. CASE f = file
    <3>1. f = Top'.file /\ p \in Asked(f, Top'.items)
      BY <1>10, <1>12, <1>13, <2>1 DEF Included
    <3> QED
      BY <1>1, <3>1 DEF Waits, Asked
  <2>2. CASE f # file
    <3>1. Waits(f, p)
      BY <1>7, <1>8, <1>13, <2>2
    <3>2. CASE p \in FilesRead \/ p = file
      BY <1>7, <3>2 DEF Waits
    <3>3. CASE \E j \in DOMAIN t : t[j].file = f /\ p \in Asked(f, t[j].blocks)
      <4>1. \E j \in DOMAIN stack' : stack'[j].file = f /\ p \in Asked(f, stack'[j].blocks)
        BY <1>4, <1>6, <1>11, <1>12, <3>3
      <4> QED
        BY <4>1 DEF Waits, Asked
    <3> QED
      BY <1>1, <1>4, <3>1, <3>2, <3>3 DEF Waits
  <2> QED
    BY <2>1, <2>2
<1>14. \A f : Asked(f, <<>>) = {}
  BY DEF Asked
<1>15. \A j \in DOMAIN stack' :
        /\ IsSeq(stack'[j].blocks)
        /\ Asked(stack'[j].file, stack'[j].blocks)
                \subseteq Asked(stack'[j].file, sources'[stack'[j].file])
  <2> TAKE j \in DOMAIN stack'
  <2>1. CASE j = n
    BY <1>10, <1>11, <1>14, <2>1, EmptyFacts
  <2>2. CASE j # n
    <3>1. j \in DOMAIN stack /\ stack'[j] = t[j]
      BY <1>6, <1>11, <1>12, <2>2
    <3> QED
      BY <1>1, <1>4, <3>1 DEF Included
  <2> QED
    BY <2>1, <2>2
<1>16. FilesRead' \subseteq Reached'[Most'] /\ PlainTexts(nodes')
  BY <1>1, <1>5, <1>8, <1>9, EmptyFacts
<1>17. Top'.blocks = <<>> /\ Asked(Top'.file, nodes') \subseteq Asked(Top'.file, sources'[Top'.file])
  BY <1>1, <1>8, <1>10, <1>12, <1>14
<1>18. \A f \in FilesRead' \cap DOMAIN sources' : \A p \in Included(f)' : Waits(f, p)'
  BY <1>1, <1>5, <1>13
<1> QED
  BY <1>1, <1>15, <1>16, <1>17, <1>18 DEF DependInv, Included

LEMMA ReturnDepends ==
    ASSUME GeneratorInv, DependInv, BuildReturn
    PROVE  DependInv'
<1> SUFFICES ASSUME ~leftover', status' # "error"
             PROVE  DependInv'
  BY DEF DependInv
<1>1. /\ status = "build" /\ Top.blocks = <<>> /\ ~leftover
      /\ UNCHANGED <<sources, includes, leftover, nodes>>
      /\ \/ status' = "done" /\ stack' = stack /\ Len(stack) = 1
         \/ status' = "build" /\ stack' = Front(stack) /\ Len(stack) # 1
  BY DEF BuildReturn
<1>2. /\ FilesRead \subseteq Reached[Most] /\ PlainTexts(nodes) /\ nodes = <<>>
      /\ \A j \in DOMAIN stack :
            /\ IsSeq(stack[j].blocks)
            /\ Asked(stack[j].file, stack[j].blocks) \subseteq Included(stack[j].file)
      /\ \A f \in FilesRead \cap DOMAIN sources : \A p \in Included(f) : Waits(f, p)
  BY <1>1 DEF DependInv
<1>3. Reached' = Reached /\ Most' = Most /\ (\A f : Included(f)' = Included(f))
      /\ FilesRead' = FilesRead
  BY <1>1, SameDisk DEF FilesRead
<1>4. /\ Len(stack) \in 1..Len(stack) /\ DOMAIN stack = 1..Len(stack) /\ IsSeq(stack)
      /\ stack # <<>> /\ Top = stack[Len(stack)]
  BY TopPlain DEF GeneratorInv, ShapeInv, Top
<1>5. /\ \A j \in DOMAIN stack' : j \in DOMAIN stack /\ stack'[j] = stack[j]
      /\ \A j \in DOMAIN stack : j \in DOMAIN stack' \/ stack[j].blocks = <<>>
  <2>1. CASE stack' = stack
    BY <2>1
  <2>2. CASE stack' = Front(stack)
    <3>1. /\ IsSeq(stack') /\ Len(stack') = Len(stack) - 1
          /\ \A j \in 1..(Len(stack) - 1) : stack'[j] = stack[j]
      BY <1>4, <2>2, FrontFacts
    <3>2. DOMAIN stack' = 1..(Len(stack) - 1)
      BY <3>1, SeqFacts
    <3>3. 1..Len(stack) = 1..(Len(stack) - 1) \cup {Len(stack)}
      BY <1>4
    <3> QED
      BY <1>1, <1>4, <3>1, <3>2, <3>3
  <2> QED
    BY <1>1, <2>1, <2>2
<1>6. \A f : Asked(f, <<>>) = {}
  BY DEF Asked
<1>7. ASSUME NEW f \in FilesRead \cap DOMAIN sources, NEW p \in Included(f)
      PROVE  Waits(f, p)'
  <2>1. Waits(f, p)
    BY <1>2
  <2>2. CASE p \in FilesRead
    BY <1>3, <2>2 DEF Waits
  <2>3. CASE \E j \in DOMAIN stack : stack[j].file = f /\ p \in Asked(f, stack[j].blocks)
    <3>1. \E j \in DOMAIN stack' : stack'[j].file = f /\ p \in Asked(f, stack'[j].blocks)
      BY <1>5, <1>6, <2>3
    <3> QED
      BY <3>1 DEF Waits, Asked
  <2> QED
    BY <1>1, <2>1, <2>2, <2>3 DEF Waits
<1>8. \A j \in DOMAIN stack' :
        /\ IsSeq(stack'[j].blocks)
        /\ Asked(stack'[j].file, stack'[j].blocks)
                \subseteq Asked(stack'[j].file, sources'[stack'[j].file])
  BY <1>1, <1>2, <1>5 DEF Included
<1>9. \A f \in FilesRead' \cap DOMAIN sources' : \A p \in Included(f)' : Waits(f, p)'
  BY <1>1, <1>3, <1>7
<1>10. FilesRead' \subseteq Reached'[Most'] /\ PlainTexts(nodes') /\ nodes' = <<>>
  BY <1>1, <1>2, <1>3
<1>11. status' # "parse"
  BY <1>1
<1>12. status' = "done" => Len(stack') = 1 /\ Top'.blocks = <<>>
  BY <1>1 DEF Top
<1> QED
  BY <1>8, <1>9, <1>10, <1>11, <1>12 DEF DependInv, Included

LEMMA DependStep == GeneratorInv /\ BufferInv /\ DependInv /\ [Next]_vars => DependInv'
<1> SUFFICES ASSUME GeneratorInv, BufferInv, DependInv, [Next]_vars
             PROVE  DependInv'
  OBVIOUS
<1>1. CASE ParseText \/ ParseTag \/ ParsePrint
  BY <1>1, ParseDepends
<1>2. CASE ParseWrong
  BY <1>2, WrongDepends
<1>3. CASE ParseEnd
  BY <1>3, EndDepends
<1>4. CASE BuildImport \/ BuildStatement
  BY <1>4, BlockDepends
<1>5. CASE BuildInclude
  BY <1>5, IncludeDepends
<1>6. CASE BuildReturn
  BY <1>6, ReturnDepends
<1>7. CASE UNCHANGED vars
  <2>1. UNCHANGED <<sources, stack, includes, nodes, leftover, status>>
    BY <1>7 DEF vars
  <2>2. Reached' = Reached /\ Most' = Most
    BY <2>1, SameDisk
  <2>3. \A f, p : Waits(f, p)' <=> Waits(f, p)
    BY <2>1 DEF Waits, FilesRead, Top, Asked
  <2>4. FilesRead' = FilesRead /\ Top' = Top
    BY <2>1 DEF FilesRead, Top
  <2> QED
    BY <2>1, <2>2, <2>3, <2>4 DEF DependInv, Included
<1>8. CASE ParseRest
  BY <1>8 DEF ParseRest, Completes, BufferInv, DependInv
<1> QED
  BY <1>1, <1>2, <1>3, <1>4, <1>5, <1>6, <1>7, <1>8 DEF Next

-----------------------------------------------------------------------------
\* Every file that is needed was opened, or waits in a block of the file that
\* includes it.
THEOREM NeededFilesWait == Spec => []DependInv
<1> QED
  BY InitDepend, DependStep, Invariant, PTL DEF Spec

\* The dependencies balde_template_generate_dependencies lists are the files a
\* page is made of, no more and no fewer, however the files include each other.
THEOREM DependenciesAreListed == Spec => []DependenciesComplete
<1>1. GeneratorInv /\ DependInv => DependenciesComplete
  <2> SUFFICES ASSUME GeneratorInv, DependInv, status = "done", ~leftover
               PROVE  ToSet(Dependencies) = Reached[Most]
    BY DEF DependenciesComplete, Most
  <2>1. ShapeInv /\ ToSet(Dependencies) = FilesRead
    BY ListedAreRead DEF GeneratorInv
  <2>2. /\ FilesRead \subseteq Reached[Most] /\ Len(stack) = 1 /\ Top.blocks = <<>>
        /\ \A f \in FilesRead \cap DOMAIN sources : \A p \in Included(f) : Waits(f, p)
    BY DEF DependInv
  <2>3. DOMAIN stack = {1} /\ stack[1].blocks = <<>>
    BY <2>1, <2>2, TopPlain DEF Top
  <2>4. \A f : Asked(f, <<>>) = {}
    BY DEF Asked
  <2>5. Closed(FilesRead)
    BY <2>2, <2>3, <2>4 DEF Closed, Waits
  <2>6. Main \in FilesRead
    BY DEF FilesRead
  <2> QED
    BY <2>1, <2>2, <2>5, <2>6, DiskFacts
<1> QED
  BY <1>1, Invariant, NeededFilesWait, PTL
=============================================================================
