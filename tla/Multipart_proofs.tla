-------------------------- MODULE Multipart_proofs --------------------------
(***************************************************************************)
(* The parser of multipart bodies loses, doubles and moves no byte of the  *)
(* data, overlooks no delimiter and files every part under its own name,   *)
(* for any boundary and any body, sent in any pieces.                      *)
(***************************************************************************)
EXTENDS Multipart, SequenceTheorems, TLAPS

(* The invariant the proofs rest on.                                       *)

HeaderStates == {"header_field_start", "header_field", "headers_almost_done",
                 "header_value_start", "header_value", "header_value_almost_done"}
Header == [name : Seq(Byte) \cup {Null}, value : Seq(Byte)]
Part   == [from : Nat \ {0}, to : Nat, given : Seq(Header), field : {"f"},
           file : BOOLEAN]

Types ==
    /\ text \in Seq(Byte)
    /\ verdict \in {"called", "reading", "accepted", "rejected", "crashed"}
    /\ state \in {"start", "start_boundary", "part_data_start", "part_data",
                  "part_data_almost_boundary", "part_data_boundary",
                  "part_data_almost_end", "part_data_end",
                  "part_data_final_hyphen", "end"} \cup HeaderStates
    /\ index \in Nat /\ mark \in Nat \ {0} /\ lookbehind \in Seq(Byte)
    /\ headerName \in Seq(Byte) \cup {Null}
    /\ fieldName \in {"f", Null} /\ fileName \in {"g", Null}
    /\ fileType \in Seq(Byte) \cup {Null}
    /\ content \in Seq(Byte) \cup {Null} /\ given \in Seq(Header)
    /\ origin \in Nat /\ parts \in Seq(Part)

\* What the headers of a part give is what the callbacks remember of them.
Gives(headers, name, values) ==
    \E j \in DOMAIN headers : headers[j].name = name /\ headers[j].value \in values
HasType(headers) == \E j \in DOMAIN headers : headers[j].name = <<"t">>

NamesGiven ==
    IF state \in HeaderStates \/ InData
    THEN /\ fieldName # Null <=> Gives(given, <<"n">>, {<<"f">>, <<"g">>})
         /\ fileName # Null <=> Gives(given, <<"n">>, {<<"g">>})
         /\ fileType # Null <=> HasType(given)
    ELSE fieldName = Null /\ fileName = Null /\ fileType = Null

NothingYet == state \in HeaderStates \cup {"part_data_start"} => content = <<>>

\* How much of a delimiter the parser believes it has read, and where it began.
Held == CASE state = "part_data_almost_boundary" -> 1
          [] state = "part_data_boundary" -> index + 2
          [] OTHER -> 0
Begun == Len(text) - Held + 1

L == Len(Delimiter)
DelimiterIn(t, from, to) ==
    \E i \in from..(to - L + 1) : SubSeq(t, i, i + L - 1) = Delimiter

\* The text t, from i on, is the beginning of a delimiter.
Agrees(t, i) == \A j \in i..Len(t) : t[j] = Delimiter[j - i + 1]

\* From o on the text t has no delimiter, its last h bytes are the beginning of
\* one, and they are the only ones that are.
Tracks(t, o, h) ==
    /\ h \in Nat /\ h < L /\ o <= Len(t) - h + 1
    /\ h > 0 => Agrees(t, Len(t) - h + 1)
    /\ \A i \in o..Len(t) : Len(t) - i < L /\ Agrees(t, i) => i = Len(t) - h + 1
    /\ ~DelimiterIn(t, o, Len(t))

\* The first byte that is not in the content.
Unsaved == IF state = "part_data" THEN mark ELSE Begun

DataInv ==
    verdict = "reading" /\ InData /\ state # "part_data_start" =>
        /\ 1 <= origin /\ origin <= Unsaved /\ Unsaved <= Len(text)
        /\ content = Between(origin, Unsaved - 1)
        /\ state = "part_data_boundary" => lookbehind = Between(Begun, Len(text))
        /\ Tracks(text, origin, Held)

PartsInv ==
    \A n \in DOMAIN parts :
        LET p == parts[n] IN
        /\ p.from + Len(Delimiter) <= p.to + 1 /\ p.to <= Len(text)
        /\ Between(p.to - Len(Delimiter) + 1, p.to) = Delimiter
        /\ ~HasDelimiter(p.from, p.to - 1)
        /\ Gives(p.given, <<"n">>, {<<"f">>, <<"g">>})
        /\ p.file <=> Gives(p.given, <<"n">>, {<<"g">>}) /\ HasType(p.given)

ParserInv ==
    /\ Types /\ NamesGiven /\ NothingYet /\ DataInv /\ PartsInv /\ TablesExact
Inv == /\ coming \in Seq(Byte) /\ ParserInv
       /\ verdict = "called" => state = "start"

-----------------------------------------------------------------------------
(* Lemmas about texts.                                                     *)

\* A delimiter begins with a carriage return and has no other.
LEMMA DelimiterFacts ==
    /\ Delimiter \in Seq(Byte) /\ L = Len(Boundary) + 2
    /\ Len(Boundary) \in Nat \ {0}
    /\ Delimiter[1] = CR /\ Delimiter[2] = LF /\ CR # LF
    /\ \A j \in 1..Len(Boundary) : Delimiter[j + 2] = Boundary[j]
    /\ \A j \in 2..L : Delimiter[j] # CR
    /\ {CR, LF} \subseteq Byte
<1> DEFINE s == <<CR, LF>>
<1>1. s \in Seq(Byte) /\ Len(s) = 2 /\ s[1] = CR /\ s[2] = LF /\ CR # LF
  BY BodyAssumption DEF CR, LF
<1>2. Boundary \in Seq(Byte) /\ Len(Boundary) \in Nat \ {0}
  BY BoundaryAssumption, EmptySeq
<1>3. /\ Delimiter \in Seq(Byte) /\ L = 2 + Len(Boundary)
      /\ \A i \in 1..(2 + Len(Boundary)) :
            Delimiter[i] = IF i <= 2 THEN s[i] ELSE Boundary[i - 2]
  <2> HIDE DEF s
  <2>1. /\ s \o Boundary \in Seq(Byte)
        /\ Len(s \o Boundary) = Len(s) + Len(Boundary)
        /\ \A i \in 1..(Len(s) + Len(Boundary)) : (s \o Boundary)[i] =
                IF i <= Len(s) THEN s[i] ELSE Boundary[i - Len(s)]
    BY <1>1, <1>2, ConcatProperties
  <2>2. Delimiter = s \o Boundary
    BY DEF Delimiter, s
  <2> QED
    BY <1>1, <2>1, <2>2 DEF L
<1> HIDE DEF s
<1>4. ASSUME NEW j \in 1..Len(Boundary)
      PROVE  Delimiter[j + 2] = Boundary[j]
  BY <1>2, <1>3
<1>5. ASSUME NEW j \in 2..L
      PROVE  Delimiter[j] # CR
  <2>1. CASE j = 2
    BY <1>1, <1>2, <1>3, <2>1
  <2>2. CASE j # 2
    <3>1. j - 2 \in 1..Len(Boundary) /\ Delimiter[j] = Boundary[j - 2]
      BY <1>2, <1>3, <2>2
    <3> QED
      BY <3>1, BoundaryAssumption
  <2> QED
    BY <2>1, <2>2
<1>6. Delimiter[1] = CR /\ Delimiter[2] = LF /\ CR # LF
  BY <1>1, <1>2, <1>3
<1> QED
  BY <1>2, <1>3, <1>4, <1>5, <1>6, BodyAssumption

\* What was read stays when a byte is read.
LEMMA SubSeqAppend ==
    ASSUME NEW t \in Seq(Byte), NEW c \in Byte,
           NEW i \in Nat \ {0}, NEW j \in Int, j <= Len(t)
    PROVE  SubSeq(Append(t, c), i, j) = SubSeq(t, i, j)
<1> DEFINE u == Append(t, c)
<1>1. /\ Len(t) \in Nat /\ u \in Seq(Byte)
      /\ \A k \in 1..Len(t) : u[k] = t[k]
      /\ \A k \in 1..Len(t) : t[k] \in Byte
  BY AppendProperties, LenProperties, ElementOfSeq
<1> HIDE DEF u
<1>2. \A k \in i..j : t[k] \in Byte /\ u[k] \in Byte /\ u[k] = t[k]
  BY <1>1
<1>3. /\ SubSeq(t, i, j) \in Seq(Byte)
      /\ Len(SubSeq(t, i, j)) = IF i <= j THEN j - i + 1 ELSE 0
      /\ \A k \in 1..(j - i + 1) : SubSeq(t, i, j)[k] = t[i + k - 1]
  BY <1>2, SubSeqProperties
<1>4. /\ SubSeq(u, i, j) \in Seq(Byte)
      /\ Len(SubSeq(u, i, j)) = IF i <= j THEN j - i + 1 ELSE 0
      /\ \A k \in 1..(j - i + 1) : SubSeq(u, i, j)[k] = u[i + k - 1]
  BY <1>2, SubSeqProperties
<1>5. ASSUME NEW k \in 1..Len(SubSeq(u, i, j))
      PROVE  SubSeq(u, i, j)[k] = SubSeq(t, i, j)[k]
  <2>1. k \in 1..(j - i + 1) /\ i + k - 1 \in i..j
    BY <1>4
  <2> QED
    BY <1>2, <1>3, <1>4, <2>1
<1>6. SubSeq(u, i, j) = SubSeq(t, i, j)
  BY <1>3, <1>4, <1>5, SeqEqual
<1> QED
  BY <1>6 DEF u

\* A piece of what was read, and the piece that is joined to it.
LEMMA SubSeqType ==
    ASSUME NEW t \in Seq(Byte), NEW i \in Nat \ {0}, NEW j \in Int, j <= Len(t)
    PROVE  SubSeq(t, i, j) \in Seq(Byte)
<1>1. \A k \in i..j : t[k] \in Byte
  BY ElementOfSeq, LenProperties
<1> QED
  BY <1>1, SubSeqProperties

LEMMA SubSeqExtend ==
    ASSUME NEW t \in Seq(Byte), NEW c \in Byte, NEW i \in 1..(Len(t) + 1)
    PROVE  SubSeq(Append(t, c), i, Len(t) + 1) = Append(SubSeq(t, i, Len(t)), c)
<1> DEFINE u == Append(t, c)
<1>1. Len(t) \in Nat /\ u \in Seq(Byte) /\ Len(u) = Len(t) + 1
      /\ u[Len(t) + 1] = c
  BY AppendProperties, LenProperties
<1> HIDE DEF u
<1>2. SubSeq(u, i, Len(t) + 1) = SubSeq(u, i, Len(t)) \o <<c>>
  <2>1. i \in 1..Len(u) /\ Len(u) \in i..Len(u) /\ Len(u) - 1 = Len(t)
    BY <1>1
  <2>2. SubSeq(u, i, Len(u)) = SubSeq(u, i, Len(u) - 1) \o <<u[Len(u)]>>
    BY <1>1, <2>1, SubSeqRecursiveSecond
  <2> QED
    BY <1>1, <2>1, <2>2
<1>3. SubSeq(u, i, Len(t)) = SubSeq(t, i, Len(t))
  BY <1>1, SubSeqAppend DEF u
<1>4. SubSeq(t, i, Len(t)) \in Seq(Byte)
  BY <1>1, SubSeqType
<1>5. SubSeq(u, i, Len(t) + 1) = Append(SubSeq(t, i, Len(t)), c)
  <2>1. Append(SubSeq(t, i, Len(t)), c) = SubSeq(t, i, Len(t)) \o <<c>>
    BY <1>4, AppendIsConcat
  <2> QED
    BY <1>2, <1>3, <2>1
<1> QED
  BY <1>5 DEF u

\* Where there is a delimiter, byte by byte.
LEMMA DelimiterAt ==
    ASSUME NEW t \in Seq(Byte), NEW i \in Nat \ {0}, i + L - 1 <= Len(t)
    PROVE  SubSeq(t, i, i + L - 1) = Delimiter
             <=> \A k \in 1..L : t[i + k - 1] = Delimiter[k]
<1>1. /\ Delimiter \in Seq(Byte) /\ L \in Nat \ {0} /\ L = Len(Delimiter)
  BY DelimiterFacts DEF L
<1>2. \A k \in i..(i + L - 1) : t[k] \in Byte
  BY <1>1, ElementOfSeq, LenProperties
<1> DEFINE s == SubSeq(t, i, i + L - 1)
<1>3. /\ s \in Seq(Byte)
      /\ Len(s) = IF i <= i + L - 1 THEN i + L - 1 - i + 1 ELSE 0
      /\ \A k \in 1..(i + L - 1 - i + 1) : s[k] = t[i + k - 1]
  BY <1>1, <1>2, SubSeqProperties
<1> HIDE DEF s
<1>4. Len(s) = L /\ \A k \in 1..L : s[k] = t[i + k - 1]
  BY <1>1, <1>3
<1>5. s = Delimiter <=> \A k \in 1..L : s[k] = Delimiter[k]
  <2>1. (\A k \in 1..L : s[k] = Delimiter[k]) => s = Delimiter
    BY <1>1, <1>3, <1>4, SeqEqual
  <2> QED
    BY <2>1
<1>6. s = Delimiter <=> \A k \in 1..L : t[i + k - 1] = Delimiter[k]
  BY <1>4, <1>5
<1> QED
  BY <1>6 DEF s

\* One more byte goes on with the delimiter that may have begun, begins one, or
\* neither; or it completes one.  A delimiter has one carriage return, so that
\* what does not go on may begin with this byte and nowhere before.
LEMMA OneMoreByte ==
    ASSUME NEW t \in Seq(Byte), NEW c \in Byte, NEW o \in Nat \ {0}, NEW h,
           Tracks(t, o, h)
    PROVE  LET u == Append(t, c)
               goesOn == h > 0 /\ c = Delimiter[h + 1]
           IN
           /\ goesOn /\ h + 1 < L => Tracks(u, o, h + 1)
           /\ goesOn /\ h + 1 = L => SubSeq(u, Len(u) - L + 1, Len(u)) = Delimiter
           /\ ~goesOn /\ c = CR => Tracks(u, o, 1)
           /\ ~goesOn /\ c # CR => Tracks(u, o, 0)
<1>0. /\ h \in Nat /\ h < L /\ o <= Len(t) - h + 1
      /\ h > 0 => Agrees(t, Len(t) - h + 1)
      /\ \A i \in o..Len(t) :
            Len(t) - i < L /\ Agrees(t, i) => i = Len(t) - h + 1
      /\ ~DelimiterIn(t, o, Len(t))
  BY DEF Tracks
<1> DEFINE u == Append(t, c)
<1>1. /\ Len(t) \in Nat /\ u \in Seq(Byte) /\ Len(u) = Len(t) + 1
      /\ u[Len(t) + 1] = c /\ \A k \in 1..Len(t) : u[k] = t[k]
  BY AppendProperties, LenProperties
<1>d. L \in Nat /\ L > 2 /\ Delimiter[1] = CR
      /\ \A j \in 2..L : Delimiter[j] # CR
  BY DelimiterFacts
<1> HIDE DEF u
<1>2. ASSUME NEW i \in o..Len(u), Len(u) - i < L, Agrees(u, i)
      PROVE  \/ i = Len(u) /\ c = CR
             \/ i = Len(t) - h + 1 /\ h > 0 /\ c = Delimiter[h + 1]
  <2>1. CASE i = Len(u)
    <3>1. u[i] = Delimiter[i - i + 1]
      BY <1>1, <1>2, <2>1 DEF Agrees
    <3> QED
      BY <1>1, <1>d, <2>1, <3>1
  <2>2. CASE i # Len(u)
    <3>1. i \in o..Len(t) /\ Len(t) - i < L
      BY <1>1, <1>2, <1>d, <2>2
    <3>2. \A j \in i..Len(t) : u[j] = Delimiter[j - i + 1] /\ u[j] = t[j]
      BY <1>1, <1>2, <3>1 DEF Agrees
    <3>3. Agrees(t, i)
      BY <3>2 DEF Agrees
    <3>4. i = Len(t) - h + 1
      BY <1>0, <3>1, <3>3
    <3>5. Len(u) \in i..Len(u) /\ Len(u) - i + 1 = h + 1 /\ h > 0
      BY <1>0, <1>1, <3>1, <3>4
    <3>6. u[Len(u)] = Delimiter[Len(u) - i + 1]
      BY <1>2, <3>5 DEF Agrees
    <3> QED
      BY <1>1, <3>4, <3>5, <3>6
  <2> QED
    BY <2>1, <2>2
<1>3. c = CR => Agrees(u, Len(u))
  BY <1>1, <1>d DEF Agrees
<1>4. ASSUME h > 0, c = Delimiter[h + 1]
      PROVE  Agrees(u, Len(t) - h + 1)
  <2> DEFINE b == Len(t) - h + 1
  <2>1. b \in Nat \ {0} /\ b <= Len(t)
    BY <1>0, <1>1, <1>4
  <2>2. ASSUME NEW j \in b..Len(u)
        PROVE  u[j] = Delimiter[j - b + 1]
    <3>1. CASE j = Len(u)
      <4>1. j - b + 1 = h + 1
        BY <1>0, <1>1, <3>1
      <4> QED
        BY <1>1, <1>4, <3>1, <4>1
    <3>2. CASE j # Len(u)
      <4>1. j \in b..Len(t) /\ j \in 1..Len(t)
        BY <1>1, <2>1, <3>2
      <4>2. t[j] = Delimiter[j - b + 1]
        BY <1>0, <1>4, <4>1 DEF Agrees
      <4> QED
        BY <1>1, <4>1, <4>2
    <3> QED
      BY <3>1, <3>2
  <2> QED
    BY <2>2 DEF Agrees
<1>5. ASSUME h + 1 = L, c = Delimiter[h + 1]
      PROVE  SubSeq(u, Len(u) - L + 1, Len(u)) = Delimiter
  <2> DEFINE b == Len(t) - h + 1
  <2>0. h \in Nat /\ h > 1 /\ L = h + 1 /\ Len(u) = Len(t) + 1
    BY <1>0, <1>1, <1>5, <1>d
  <2>1. /\ b \in Nat \ {0} /\ b + L - 1 = Len(u) /\ b = Len(u) - L + 1 /\ h > 0
    BY <1>0, <1>1, <2>0
  <2>2. Agrees(u, b)
    BY <1>4, <1>5, <2>1
  <2>3. ASSUME NEW k \in 1..L
        PROVE  u[b + k - 1] = Delimiter[k]
    <3> HIDE DEF b
    <3>1. b + k - 1 \in b..Len(u) /\ (b + k - 1) - b + 1 = k
      BY <1>1, <1>d, <2>1
    <3>2. u[b + k - 1] = Delimiter[(b + k - 1) - b + 1]
      BY <2>2, <3>1 DEF Agrees
    <3> QED
      BY <3>1, <3>2
  <2>4. SubSeq(u, b, b + L - 1) = Delimiter
    <3> HIDE DEF b
    <3>1. b \in Nat \ {0} /\ b + L - 1 <= Len(u)
      BY <1>1, <2>1
    <3> QED
      BY <1>1, <2>3, <3>1, DelimiterAt
  <2> QED
    BY <2>1, <2>4
<1>6. ASSUME ~(h + 1 = L /\ c = Delimiter[h + 1])
      PROVE  ~DelimiterIn(u, o, Len(u))
  <2> SUFFICES ASSUME NEW i \in o..(Len(u) - L + 1),
                      SubSeq(u, i, i + L - 1) = Delimiter
               PROVE  FALSE
    BY DEF DelimiterIn
  <2>1. i \in Nat \ {0} /\ i + L - 1 <= Len(u) /\ i <= Len(u)
    BY <1>1, <1>d
  <2>2. CASE i + L - 1 = Len(u)
    <3>1. \A k \in 1..L : u[i + k - 1] = Delimiter[k]
      BY <1>1, <2>1, DelimiterAt
    <3>2. ASSUME NEW j \in i..Len(u)
          PROVE  u[j] = Delimiter[j - i + 1]
      <4>1. j - i + 1 \in 1..L /\ i + (j - i + 1) - 1 = j
        BY <1>1, <1>d, <2>1, <2>2
      <4>2. u[i + (j - i + 1) - 1] = Delimiter[j - i + 1]
        BY <3>1, <4>1
      <4> QED
        BY <4>1, <4>2
    <3>3. Agrees(u, i) /\ i \in o..Len(u) /\ Len(u) - i < L /\ i # Len(u)
      BY <1>1, <1>d, <2>1, <2>2, <3>2 DEF Agrees
    <3>4. i = Len(t) - h + 1 /\ c = Delimiter[h + 1]
      BY <1>2, <3>3
    <3>5. h + 1 = L
      BY <1>0, <1>1, <1>d, <2>2, <3>4
    <3> QED
      BY <1>6, <3>4, <3>5
  <2>3. CASE i + L - 1 # Len(u)
    <3>0. i \in Nat /\ o <= i /\ L \in Nat /\ Len(t) \in Nat /\ o \in Nat
      BY <1>1, <1>d, <2>1
    <3>1. i \in o..(Len(t) - L + 1) /\ i + L - 1 <= Len(t) /\ i + L - 1 \in Int
      BY <1>1, <2>1, <2>3, <3>0
    <3>2. SubSeq(t, i, i + L - 1) = Delimiter
      BY <2>1, <3>1, SubSeqAppend DEF u
    <3> QED
      BY <1>0, <3>1, <3>2 DEF DelimiterIn
  <2> QED
    BY <2>2, <2>3
<1>7. ASSUME h > 0, c = Delimiter[h + 1], h + 1 < L
      PROVE  Tracks(u, o, h + 1)
  <2>1. /\ h + 1 \in Nat /\ Len(u) - (h + 1) + 1 = Len(t) - h + 1 /\ h + 1 # L
        /\ h + 1 \in 2..L
    BY <1>0, <1>1, <1>7, <1>d
  <2>2. c # CR
    BY <1>7, <1>d, <2>1
  <2>3. \A i \in o..Len(u) : Len(u) - i < L /\ Agrees(u, i) => i = Len(t) - h + 1
    BY <1>2, <2>2
  <2>4. Agrees(u, Len(t) - h + 1) /\ ~DelimiterIn(u, o, Len(u))
    BY <1>4, <1>6, <1>7, <2>1
  <2> QED
    BY <1>0, <1>7, <2>1, <2>3, <2>4 DEF Tracks
<1>8. ASSUME ~(h > 0 /\ c = Delimiter[h + 1])
      PROVE  /\ ~DelimiterIn(u, o, Len(u))
             /\ \A i \in o..Len(u) : Len(u) - i < L /\ Agrees(u, i) =>
                    i = Len(u) /\ c = CR
  <2>1. ~(h + 1 = L /\ c = Delimiter[h + 1])
    BY <1>0, <1>8, <1>d
  <2>2. ~DelimiterIn(u, o, Len(u))
    BY <1>6, <2>1
  <2> QED
    BY <1>2, <1>8, <2>2
<1>9. ASSUME ~(h > 0 /\ c = Delimiter[h + 1]), c = CR
      PROVE  Tracks(u, o, 1)
  <2>1. 1 < L /\ o <= Len(u) - 1 + 1 /\ Len(u) - 1 + 1 = Len(u)
    BY <1>0, <1>1, <1>d
  <2>2. Agrees(u, Len(u) - 1 + 1)
    BY <1>3, <1>9, <2>1
  <2>3. \A i \in o..Len(u) : Len(u) - i < L /\ Agrees(u, i) => i = Len(u) - 1 + 1
    BY <1>8, <1>9, <2>1
  <2> QED
    BY <1>8, <1>9, <2>1, <2>2, <2>3 DEF Tracks
<1>10. ASSUME ~(h > 0 /\ c = Delimiter[h + 1]), c # CR
       PROVE  Tracks(u, o, 0)
  <2>1. 0 < L /\ o <= Len(u) - 0 + 1
    BY <1>0, <1>1, <1>d
  <2>2. \A i \in o..Len(u) : ~(Len(u) - i < L /\ Agrees(u, i))
    BY <1>8, <1>10
  <2> QED
    BY <1>8, <1>10, <2>1, <2>2 DEF Tracks
<1> QED
  BY <1>5, <1>7, <1>9, <1>10 DEF u

-----------------------------------------------------------------------------
(* What a byte that is read changes.                                       *)

\* A part that was read stays what it was.
LEMMA PartStays ==
    ASSUME Types, PartsInv, NEW c \in Byte, text' = Append(text, c),
           NEW n \in DOMAIN parts
    PROVE  LET p == parts[n] IN
           /\ p \in Part /\ p.from + L <= p.to + 1 /\ p.to <= Len(text')
           /\ SubSeq(text', p.to - L + 1, p.to) = Delimiter
           /\ ~DelimiterIn(text', p.from, p.to - 1)
           /\ SubSeq(text', p.from, p.to - L) = SubSeq(text, p.from, p.to - L)
           /\ Gives(p.given, <<"n">>, {<<"f">>, <<"g">>})
           /\ p.file <=> Gives(p.given, <<"n">>, {<<"g">>}) /\ HasType(p.given)
<1> DEFINE p == parts[n]
<1>t. /\ text \in Seq(Byte) /\ parts \in Seq(Part) /\ Len(text) \in Nat
      /\ Len(text') = Len(text) + 1
  BY AppendProperties, LenProperties DEF Types
<1>d. L \in Nat /\ L > 2 /\ L = Len(Delimiter)
  BY DelimiterFacts DEF L
<1>1. p \in Part
  BY <1>t, ElementOfSeq, LenProperties
<1>2. /\ p.from + L <= p.to + 1 /\ p.to <= Len(text)
      /\ SubSeq(text, p.to - L + 1, p.to) = Delimiter
      /\ ~DelimiterIn(text, p.from, p.to - 1)
      /\ Gives(p.given, <<"n">>, {<<"f">>, <<"g">>})
      /\ p.file <=> Gives(p.given, <<"n">>, {<<"g">>}) /\ HasType(p.given)
  BY DEF PartsInv, HasDelimiter, DelimiterIn, Between, L
<1>3. p.from \in Nat \ {0} /\ p.to \in Nat
  BY <1>1 DEF Part
<1> HIDE DEF p
<1>4. /\ p.to - L + 1 \in Nat \ {0} /\ p.to - L \in Int /\ p.to \in Int
      /\ p.to - L <= Len(text)
  <2>1. \A a, b, k, m \in Nat : k > 2 /\ a > 0 /\ a + k <= b + 1 /\ b <= m =>
          /\ b - k + 1 \in Nat \ {0} /\ b - k \in Int /\ b \in Int /\ b - k <= m
    OBVIOUS
  <2>2. p.from \in Nat /\ p.from > 0 /\ Len(text) \in Nat
    BY <1>t, <1>3
  <2> QED
    BY <1>d, <1>2, <1>3, <2>1, <2>2
<1>5. /\ SubSeq(text', p.to - L + 1, p.to) = SubSeq(text, p.to - L + 1, p.to)
      /\ SubSeq(text', p.from, p.to - L) = SubSeq(text, p.from, p.to - L)
  BY <1>t, <1>2, <1>3, <1>4, SubSeqAppend
<1>6. ASSUME NEW i \in p.from..(p.to - 1 - L + 1)
      PROVE  SubSeq(text', i, i + L - 1) = SubSeq(text, i, i + L - 1)
  <2>0. /\ p.from \in Nat /\ p.from > 0 /\ p.to \in Nat /\ p.to <= Len(text)
        /\ L \in Nat /\ Len(text) \in Nat
    BY <1>d, <1>t, <1>2, <1>3
  <2>1. i \in Nat \ {0} /\ i + L - 1 \in Int /\ i + L - 1 <= Len(text)
    BY <2>0
  <2> QED
    BY <1>t, <2>1, SubSeqAppend
<1>7. ~DelimiterIn(text', p.from, p.to - 1)
  BY <1>2, <1>6 DEF DelimiterIn
<1>8. p.to <= Len(text')
  BY <1>t, <1>2, <1>3
<1> QED
  BY <1>1, <1>2, <1>5, <1>7, <1>8 DEF p

LEMMA PartsStay ==
    ASSUME Types, PartsInv, TablesExact, NEW c \in Byte, verdict # "rejected",
           text' = Append(text, c), UNCHANGED parts,
           UNCHANGED <<form, files>> \/ verdict' = "rejected"
    PROVE  PartsInv' /\ TablesExact'
<1>1. PartsInv'
  <2> SUFFICES ASSUME NEW n \in DOMAIN parts
               PROVE  LET p == parts[n] IN
                      /\ p.from + L <= p.to + 1 /\ p.to <= Len(text')
                      /\ SubSeq(text', p.to - L + 1, p.to) = Delimiter
                      /\ ~DelimiterIn(text', p.from, p.to - 1)
                      /\ Gives(p.given, <<"n">>, {<<"f">>, <<"g">>})
                      /\ p.file <=> Gives(p.given, <<"n">>, {<<"g">>}) /\ HasType(p.given)
    BY DEF PartsInv, HasDelimiter, DelimiterIn, Between, L, Gives, HasType
  <2> QED
    BY PartStays
<1>2. ASSUME verdict' # "rejected"
      PROVE  TablesExact'
  <2>1. \A n \in DOMAIN parts : Bytes(parts[n])' = Bytes(parts[n])
    BY PartStays DEF Bytes, Between, L
  <2>2. UNCHANGED <<form, files, parts>>
    BY <1>2
  <2> QED
    BY <2>1, <2>2 DEF TablesExact
<1> QED
  BY <1>1, <1>2 DEF TablesExact

\* A body that is turned down.
LEMMA RejectsSound ==
    ASSUME ParserInv, NEW c \in Byte, verdict = "reading", Rejects(c)
    PROVE  ParserInv'
<1>0. text \in Seq(Byte)
  BY DEF ParserInv, Types
<1>1. /\ text' = Append(text, c) /\ verdict' = "rejected"
      /\ UNCHANGED <<state, index, mark, lookbehind, headerName, fieldName,
                     fileName, fileType, content, given, parts, origin>>
      /\ text' \in Seq(Byte)
  BY <1>0, AppendProperties DEF Rejects, parser, part
<1>2. Types'
  BY <1>1 DEF ParserInv, Types
<1>3. NamesGiven' /\ NothingYet' /\ DataInv'
  BY <1>1 DEF ParserInv, NamesGiven, NothingYet, DataInv, InData, Gives, HasType
<1>4. PartsInv' /\ TablesExact'
  BY <1>1, PartsStay DEF ParserInv
<1> QED
  BY <1>2, <1>3, <1>4 DEF ParserInv

\* A byte that is taken outside the data and leaves the tables alone.
LEMMA TakesOutside ==
    ASSUME ParserInv, NEW c \in Byte, NEW last \in BOOLEAN, verdict = "reading",
           Takes(c, last), UNCHANGED <<lookbehind, tables, origin>>,
           state' \notin {"part_data", "part_data_almost_boundary",
                          "part_data_boundary"}
    PROVE  /\ text \in Seq(Byte) /\ Len(text) \in Nat /\ text' \in Seq(Byte)
           /\ verdict' \in {"reading", "accepted"}
           /\ lookbehind' \in Seq(Byte) /\ origin' \in Nat /\ parts' \in Seq(Part)
           /\ DataInv' /\ PartsInv' /\ TablesExact'
<1>1. text \in Seq(Byte) /\ Len(text) \in Nat /\ text' = Append(text, c)
  BY LenProperties DEF ParserInv, Types, Takes
<1>2. text' \in Seq(Byte)
  BY <1>1, AppendProperties
<1>3. UNCHANGED <<lookbehind, form, files, parts, origin>>
  BY DEF tables
<1>4. DataInv'
  BY DEF DataInv, InData
<1>5. PartsInv' /\ TablesExact'
  BY <1>1, <1>3, PartsStay DEF ParserInv
<1>6. verdict' \in {"reading", "accepted"}
  BY DEF Takes
<1> QED
  BY <1>1, <1>2, <1>3, <1>4, <1>5, <1>6 DEF ParserInv, Types

LEMMA StartBoundarySound ==
    ASSUME ParserInv, NEW c \in Byte, NEW last \in BOOLEAN, verdict = "reading",
           StartBoundary(c, last)
    PROVE  ParserInv'
<1> DEFINE i == IF state = "start" THEN 0 ELSE index
<1>0. i \in Nat /\ i + 1 \in Nat
  BY DEF ParserInv, Types
<1>1. CASE Rejects(c)
  BY <1>1, RejectsSound
<1>2. ASSUME Takes(c, last), state' = "start_boundary", index' = i + 1,
             UNCHANGED <<mark, lookbehind, part, tables, origin>>
      PROVE  ParserInv'
  <2> HIDE DEF i
  <2>1. UNCHANGED <<headerName, fieldName, fileName, fileType, content, given>>
    BY <1>2 DEF part
  <2>2. NamesGiven' /\ NothingYet'
    BY <1>2, <2>1 DEF StartBoundary, ParserInv, NamesGiven, NothingYet, InData,
       HeaderStates
  <2>3. UNCHANGED <<lookbehind, tables, origin>>
    BY <1>2
  <2>4. /\ text' \in Seq(Byte) /\ verdict' \in {"reading", "accepted"}
        /\ lookbehind' \in Seq(Byte) /\ origin' \in Nat /\ parts' \in Seq(Part)
        /\ DataInv' /\ PartsInv' /\ TablesExact'
    BY <1>2, <2>3, TakesOutside
  <2>5. Types'
    BY <1>0, <1>2, <2>1, <2>4 DEF ParserInv, Types
  <2> QED
    BY <2>2, <2>4, <2>5 DEF ParserInv
<1>3. ASSUME Takes(c, last), BeginPart, state' = "header_field_start", index' = 0,
             state \in {"start", "start_boundary"},
             UNCHANGED <<mark, lookbehind, headerName, fieldName, fileName,
                         fileType, tables, origin>>
      PROVE  ParserInv'
  <2>1. /\ UNCHANGED <<headerName, fieldName, fileName, fileType, mark>>
        /\ given' = <<>> /\ content' = <<>>
    BY <1>3 DEF BeginPart
  <2>2. NamesGiven' /\ NothingYet'
    BY <1>3, <2>1 DEF ParserInv, NamesGiven, NothingYet, InData, HeaderStates,
       Gives, HasType
  <2>3. UNCHANGED <<lookbehind, tables, origin>>
    BY <1>3
  <2>4. /\ text' \in Seq(Byte) /\ verdict' \in {"reading", "accepted"}
        /\ lookbehind' \in Seq(Byte) /\ origin' \in Nat /\ parts' \in Seq(Part)
        /\ DataInv' /\ PartsInv' /\ TablesExact'
    BY <1>3, <2>3, TakesOutside
  <2>5. Types'
    BY <1>3, <2>1, <2>4 DEF ParserInv, Types, HeaderStates
  <2> QED
    BY <2>2, <2>4, <2>5 DEF ParserInv
<1> QED
  BY <1>1, <1>2, <1>3 DEF StartBoundary

LEMMA HeaderFieldSound ==
    ASSUME ParserInv, NEW c \in Byte, NEW last \in BOOLEAN, verdict = "reading",
           HeaderField(c, last)
    PROVE  ParserInv'
<1> DEFINE from == IF state = "header_field_start" THEN At ELSE mark
<1>1. CASE Rejects(c)
  BY <1>1, RejectsSound
<1>2. ASSUME Takes(c, last), mark' = from, state \in HeaderStates,
             state' \in {"headers_almost_done", "header_value_start", "header_field"},
             headerName' = IF c = ":" THEN SubSeq(text, from, Len(text))
                           ELSE headerName,
             UNCHANGED <<index, lookbehind, fieldName, fileName, fileType,
                         content, given, tables, origin>>
      PROVE  ParserInv'
  <2>1. text \in Seq(Byte) /\ Len(text) \in Nat /\ from \in Nat \ {0}
    BY LenProperties DEF ParserInv, Types, At
  <2> HIDE DEF from
  <2>2. headerName' \in Seq(Byte) \cup {Null}
    <3>1. SubSeq(text, from, Len(text)) \in Seq(Byte)
      BY <2>1, SubSeqType
    <3> QED
      BY <1>2, <3>1 DEF ParserInv, Types
  <2>3. NamesGiven' /\ NothingYet'
    BY <1>2 DEF ParserInv, NamesGiven, NothingYet, InData, HeaderStates, Gives, HasType
  <2>4. UNCHANGED <<lookbehind, tables, origin>>
    BY <1>2
  <2>5. /\ text' \in Seq(Byte) /\ verdict' \in {"reading", "accepted"}
        /\ lookbehind' \in Seq(Byte) /\ origin' \in Nat /\ parts' \in Seq(Part)
        /\ DataInv' /\ PartsInv' /\ TablesExact'
    BY <1>2, <2>4, TakesOutside
  <2>6. Types'
    BY <1>2, <2>1, <2>2, <2>5 DEF ParserInv, Types, HeaderStates
  <2> QED
    BY <2>3, <2>5, <2>6 DEF ParserInv
<1> QED
  BY <1>1, <1>2 DEF HeaderField, HeaderStates

LEMMA HeaderLineFeedSound ==
    ASSUME ParserInv, NEW c \in Byte, NEW last \in BOOLEAN, verdict = "reading",
           HeaderLineFeed(c, last)
    PROVE  ParserInv'
<1>1. CASE Rejects(c)
  BY <1>1, RejectsSound
<1>2. ASSUME Takes(c, last), state \in HeaderStates,
             state' \in {"part_data_start", "header_field_start"},
             UNCHANGED <<index, mark, lookbehind, part, tables, origin>>
      PROVE  ParserInv'
  <2>1. UNCHANGED <<headerName, fieldName, fileName, fileType, content, given>>
    BY <1>2 DEF part
  <2>2. NamesGiven' /\ NothingYet'
    BY <1>2, <2>1 DEF ParserInv, NamesGiven, NothingYet, InData, HeaderStates,
       Gives, HasType
  <2>3. UNCHANGED <<lookbehind, tables, origin>>
    BY <1>2
  <2>4. /\ text' \in Seq(Byte) /\ verdict' \in {"reading", "accepted"}
        /\ lookbehind' \in Seq(Byte) /\ origin' \in Nat /\ parts' \in Seq(Part)
        /\ DataInv' /\ PartsInv' /\ TablesExact'
    BY <1>2, <2>3, TakesOutside
  <2>5. Types'
    BY <1>2, <2>1, <2>4 DEF ParserInv, Types, HeaderStates
  <2> QED
    BY <2>2, <2>4, <2>5 DEF ParserInv
<1> QED
  BY <1>1, <1>2 DEF HeaderLineFeed, HeaderStates

\* One more header line gives what it gives, and the lines before it still do.
LEMMA GivesOneMore ==
    ASSUME NEW g \in Seq(Header), NEW r \in Header, NEW name, NEW values
    PROVE  /\ Gives(Append(g, r), name, values)
                <=> Gives(g, name, values) \/ (r.name = name /\ r.value \in values)
           /\ HasType(Append(g, r)) <=> HasType(g) \/ r.name = <<"t">>
<1> DEFINE h == Append(g, r)
<1>1. /\ h \in Seq(Header) /\ Len(h) = Len(g) + 1 /\ Len(g) \in Nat
      /\ DOMAIN h = 1..(Len(g) + 1) /\ DOMAIN g = 1..Len(g)
      /\ h[Len(g) + 1] = r /\ \A j \in 1..Len(g) : h[j] = g[j]
  BY AppendProperties, LenProperties
<1> HIDE DEF h
<1>2. \A j \in DOMAIN h : j = Len(g) + 1 \/ j \in DOMAIN g
  BY <1>1
<1>3. (Len(g) + 1) \in DOMAIN h /\ \A j \in DOMAIN g : j \in DOMAIN h /\ h[j] = g[j]
  BY <1>1
<1>4. Gives(h, name, values)
        <=> Gives(g, name, values) \/ (r.name = name /\ r.value \in values)
  BY <1>1, <1>2, <1>3 DEF Gives
<1>5. HasType(h) <=> HasType(g) \/ r.name = <<"t">>
  BY <1>1, <1>2, <1>3 DEF HasType
<1> QED
  BY <1>4, <1>5 DEF h

LEMMA GiveValueSound ==
    ASSUME ParserInv, state \in HeaderStates, state' \in HeaderStates,
           NEW value \in Seq(Byte), GiveValue(value)
    PROVE  /\ NamesGiven'
           /\ fieldName' \in {"f", Null} /\ fileName' \in {"g", Null}
           /\ fileType' \in Seq(Byte) \cup {Null} /\ given' \in Seq(Header)
           /\ headerName' = Null
<1> DEFINE r == [name |-> headerName, value |-> value]
<1>1. r \in Header /\ given \in Seq(Header) /\ given' = Append(given, r)
      /\ r.name = headerName /\ r.value = value
  BY DEF ParserInv, Types, Header, GiveValue
<1>2. given' \in Seq(Header)
  BY <1>1, AppendProperties
<1> HIDE DEF r
<1>3. /\ fieldName # Null <=> Gives(given, <<"n">>, {<<"f">>, <<"g">>})
      /\ fileName # Null <=> Gives(given, <<"n">>, {<<"g">>})
      /\ fileType # Null <=> HasType(given)
      /\ fieldName \in {"f", Null} /\ fileName \in {"g", Null}
      /\ fileType \in Seq(Byte) \cup {Null}
  BY DEF ParserInv, NamesGiven, Types
<1>4. /\ Gives(given', <<"n">>, {<<"f">>, <<"g">>})
            <=> Gives(given, <<"n">>, {<<"f">>, <<"g">>})
                \/ (headerName = <<"n">> /\ value \in {<<"f">>, <<"g">>})
      /\ Gives(given', <<"n">>, {<<"g">>})
            <=> Gives(given, <<"n">>, {<<"g">>})
                \/ (headerName = <<"n">> /\ value \in {<<"g">>})
      /\ HasType(given') <=> HasType(given) \/ headerName = <<"t">>
  BY <1>1, GivesOneMore
<1>n. Null # "f" /\ Null # "g" /\ value # Null
  BY BodyAssumption
<1>5. /\ fieldName' \in {"f", Null}
      /\ fieldName' # Null <=> fieldName # Null
            \/ (headerName = <<"n">> /\ value \in {<<"f">>, <<"g">>})
  BY <1>3, <1>n DEF GiveValue, Or, Name
<1>6. /\ fileName' \in {"g", Null}
      /\ fileName' # Null <=> fileName # Null
            \/ (headerName = <<"n">> /\ value \in {<<"g">>})
  BY <1>3, <1>n DEF GiveValue, Or, FileName
<1>7. /\ fileType' \in Seq(Byte) \cup {Null}
      /\ fileType' # Null <=> fileType # Null \/ headerName = <<"t">>
  BY <1>3, <1>n DEF GiveValue
<1>8. NamesGiven'
  <2>1. /\ fieldName' # Null <=> Gives(given', <<"n">>, {<<"f">>, <<"g">>})
        /\ fileName' # Null <=> Gives(given', <<"n">>, {<<"g">>})
        /\ fileType' # Null <=> HasType(given')
    BY <1>3, <1>4, <1>5, <1>6, <1>7
  <2> QED
    BY <2>1 DEF NamesGiven, Gives, HasType
<1> QED
  BY <1>2, <1>5, <1>6, <1>7, <1>8 DEF GiveValue

LEMMA HeaderValueSound ==
    ASSUME ParserInv, NEW c \in Byte, NEW last \in BOOLEAN, verdict = "reading",
           HeaderValue(c, last)
    PROVE  ParserInv'
<1> DEFINE from == IF state = "header_value_start" THEN At ELSE mark
<1>0. text \in Seq(Byte) /\ Len(text) \in Nat /\ from \in Nat \ {0}
  BY LenProperties DEF ParserInv, Types, At
<1>1. CASE Rejects(c)
  BY <1>1, RejectsSound
<1>2. ASSUME Takes(c, last), mark' \in {from, mark}, state \in HeaderStates,
             state' \in HeaderStates,
             UNCHANGED <<index, lookbehind, part, tables, origin>>
      PROVE  ParserInv'
  <2> HIDE DEF from
  <2>1. UNCHANGED <<headerName, fieldName, fileName, fileType, content, given>>
    BY <1>2 DEF part
  <2>2. NamesGiven' /\ NothingYet'
    BY <1>2, <2>1 DEF ParserInv, NamesGiven, NothingYet, InData, Gives, HasType
  <2>3. UNCHANGED <<lookbehind, tables, origin>>
    BY <1>2
  <2>4. /\ text' \in Seq(Byte) /\ verdict' \in {"reading", "accepted"}
        /\ lookbehind' \in Seq(Byte) /\ origin' \in Nat /\ parts' \in Seq(Part)
        /\ DataInv' /\ PartsInv' /\ TablesExact'
    BY <1>2, <2>3, TakesOutside DEF HeaderStates
  <2>5. Types'
    BY <1>0, <1>2, <2>1, <2>4 DEF ParserInv, Types
  <2> QED
    BY <2>2, <2>4, <2>5 DEF ParserInv
<1>3. ASSUME Takes(c, last), GiveValue(SubSeq(text, from, Len(text))),
             state \in HeaderStates, state' = "header_value_almost_done", mark' = from,
             UNCHANGED <<index, lookbehind, content, tables, origin>>
      PROVE  ParserInv'
  <2> HIDE DEF from
  <2>1. SubSeq(text, from, Len(text)) \in Seq(Byte)
    BY <1>0, SubSeqType
  <2>2. state' \in HeaderStates
    BY <1>3 DEF HeaderStates
  <2>3. /\ NamesGiven'
        /\ fieldName' \in {"f", Null} /\ fileName' \in {"g", Null}
        /\ fileType' \in Seq(Byte) \cup {Null} /\ given' \in Seq(Header)
        /\ headerName' = Null
    BY <1>3, <2>1, <2>2, GiveValueSound
  <2>4. NothingYet'
    BY <1>3 DEF ParserInv, NothingYet
  <2>5. UNCHANGED <<lookbehind, tables, origin>>
    BY <1>3
  <2>6. /\ text' \in Seq(Byte) /\ verdict' \in {"reading", "accepted"}
        /\ lookbehind' \in Seq(Byte) /\ origin' \in Nat /\ parts' \in Seq(Part)
        /\ DataInv' /\ PartsInv' /\ TablesExact'
    BY <1>3, <2>5, TakesOutside
  <2>7. Types'
    BY <1>0, <1>3, <2>2, <2>3, <2>6 DEF ParserInv, Types
  <2> QED
    BY <2>3, <2>4, <2>6, <2>7 DEF ParserInv
<1>4. ASSUME Takes(c, last), state = "header_value_start",
             UNCHANGED <<parser, part, tables, origin>>
      PROVE  ParserInv'
  <2>1. /\ state \in HeaderStates /\ state' \in HeaderStates
        /\ UNCHANGED <<index, mark, lookbehind, part, tables, origin>>
    BY <1>4 DEF HeaderStates, parser
  <2> QED
    BY <1>2, <1>4, <2>1
<1> QED
  <2>1. state \in HeaderStates
    BY DEF HeaderValue, HeaderStates
  <2>2. ASSUME Takes(c, last), state' = "header_value", mark' = from,
               UNCHANGED <<index, lookbehind, part, tables, origin>>
        PROVE  ParserInv'
    BY <1>2, <2>1, <2>2 DEF HeaderStates
  <2>3. \/ Takes(c, last) /\ state = "header_value_start"
           /\ UNCHANGED <<parser, part, tables, origin>>
        \/ /\ Takes(c, last) /\ GiveValue(SubSeq(text, from, Len(text)))
           /\ state' = "header_value_almost_done" /\ mark' = from
           /\ UNCHANGED <<index, lookbehind, content, tables, origin>>
        \/ Rejects(c)
        \/ /\ Takes(c, last) /\ state' = "header_value" /\ mark' = from
           /\ UNCHANGED <<index, lookbehind, part, tables, origin>>
    BY DEF HeaderValue
  <2> HIDE DEF from
  <2> QED
    BY <1>1, <1>3, <1>4, <2>1, <2>2, <2>3

LEMMA AfterBoundarySound ==
    ASSUME ParserInv, NEW c \in Byte, NEW last \in BOOLEAN, verdict = "reading",
           AfterBoundary(c, last)
    PROVE  ParserInv'
<1>1. CASE Rejects(c)
  BY <1>1, RejectsSound
<1>2. ASSUME ~Rejects(c)
      PROVE  ParserInv'
  <2>1. /\ Takes(c, last) /\ AfterData
        /\ UNCHANGED <<index, mark, lookbehind, headerName, fieldName, fileName,
                       fileType, tables, origin>>
        /\ \/ state' = "header_field_start" /\ content' = <<>> /\ given' = <<>>
           \/ /\ state' \in {"part_data_final_hyphen", "part_data_end", "end"}
              /\ UNCHANGED <<content, given>>
    <3>1. /\ Takes(c, last) /\ AfterData
          /\ UNCHANGED <<index, mark, lookbehind, headerName, fieldName, fileName,
                         fileType, tables, origin>>
      BY <1>2 DEF AfterBoundary
    <3>2. CASE state = "part_data_end"
      BY <1>2, <3>2 DEF AfterBoundary, BeginPart
    <3>3. CASE state \in {"part_data_almost_end", "part_data_final_hyphen", "end"}
      BY <1>2, <3>3 DEF AfterBoundary
    <3> QED
      BY <3>1, <3>2, <3>3 DEF AfterData
  <2>2. NamesGiven' /\ NothingYet'
    BY <2>1 DEF ParserInv, NamesGiven, NothingYet, InData, AfterData, HeaderStates,
       Gives, HasType
  <2>3. UNCHANGED <<lookbehind, tables, origin>>
    BY <2>1
  <2>4. /\ text' \in Seq(Byte) /\ verdict' \in {"reading", "accepted"}
        /\ lookbehind' \in Seq(Byte) /\ origin' \in Nat /\ parts' \in Seq(Part)
        /\ DataInv' /\ PartsInv' /\ TablesExact'
    BY <2>1, <2>3, TakesOutside
  <2>5. Types'
    <3>0. /\ content \in Seq(Byte) \cup {Null} /\ given \in Seq(Header)
          /\ <<>> \in Seq(Byte) /\ <<>> \in Seq(Header)
      BY EmptySeq DEF ParserInv, Types
    <3>1. content' \in Seq(Byte) \cup {Null} /\ given' \in Seq(Header)
      <4>1. \/ content' = <<>> /\ given' = <<>>
            \/ content' = content /\ given' = given
        BY <2>1
      <4> QED
        BY <3>0, <4>1
    <3>2. UNCHANGED <<index, mark, headerName, fieldName, fileName, fileType>>
      BY <2>1
    <3>3. state' \in {"header_field_start", "part_data_final_hyphen",
                      "part_data_end", "end"}
      BY <2>1
    <3> QED
      BY <2>4, <3>1, <3>2, <3>3 DEF ParserInv, Types, HeaderStates
  <2> QED
    BY <2>2, <2>4, <2>5 DEF ParserInv
<1> QED
  BY <1>1, <1>2

-----------------------------------------------------------------------------
(* The data of a part.                                                     *)

\* A byte of the data that does not go on with a delimiter.  What is in the
\* content ends before the position from.
LEMMA DataByteSound ==
    ASSUME ParserInv, NEW c \in Byte, NEW last \in BOOLEAN, verdict = "reading",
           InData, NEW o \in Nat \ {0}, NEW from \in Nat, NEW h,
           o <= from, from <= Len(text) + 1,
           DataByte(c, last, SubSeq(text, o, from - 1), from), origin' = o,
           Tracks(text, o, h), ~(h > 0 /\ c = Delimiter[h + 1])
    PROVE  ParserInv'
<1> DEFINE before == SubSeq(text, o, from - 1)
           n == Len(text)
<1>1. /\ text \in Seq(Byte) /\ n \in Nat /\ text' = Append(text, c)
      /\ text' \in Seq(Byte) /\ Len(text') = n + 1 /\ At = n + 1
      /\ verdict' \in {"reading", "accepted"}
  BY AppendProperties, LenProperties DEF ParserInv, Types, DataByte, Takes, At
<1>2. /\ content' = IF c = CR THEN before \o SubSeq(text, from, n)
                    ELSE IF last THEN before \o SubSeq(Append(text, c), from, At)
                    ELSE before
      /\ mark' = IF c = CR THEN At ELSE from
      /\ state' = IF c = CR THEN "part_data_almost_boundary" ELSE "part_data"
      /\ lookbehind' = IF c = CR THEN <<CR>> ELSE lookbehind
      /\ UNCHANGED <<index, headerName, fieldName, fileName, fileType, given>>
  BY DEF DataByte
<1>3. UNCHANGED <<form, files, parts>>
  BY DEF DataByte, tables
<1>4. PartsInv' /\ TablesExact'
  BY <1>1, <1>3, PartsStay DEF ParserInv
<1>5. NamesGiven' /\ NothingYet'
  BY <1>2 DEF ParserInv, NamesGiven, NothingYet, InData, HeaderStates, Gives, HasType
<1>6. /\ before \in Seq(Byte) /\ SubSeq(text, from, n) \in Seq(Byte)
      /\ SubSeq(text', from, At) \in Seq(Byte)
  BY <1>1, SubSeqType
<1>7. before \o SubSeq(text, from, n) = SubSeq(text, o, n)
  <2>1. o \in 1..(n + 1) /\ from - 1 \in (o - 1)..n /\ n \in (from - 1)..n
        /\ (from - 1) + 1 = from
    BY <1>1
  <2>2. SubSeq(text, o, from - 1) \o SubSeq(text, (from - 1) + 1, n) = SubSeq(text, o, n)
    BY <1>1, <2>1, ConcatAdjacentSubSeq
  <2> QED
    BY <2>1, <2>2
<1>8. Types'
  <2>1. content' \in Seq(Byte)
    <3>1. SubSeq(text, o, n) \in Seq(Byte)
      BY <1>1, SubSeqType
    <3>2. before \o SubSeq(text', from, At) \in Seq(Byte)
      BY <1>6, ConcatProperties
    <3> QED
      BY <1>1, <1>2, <1>6, <1>7, <3>1, <3>2
  <2>2. mark' \in Nat \ {0} /\ <<CR>> \in Seq(Byte)
    BY <1>1, <1>2, DelimiterFacts
  <2>3. lookbehind' \in Seq(Byte)
    BY <1>2, <2>2 DEF ParserInv, Types
  <2>4. state' \in {"part_data_almost_boundary", "part_data"}
    BY <1>2
  <2> HIDE DEF before, n
  <2> QED
    BY <1>1, <1>2, <1>3, <2>1, <2>2, <2>3, <2>4 DEF ParserInv, Types
<1>9. (c = CR => Tracks(text', o, 1)) /\ (c # CR => Tracks(text', o, 0))
  BY <1>1, OneMoreByte
<1>10. ASSUME verdict' = "reading"
       PROVE  DataInv'
  <2>0. ~last
    BY <1>10 DEF DataByte, Takes
  <2>1. CASE c = CR
    <3>1. state' = "part_data_almost_boundary" /\ content' = SubSeq(text, o, n)
      BY <1>2, <1>7, <2>1
    <3>2. Held' = 1 /\ Unsaved' = Len(text')
      BY <1>1, <3>1 DEF Held, Begun, Unsaved
    <3>3. SubSeq(text', o, Len(text') - 1) = SubSeq(text, o, n)
      <4>1. Len(text') - 1 = n
        BY <1>1
      <4> QED
        BY <1>1, <4>1, SubSeqAppend
    <3>4. 1 <= o /\ o <= Unsaved' /\ Unsaved' <= Len(text')
      BY <1>1, <3>2
    <3>5. content' = SubSeq(text', o, Unsaved' - 1) /\ state' # "part_data_boundary"
      BY <3>1, <3>2, <3>3
    <3> QED
      BY <1>9, <2>1, <3>2, <3>4, <3>5 DEF DataInv, Between
  <2>2. CASE c # CR
    <3>1. state' = "part_data" /\ content' = before /\ mark' = from
      BY <1>2, <2>0, <2>2
    <3>2. Held' = 0 /\ Unsaved' = from
      BY <1>1, <3>1 DEF Held, Begun, Unsaved
    <3>3. SubSeq(text', o, from - 1) = before
      BY <1>1, SubSeqAppend
    <3>4. 1 <= o /\ o <= Unsaved' /\ Unsaved' <= Len(text')
      BY <1>1, <3>2
    <3>5. content' = SubSeq(text', o, Unsaved' - 1) /\ state' # "part_data_boundary"
      BY <3>1, <3>2, <3>3
    <3> QED
      BY <1>9, <2>2, <3>2, <3>4, <3>5 DEF DataInv, Between
  <2> QED
    BY <2>1, <2>2
<1> QED
  BY <1>4, <1>5, <1>8, <1>10 DEF ParserInv, DataInv

\* What is known in the data, in the words of the lemmas about texts.
LEMMA DataFacts ==
    ASSUME ParserInv, verdict = "reading", InData, state # "part_data_start"
    PROVE  /\ text \in Seq(Byte) /\ Len(text) \in Nat /\ index \in Nat
           /\ origin \in Nat \ {0} /\ Held \in Nat
           /\ Unsaved \in Nat /\ origin <= Unsaved /\ Unsaved <= Len(text)
           /\ state # "part_data" => Unsaved = Len(text) - Held + 1
           /\ content = SubSeq(text, origin, Unsaved - 1)
           /\ state = "part_data_boundary" =>
                /\ lookbehind = SubSeq(text, Unsaved, Len(text))
                /\ Held = index + 2
           /\ state = "part_data_almost_boundary" => Held = 1
           /\ state = "part_data" => Held = 0
           /\ Tracks(text, origin, Held)
<1>1. /\ text \in Seq(Byte) /\ Len(text) \in Nat /\ index \in Nat /\ origin \in Nat
      /\ mark \in Nat
  BY LenProperties DEF ParserInv, Types
<1>2. /\ state = "part_data_boundary" => Held = index + 2
      /\ state = "part_data_almost_boundary" => Held = 1
      /\ state = "part_data" => Held = 0
  BY DEF Held
<1>3. state \in {"part_data", "part_data_almost_boundary", "part_data_boundary"}
  BY DEF InData
<1>4. /\ 1 <= origin /\ origin <= Unsaved /\ Unsaved <= Len(text)
      /\ content = Between(origin, Unsaved - 1)
      /\ state = "part_data_boundary" => lookbehind = Between(Begun, Len(text))
      /\ Tracks(text, origin, Held)
  BY DEF ParserInv, DataInv
<1>5. Held \in Nat
  BY <1>1, <1>2, <1>3
<1>6. /\ state # "part_data" => Unsaved = Len(text) - Held + 1
      /\ state = "part_data" => Unsaved = mark
      /\ Begun = Len(text) - Held + 1
  BY DEF Unsaved, Begun
<1>7. Unsaved \in Nat /\ origin \in Nat \ {0}
  BY <1>1, <1>4, <1>5, <1>6
<1> QED
  BY <1>1, <1>2, <1>4, <1>5, <1>6, <1>7 DEF Between

LEMMA DataSound ==
    ASSUME ParserInv, NEW c \in Byte, NEW last \in BOOLEAN, verdict = "reading",
           Data(c, last)
    PROVE  ParserInv'
<1>1. CASE state = "part_data_start"
  <2>1. /\ text \in Seq(Byte) /\ Len(text) \in Nat /\ At = Len(text) + 1
        /\ At \in Nat \ {0} /\ 0 < L /\ L \in Nat
    BY LenProperties, DelimiterFacts DEF ParserInv, Types, At
  <2>2. content = SubSeq(text, At, At - 1)
    <3>1. SubSeq(text, At, At - 1) = <<>>
      BY <2>1, SubSeqEmpty
    <3> QED
      BY <1>1, <3>1 DEF ParserInv, NothingYet
  <2>3. DataByte(c, last, SubSeq(text, At, At - 1), At) /\ origin' = At
    BY <1>1, <2>2 DEF Data
  <2>4. Tracks(text, At, 0)
    <3>1. At..Len(text) = {} /\ At..(Len(text) - L + 1) = {}
      BY <2>1, DelimiterFacts
    <3>2. ~DelimiterIn(text, At, Len(text))
      BY <3>1 DEF DelimiterIn
    <3>3. At <= Len(text) - 0 + 1
      BY <2>1
    <3> QED
      BY <2>1, <3>1, <3>2, <3>3 DEF Tracks
  <2>5. InData
    BY <1>1 DEF InData
  <2>6. At <= At /\ At <= Len(text) + 1 /\ ~(0 > 0)
    BY <2>1
  <2> QED
    BY <2>1, <2>3, <2>4, <2>5, <2>6, DataByteSound
<1>2. CASE state = "part_data"
  <2>1. InData
    BY <1>2 DEF InData
  <2>2. /\ text \in Seq(Byte) /\ Len(text) \in Nat /\ origin \in Nat \ {0}
        /\ Unsaved \in Nat /\ origin <= Unsaved /\ Unsaved <= Len(text)
        /\ content = SubSeq(text, origin, Unsaved - 1)
        /\ Held = 0 /\ Tracks(text, origin, Held)
    BY <1>2, <2>1, DataFacts
  <2>3. DataByte(c, last, SubSeq(text, origin, Unsaved - 1), Unsaved) /\ origin' = origin
    BY <1>2, <2>2 DEF Data, Unsaved
  <2>4. Unsaved <= Len(text) + 1 /\ ~(Held > 0)
    BY <2>2
  <2> QED
    BY <2>1, <2>2, <2>3, <2>4, DataByteSound
<1> QED
  BY <1>1, <1>2 DEF Data

\* The content and the bytes that are not in it are the bytes since the part began.
LEMMA ContentAndRest ==
    ASSUME text \in Seq(Byte), Len(text) \in Nat, origin \in Nat \ {0},
           Unsaved \in Nat, origin <= Unsaved, Unsaved <= Len(text),
           content = SubSeq(text, origin, Unsaved - 1)
    PROVE  content \o SubSeq(text, Unsaved, Len(text)) = SubSeq(text, origin, Len(text))
<1>1. /\ origin \in 1..(Len(text) + 1) /\ Unsaved - 1 \in (origin - 1)..Len(text)
      /\ Len(text) \in (Unsaved - 1)..Len(text) /\ (Unsaved - 1) + 1 = Unsaved
  OBVIOUS
<1>2. SubSeq(text, origin, Unsaved - 1) \o SubSeq(text, (Unsaved - 1) + 1, Len(text))
          = SubSeq(text, origin, Len(text))
  BY <1>1, ConcatAdjacentSubSeq
<1> QED
  BY <1>1, <1>2

\* A byte of the data behind what looked like a delimiter, which is given back
\* to the content.
LEMMA GivenBack ==
    ASSUME ParserInv, NEW c \in Byte, NEW last \in BOOLEAN, verdict = "reading",
           state \in {"part_data_almost_boundary", "part_data_boundary"},
           DataByte(c, last, content \o SubSeq(text, Unsaved, Len(text)), At),
           UNCHANGED origin, c # Delimiter[Held + 1]
    PROVE  ParserInv'
<1>1. InData
  BY DEF InData
<1>2. /\ text \in Seq(Byte) /\ Len(text) \in Nat /\ origin \in Nat \ {0}
      /\ Unsaved \in Nat /\ origin <= Unsaved /\ Unsaved <= Len(text)
      /\ content = SubSeq(text, origin, Unsaved - 1)
      /\ Tracks(text, origin, Held)
  BY <1>1, DataFacts
<1>3. content \o SubSeq(text, Unsaved, Len(text)) = SubSeq(text, origin, Len(text))
  BY <1>2, ContentAndRest
<1>4. /\ At \in Nat /\ At - 1 = Len(text) /\ origin <= At /\ At <= Len(text) + 1
  BY <1>2 DEF At
<1>5. DataByte(c, last, SubSeq(text, origin, At - 1), At) /\ origin' = origin
  BY <1>3, <1>4
<1> QED
  BY <1>1, <1>2, <1>4, <1>5, DataByteSound

\* A byte with which what may be a delimiter goes on.
LEMMA GoesOn ==
    ASSUME ParserInv, NEW c \in Byte, NEW last \in BOOLEAN, verdict = "reading",
           state \in {"part_data_almost_boundary", "part_data_boundary"},
           state' = "part_data_boundary", Takes(c, last),
           index' \in Nat, index' + 1 = Held, Held + 1 < L,
           c = Delimiter[Held + 1],
           lookbehind' = Append(SubSeq(text, Unsaved, Len(text)), c),
           UNCHANGED <<mark, part, tables, origin>>
    PROVE  ParserInv'
<1>1. InData
  BY DEF InData
<1>2. /\ text \in Seq(Byte) /\ Len(text) \in Nat
      /\ origin \in Nat \ {0} /\ Held \in Nat
      /\ Unsaved \in Nat /\ origin <= Unsaved /\ Unsaved <= Len(text)
      /\ Unsaved = Len(text) - Held + 1
      /\ content = SubSeq(text, origin, Unsaved - 1)
      /\ Tracks(text, origin, Held)
      /\ Held > 0
  <2>1. Held > 0
    BY DEF Held, ParserInv, Types
  <2> QED
    BY <1>1, <2>1, DataFacts
<1>3. /\ text' = Append(text, c) /\ text' \in Seq(Byte) /\ Len(text') = Len(text) + 1
      /\ verdict' \in {"reading", "accepted"}
  BY <1>2, AppendProperties DEF Takes
<1>4. /\ UNCHANGED <<headerName, fieldName, fileName, fileType, content, given>>
      /\ UNCHANGED <<form, files, parts>>
  BY DEF part, tables
<1>5. PartsInv' /\ TablesExact'
  BY <1>3, <1>4, PartsStay DEF ParserInv
<1>6. NamesGiven' /\ NothingYet'
  BY <1>4 DEF ParserInv, NamesGiven, NothingYet, InData, HeaderStates, Gives, HasType
<1>7. lookbehind' = SubSeq(text', Unsaved, Len(text'))
  <2>1. Unsaved \in 1..(Len(text) + 1) /\ text \in Seq(Byte)
    BY <1>2
  <2>2. SubSeq(Append(text, c), Unsaved, Len(text) + 1)
            = Append(SubSeq(text, Unsaved, Len(text)), c)
    BY <2>1, SubSeqExtend
  <2> QED
    BY <1>3, <2>2
<1>8. SubSeq(text', Unsaved, Len(text')) \in Seq(Byte)
  <2>1. Unsaved \in Nat \ {0}
    BY <1>2
  <2> QED
    BY <1>3, <2>1, SubSeqType
<1>9. Types'
  BY <1>3, <1>4, <1>7, <1>8 DEF ParserInv, Types
<1>10. Held' = Held + 1 /\ Begun' = Unsaved /\ Unsaved' = Unsaved
  <2>1. Held' = index' + 2
    BY DEF Held
  <2>2. Held' = Held + 1
    BY <2>1
  <2>3. Begun' = Len(text') - Held' + 1 /\ Unsaved' = Begun'
    BY DEF Begun, Unsaved
  <2>4. Len(text') - (Held + 1) + 1 = Len(text) - Held + 1
    BY <1>2, <1>3
  <2> QED
    BY <1>2, <2>2, <2>3, <2>4
<1>11. Tracks(text', origin, Held + 1)
  <2>1. Held > 0 /\ Held + 1 < L
    BY <1>2
  <2> QED
    BY <1>2, <1>3, <2>1, OneMoreByte
<1>12. content = SubSeq(text', origin, Unsaved - 1)
  BY <1>2, <1>3, SubSeqAppend
<1>13. 1 <= origin /\ origin <= Unsaved' /\ Unsaved' <= Len(text')
  BY <1>2, <1>3, <1>10
<1>14. DataInv'
  BY <1>4, <1>7, <1>10, <1>11, <1>12, <1>13 DEF DataInv, Between
<1> QED
  BY <1>5, <1>6, <1>9, <1>14 DEF ParserInv

\* What is looked behind after a carriage return is that carriage return.
LEMMA HeldReturn ==
    ASSUME ParserInv, verdict = "reading", state = "part_data_almost_boundary"
    PROVE  SubSeq(text, Unsaved, Len(text)) = <<CR>>
<1>a. InData
  BY DEF InData
<1>0. /\ text \in Seq(Byte) /\ Len(text) \in Nat /\ Held = 1
      /\ Unsaved = Len(text) - Held + 1 /\ origin \in Nat \ {0} /\ origin <= Unsaved
      /\ Held > 0 => Agrees(text, Len(text) - Held + 1)
  BY <1>a, DataFacts DEF Tracks
<1>1. Unsaved = Len(text) /\ Len(text) \in 1..Len(text)
  BY <1>0
<1>2. Agrees(text, Len(text))
  BY <1>0
<1>3. text[Len(text)] = Delimiter[Len(text) - Len(text) + 1]
  BY <1>1, <1>2 DEF Agrees
<1>4. text[Len(text)] = CR
  BY <1>0, <1>3, DelimiterFacts
<1> DEFINE s == SubSeq(text, Len(text), Len(text))
<1>5. s \in Seq(Byte) /\ Len(s) = 1 /\ s[1] = CR
  <2>1. \A k \in Len(text)..Len(text) : text[k] \in Byte
    BY <1>0, <1>1, ElementOfSeq
  <2>2. /\ s \in Seq(Byte)
        /\ Len(s) = IF Len(text) <= Len(text) THEN Len(text) - Len(text) + 1 ELSE 0
        /\ \A i \in 1..(Len(text) - Len(text) + 1) : s[i] = text[Len(text) + i - 1]
    BY <1>0, <2>1, SubSeqProperties
  <2> HIDE DEF s
  <2>3. Len(s) = 1 /\ s[1] = text[Len(text) + 1 - 1]
    BY <1>0, <2>2
  <2> QED
    BY <1>0, <1>4, <2>2, <2>3
<1> HIDE DEF s
<1>6. <<CR>> \in Seq(Byte) /\ Len(<<CR>>) = 1 /\ <<CR>>[1] = CR
  BY DelimiterFacts
<1>7. s = <<CR>>
  BY <1>5, <1>6, SeqEqual
<1> QED
  BY <1>1, <1>7 DEF s

LEMMA AlmostBoundarySound ==
    ASSUME ParserInv, NEW c \in Byte, NEW last \in BOOLEAN, verdict = "reading",
           AlmostBoundary(c, last)
    PROVE  ParserInv'
<1>1. /\ state = "part_data_almost_boundary" /\ InData
      /\ state \in {"part_data_almost_boundary", "part_data_boundary"}
  BY DEF AlmostBoundary, InData
<1>2. /\ text \in Seq(Byte) /\ Len(text) \in Nat /\ Held = 1
      /\ Unsaved = Len(text) - Held + 1 /\ origin \in Nat \ {0} /\ origin <= Unsaved
      /\ Held > 0 => Agrees(text, Len(text) - Held + 1)
  BY <1>1, DataFacts DEF Tracks
<1>3. SubSeq(text, Unsaved, Len(text)) = <<CR>>
  BY <1>1, HeldReturn
<1>d. L \in Nat /\ L > 2 /\ Delimiter[2] = LF
  BY DelimiterFacts
<1>4. CASE c = LF
  <2>1. /\ Takes(c, last) /\ state' = "part_data_boundary"
        /\ lookbehind' = <<CR, LF>> /\ index' = 0
        /\ UNCHANGED <<mark, part, tables, origin>>
    BY <1>4 DEF AlmostBoundary
  <2>2. lookbehind' = Append(SubSeq(text, Unsaved, Len(text)), c)
    BY <1>3, <1>4, <2>1
  <2>3. /\ index' \in Nat /\ index' + 1 = Held /\ Held + 1 < L
        /\ c = Delimiter[Held + 1]
    BY <1>2, <1>4, <1>d, <2>1
  <2> QED
    BY <1>1, <2>1, <2>2, <2>3, GoesOn
<1>5. CASE c # LF
  <2>1. DataByte(c, last, content \o <<CR>>, At) /\ UNCHANGED origin
    BY <1>5 DEF AlmostBoundary
  <2>2. DataByte(c, last, content \o SubSeq(text, Unsaved, Len(text)), At)
    BY <1>3, <2>1
  <2>3. c # Delimiter[Held + 1]
    BY <1>2, <1>5, <1>d
  <2> QED
    BY <1>1, <2>1, <2>2, <2>3, GivenBack
<1> QED
  BY <1>4, <1>5

\* The last byte of a delimiter: the part is read, and filed.
LEMMA PartEnds ==
    ASSUME ParserInv, NEW c \in Byte, NEW last \in BOOLEAN, verdict = "reading",
           state = "part_data_boundary", state' = "part_data_almost_end",
           Takes(c, last), EndPart, fieldName # Null,
           index' \in Nat, lookbehind' = Append(lookbehind, c),
           Held + 1 = L, c = Delimiter[Held + 1], UNCHANGED <<mark, origin>>
    PROVE  ParserInv'
<1> DEFINE isFile == fileName # Null /\ fileType # Null
           p == [from |-> origin, to |-> At, given |-> given,
                 field |-> fieldName, file |-> isFile]
           N == Len(parts)
<1>1. InData
  BY DEF InData
<1>2. /\ text \in Seq(Byte) /\ Len(text) \in Nat
      /\ origin \in Nat \ {0} /\ Held \in Nat /\ Held = index + 2 /\ index \in Nat
      /\ Unsaved \in Nat /\ origin <= Unsaved
      /\ Unsaved = Len(text) - Held + 1
      /\ content = SubSeq(text, origin, Unsaved - 1)
      /\ Tracks(text, origin, Held)
      /\ origin <= Len(text) - Held + 1 /\ ~DelimiterIn(text, origin, Len(text))
  BY <1>1, DataFacts DEF Tracks
<1>d. L \in Nat /\ L > 2 /\ L = Len(Delimiter)
  BY DelimiterFacts DEF L
<1>3. /\ text' = Append(text, c) /\ text' \in Seq(Byte) /\ Len(text') = Len(text) + 1
      /\ verdict' \in {"reading", "accepted"} /\ At = Len(text) + 1
  BY <1>2, AppendProperties DEF Takes, At
<1>4. /\ parts' = Append(parts, p)
      /\ fieldName' = Null /\ fileName' = Null /\ fileType' = Null /\ content' = Null
      /\ UNCHANGED <<headerName, given>>
  BY DEF EndPart
<1>5. /\ fieldName = "f" /\ given \in Seq(Header) /\ parts \in Seq(Part)
      /\ Gives(given, <<"n">>, {<<"f">>, <<"g">>})
      /\ isFile <=> Gives(given, <<"n">>, {<<"g">>}) /\ HasType(given)
      /\ Types /\ PartsInv /\ TablesExact
  BY <1>1 DEF ParserInv, Types, NamesGiven
<1>6. p \in Part /\ p.from = origin /\ p.to = At /\ p.given = given
      /\ p.field = fieldName /\ p.file = isFile
  BY <1>2, <1>3, <1>5 DEF Part
<1> HIDE DEF p, isFile
<1>7. /\ parts' \in Seq(Part) /\ N \in Nat /\ DOMAIN parts = 1..N
      /\ DOMAIN parts' = 1..(N + 1) /\ parts'[N + 1] = p
      /\ \A n \in DOMAIN parts : parts'[n] = parts[n]
      /\ \A n \in DOMAIN parts' : n \in DOMAIN parts \/ n = N + 1
      /\ \A n \in DOMAIN parts : n # N + 1 /\ n < N + 1 /\ n \in DOMAIN parts'
      /\ N + 1 \in DOMAIN parts'
  <2>1. /\ parts' \in Seq(Part) /\ Len(parts') = N + 1 /\ N \in Nat
        /\ \A n \in 1..N : parts'[n] = parts[n]
        /\ parts'[N + 1] = p
    BY <1>4, <1>5, <1>6, AppendProperties, LenProperties
  <2>2. DOMAIN parts = 1..N /\ DOMAIN parts' = 1..(N + 1)
    BY <1>5, <2>1, LenProperties
  <2> HIDE DEF N
  <2> QED
    BY <2>1, <2>2
<1>8. /\ SubSeq(text', At - L + 1, At) = Delimiter
      /\ ~DelimiterIn(text', origin, At - 1)
      /\ origin + L <= At + 1
      /\ content = SubSeq(text', origin, At - L)
  <2>1. SubSeq(text', At - L + 1, At) = Delimiter
    <3>1. Held > 0 /\ Held + 1 = L
      BY <1>2
    <3>2. SubSeq(text', Len(text') - L + 1, Len(text')) = Delimiter
      BY <1>2, <1>3, <3>1, OneMoreByte
    <3> QED
      BY <1>3, <3>2
  <2>a. text \in Seq(Byte) /\ text' = Append(text, c)
    BY <1>2, <1>3
  <2>2. ASSUME NEW i \in origin..(Len(text) - L + 1)
        PROVE  SubSeq(text', i, i + L - 1) = SubSeq(text, i, i + L - 1)
    <3>1. i \in Nat \ {0} /\ i + L - 1 \in Int /\ i + L - 1 <= Len(text)
      BY <1>2, <1>d
    <3> QED
      BY <2>a, <3>1, SubSeqAppend
  <2>3. ~DelimiterIn(text', origin, Len(text))
    BY <1>2, <2>2 DEF DelimiterIn
  <2>4. At - 1 = Len(text) /\ origin + L <= At + 1 /\ Unsaved - 1 = At - L
        /\ At - L <= Len(text) /\ At - L \in Int
    <3>1. /\ Len(text) \in Nat /\ At = Len(text) + 1 /\ origin \in Nat
          /\ Held \in Nat /\ Held + 1 = L /\ Unsaved = Len(text) - Held + 1
          /\ origin <= Len(text) - Held + 1
      BY <1>2, <1>3
    <3>2. \A m, o, h \in Nat : o <= m - h + 1 =>
            /\ (m + 1) - 1 = m /\ o + (h + 1) <= (m + 1) + 1
            /\ (m - h + 1) - 1 = (m + 1) - (h + 1)
            /\ (m + 1) - (h + 1) <= m /\ (m + 1) - (h + 1) \in Int
      OBVIOUS
    <3> HIDE DEF L
    <3> QED
      BY <3>1, <3>2
  <2>5. SubSeq(text', origin, At - L) = SubSeq(text, origin, At - L)
    <3>1. origin \in Nat \ {0} /\ At - L \in Int /\ At - L <= Len(text)
      BY <1>2, <2>4
    <3> HIDE DEF L
    <3> QED
      BY <2>a, <3>1, SubSeqAppend
  <2> QED
    BY <1>2, <2>1, <2>3, <2>4, <2>5
<1>9. ASSUME NEW n \in DOMAIN parts
      PROVE  LET q == parts[n] IN
             /\ q \in Part /\ q.from + L <= q.to + 1 /\ q.to <= Len(text')
             /\ SubSeq(text', q.to - L + 1, q.to) = Delimiter
             /\ ~DelimiterIn(text', q.from, q.to - 1)
             /\ SubSeq(text', q.from, q.to - L) = SubSeq(text, q.from, q.to - L)
             /\ Gives(q.given, <<"n">>, {<<"f">>, <<"g">>})
             /\ q.file <=> Gives(q.given, <<"n">>, {<<"g">>}) /\ HasType(q.given)
  BY <1>3, <1>5, PartStays
<1>10. PartsInv'
  <2> SUFFICES ASSUME NEW n \in DOMAIN parts'
               PROVE  LET q == parts'[n] IN
                      /\ q.from + L <= q.to + 1 /\ q.to <= Len(text')
                      /\ SubSeq(text', q.to - L + 1, q.to) = Delimiter
                      /\ ~DelimiterIn(text', q.from, q.to - 1)
                      /\ Gives(q.given, <<"n">>, {<<"f">>, <<"g">>})
                      /\ q.file <=> Gives(q.given, <<"n">>, {<<"g">>}) /\ HasType(q.given)
    BY DEF PartsInv, HasDelimiter, DelimiterIn, Between, L, Gives, HasType
  <2>1. CASE n \in DOMAIN parts
    BY <1>7, <1>9, <2>1
  <2>2. CASE n = N + 1
    <3>1. parts'[n] = p
      BY <1>7, <2>2
    <3>2. p.to <= Len(text')
      BY <1>2, <1>3, <1>6
    <3> QED
      BY <1>5, <1>6, <1>8, <3>1, <3>2
  <2> QED
    BY <1>7, <2>1, <2>2
<1> DEFINE Old(n, b) == {k \in DOMAIN parts : parts[k].field = n /\ parts[k].file = b}
           New(n, b) == {k \in DOMAIN parts' : parts'[k].field = n /\ parts'[k].file = b}
           IsLast(k, K) == k \in K /\ \A j \in K : j <= k
           Names(b)  == {parts[k].field : k \in {j \in DOMAIN parts : parts[j].file = b}}
           Names2(b) == {parts'[k].field : k \in {j \in DOMAIN parts' : parts'[j].file = b}}
<1>f. isFile \in BOOLEAN
  BY DEF isFile
<1>11. ASSUME NEW b \in BOOLEAN
       PROVE  Names2(b) = Names(b) \cup (IF b = isFile THEN {fieldName} ELSE {})
  <2>1. ASSUME NEW n \in Names2(b)
        PROVE  n \in Names(b) \cup (IF b = isFile THEN {fieldName} ELSE {})
    <3>1. PICK k \in DOMAIN parts' : parts'[k].file = b /\ n = parts'[k].field
      OBVIOUS
    <3> QED
      BY <1>6, <1>7, <3>1
  <2>2. ASSUME NEW n \in Names(b)
        PROVE  n \in Names2(b)
    <3>1. PICK k \in DOMAIN parts : parts[k].file = b /\ n = parts[k].field
      OBVIOUS
    <3> QED
      BY <1>7, <3>1
  <2>3. b = isFile => fieldName \in Names2(b)
    BY <1>6, <1>7
  <2> QED
    BY <2>1, <2>2, <2>3
<1>12. ASSUME NEW n, NEW b \in BOOLEAN, NEW k, IsLast(k, New(n, b))
       PROVE  \/ k = N + 1 /\ n = fieldName /\ b = isFile
              \/ /\ k \in DOMAIN parts /\ IsLast(k, Old(n, b))
                 /\ ~(n = fieldName /\ b = isFile)
  <2>1. CASE n = fieldName /\ b = isFile
    <3>1. N + 1 \in New(n, b)
      BY <1>6, <1>7, <2>1
    <3>2. k \in DOMAIN parts' /\ N + 1 <= k
      BY <1>12, <3>1
    <3> QED
      BY <1>7, <2>1, <3>2
  <2>2. CASE ~(n = fieldName /\ b = isFile)
    <3>1. k # N + 1 /\ k \in DOMAIN parts'
      BY <1>6, <1>7, <1>12, <2>2
    <3>2. k \in DOMAIN parts /\ k \in Old(n, b)
      BY <1>7, <1>12, <3>1
    <3>3. \A j \in Old(n, b) : j \in New(n, b)
      BY <1>7
    <3> QED
      BY <1>12, <2>2, <3>2, <3>3
  <2> QED
    BY <2>1, <2>2
<1>13. /\ DOMAIN form = Names(FALSE) /\ DOMAIN files = Names(TRUE)
       /\ \A n \in DOMAIN form : \A k : IsLast(k, Old(n, FALSE)) =>
            form[n] = SubSeq(text, parts[k].from, parts[k].to - L)
       /\ \A n \in DOMAIN files : \A k : IsLast(k, Old(n, TRUE)) =>
            files[n].content = SubSeq(text, parts[k].from, parts[k].to - L)
  <2>1. \A j \in DOMAIN parts : parts[j].file \in BOOLEAN
    BY <1>9 DEF Part
  <2>2. verdict # "rejected"
    OBVIOUS
  <2>3. /\ DOMAIN form = {parts[k].field : k \in {j \in DOMAIN parts : ~parts[j].file}}
        /\ DOMAIN files = {parts[k].field : k \in {j \in DOMAIN parts : parts[j].file}}
    BY <1>5, <2>2 DEF TablesExact
  <2>4. /\ {j \in DOMAIN parts : ~parts[j].file} = {j \in DOMAIN parts : parts[j].file = FALSE}
        /\ {j \in DOMAIN parts : parts[j].file} = {j \in DOMAIN parts : parts[j].file = TRUE}
    BY <2>1
  <2>5. /\ \A n \in DOMAIN form : \A k \in Old(n, FALSE) : IsLast(k, Old(n, FALSE)) =>
            form[n] = Bytes(parts[k])
        /\ \A n \in DOMAIN files : \A k \in Old(n, TRUE) : IsLast(k, Old(n, TRUE)) =>
            files[n].content = Bytes(parts[k])
    BY <1>5, <2>2 DEF TablesExact
  <2> QED
    BY <2>3, <2>4, <2>5 DEF Bytes, Between, L
<1>14. /\ \A k \in DOMAIN parts :
            SubSeq(text', parts'[k].from, parts'[k].to - L)
                = SubSeq(text, parts[k].from, parts[k].to - L)
       /\ SubSeq(text', parts'[N + 1].from, parts'[N + 1].to - L) = content
  BY <1>6, <1>7, <1>8, <1>9
<1> HIDE DEF Old, New, IsLast, Names, Names2
<1>15. /\ DOMAIN form' = Names2(FALSE) /\ DOMAIN files' = Names2(TRUE)
       /\ \A n \in DOMAIN form' : \A k : IsLast(k, New(n, FALSE)) =>
            form'[n] = SubSeq(text', parts'[k].from, parts'[k].to - L)
       /\ \A n \in DOMAIN files' : \A k : IsLast(k, New(n, TRUE)) =>
            files'[n].content = SubSeq(text', parts'[k].from, parts'[k].to - L)
  <2>1. CASE isFile
    <3>1. /\ form' = form
          /\ files' = [n \in DOMAIN files \cup {fieldName} |->
                IF n = fieldName
                THEN [name |-> fileName, type |-> fileType, content |-> content]
                ELSE files[n]]
      BY <2>1 DEF EndPart, isFile
    <3>2. /\ Names2(FALSE) = Names(FALSE)
          /\ Names2(TRUE) = Names(TRUE) \cup {fieldName}
      BY <1>11, <2>1
    <3>3. DOMAIN form' = Names2(FALSE) /\ DOMAIN files' = Names2(TRUE)
      BY <1>13, <3>1, <3>2
    <3>4. ASSUME NEW n \in DOMAIN form', NEW k, IsLast(k, New(n, FALSE))
          PROVE  form'[n] = SubSeq(text', parts'[k].from, parts'[k].to - L)
      <4>1. k \in DOMAIN parts /\ IsLast(k, Old(n, FALSE))
        BY <1>12, <2>1, <3>4
      <4> QED
        BY <1>13, <1>14, <3>1, <4>1
    <3>5. ASSUME NEW n \in DOMAIN files', NEW k, IsLast(k, New(n, TRUE))
          PROVE  files'[n].content = SubSeq(text', parts'[k].from, parts'[k].to - L)
      <4>1. CASE k = N + 1 /\ n = fieldName
        BY <1>14, <3>1, <4>1
      <4>2. CASE k \in DOMAIN parts /\ IsLast(k, Old(n, TRUE)) /\ n # fieldName
        <5>1. n \in DOMAIN files /\ files'[n] = files[n]
          BY <3>1, <4>2
        <5>2. files[n].content = SubSeq(text, parts[k].from, parts[k].to - L)
          BY <1>13, <4>2, <5>1
        <5> QED
          BY <1>14, <4>2, <5>1, <5>2
      <4>3. isFile = TRUE
        BY <1>f, <2>1
      <4> QED
        BY <1>12, <3>5, <4>1, <4>2, <4>3
    <3> QED
      BY <3>3, <3>4, <3>5
  <2>2. CASE ~isFile
    <3>1. /\ files' = files
          /\ form' = [n \in DOMAIN form \cup {fieldName} |->
                        IF n = fieldName THEN content ELSE form[n]]
      BY <2>2 DEF EndPart, isFile
    <3>2. /\ Names2(TRUE) = Names(TRUE)
          /\ Names2(FALSE) = Names(FALSE) \cup {fieldName}
      BY <1>11, <1>f, <2>2
    <3>3. DOMAIN form' = Names2(FALSE) /\ DOMAIN files' = Names2(TRUE)
      BY <1>13, <3>1, <3>2
    <3>4. ASSUME NEW n \in DOMAIN files', NEW k, IsLast(k, New(n, TRUE))
          PROVE  files'[n].content = SubSeq(text', parts'[k].from, parts'[k].to - L)
      <4>1. k \in DOMAIN parts /\ IsLast(k, Old(n, TRUE))
        BY <1>12, <2>2, <3>4
      <4> QED
        BY <1>13, <1>14, <3>1, <4>1
    <3>5. ASSUME NEW n \in DOMAIN form', NEW k, IsLast(k, New(n, FALSE))
          PROVE  form'[n] = SubSeq(text', parts'[k].from, parts'[k].to - L)
      <4>1. CASE k = N + 1 /\ n = fieldName
        BY <1>14, <3>1, <4>1
      <4>2. CASE k \in DOMAIN parts /\ IsLast(k, Old(n, FALSE)) /\ n # fieldName
        <5>1. n \in DOMAIN form /\ form'[n] = form[n]
          BY <3>1, <4>2
        <5>2. form[n] = SubSeq(text, parts[k].from, parts[k].to - L)
          BY <1>13, <4>2, <5>1
        <5> QED
          BY <1>14, <4>2, <5>1, <5>2
      <4>3. isFile = FALSE
        BY <1>f, <2>2
      <4> QED
        BY <1>12, <3>5, <4>1, <4>2, <4>3
    <3> QED
      BY <3>3, <3>4, <3>5
  <2> QED
    BY <2>1, <2>2
<1>16. TablesExact'
  <2>1. \A j \in DOMAIN parts' : parts'[j].file \in BOOLEAN
    <3>1. ASSUME NEW j \in DOMAIN parts'
          PROVE  parts'[j] \in Part
      BY <1>6, <1>7, <1>9
    <3> QED
      BY <3>1 DEF Part
  <2>2. /\ {j \in DOMAIN parts' : ~parts'[j].file} = {j \in DOMAIN parts' : parts'[j].file = FALSE}
        /\ {j \in DOMAIN parts' : parts'[j].file} = {j \in DOMAIN parts' : parts'[j].file = TRUE}
    BY <2>1
  <2>3. /\ DOMAIN form' = {parts'[k].field : k \in {j \in DOMAIN parts' : ~parts'[j].file}}
        /\ DOMAIN files' = {parts'[k].field : k \in {j \in DOMAIN parts' : parts'[j].file}}
    BY <1>15, <2>2 DEF Names2
  <2>4. \A n \in DOMAIN form' : \A k \in New(n, FALSE) : IsLast(k, New(n, FALSE)) =>
            form'[n] = Bytes(parts[k])'
    BY <1>15 DEF Bytes, Between, L
  <2>5. \A n \in DOMAIN files' : \A k \in New(n, TRUE) : IsLast(k, New(n, TRUE)) =>
            files'[n].content = Bytes(parts[k])'
    BY <1>15 DEF Bytes, Between, L
  <2> QED
    BY <2>3, <2>4, <2>5, Zenon DEF TablesExact, New, IsLast
<1>17. Types'
  <2>1. lookbehind' \in Seq(Byte) /\ origin' \in Nat /\ mark' \in Nat \ {0}
    BY <1>2, AppendProperties, DelimiterFacts, <1>d DEF ParserInv, Types
  <2>2. headerName' \in Seq(Byte) \cup {Null} /\ given' \in Seq(Header)
    BY <1>4 DEF ParserInv, Types
  <2> QED
    BY <1>3, <1>4, <1>7, <2>1, <2>2 DEF Types
<1>18. NamesGiven' /\ NothingYet' /\ DataInv'
  BY <1>4 DEF NamesGiven, NothingYet, DataInv, InData, HeaderStates
<1> QED
  BY <1>10, <1>16, <1>17, <1>18 DEF ParserInv

LEMMA DataBoundarySound ==
    ASSUME ParserInv, NEW c \in Byte, NEW last \in BOOLEAN, verdict = "reading",
           DataBoundary(c, last)
    PROVE  ParserInv'
<1>1. /\ state = "part_data_boundary" /\ InData
      /\ state \in {"part_data_almost_boundary", "part_data_boundary"}
  BY DEF DataBoundary, InData
<1>2. /\ index \in Nat /\ Held = index + 2 /\ Held < L
      /\ lookbehind = SubSeq(text, Unsaved, Len(text))
  BY <1>1, DataFacts DEF Tracks
<1>3. /\ Held + 1 = index + 3 /\ L = Len(Boundary) + 2
      /\ Boundary[index + 1] = Delimiter[Held + 1]
  <2>1. L = Len(Boundary) + 2 /\ Len(Boundary) \in Nat
        /\ \A j \in 1..Len(Boundary) : Delimiter[j + 2] = Boundary[j]
    BY DelimiterFacts
  <2>2. index + 1 \in 1..Len(Boundary) /\ Held + 1 = (index + 1) + 2
    BY <1>2, <2>1
  <2> QED
    BY <1>2, <2>1, <2>2
<1>4. CASE c # Boundary[index + 1]
  <2>1. /\ DataByte(c, last, content \o SubSeq(text, Unsaved, Len(text)), At)
        /\ UNCHANGED origin
    BY <1>2, <1>4 DEF DataBoundary
  <2> QED
    BY <1>1, <1>3, <1>4, <2>1, GivenBack
<1>5. CASE c = Boundary[index + 1] /\ index + 1 # Len(Boundary)
  <2>1. /\ Takes(c, last)
        /\ lookbehind' = Append(lookbehind, c) /\ index' = index + 1
        /\ UNCHANGED <<state, mark, part, tables, origin>>
    BY <1>5 DEF DataBoundary
  <2>2. /\ state' = "part_data_boundary" /\ UNCHANGED <<mark, part, tables, origin>>
        /\ lookbehind' = Append(SubSeq(text, Unsaved, Len(text)), c)
    BY <1>1, <1>2, <2>1
  <2>3. index' \in Nat /\ index' + 1 = Held /\ Held + 1 < L
    BY <1>2, <1>3, <1>5, <2>1, DelimiterFacts
  <2>4. c = Delimiter[Held + 1]
    BY <1>3, <1>5
  <2> QED
    BY <1>1, <2>1, <2>2, <2>3, <2>4, GoesOn
<1>6. CASE c = Boundary[index + 1] /\ index + 1 = Len(Boundary) /\ fieldName # Null
  <2>1. /\ Takes(c, last) /\ EndPart
        /\ lookbehind' = Append(lookbehind, c) /\ index' = index + 1
        /\ state' = "part_data_almost_end" /\ UNCHANGED <<mark, origin>>
    BY <1>6 DEF DataBoundary
  <2>2. index' \in Nat /\ Held + 1 = L
    BY <1>2, <1>3, <1>6, <2>1
  <2>3. c = Delimiter[Held + 1]
    BY <1>3, <1>6
  <2> QED
    BY <1>1, <1>6, <2>1, <2>2, <2>3, PartEnds
<1>7. CASE c = Boundary[index + 1] /\ index + 1 = Len(Boundary) /\ fieldName = Null
  <2>1. Rejects(c)
    BY <1>7 DEF DataBoundary
  <2> QED
    BY <2>1, RejectsSound
<1> QED
  BY <1>4, <1>5, <1>6, <1>7

-----------------------------------------------------------------------------
(* The steps together.                                                     *)

LEMMA InitSound == Init => Inv
<1> SUFFICES ASSUME Init PROVE Inv
  OBVIOUS
<1>1. /\ coming = <<>> /\ text = <<>> /\ verdict = "called" /\ state = "start"
      /\ index = 0 /\ mark = 1 /\ lookbehind = <<>>
      /\ headerName = Null /\ fieldName = Null /\ fileName = Null
      /\ fileType = Null /\ content = Null /\ form = <<>> /\ files = <<>>
      /\ origin = 0 /\ given = <<>> /\ parts = <<>>
  BY DEF Init
<1>2. \A S : <<>> \in Seq(S)
  BY EmptySeq
<1>3. DOMAIN parts = {} /\ DOMAIN form = {} /\ DOMAIN files = {}
  BY <1>1
<1>4. Types /\ coming \in Seq(Byte)
  BY <1>1, <1>2 DEF Types
<1>5. NamesGiven /\ NothingYet /\ DataInv
  BY <1>1 DEF NamesGiven, NothingYet, DataInv, InData, HeaderStates
<1>6. PartsInv
  BY <1>3 DEF PartsInv
<1>7. TablesExact
  BY <1>3 DEF TablesExact
<1> QED
  BY <1>1, <1>4, <1>5, <1>6, <1>7 DEF Inv, ParserInv

LEMMA ReadSound ==
    ASSUME ParserInv, NEW c \in Byte, NEW last \in BOOLEAN, verdict = "reading",
           Read(c, last)
    PROVE  ParserInv'
<1>1. CASE StartBoundary(c, last)
  BY <1>1, StartBoundarySound
<1>2. CASE HeaderField(c, last)
  BY <1>2, HeaderFieldSound
<1>3. CASE HeaderLineFeed(c, last)
  BY <1>3, HeaderLineFeedSound
<1>4. CASE HeaderValue(c, last)
  BY <1>4, HeaderValueSound
<1>5. CASE Data(c, last)
  BY <1>5, DataSound
<1>6. CASE AlmostBoundary(c, last)
  BY <1>6, AlmostBoundarySound
<1>7. CASE DataBoundary(c, last)
  BY <1>7, DataBoundarySound
<1>8. CASE AfterBoundary(c, last)
  BY <1>8, AfterBoundarySound
<1> QED
  BY <1>1, <1>2, <1>3, <1>4, <1>5, <1>6, <1>7, <1>8 DEF Read

\* The call begins with nothing read, and in no data.
LEMMA CallSound ==
    ASSUME ParserInv, NEW boundary, NEW body, Call(boundary, body), state = "start"
    PROVE  ParserInv'
<1>1. /\ UNCHANGED <<text, state, index, mark, lookbehind>>
      /\ UNCHANGED <<headerName, fieldName, fileName, fileType, content, given>>
      /\ UNCHANGED <<form, files, parts, origin>>
      /\ verdict' \in {"reading", "accepted", "rejected", "crashed"}
  BY DEF Call, parser, part, tables
<1>2. Types'
  BY <1>1 DEF ParserInv, Types
<1>3. NamesGiven' /\ NothingYet'
  BY <1>1 DEF ParserInv, NamesGiven, NothingYet, InData, HeaderStates, Gives, HasType
<1>4. DataInv'
  BY <1>1 DEF DataInv, InData
<1>5. PartsInv'
  BY <1>1 DEF ParserInv, PartsInv, Between, HasDelimiter
<1>6. TablesExact
  BY DEF ParserInv
<1>7. verdict # "rejected"
  BY DEF Call
<1>8. TablesExact'
  BY <1>1, <1>6, <1>7 DEF TablesExact, Between, Bytes
<1> QED
  BY <1>2, <1>3, <1>4, <1>5, <1>8 DEF ParserInv

\* Whoever reads was called before.
LEMMA ReadWasCalled ==
    ASSUME NEW c, NEW last \in BOOLEAN, Read(c, last)
    PROVE  verdict' # "called"
<1>1. CASE Rejects(c)
  BY <1>1 DEF Rejects
<1>2. CASE Takes(c, last)
  BY <1>2 DEF Takes
<1>3. Rejects(c) \/ Takes(c, last)
  BY DEF Read, StartBoundary, HeaderField, HeaderLineFeed, HeaderValue, Data,
         AlmostBoundary, DataBoundary, AfterBoundary, DataByte
<1> QED
  BY <1>1, <1>2, <1>3

\* A step that reads nothing changes nothing the invariant is about.
LEMMA ParserStays ==
    ASSUME ParserInv, UNCHANGED <<text, verdict, parser, part, tables, origin>>
    PROVE  ParserInv'
<1>1. /\ UNCHANGED <<text, verdict, state, index, mark, lookbehind>>
      /\ UNCHANGED <<headerName, fieldName, fileName, fileType, content, given>>
      /\ UNCHANGED <<form, files, parts, origin>>
  BY DEF parser, part, tables
<1>2. Types'
  BY <1>1 DEF ParserInv, Types
<1>3. NamesGiven' /\ NothingYet'
  BY <1>1 DEF ParserInv, NamesGiven, NothingYet, InData, HeaderStates, Gives, HasType
<1>4. Held' = Held /\ Begun' = Begun /\ Unsaved' = Unsaved
  BY <1>1 DEF Held, Begun, Unsaved
<1>5. DataInv'
  BY <1>1, <1>4 DEF ParserInv, DataInv, InData, Between
<1>6. PartsInv'
  BY <1>1 DEF ParserInv, PartsInv, Between, HasDelimiter
<1>7. TablesExact'
  BY <1>1 DEF ParserInv, TablesExact, Between, Bytes
<1> QED
  BY <1>2, <1>3, <1>5, <1>6, <1>7 DEF ParserInv

LEMMA StepSound == Inv /\ [Next]_vars => Inv'
<1> SUFFICES ASSUME Inv, [Next]_vars PROVE Inv'
  OBVIOUS
<1>1. coming \in Seq(Byte) /\ ParserInv
  BY DEF Inv
<1>2. CASE Send
  <2>1. UNCHANGED <<text, verdict, parser, part, tables, origin>>
    BY <1>2 DEF Send
  <2>2. \/ coming' \in Openings \cup Headers \cup DataChunks
        \/ coming' \in {Delimiter \o <<CR, LF>>, Delimiter \o <<"-", "-">>}
    BY <1>2 DEF Send
  <2>3. /\ Delimiter \o <<CR, LF>> \in Seq(Byte)
        /\ Delimiter \o <<"-", "-">> \in Seq(Byte)
    <3>1. <<CR, LF>> \in Seq(Byte) /\ <<"-", "-">> \in Seq(Byte)
      BY BodyAssumption
    <3> QED
      BY <3>1, DelimiterFacts, ConcatProperties
  <2>4. coming' \in Seq(Byte)
    BY <2>2, <2>3, BodyAssumption
  <2> QED
    BY <1>1, <1>2, <2>1, <2>4, ParserStays DEF Inv, Send
<1>3. CASE /\ verdict = "reading"
           /\ coming # <<>>
           /\ coming' = Tail(coming)
           /\ \E last \in BOOLEAN : Read(Head(coming), last)
           /\ UNCHANGED budget
  <2>1. Head(coming) \in Byte /\ Tail(coming) \in Seq(Byte)
    BY <1>1, <1>3, HeadTailProperties
  <2>2. PICK last \in BOOLEAN : Read(Head(coming), last)
    BY <1>3
  <2>3. ParserInv'
    BY <1>1, <1>3, <2>1, <2>2, ReadSound
  <2> QED
    BY <1>3, <2>1, <2>2, <2>3, ReadWasCalled DEF Inv
<1>4. CASE UNCHANGED vars
  <2>1. UNCHANGED <<text, verdict, parser, part, tables, origin>> /\ state' = state
    BY <1>4 DEF vars, parser
  <2> QED
    BY <1>1, <1>4, <2>1, ParserStays DEF vars, Inv
<1>5. ASSUME NEW boundary, NEW body, Call(boundary, body)
      PROVE  Inv'
  <2>1. coming' = coming /\ verdict' # "called" /\ state = "start"
    BY <1>5 DEF Call, Inv
  <2> QED
    BY <1>1, <1>5, <2>1, CallSound DEF Inv
<1> QED
  BY <1>2, <1>3, <1>4, <1>5 DEF Next

-----------------------------------------------------------------------------
(* The theorems.                                                           *)

\* The callbacks' state is what the headers and the data read so far give, the
\* content ends where what may be a delimiter begins, and no shorter or longer
\* end of the text could be the beginning of one (multipart_parser_execute).
THEOREM Invariant == Spec => []Inv
<1> QED
  BY InitSound, StepSound, PTL DEF Spec

\* The content with what is pending are the bytes since the part began, and no
\* delimiter among them was overlooked.
LEMMA ExactInData ==
    ASSUME ParserInv, verdict = "reading", InData, state # "part_data_start"
    PROVE  /\ content \o Pending = Between(origin, Len(text))
           /\ ~HasDelimiter(origin, Len(text))
<1>1. /\ text \in Seq(Byte) /\ Len(text) \in Nat /\ origin \in Nat \ {0}
      /\ Unsaved \in Nat /\ origin <= Unsaved /\ Unsaved <= Len(text)
      /\ content = SubSeq(text, origin, Unsaved - 1)
      /\ ~DelimiterIn(text, origin, Len(text))
  BY DataFacts DEF Tracks
<1>2. Pending = SubSeq(text, Unsaved, Len(text))
  <2>1. CASE state = "part_data"
    BY <2>1 DEF Pending, Unsaved, Between
  <2>2. CASE state = "part_data_almost_boundary"
    BY <2>2, HeldReturn DEF Pending
  <2>3. CASE state = "part_data_boundary"
    BY <2>3, DataFacts DEF Pending
  <2> QED
    BY <2>1, <2>2, <2>3 DEF InData
<1>3. content \o SubSeq(text, Unsaved, Len(text)) = SubSeq(text, origin, Len(text))
  BY <1>1, ContentAndRest
<1>4. ~HasDelimiter(origin, Len(text))
  BY <1>1 DEF HasDelimiter, DelimiterIn, Between, L
<1> QED
  BY <1>2, <1>3, <1>4 DEF Between

\* For any boundary, any body and any pieces it comes in, nothing of the data of
\* a part is lost, doubled or reordered when what looked like a boundary was
\* none, and a part ends with the first delimiter behind its beginning
\* (multipart_parser_execute, s_part_data to s_part_data_boundary).
THEOREM DataIsExact == Spec => []DataExact
<1>1. Inv => DataExact
  <2> SUFFICES ASSUME ParserInv PROVE DataExact
    BY DEF Inv
  <2>1. PartsInv
    BY DEF ParserInv
  <2> QED
    BY <2>1, ExactInData DEF DataExact, PartsInv
<1> QED
  BY <1>1, Invariant, PTL

\* For any headers, a part is filed under the name its own header lines give
\* it, and as a file only if they give a file name and a type, never those of a
\* part before it (read_header_value, read_part_data_end).
THEOREM HeadersAreOwn == Spec => []OwnHeaders
<1>1. Inv => OwnHeaders
  <2> SUFFICES ASSUME ParserInv, NEW n \in DOMAIN parts
               PROVE  /\ parts[n].field = "f"
                      /\ Gives(parts[n].given, <<"n">>, {<<"f">>, <<"g">>})
                      /\ parts[n].file <=> Gives(parts[n].given, <<"n">>, {<<"g">>})
                                           /\ HasType(parts[n].given)
    BY DEF Inv, OwnHeaders, Gives, HasType
  <2>1. parts \in Seq(Part) /\ PartsInv
    BY DEF ParserInv, Types
  <2>2. parts[n] \in Part
    BY <2>1, ElementOfSeq, LenProperties
  <2> QED
    BY <2>1, <2>2 DEF PartsInv, Part
<1> QED
  BY <1>1, Invariant, PTL

\* For any body, the tables of one that was not turned down have exactly the
\* bytes of the last part of each name and kind (balde_multipart_parse).
THEOREM TablesAreExact == Spec => []TablesExact
<1>1. Inv => TablesExact
  BY DEF Inv, ParserInv
<1> QED
  BY <1>1, Invariant, PTL
=============================================================================
