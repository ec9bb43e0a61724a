------------------------------ MODULE Streams ------------------------------
(***************************************************************************)
(* How the four services make a request of bytes: SCGI (sapi/scgi.c) of a  *)
(* netstring, byte by byte, HTTP (sapi/httpd.c) of the lines of a head,    *)
(* both with the body behind it; FastCGI (sapi/fcgi.c) of the data of      *)
(* PARAMS and STDIN, CGI (sapi/cgi.c) of the environment and the standard  *)
(* input.  The peer may end the stream, in order or with an error, at any  *)
(* byte.                                                                   *)
(*                                                                         *)
(* A byte is a string; a C string ends before its first NUL.  Names are    *)
(* short: P, U, Q, C and T are PATH_INFO,                                  *)
(* REQUEST_URI, QUERY_STRING, CONTENT_LENGTH and CONTENT_TYPE, H is the    *)
(* prefix HTTP_, the headers c and t are content-length and content-type,  *)
(* a version of HTTP that is supported begins with 1, and LF is any end of *)
(* a line.  Names of variables are in upper case, as web servers send them.*)
(* Octets are the bytes of a length in PARAMS, by their numbers.           *)
(***************************************************************************)
EXTENDS Integers, Sequences, SequencesExt, FiniteSetsExt

CONSTANTS
    Sent,           \* the requests of the peer: [service, bytes, pairs, stdin]
    BufferSize,     \* sizeof(body_)
    Octets,         \* the bytes by their numbers
    Wrap,           \* 2^64: a guint64 is below
    Null

ASSUME StreamsAssumption ==
    /\ BufferSize \in Nat \ {0}
    /\ \A m \in Sent : m.service \in {"scgi", "httpd", "fcgi", "cgi"}
                       /\ m.bytes \in Seq(ToSet(m.bytes))

NUL == "NUL"
LF  == "LF"
Digits == <<"0", "1", "2", "3", "4", "5", "6", "7", "8", "9">>
Blanks == {" ", LF}
Capitals == [C |-> "c", T |-> "t", X |-> "x"]

\* No length is larger than a gint holds.
MaxInt == 2147483647

ASSUME NumbersAssumption ==
    /\ Wrap \in Nat \ {0}
    /\ DOMAIN Octets = 0..255 /\ Octets[0] = NUL
    /\ \A m, n \in 0..255 : Octets[m] = Octets[n] => m = n

VARIABLES
    service,    \* who reads: scgi, httpd, fcgi or cgi
    stream,     \* the bytes the peer sends before the stream ends: in FastCGI
                \* the data of PARAMS, in CGI the standard input
    meant,      \* FastCGI and CGI: the variables the web server has to pass on
    stdin,      \* FastCGI: the data of STDIN
    ending,     \* what a read says at the end: eof or error
    pos,        \* bytes read
    pc,         \* where the reader is: a state of it, or what became of it
    start, current, netstring_len, key, env,    \* the netstring
    headers, path, query,                       \* the request
    content_length, body, real_content_length, to_read,
    fault       \* the undefined things done

input     == <<service, stream, meant, stdin>>
netstring == <<start, current, netstring_len, key, env>>
target    == <<path, query>>
payload   == <<content_length, body, real_content_length, to_read>>
vars      == <<input, ending, pos, pc, netstring, headers, target, payload, fault>>

-----------------------------------------------------------------------------
(* The library *)

\* g_data_input_stream_read_byte returns 0 at the end of the stream.
ByteAt(i) == IF i <= Len(stream) THEN stream[i] ELSE NUL
Text(i, j) == [n \in 1..(j - i) |-> ByteAt(i + n)]

\* g_strsplit(s, c, 2): of an empty string it makes no piece at all.
Split(s, c) ==
    LET at == {i \in DOMAIN s : s[i] = c} IN
    IF s = <<>> THEN <<>>
    ELSE IF at = {} THEN <<s>>
    ELSE <<SubSeq(s, 1, Min(at) - 1), SubSeq(s, Min(at) + 1, Len(s))>>

\* What a function of strings sees of the bytes s.
CString(s) == IF s = <<>> THEN <<>> ELSE Split(s, NUL)[1]

\* g_strsplit(s, " ", 3)
Words(s) ==
    LET at == {i \in DOMAIN s : s[i] = " "}
        first == Min(at)
        second == Min(at \ {first})
    IN
    IF Cardinality(at) < 2 THEN Split(s, " ")
    ELSE <<SubSeq(s, 1, first - 1), SubSeq(s, first + 1, second - 1),
           SubSeq(s, second + 1, Len(s))>>

Strip(s) == LET black == {i \in DOMAIN s : s[i] # " "} IN
    IF black = {} THEN <<>> ELSE SubSeq(s, Min(black), Max(black))
Lower(s) == [i \in DOMAIN s |-> IF s[i] \in DOMAIN Capitals THEN Capitals[s[i]] ELSE s[i]]

\* The number that the digits at the beginning of s make.
Leading(s) ==
    LET other == {i \in DOMAIN s : s[i] \notin ToSet(Digits)}
        n == IF other = {} THEN Len(s) ELSE Min(other) - 1
        value[i \in 0..n] ==
            IF i = 0 THEN 0
            ELSE 10 * value[i - 1] + (CHOOSE v \in 0..9 : Digits[v + 1] = s[i])
    IN value[n]

\* g_ascii_strtoull: blanks and a sign may be in front, a number too large is the
\* largest, and a negative one is taken from 2^64.
Unsigned(s) == Min({Leading(s), Wrap - 1})
Number(s) ==
    LET black == {i \in DOMAIN s : s[i] \notin Blanks}
        first == Min(black)
        rest == SubSeq(s, first + 1, Len(s))
    IN
    CASE black = {} -> 0
      [] black # {} /\ s[first] = "+" -> Unsigned(rest)
      [] black # {} /\ s[first] = "-" -> (Wrap - Unsigned(rest)) % Wrap
      [] OTHER -> Unsigned(SubSeq(s, first, Len(s)))

\* g_hash_table_replace
Put(table, k, v) ==
    [x \in DOMAIN table \cup {k} |-> IF x = k THEN v ELSE table[x]]

\* The length of the body: of the variable in SCGI, of the header in HTTP.
LengthOf(table, name) == IF name \in DOMAIN table THEN Number(table[name]) ELSE 0

-----------------------------------------------------------------------------
(* What was sent, without the reader *)

\* Variables of a netstring: a name is what stands between an even NUL, or the
\* beginning, and the next NUL; its value goes on to the NUL after that, or to the
\* end.
Nuls(text) == {i \in DOMAIN text : text[i] = NUL}
Stops(text) == Nuls(text) \cup (IF text # <<>> /\ text[Len(text)] # NUL
                                THEN {Len(text) + 1} ELSE {})
NulsUpTo(text, i) == Cardinality({n \in Nuls(text) : n <= i})
Triples(text) ==
    {t \in ({0} \cup Nuls(text)) \X Nuls(text) \X Stops(text) :
        /\ t[1] < t[2] /\ t[2] < t[3]
        /\ NulsUpTo(text, t[1]) % 2 = 0
        /\ NulsUpTo(text, t[2]) = NulsUpTo(text, t[1]) + 1
        /\ NulsUpTo(text, t[3] - 1) = NulsUpTo(text, t[2])}
NameIn(text, t) == SubSeq(text, t[1] + 1, t[2] - 1)
VariablesOf(text) ==
    LET triples == Triples(text) IN
    [n \in {NameIn(text, t) : t \in triples} |->
        LET last == CHOOSE t \in triples :
                /\ NameIn(text, t) = n
                /\ \A u \in triples : NameIn(text, u) = n => u[1] <= t[1]
        IN SubSeq(text, last[2] + 1, last[3] - 1)]

\* A text begins with d digits, a colon, the n bytes they stand for and a comma.
Netstring(s, d, n) ==
    /\ d + n + 2 <= Len(s)
    /\ \A i \in 1..d : s[i] \in ToSet(Digits)
    /\ s[d + 1] = ":" /\ s[d + n + 2] = ","
    /\ Number(SubSeq(s, 1, d)) = n
Netstrings(s) == {p \in (0..Len(s)) \X (0..Len(s)) : Netstring(s, p[1], p[2])}
Variables(s) == LET p == CHOOSE p \in Netstrings(s) : TRUE
                IN VariablesOf(SubSeq(s, p[1] + 2, p[1] + p[2] + 1))

\* Lines, by the positions of the LF before and the LF at the end.  The head ends
\* with the first line that is empty, or is for a function of strings, and is not the
\* first line; the last one may do without its LF.
Feeds(s) == {i \in DOMAIN s : s[i] = LF}
Empties(s) == {e \in Feeds(s) \cup {Len(s)} :
                 \E b \in Feeds(s) : /\ b < e /\ s[b + 1] \in {LF, NUL}
                                    /\ \A i \in Feeds(s) : i <= b \/ i >= e}
HeadEnd(s) == Min(Empties(s))
LinesUpTo(s, n) == {l \in Feeds(s) \X Feeds(s) :
                      l[1] < l[2] /\ l[2] <= n /\ \A i \in Feeds(s) : i <= l[1] \/ i >= l[2]}
HeaderLines(s) == LinesUpTo(s, HeadEnd(s) - 1)
PiecesOf(s, l) == Split(CString(SubSeq(s, l[1] + 1, l[2] - 1)), ":")
HeaderName(s, l) == Lower(Strip(PiecesOf(s, l)[1]))
HeadersSent(s) ==
    LET right == {l \in HeaderLines(s) : Len(PiecesOf(s, l)) = 2} IN
    [n \in {HeaderName(s, l) : l \in right} |->
        LET last == CHOOSE l \in right :
                /\ HeaderName(s, l) = n
                /\ \A m \in right : HeaderName(s, m) = n => m[1] <= l[1]
        IN Strip(PiecesOf(s, last)[2])]

BodySent(s, from, len) == SubSeq(s, from + 1, from + len)

\* Variables as a sequence of [name, value, wide], and PARAMS: the lengths in one
\* byte, or in four, the first of them with its highest bit set, when they are wide
\* or have to be.
Count(s, isWide) ==
    LET n == Len(s) IN
    IF isWide \/ n > 127
    THEN <<Octets[128 + n \div 16777216], Octets[(n \div 65536) % 256],
           Octets[(n \div 256) % 256], Octets[n % 256]>>
    ELSE <<Octets[n]>>
Encoded(pairs) ==
    FlattenSeq([i \in DOMAIN pairs |->
        LET p == pairs[i] IN
        Count(p.name, "name" \in p.wide) \o Count(p.value, "value" \in p.wide)
            \o p.name \o p.value])

\* The web server of FastCGI sends the variables it means, of lengths that can be told
\* and no more in all than a gint counts; in an environment there is a name once, in
\* upper case or lower case.
ASSUME VariablesAssumption ==
    \A m \in Sent :
        /\ m.service \in {"fcgi", "cgi"} =>
              /\ m.pairs \in Seq(ToSet(m.pairs))
              /\ \A p \in ToSet(m.pairs) : /\ p.name \in Seq(ToSet(p.name))
                                          /\ p.value \in Seq(ToSet(p.value))
        /\ m.service = "fcgi" =>
              /\ m.bytes = Encoded(m.pairs) /\ Len(m.bytes) <= MaxInt
              /\ \A p \in ToSet(m.pairs) : Len(p.name) <= MaxInt /\ Len(p.value) <= MaxInt
        /\ m.service = "cgi" =>
              \A i, j \in DOMAIN m.pairs :
                    Lower(m.pairs[i].name) = Lower(m.pairs[j].name) => i = j

\* The variables as the functions of strings see them.
Plain(pairs) ==
    [i \in DOMAIN pairs |-> [name |-> CString(pairs[i].name),
                            value |-> CString(pairs[i].value)]]

\* The value a name was given last.
ValueOf(pairs, Named(_)) ==
    LET at == {i \in DOMAIN pairs : Named(pairs[i].name)}
    IN IF at = {} THEN Null ELSE pairs[Max(at)].value
IsHeader(name) == name # <<>> /\ name[1] = "H"
HeadersMeant(pairs) ==
    [h \in {Lower(Tail(pairs[i].name)) :
                i \in {j \in DOMAIN pairs : IsHeader(pairs[j].name)}} |->
        ValueOf(pairs, LAMBDA name : IsHeader(name) /\ Lower(Tail(name)) = h)]

-----------------------------------------------------------------------------
Init ==
    /\ \E m \in Sent, end \in {"eof", "error"} :
        /\ service = m.service /\ meant = m.pairs /\ stdin = m.stdin
        /\ \E n \in 0..Len(m.bytes) : stream = SubSeq(m.bytes, 1, n)
        /\ ending = end /\ (service \in {"fcgi", "cgi"} => end = "eof")
    /\ pos = 0
    /\ pc = CASE service = "scgi" -> "length"
              [] service = "httpd" -> "request_line"
              [] service = "fcgi" -> "pair"
              [] service = "cgi" -> "environ"
    /\ start = 0 /\ current = 0 /\ netstring_len = 0 /\ key = Null /\ env = <<>>
    /\ headers = <<>> /\ path = Null /\ query = Null
    /\ content_length = 0 /\ body = <<>>
    /\ real_content_length = 0 /\ to_read = BufferSize
    /\ fault = {}

Byte == ByteAt(pos + 1)

\* Mutant: one byte more.
TurnLate(s, len) ==
    /\ pos' = pos + 1
    /\ IF current > len
       THEN pc' = "comma" /\ UNCHANGED current
       ELSE pc' = s /\ current' = current + 1

\* The end of a turn of the loop: the next byte is read in state s, or the
\* netstring has been read.
Turn(s, len) ==
    /\ pos' = pos + 1
    /\ IF current = len
       THEN pc' = "comma" /\ UNCHANGED current
       ELSE pc' = s /\ current' = current + 1

\* NETSTRING_LEN
ReadLength ==
    /\ pc = "length"
    /\ \/ /\ Byte \in ToSet(Digits)
          /\ pos' = pos + 1
          /\ UNCHANGED <<pc, netstring>>
       \/ /\ Byte = ":"
          /\ netstring_len' = Number(Text(start, pos))
          /\ start' = pos + 1
          /\ Turn("key", netstring_len')
          /\ UNCHANGED <<key, env>>
       \/ /\ Byte \notin ToSet(Digits) \cup {":"}
          /\ pos' = pos + 1
          /\ pc' = "rejected"
          /\ UNCHANGED netstring
    /\ UNCHANGED <<input, ending, headers, target, payload, fault>>

\* NETSTRING_HEADER_KEY
ReadKey ==
    /\ pc = "key"
    /\ \/ /\ Byte # NUL
          /\ Turn("key", netstring_len)
          /\ UNCHANGED <<start, key>>
       \/ /\ Byte = NUL
          /\ key' = Text(start, pos)
          /\ start' = pos + 1
          /\ Turn("value", netstring_len)
    /\ UNCHANGED <<input, ending, netstring_len, env, headers, target, payload, fault>>

\* Mutant: the last value is taken when its NUL byte is read, only.
ReadValueToNul ==
    /\ pc = "value"
    /\ \/ /\ Byte # NUL
          /\ Turn("value", netstring_len)
          /\ UNCHANGED <<start, key, env>>
       \/ /\ Byte = NUL
          /\ env' = Put(env, key, Text(start, pos))
          /\ key' = Null
          /\ start' = pos + 1
          /\ Turn("key", netstring_len)
    /\ UNCHANGED <<input, ending, netstring_len, headers, target, payload, fault>>

\* NETSTRING_HEADER_VALUE: the last value may come without its NUL byte.
ReadValue ==
    /\ pc = "value"
    /\ \/ /\ Byte # NUL /\ current # netstring_len
          /\ Turn("value", netstring_len)
          /\ UNCHANGED <<start, key, env>>
       \/ /\ Byte = NUL \/ current = netstring_len
          /\ env' = Put(env, key, Text(start, IF Byte = NUL THEN pos ELSE pos + 1))
          /\ key' = Null
          /\ start' = pos + 1
          /\ Turn("key", netstring_len)
    /\ UNCHANGED <<input, ending, netstring_len, headers, target, payload, fault>>

\* balde_filter_headers for every variable.
Filtered(variables) ==
    LET prefixed == {k \in DOMAIN variables : IsHeader(k)}
        Named(n) == CHOOSE k \in prefixed : Lower(Tail(k)) = n
    IN [n \in {Lower(Tail(k)) : k \in prefixed} |-> variables[Named(n)]]

\* Then the two that have no prefix.
HeadersOf(variables) ==
    LET filtered == Filtered(variables)
        plain == {k \in {<<"C">>, <<"T">>} : k \in DOMAIN variables}
    IN [n \in DOMAIN filtered \cup {Lower(k) : k \in plain} |->
            IF \E k \in plain : Lower(k) = n
            THEN variables[CHOOSE k \in plain : Lower(k) = n] ELSE filtered[n]]

ReadComma ==
    /\ pc = "comma"
    /\ pos' = pos + 1
    /\ \/ /\ Byte # ","
          /\ pc' = "rejected"
          /\ UNCHANGED <<headers, content_length>>
       \/ /\ Byte = ","
          /\ pc' = "body"
          /\ headers' = HeadersOf(env)
          /\ content_length' = LengthOf(env, <<"C">>)
    /\ UNCHANGED <<input, ending, netstring, target, body, real_content_length, to_read, fault>>

-----------------------------------------------------------------------------
(* HTTP: the lines of the head.  line, freed or not, is not kept: the loop  *)
(* reads it in the step that made it.                                       *)

\* g_data_input_stream_read_line: what is left at the end of the stream is a
\* line too, unless there is nothing, or the read failed.  The line is used as a
\* string.
Ends == {i \in (pos + 1)..Len(stream) : stream[i] = LF}
NoLine == Ends = {} /\ (pos = Len(stream) \/ ending = "error")
AfterLine == IF Ends = {} THEN Len(stream) ELSE Min(Ends)
Line == CString(SubSeq(stream, pos + 1,
                       IF Ends = {} THEN Len(stream) ELSE Min(Ends) - 1))

Known(words) == Len(words) = 3 /\ words[3] # <<>> /\ words[3][1] = "1"

\* g_strsplit gives no piece of an empty target, and pieces2[1] is then past the
\* end of the vector.
RequestLine ==
    /\ pc = "request_line"
    /\ \/ /\ NoLine
          /\ pc' = "rejected"
          /\ UNCHANGED <<pos, target, fault>>
       \/ /\ ~NoLine
          /\ pos' = AfterLine
          /\ \E words \in {Words(Line)} :
                \/ /\ ~Known(words)
                   /\ pc' = "header"
                   /\ UNCHANGED <<target, fault>>
                \/ /\ Known(words) /\ words[2] # <<>>
                   /\ pc' = "header"
                   /\ \E pieces \in {Split(words[2], "?")} :
                        /\ path' = pieces[1]
                        /\ query' = IF Len(pieces) = 2 THEN pieces[2] ELSE <<>>
                   /\ UNCHANGED fault
                \/ /\ Known(words) /\ words[2] = <<>>
                   /\ fault' = fault \cup {"past_vector"}
                   /\ \/ pc' = "crashed" /\ UNCHANGED target
                      \/ pc' = "header" /\ path' = Null /\ query' = <<>>
    /\ UNCHANGED <<input, ending, netstring, headers, payload>>

\* The empty line: the loop ends.
HeadersEnd ==
    /\ pc' = "body"
    /\ content_length' = LengthOf(headers, <<"c">>)
    /\ UNCHANGED <<headers, body, real_content_length, to_read>>

\* A line that is NULL is read through all the same; one with no colon is freed
\* and read again.
HeaderLine ==
    /\ pc = "header"
    /\ pos' = AfterLine
    /\ \/ /\ NoLine
          /\ pc' = "crashed"
          /\ UNCHANGED <<headers, payload, fault>>
       \/ /\ ~NoLine /\ Line = <<>>
          /\ HeadersEnd
          /\ UNCHANGED fault
       \/ /\ Contains(Line, ":") /\ ~NoLine
          /\ \E pieces \in {Split(Line, ":")} :
                headers' = Put(headers, Lower(Strip(pieces[1])), Strip(pieces[2]))
          /\ UNCHANGED <<pc, payload, fault>>
       \/ /\ ~NoLine /\ Line # <<>> /\ ~Contains(Line, ":")
          /\ pc' = "freed_line"
          /\ fault' = fault \cup {"freed_line"}
          /\ UNCHANGED <<headers, payload>>
    /\ UNCHANGED <<input, ending, netstring, target>>

\* What is in the memory of the freed line decides: it is freed again, and the
\* process may end or not; or it is empty, or a header, or still has no colon.
FreedLine ==
    /\ pc = "freed_line"
    /\ \/ pc' = "crashed" /\ UNCHANGED <<headers, payload>>
       \/ HeadersEnd
       \/ /\ pc' = "header"
          /\ headers' = Put(headers, <<"?">>, <<>>)
          /\ UNCHANGED payload
    /\ UNCHANGED <<input, ending, pos, netstring, target, fault>>

-----------------------------------------------------------------------------
(* The body, the same loop in both services *)

\* The count is signed and the length is not: a count of -1 is the largest.
More == real_content_length >= 0 /\ real_content_length < content_length

\* Mutant: a read may take more than the length calls for.
WantedAll == to_read
Wanted == Min({to_read, content_length - real_content_length})

\* Mutant: the bytes are not counted.
ReceiveUncounted(size) ==
    /\ pos' = pos + size
    /\ body' = body \o Text(pos, pos + size)
    /\ UNCHANGED real_content_length
Receive(size) ==
    /\ pos' = pos + size
    /\ body' = body \o Text(pos, pos + size)
    /\ real_content_length' = real_content_length + size

\* g_input_stream_read gives some bytes, or 0 at the end, or -1 on an error; g_string
\* then takes the buffer for a string, whatever it has.
ReadBody ==
    LET left == Len(stream) - pos IN
    /\ pc = "body" /\ More
    /\ to_read' = Wanted
    /\ \/ \E size \in 1..Min({left, Wanted}) : Receive(size) /\ UNCHANGED <<ending, fault>>
       \/ /\ left = 0 /\ ending = "eof"
          /\ Receive(0)
          /\ UNCHANGED <<ending, fault>>
       \/ /\ left = 0 /\ ending = "error"
          /\ \E junk \in {<<>>, <<"?">>} : body' = body \o junk
          /\ real_content_length' = real_content_length - 1
          /\ ending' \in {"eof", "error"}
          /\ fault' = fault \cup {"read_error"}
          /\ UNCHANGED pos
    /\ UNCHANGED <<input, pc, netstring, headers, target, content_length>>

\* SCGI takes the path from REQUEST_URI when there is no PATH_INFO.
Finish ==
    /\ pc = "body" /\ ~More
    /\ \/ /\ service = "httpd"
          /\ pc' = "parsed"
          /\ UNCHANGED <<target, fault>>
       \/ /\ service = "scgi" /\ <<"P">> \in DOMAIN env
          /\ pc' = "parsed"
          /\ path' = env[<<"P">>]
          /\ query' = IF <<"Q">> \in DOMAIN env THEN env[<<"Q">>] ELSE Null
          /\ UNCHANGED fault
       \/ /\ service = "scgi" /\ {<<"P">>, <<"U">>} \cap DOMAIN env = {}
          /\ pc' = "crashed"
          /\ UNCHANGED <<target, fault>>
       \/ /\ service = "scgi" /\ <<"P">> \notin DOMAIN env /\ <<"U">> \in DOMAIN env
          /\ \E pieces \in {Split(env[<<"U">>], "?")} :
                \/ /\ pieces # <<>>
                   /\ pc' = "parsed"
                   /\ path' = pieces[1]
                   /\ query' = IF Len(pieces) = 2 THEN pieces[2] ELSE Null
                   /\ UNCHANGED fault
                \/ /\ pieces = <<>>
                   /\ fault' = fault \cup {"past_vector"}
                   /\ \/ pc' = "crashed" /\ UNCHANGED target
                      \/ pc' = "parsed" /\ path' = Null /\ query' = Null
    /\ UNCHANGED <<input, ending, pos, netstring, headers, payload>>

-----------------------------------------------------------------------------
(* FastCGI: the pairs of PARAMS, whose lengths nobody compares with the     *)
(* data, and as much of the data of STDIN as the length says.               *)

CodeOf == AntiFunction(Octets)
OctetOf(b) == CodeOf[b]

\* The length whose first byte is the one after i, and how many bytes it takes.
Wide(i) == OctetOf(ByteAt(i + 1)) >= 128
Width(i) == IF Wide(i) THEN 4 ELSE 1
LengthAt(i) ==
    FoldLeft(LAMBDA v, b : 256 * v + OctetOf(b), OctetOf(ByteAt(i + 1)) % 128,
             Text(i + 1, i + Width(i)))
CutShort(i) == i >= Len(stream) \/ (Wide(i) /\ Len(stream) - i < 4)

\* "%.*s" of the n bytes after i: it stops at a NUL, and past the end of the data
\* stands anything.
PastData(i, n) ==
    n > 0 /\ i + n > Len(stream) /\ ~Contains(SubSeq(stream, i + 1, Len(stream)), NUL)
Strings(i, n) ==
    IF i + n <= Len(stream) THEN {CString(Text(i, i + n))}
    ELSE {CString(SubSeq(stream, i + 1, Len(stream)) \o junk) :
            junk \in {<<>>} \cup (IF PastData(i, n) THEN {<<"?">>} ELSE {})}

StorePair(k, v) ==
    /\ env' = IF k \in {<<"P">>, <<"Q">>} THEN Put(env, k, v) ELSE env
    /\ headers' = IF IsHeader(k) THEN Put(headers, Lower(Tail(k)), v) ELSE headers

\* One turn of the loop.  A request that is turned down is NULL.
ReadPair ==
    LET valueLength == pos + Width(pos)
        from == valueLength + Width(valueLength)
        keyLen == LengthAt(pos)
        to == from + keyLen + LengthAt(valueLength)
    IN
    /\ pc = "pair" /\ pos < Len(stream)
    /\ \/ /\ CutShort(pos) \/ CutShort(valueLength)
          /\ pc' = "rejected"
          /\ UNCHANGED <<pos, env, headers, fault>>
       \/ /\ ~CutShort(pos) /\ ~CutShort(valueLength)
          /\ pos' = to
          /\ fault' = fault \cup (IF to > Len(stream) THEN {"past_params"} ELSE {})
          /\ \/ /\ UNCHANGED pc
                /\ \E k \in Strings(from, keyLen), v \in Strings(from + keyLen, to - from - keyLen) :
                        StorePair(k, v)
             \/ /\ PastData(from, keyLen) \/ PastData(from + keyLen, to - from - keyLen)
                /\ pc' = "crashed"
                /\ UNCHANGED <<env, headers>>
    /\ UNCHANGED <<input, ending, start, current, netstring_len, key, target, payload>>

Field(name) == IF name \in DOMAIN env THEN env[name] ELSE Null

\* Mutant: a body as long as the data is not taken.
BodyShorter(len) == len > 0 /\ len < Len(stdin)
BodyTaken(len) == len > 0 /\ len <= Len(stdin)

MakeRequest ==
    /\ pc = "pair" /\ pos >= Len(stream)
    /\ pc' = "parsed"
    /\ path' = Field(<<"P">>) /\ query' = Field(<<"Q">>)
    /\ content_length' = LengthOf(headers, <<"c">>)
    /\ body' = IF BodyTaken(content_length') THEN SubSeq(stdin, 1, content_length')
               ELSE <<>>
    /\ UNCHANGED <<input, ending, pos, netstring, headers, real_content_length,
                   to_read, fault>>

-----------------------------------------------------------------------------
(* CGI *)

\* The variables of the environment; those without the prefix make no header.
ReadEnviron ==
    /\ pc = "environ"
    /\ pc' = "stdin"
    /\ env' = [k \in {meant[i].name : i \in DOMAIN meant} |->
                    ValueOf(meant, LAMBDA name : name = k)]
    /\ headers' = Filtered(env')
    /\ path' = IF <<"P">> \in DOMAIN env' THEN env'[<<"P">>] ELSE Null
    /\ query' = IF <<"Q">> \in DOMAIN env' THEN env'[<<"Q">>] ELSE Null
    /\ content_length' = LengthOf(env', <<"C">>)
    /\ UNCHANGED <<input, ending, pos, start, current, netstring_len, key, body,
                   real_content_length, to_read, fault>>

\* A standard input that ends too soon is the error 400.
ReadStdin ==
    /\ pc = "stdin"
    /\ \/ /\ Len(body) < content_length /\ pos < Len(stream)
          /\ pos' = pos + 1
          /\ body' = Append(body, Byte)
          /\ UNCHANGED pc
       \/ /\ Len(body) < content_length /\ pos = Len(stream)
          /\ pc' = "rejected"
          /\ body' = <<>>
          /\ UNCHANGED pos
       \/ /\ Len(body) = content_length
          /\ pc' = "parsed"
          /\ UNCHANGED <<pos, body>>
    /\ UNCHANGED <<input, ending, netstring, headers, target, content_length,
                   real_content_length, to_read, fault>>

-----------------------------------------------------------------------------
Next ==
    \/ ReadLength \/ ReadKey \/ ReadValue \/ ReadComma
    \/ RequestLine \/ HeaderLine \/ FreedLine
    \/ ReadBody \/ Finish
    \/ ReadPair \/ MakeRequest \/ ReadEnviron \/ ReadStdin

Spec == Init /\ [][Next]_vars

\* The threads of the services are threads of the system, and no byte is waited
\* for: the stream has all of them.
FairSpec == Spec /\ WF_vars(Next)

-----------------------------------------------------------------------------
(* Properties *)

Done == {"parsed", "rejected", "crashed"}

\* A request the SCGI service made is one whole netstring and as many bytes as
\* CONTENT_LENGTH says, of the variables as they were sent, the last of a name; a
\* stream cut short, or whose length is wrong, makes no request, though every read
\* after the end gives a byte.
ScgiExact ==
    service = "scgi" /\ pc = "parsed" /\ fault = {} =>
        \E p \in Netstrings(stream) :
            /\ env = Variables(stream)
            /\ body = BodySent(stream, p[1] + p[2] + 2, LengthOf(Variables(stream), <<"C">>))
            /\ Len(body) = LengthOf(Variables(stream), <<"C">>)

\* A request the HTTP service made has the headers as they were sent, the last of
\* a name, and as many bytes after the empty line as Content-Length says.
HttpExact ==
    service = "httpd" /\ pc = "parsed" /\ fault = {} =>
        /\ Empties(stream) # {}
        /\ headers = HeadersSent(stream)
        /\ body = BodySent(stream, HeadEnd(stream), LengthOf(HeadersSent(stream), <<"c">>))
        /\ Len(body) = LengthOf(HeadersSent(stream), <<"c">>)

\* A request the FastCGI service made is of whole pairs, each name with the value
\* it was given last, up to a NUL, whatever the form of the lengths; its body is as long as the
\* header says, and there is none if STDIN had less.  A request CGI made has the
\* headers of the environment and as much of the standard input as CONTENT_LENGTH
\* says.
EnvExact ==
    /\ service = "fcgi" /\ pc = "parsed" /\ fault = {} =>
        \E n \in 0..Len(meant) :
            LET pairs == Plain(SubSeq(meant, 1, n))
                len == LengthOf(HeadersMeant(pairs), <<"c">>)
            IN /\ stream = Encoded(SubSeq(meant, 1, n))
               /\ path = ValueOf(pairs, LAMBDA name : name = <<"P">>)
               /\ query = ValueOf(pairs, LAMBDA name : name = <<"Q">>)
               /\ headers = HeadersMeant(pairs)
               /\ body = SubSeq(stdin, 1, IF len <= Len(stdin) THEN len ELSE 0)
    /\ service = "cgi" /\ pc = "parsed" =>
        /\ headers = HeadersMeant(meant)
        /\ body = BodySent(stream, 0, LengthOf(env, <<"C">>))
        /\ Len(body) = LengthOf(env, <<"C">>)

\* The stream ended before the body did: the loop reads nothing for ever.
Starved ==
    /\ pc = "body" /\ pos = Len(stream) /\ ending = "eof"
    /\ Len(body) < content_length \/ "read_error" \in fault

\* The peer sent all of a request the service can make something of.
Whole ==
    \/ /\ service = "scgi"
       /\ \E p \in Netstrings(stream) :
            /\ <<"P">> \in DOMAIN Variables(stream)
               \/ (<<"U">> \in DOMAIN Variables(stream) /\ Variables(stream)[<<"U">>] # <<>>)
            /\ p[1] + p[2] + 2 + LengthOf(Variables(stream), <<"C">>) <= Len(stream)
    \/ /\ service = "httpd"
       /\ Empties(stream) # {} /\ HeadEnd(stream) \in Feeds(stream)
       /\ \A l \in HeaderLines(stream) : Len(PiecesOf(stream, l)) = 2
       /\ LET words == Words(CString(SubSeq(stream, 1, Min(Feeds(stream)) - 1)))
          IN Len(words) = 3 => words[2] # <<>>
       /\ HeadEnd(stream) + LengthOf(HeadersSent(stream), <<"c">>) <= Len(stream)
    \/ /\ service = "fcgi"
       /\ \E n \in 0..Len(meant) : stream = Encoded(SubSeq(meant, 1, n))
    \/ /\ service = "cgi" /\ pc # "environ"
       /\ LengthOf(env, <<"C">>) <= Len(stream)

\* A whole request is not turned down, and nothing goes wrong on the way to it.
WholeRequestsParsed ==
    pc \in {"rejected", "crashed"} \/ fault # {} \/ Starved => ~Whole

\* The reader ends, unless the body is cut short: then the loop goes on for ever
\* (scgi.c:184, httpd.c:87).  Nothing is said of one that read a freed line.
ReaderEnds == <>(pc \in Done \/ Starved \/ "freed_line" \in fault)
=============================================================================
