----------------------------- MODULE MCStreams -----------------------------
EXTENDS Streams, TLC

\* The bytes by their numbers in ASCII, those with no name by their numbers.
Named == 0 :> NUL @@ 10 :> LF @@ 32 :> " " @@ 43 :> "+" @@ 44 :> "," @@ 45 :> "-" @@ 47 :> "/"
         @@ [n \in 48..57 |-> Digits[n - 47]] @@ 58 :> ":" @@ 63 :> "?" @@ 67 :> "C"
         @@ 72 :> "H" @@ 80 :> "P" @@ 81 :> "Q" @@ 84 :> "T" @@ 85 :> "U" @@ 88 :> "X"
         @@ 120 :> "x" @@ 121 :> "y"
MCOctets == Named @@ [n \in 0..255 |-> "#" \o ToString(n)]

Some(S, n) == UNION {[1..m -> S] : m \in 0..n}

\* Variables: a length, another with a sign, a path, a URI with a query, an empty URI, a header
\* with the name of the length, and one with no NUL after its value, a comma.
Variable == { <<"C", NUL, "2", NUL>>, <<"C", NUL, "+", "1", NUL>>, <<"P", NUL, "p", NUL>>,
              <<"U", NUL, "?", "q", NUL>>, <<"U", NUL, NUL>>,
              <<"H", "C", NUL, "9", NUL>>, <<"H", "X", NUL, ",">> }

Decimal(n) == IF n < 10 THEN <<Digits[n + 1]>>
              ELSE <<Digits[n \div 10 + 1], Digits[(n % 10) + 1]>>

\* The length may be wrong by one, and there may be more than the body.
ScgiSent ==
    { [service |-> "scgi", pairs |-> <<>>, stdin |-> <<>>,
       bytes |-> Decimal(n) \o <<":">> \o text \o <<",", "x", ",", "x">>] :
      <<text, n>> \in { <<t, k>> \in {FlattenSeq(v) : v \in Some(Variable, 3)} \X (0..14) :
                        k \in {Len(t) - 1, Len(t), Len(t) + 1} } }

\* Request lines: with a query and without, with an empty target, with no version
\* before the NUL.  Lines: lengths, one of them negative, a header, a
\* line with no colon, lines with a NUL in the value, before the colon, and in front.
Requests == { <<"G", " ", "/", "?", "q", " ", "1">>, <<"G", " ", "/", " ", "1">>,
              <<"G", " ", " ", "1">>, <<"G", " ", "/", NUL, " ", "1">> }
Right == { <<"C", ":", "2">>, <<"c", ":", " ", "1", " ">>, <<"X", ":", "x">> }
Lines == Right \cup
         { <<"x">>, <<"C", ":", "-", "1">>, <<"C", ":", "1", NUL, "2">>, <<"X", NUL, ":">>,
           <<NUL, "C", ":", "1">> }

HttpSent ==
    { [service |-> "httpd", pairs |-> <<>>, stdin |-> <<>>,
       bytes |-> r \o <<LF>> \o FlattenSeq([i \in DOMAIN ls |-> ls[i] \o <<LF>>])
                   \o <<LF, "x", LF, "x">>] :
      r \in Requests, ls \in Some(Lines, 2) \cup [1..3 -> Right] }

\* Variables of FastCGI: a path, another, a query and a length in four bytes, two
\* headers that are lengths, an empty header, no name, a name of no use, a length and
\* a header with a NUL in it.
Pair(name, value, wide) == [name |-> name, value |-> value, wide |-> wide]
Pairs == { Pair(<<"P">>, <<"p">>, {}), Pair(<<"P">>, <<"q">>, {"value"}),
           Pair(<<"Q">>, <<"x", "x">>, {"name", "value"}),
           Pair(<<"H", "C">>, <<"2">>, {"name"}), Pair(<<"H", "C">>, <<"1">>, {}),
           Pair(<<"H", "X">>, <<>>, {}), Pair(<<>>, <<>>, {}), Pair(<<"C">>, <<"9">>, {}),
           Pair(<<"H", "C">>, <<" ", "2", NUL, "1">>, {}), Pair(<<"H", NUL, "C">>, <<"1">>, {}) }

\* Texts of as many bytes as one byte counts, of one more, and of more than 255.
Long == { <<Pair(<<"H", "X">>, [i \in 1..n |-> "x"], {}), Pair(<<"P">>, <<"p">>, {})>> :
          n \in {127, 128, 300} }

FcgiSent ==
    { [service |-> "fcgi", pairs |-> v, stdin |-> data, bytes |-> Encoded(v)] :
      v \in Some(Pairs, 2), data \in {<<>>, <<"x">>, <<"x", "y">>, <<"x", "y", "x">>} }
    \cup { [service |-> "fcgi", pairs |-> v, stdin |-> <<>>, bytes |-> Encoded(v)] : v \in Long }

\* An environment has a name once.
CgiPairs == { Pair(<<"P">>, <<"p">>, {}), Pair(<<"Q">>, <<"q">>, {}),
              Pair(<<"C">>, <<"2">>, {}), Pair(<<"C">>, <<"-", "1">>, {}),
              Pair(<<"H", "C">>, <<"1">>, {}), Pair(<<"T">>, <<"t">>, {}), Pair(<<"H", "X">>, <<"x">>, {}) }

CgiSent ==
    { [service |-> "cgi", pairs |-> v, stdin |-> <<>>, bytes |-> <<"x", "y", "x">>] :
      v \in {u \in Some(CgiPairs, 3) :
                \A i, j \in DOMAIN u : u[i].name = u[j].name => i = j} }

MCSent == ScgiSent \cup HttpSent \cup FcgiSent \cup CgiSent
=============================================================================
