------------------------------ MODULE WebText ------------------------------
(***************************************************************************)
(* Text as URLs, forms and cookies carry it: the conversions of            *)
(* src/src/requests.c and what balde uses of GLib.  A text is a sequence   *)
(* of characters; an escaped character is one element, "%2B" for "+".      *)
(***************************************************************************)
EXTENDS SequencesExt

\* The characters that g_uri_escape_string(s, "/:", TRUE) escapes, and how.
Escaped ==
    [ c \in {" ", "+", "%", "\\", ";", "&", "=", "\"", "<"} |->
        CASE c = " " -> "%20" [] c = "+" -> "%2B" [] c = "%" -> "%25"
          [] c = "\\" -> "%5C" [] c = ";" -> "%3B" [] c = "&" -> "%26"
          [] c = "=" -> "%3D" [] c = "\"" -> "%22" [] c = "<" -> "%3C" ]

EscapeWith(f, t) ==
    [i \in DOMAIN t |-> IF t[i] \in DOMAIN f THEN f[t[i]] ELSE t[i]]

Escape(t) == EscapeWith(Escaped, t)

\* g_uri_unescape_string: NULL if a "%" does not begin an escaped character.
Unescape(t, Null) ==
    IF Contains(t, "%") THEN Null
    ELSE [i \in DOMAIN t |->
            IF \E c \in DOMAIN Escaped : Escaped[c] = t[i]
            THEN CHOOSE c \in DOMAIN Escaped : Escaped[c] = t[i]
            ELSE t[i]]

\* Mutant: a "+" stays.
DecodeEscapes(t, Null) == Unescape(t, Null)

\* balde_urldecode
UrlDecode(t, Null) ==
    Unescape([i \in DOMAIN t |-> IF t[i] = "+" THEN "%20" ELSE t[i]], Null)

-----------------------------------------------------------------------------
\* g_strsplit with no limit: the pieces between the separators.
Split(t, separator) ==
    IF t = <<>> THEN <<>>
    ELSE FoldLeft(LAMBDA pieces, c :
                    IF c = separator THEN Append(pieces, <<>>)
                    ELSE [pieces EXCEPT ![Len(pieces)] = Append(@, c)],
                  << <<>> >>, t)

\* g_strsplit(t, separator, 2): one piece, two, or none for an empty text.
SplitInTwo(t, separator) ==
    IF Contains(t, separator)
    THEN LET i == CHOOSE j \in DOMAIN t :
                    t[j] = separator /\ \A k \in 1..(j - 1) : t[k] # separator
         IN <<SubSeq(t, 1, i - 1), SubSeq(t, i + 1, Len(t))>>
    ELSE IF t = <<>> THEN <<>> ELSE <<t>>

\* g_strstrip
Strip(t) ==
    LET Ink == {i \in DOMAIN t : t[i] # " "} IN
    IF Ink = {} THEN <<>>
    ELSE SubSeq(t, CHOOSE i \in Ink : \A j \in Ink : i <= j,
                   CHOOSE i \in Ink : \A j \in Ink : i >= j)

\* A hash table of texts is a set of pairs; g_hash_table_replace.
Replace(table, key, value) == {p \in table : p[1] # key} \cup {<<key, value>>}

-----------------------------------------------------------------------------
\* One round of the loop in balde_parse_query_string: a pair with no "=", or
\* that cannot be decoded, is left out.
ParsePair(table, text, Null) ==
    LET pieces == SplitInTwo(text, "=") IN
    IF Len(pieces) # 2 THEN table
    ELSE LET key == UrlDecode(pieces[1], Null)
             value == UrlDecode(pieces[2], Null)
         IN IF key = Null \/ value = Null THEN table ELSE Replace(table, key, value)

\* balde_parse_query_string, also of the body of a form.
ParseQueryString(text, Null) ==
    IF text = Null THEN {}
    ELSE FoldLeft(LAMBDA table, kv : ParsePair(table, kv, Null), {},
                  Split(text, "&"))

\* The quotes around the value of a cookie are taken off.
Unquote(t) ==
    IF Len(t) > 1 /\ Head(t) = "\"" /\ Last(t) = "\""
    THEN SubSeq(t, 2, Len(t) - 1) ELSE t

\* balde_parse_cookies: nothing is decoded.
ParseCookies(text, Null) ==
    IF text = Null THEN {}
    ELSE FoldLeft(LAMBDA table, kv :
                    LET pieces == SplitInTwo(kv, "=") IN
                    IF Len(pieces) # 2 THEN table
                    ELSE Replace(table, Strip(pieces[1]), Unquote(Strip(pieces[2]))),
                  {}, Split(text, ";"))

\* balde_response_set_cookie: the value is quoted as it is, and attributes
\* follow; a cookie is deleted with Max-Age 0.
CookieText(name, value, maxAge) ==
    name \o <<"=", "\"">> \o value \o <<"\"", ";", " ">>
         \o (IF maxAge >= 0 THEN <<"Expires", ";", " ">> ELSE <<>>)
         \o (IF maxAge >= 0 THEN <<"Max-Age", "=", IF maxAge = 0 THEN "0" ELSE "n">>
                                    \o <<";", " ">> ELSE <<>>)
         \o <<"Path", "=", "/">>
=============================================================================
