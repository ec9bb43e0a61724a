----------------------------- MODULE Multipart -----------------------------
(***************************************************************************)
(* The parser of multipart/form-data bodies (src/src/multipart_parser.c)   *)
(* with the callbacks balde gives it (src/src/multipart.c), one byte of    *)
(* the body per step.  A byte is a string of one character or the name of  *)
(* a control character.  Where the code goes back one byte (i --) to read  *)
(* it in another state, the step reads it in both.  header_complete and    *)
(* body_end have no callback.                                              *)
(*                                                                         *)
(* A header is named by one letter: n for Content-Disposition, t for       *)
(* Content-Type; one letter is a whole disposition: f is                   *)
(* "form-data; name=f", g is "form-data; name=f; filename=g", any other    *)
(* value is of a type that is not supported or has no options.             *)
(***************************************************************************)
EXTENDS Naturals, Sequences

CONSTANTS
    Byte,
    Boundary,       \* the boundary, with its two hyphens
    Openings,       \* what a body may begin with
    Headers,        \* what the header lines of a part may be
    DataChunks,     \* what the data of a part is made of
    MaxData,        \* bound on the chunks sent
    MaxParts,       \* bound on the delimiters sent
    Null

CR == "CR"
LF == "LF"
Letters == {"b", "f", "g", "n", "t", "x"}

\* The boundary is a word of the header Content-Type.
ASSUME BoundaryAssumption ==
    /\ Boundary \in Seq(Byte) /\ Boundary # <<>>
    /\ \A i \in 1..Len(Boundary) : Boundary[i] \notin {CR, LF}

ASSUME BodyAssumption ==
    /\ {CR, LF, "-"} \subseteq Byte
    /\ Openings \cup Headers \cup DataChunks \subseteq Seq(Byte)
    /\ Null \notin Seq(Byte) /\ Null \notin {"f", "g"}

Delimiter == <<CR, LF>> \o Boundary

VARIABLES
    coming,     \* bytes under way
    budget,     \* chunks and delimiters that may still be sent
    text,       \* the bytes read
    verdict,    \* called, reading, accepted, rejected or crashed
    state, index, mark, lookbehind,     \* the parser; positions count from 1
    headerName, fieldName, fileName, fileType, content,   \* the callbacks' state
    form, files,    \* the parts that were read, by field name
    origin,     \* history: where the data of the part begins
    given,      \* history: the header lines of the part
    parts       \* history: the parts read

parser   == <<state, index, mark, lookbehind>>
part     == <<headerName, fieldName, fileName, fileType, content, given>>
tables   == <<form, files, parts>>
vars     == <<coming, budget, text, verdict, parser, part, tables, origin>>

Init ==
    /\ coming = <<>>
    /\ budget = [chunks |-> MaxData, parts |-> MaxParts]
    /\ text = <<>>
    /\ verdict = "called"
    /\ state = "start" /\ index = 0 /\ mark = 1 /\ lookbehind = <<>>
    /\ headerName = Null /\ fieldName = Null /\ fileName = Null
    /\ fileType = Null /\ content = Null
    /\ form = <<>> /\ files = <<>>
    /\ origin = 0 /\ given = <<>> /\ parts = <<>>

\* balde_multipart_parse: a header with no boundary makes it NULL and nothing is
\* read; the body of a request that has none is NULL and its length is read all the
\* same; of an empty body there is nothing to read.
Call(boundary, body) ==
    /\ verdict = "called"
    /\ \/ boundary = Null /\ verdict' = "rejected"
       \/ boundary # Null /\ body = "none" /\ verdict' = "crashed"
       \/ boundary # Null /\ body = "empty" /\ verdict' = "accepted"
       \/ boundary # Null /\ body = "bytes" /\ verdict' = "reading"
    /\ UNCHANGED <<coming, budget, text, parser, part, tables, origin>>

-----------------------------------------------------------------------------
(* The body: the web server hands over what a client sent, which may end at *)
(* any byte.                                                                *)

InData == state \in {"part_data_start", "part_data", "part_data_almost_boundary",
                     "part_data_boundary"}
AfterData == state \in {"part_data_almost_end", "part_data_end",
                        "part_data_final_hyphen", "end"}

Send ==
    /\ verdict = "reading"
    /\ coming = <<>>
    /\ \/ state = "start" /\ coming' \in Openings /\ UNCHANGED budget
       \/ state = "header_field_start" /\ coming' \in Headers /\ UNCHANGED budget
       \/ /\ InData \/ AfterData
          /\ budget.chunks > 0
          /\ coming' \in DataChunks
          /\ budget' = [budget EXCEPT !.chunks = @ - 1]
       \/ /\ InData
          /\ budget.parts > 0
          /\ coming' \in {Delimiter \o <<CR, LF>>, Delimiter \o <<"-", "-">>}
          /\ budget' = [budget EXCEPT !.parts = @ - 1]
    /\ UNCHANGED <<text, verdict, parser, part, tables, origin>>

-----------------------------------------------------------------------------
(* The parser, multipart_parser_execute *)

At == Len(text) + 1

\* The parser takes the byte c, the last of the body or not; or it turns the
\* body down, and balde_multipart_parse destroys the tables.
Takes(c, last) ==
    /\ text' = Append(text, c)
    /\ verdict' = IF last THEN "accepted" ELSE "reading"
Rejects(c) ==
    /\ text' = Append(text, c)
    /\ verdict' = "rejected"
    /\ form' = <<>> /\ files' = <<>>
    /\ UNCHANGED <<parser, part, parts, origin>>

\* read_part_data_begin
BeginPart == content' = <<>> /\ given' = <<>>

StartBoundary(c, last) ==
    LET i == IF state = "start" THEN 0 ELSE index
        matches == c = (Boundary \o <<CR, LF>>)[i + 1]
    IN
    /\ state \in {"start", "start_boundary"}
    /\ \/ /\ matches /\ i <= Len(Boundary)
          /\ Takes(c, last)
          /\ state' = "start_boundary" /\ index' = i + 1
          /\ UNCHANGED <<mark, lookbehind, part, tables, origin>>
       \/ /\ matches /\ i = Len(Boundary) + 1
          /\ Takes(c, last)
          /\ BeginPart
          /\ state' = "header_field_start" /\ index' = 0
          /\ UNCHANGED <<mark, lookbehind, headerName, fieldName, fileName,
                         fileType, tables, origin>>
       \/ ~matches /\ Rejects(c)

HeaderField(c, last) ==
    LET from == IF state = "header_field_start" THEN At ELSE mark
    IN
    /\ state \in {"header_field_start", "header_field"}
    /\ \/ /\ c \in Letters \cup {"-", CR, ":"}
          /\ Takes(c, last)
          /\ mark' = from
          /\ state' = CASE c = CR  -> "headers_almost_done"
                        [] c = ":" -> "header_value_start"
                        [] OTHER   -> "header_field"
          /\ headerName' = IF c = ":" THEN SubSeq(text, from, Len(text))
                           ELSE headerName                \* read_header_name
          /\ UNCHANGED <<index, lookbehind, fieldName, fileName, fileType,
                         content, given, tables, origin>>
       \/ /\ c \notin Letters \cup {"-", CR, ":"}
          /\ Rejects(c)

\* The two states that want a line feed in the headers.
HeaderLineFeed(c, last) ==
    /\ state \in {"headers_almost_done", "header_value_almost_done"}
    /\ \/ /\ c = LF
          /\ Takes(c, last)
          /\ state' = IF state = "headers_almost_done" THEN "part_data_start"
                      ELSE "header_field_start"
          /\ UNCHANGED <<index, mark, lookbehind, part, tables, origin>>
       \/ c # LF /\ Rejects(c)

Name(value)     == IF value \in {<<"f">>, <<"g">>} THEN "f" ELSE Null
FileName(value) == IF value = <<"g">> THEN "g" ELSE Null
Or(new, old)    == IF new = Null THEN old ELSE new

\* read_header_value
GiveValue(value) ==
    /\ fileType' = IF headerName = <<"t">> THEN value ELSE fileType
    /\ fieldName' = IF headerName = <<"n">> THEN Or(Name(value), fieldName)
                    ELSE fieldName
    /\ fileName' = IF headerName = <<"n">> THEN Or(FileName(value), fileName)
                   ELSE fileName
    /\ given' = Append(given, [name |-> headerName, value |-> value])
    /\ headerName' = Null

\* The value that ends with the last byte of the body is given twice, and the
\* second call fails.
HeaderValue(c, last) ==
    LET from == IF state = "header_value_start" THEN At ELSE mark
    IN
    /\ state \in {"header_value_start", "header_value"}
    /\ \/ /\ c = " " /\ state = "header_value_start"
          /\ Takes(c, last)
          /\ UNCHANGED <<parser, part, tables, origin>>
       \/ /\ c = CR /\ ~last
          /\ Takes(c, last)
          /\ GiveValue(SubSeq(text, from, Len(text)))
          /\ state' = "header_value_almost_done" /\ mark' = from
          /\ UNCHANGED <<index, lookbehind, content, tables, origin>>
       \/ c = CR /\ last /\ Rejects(c)
       \/ /\ c # CR /\ (c = " " => state = "header_value")
          /\ Takes(c, last)
          /\ state' = "header_value" /\ mark' = from
          /\ UNCHANGED <<index, lookbehind, part, tables, origin>>

\* The state s_part_data reads c, when the data so far is in the content up to
\* the position from (read_part_data).
DataByte(c, last, before, from) ==
    /\ Takes(c, last)
    /\ content' =
          IF c = CR THEN before \o SubSeq(text, from, Len(text))
          ELSE IF last THEN before \o SubSeq(Append(text, c), from, At)
          ELSE before
    /\ mark' = IF c = CR THEN At ELSE from
    /\ state' = IF c = CR THEN "part_data_almost_boundary" ELSE "part_data"
    /\ lookbehind' = IF c = CR THEN <<CR>> ELSE lookbehind
    /\ UNCHANGED <<index, headerName, fieldName, fileName, fileType, given, tables>>

Data(c, last) ==
    /\ state \in {"part_data_start", "part_data"}
    /\ DataByte(c, last, content,
                IF state = "part_data_start" THEN At ELSE mark)
    /\ origin' = IF state = "part_data_start" THEN At ELSE origin

\* Mutant: the carriage return that was looked behind is not given back.
AlmostBoundaryForgets(c, last) ==
    /\ state = "part_data_almost_boundary"
    /\ \/ /\ c = LF
          /\ Takes(c, last)
          /\ state' = "part_data_boundary" /\ lookbehind' = <<CR, LF>> /\ index' = 0
          /\ UNCHANGED <<mark, part, tables, origin>>
       \/ /\ c # LF
          /\ DataByte(c, last, content, At)
          /\ UNCHANGED origin

AlmostBoundary(c, last) ==
    /\ state = "part_data_almost_boundary"
    /\ \/ /\ c = LF
          /\ Takes(c, last)
          /\ state' = "part_data_boundary" /\ lookbehind' = <<CR, LF>> /\ index' = 0
          /\ UNCHANGED <<mark, part, tables, origin>>
       \/ /\ c # LF
          /\ DataByte(c, last, content \o <<CR>>, At)
          /\ UNCHANGED origin

\* Mutant: the file name and the type are not reset with the field name.
EndPartKeepsNames ==
    LET isFile == fileName # Null /\ fileType # Null
        file   == [name |-> fileName, type |-> fileType, content |-> content]
    IN
    /\ IF isFile THEN files' = [n \in {fieldName} |-> file] /\ UNCHANGED form
       ELSE form' = [n \in {fieldName} |-> content] /\ UNCHANGED files
    /\ parts' = Append(parts, [from |-> origin, to |-> At, given |-> given,
                               field |-> fieldName, file |-> isFile])
    /\ fieldName' = Null /\ content' = Null
    /\ UNCHANGED <<headerName, fileName, fileType, given>>

\* Mutant: a name that is in the table keeps its first content.
EndPartKeepsFirst ==
    LET isFile == fileName # Null /\ fileType # Null
        file   == [name |-> fileName, type |-> fileType, content |-> content]
    IN
    /\ IF isFile THEN files' = [n \in {fieldName} |-> file] /\ UNCHANGED form
       ELSE form' = (IF fieldName \in DOMAIN form THEN form
                     ELSE [n \in {fieldName} |-> content]) /\ UNCHANGED files
    /\ parts' = Append(parts, [from |-> origin, to |-> At, given |-> given,
                               field |-> fieldName, file |-> isFile])
    /\ fieldName' = Null /\ fileName' = Null /\ fileType' = Null
    /\ content' = Null
    /\ UNCHANGED <<headerName, given>>

\* read_part_data_end
EndPart ==
    LET isFile == fileName # Null /\ fileType # Null
        file   == [name |-> fileName, type |-> fileType, content |-> content]
    IN
    /\ IF isFile
       THEN files' = [n \in DOMAIN files \cup {fieldName} |->
                        IF n = fieldName THEN file ELSE files[n]]
            /\ UNCHANGED form
       ELSE form' = [n \in DOMAIN form \cup {fieldName} |->
                        IF n = fieldName THEN content ELSE form[n]]
            /\ UNCHANGED files
    /\ parts' = Append(parts, [from |-> origin, to |-> At, given |-> given,
                               field |-> fieldName, file |-> isFile])
    /\ fieldName' = Null /\ fileName' = Null /\ fileType' = Null
    /\ content' = Null
    /\ UNCHANGED <<headerName, given>>

DataBoundary(c, last) ==
    LET matches == c = Boundary[index + 1]
        whole   == index + 1 = Len(Boundary)
    IN
    /\ state = "part_data_boundary"
    /\ \/ /\ ~matches
          /\ DataByte(c, last, content \o lookbehind, At)
          /\ UNCHANGED origin
       \/ /\ matches /\ ~whole
          /\ Takes(c, last)
          /\ lookbehind' = Append(lookbehind, c) /\ index' = index + 1
          /\ UNCHANGED <<state, mark, part, tables, origin>>
       \/ /\ matches /\ whole /\ fieldName # Null
          /\ Takes(c, last)
          /\ EndPart
          /\ lookbehind' = Append(lookbehind, c) /\ index' = index + 1
          /\ state' = "part_data_almost_end"
          /\ UNCHANGED <<mark, origin>>
       \/ matches /\ whole /\ fieldName = Null /\ Rejects(c)

\* After the boundary: -- ends the body, whatever follows; CR LF begins a part.
AfterBoundary(c, last) ==
    LET next == CASE state = "part_data_almost_end" /\ c = "-" -> "part_data_final_hyphen"
                  [] state = "part_data_almost_end" /\ c = CR -> "part_data_end"
                  [] state = "part_data_final_hyphen" /\ c = "-" -> "end"
                  [] state = "part_data_end" /\ c = LF -> "header_field_start"
                  [] state = "end" -> "end"
                  [] OTHER -> "none"
    IN
    /\ AfterData
    /\ \/ /\ next # "none"
          /\ Takes(c, last)
          /\ state' = next
          /\ IF state = "part_data_end" THEN BeginPart ELSE UNCHANGED <<content, given>>
          /\ UNCHANGED <<index, mark, lookbehind, headerName, fieldName, fileName,
                         fileType, tables, origin>>
       \/ next = "none" /\ Rejects(c)

Read(c, last) ==
    \/ StartBoundary(c, last) \/ HeaderField(c, last) \/ HeaderLineFeed(c, last)
    \/ HeaderValue(c, last) \/ Data(c, last) \/ AlmostBoundary(c, last)
    \/ DataBoundary(c, last) \/ AfterBoundary(c, last)

Next ==
    \/ \E boundary \in {Boundary, Null}, body \in {"none", "empty", "bytes"} :
            Call(boundary, body)
    \/ Send
    \/ /\ verdict = "reading"
       /\ coming # <<>>
       /\ coming' = Tail(coming)
       /\ \E last \in BOOLEAN : Read(Head(coming), last)
       /\ UNCHANGED budget

Spec == Init /\ [][Next]_vars

-----------------------------------------------------------------------------
(* Properties *)

Between(from, to) == SubSeq(text, from, to)
HasDelimiter(from, to) ==
    \E i \in from..(to - Len(Delimiter) + 1) :
        Between(i, i + Len(Delimiter) - 1) = Delimiter

\* What was read of the data and is not in the content yet.
Pending ==
    CASE state = "part_data" -> Between(mark, Len(text))
      [] state = "part_data_almost_boundary" -> <<CR>>
      [] state = "part_data_boundary" -> lookbehind
      [] OTHER -> <<>>

\* The part p ends with the first delimiter after it began; its bytes are those
\* before the delimiter.
Bytes(p) == Between(p.from, p.to - Len(Delimiter))

\* Nothing of the data is lost, doubled or reordered when what looked like a
\* boundary was none: the content and what is pending are the bytes read since
\* the part began, no delimiter among them was overlooked, and every part read
\* so far ended with the first delimiter behind its beginning
\* (multipart_parser_execute, s_part_data to s_part_data_boundary).
DataExact ==
    /\ verdict = "reading" /\ InData /\ state # "part_data_start" =>
        /\ content \o Pending = Between(origin, Len(text))
        /\ ~HasDelimiter(origin, Len(text))
    /\ \A n \in DOMAIN parts :
        LET p == parts[n] IN
        /\ Between(p.to - Len(Delimiter) + 1, p.to) = Delimiter
        /\ ~HasDelimiter(p.from, p.to - 1)

\* A part is filed under the name its own header lines give it, as a file only
\* if they give a file name and a type (read_header_value, read_part_data_end).
OwnHeaders ==
    \A n \in DOMAIN parts :
        LET p == parts[n]
            Gives(h, v) == \E j \in DOMAIN p.given :
                            p.given[j].name = h /\ p.given[j].value \in v
            hasType == \E j \in DOMAIN p.given : p.given[j].name = <<"t">>
        IN  /\ p.field = "f" /\ Gives(<<"n">>, {<<"f">>, <<"g">>})
            /\ p.file <=> Gives(<<"n">>, {<<"g">>}) /\ hasType

\* The tables of a body that was not turned down have the bytes of the last
\* part of each name and kind, and nothing else (balde_multipart_parse).
TablesExact ==
    verdict # "rejected" =>
        LET Of(n, isFile) == {k \in DOMAIN parts : parts[k].field = n
                                                  /\ parts[k].file = isFile}
            IsLast(k, K)  == k \in K /\ \A j \in K : j <= k
        IN  /\ DOMAIN form = {parts[k].field : k \in {j \in DOMAIN parts : ~parts[j].file}}
            /\ DOMAIN files = {parts[k].field : k \in {j \in DOMAIN parts : parts[j].file}}
            /\ \A n \in DOMAIN form : \A k \in Of(n, FALSE) :
                IsLast(k, Of(n, FALSE)) => form[n] = Bytes(parts[k])
            /\ \A n \in DOMAIN files : \A k \in Of(n, TRUE) :
                IsLast(k, Of(n, TRUE)) => files[n].content = Bytes(parts[k])
=============================================================================
