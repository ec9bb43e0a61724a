------------------------------ MODULE Template ------------------------------
(***************************************************************************)
(* balde-template-gen (src/src/template): a template and the files it      *)
(* includes are parsed, one after the other, to blocks; the blocks become  *)
(* the body of a C function; the function, run with the variables of a     *)
(* response, gives the text of a page.                                     *)
(*                                                                         *)
(* A file is a sequence of items, what the grammar can read there:         *)
(*   [kind |-> "text", text], a sequence of blanks and letters,            *)
(*   [kind, arg, open, close] for a tag: "import", "include", "if",        *)
(*       "else", "endif"; open and close tell whether it has a "-" there,  *)
(*   [kind, arg] for "var" and "call", which have none, and for what fits  *)
(*   no rule of the grammar: [kind, tag] for "begun" and "rest", the two   *)
(*   pieces of a tag or of a print, and [kind |-> "wrong"].                *)
(* Two texts do not follow each other.  A file is named by the directories *)
(* and the name of its path.                                               *)
(***************************************************************************)
EXTENDS SequencesExt

CONSTANTS
    Sources,    \* what may be on the disk: functions from names to files
    Main,       \* the template the generator was called with
    Variables   \* the variables a response may have

Tags == {"import", "include", "if", "else", "endif"}
Unreadable == {"begun", "rest", "wrong"}

\* A disk has finitely many files, sequences of items, the template among
\* them, a text has nothing but its characters, and a piece is of a tag.
IsSeq(s) == s \in Seq(ToSet(s))
ASSUME SourcesAssumption ==
    \A disk \in Sources :
        /\ IsFiniteSet(DOMAIN disk) /\ Main \in DOMAIN disk
        /\ \A f \in DOMAIN disk :
            /\ IsSeq(disk[f])
            /\ \A item \in ToSet(disk[f]) :
                /\ item.kind = "text" => item = [kind |-> "text", text |-> item.text]
                /\ item.kind \in {"begun", "rest"} => item.tag.kind \in Tags \cup {"var", "call"}

VARIABLES
    sources,
    stack,          \* frames of balde_template_build_state, the last one on top:
                    \* [file, items (left to parse), blocks (left to build)]
    nodes,          \* the blocks parsed of the file on top
    ifCount, cleanNext,
    buffer,         \* what yyparse could not read and keeps: items of one line
    leftover,       \* history: TRUE once the buffer was not empty
    body, includes, imports,    \* balde_template_state_t
    status          \* "parse", "build", "done", or "error" after g_error

vars == <<sources, stack, nodes, ifCount, cleanNext, buffer, leftover, body,
          includes, imports, status>>

-----------------------------------------------------------------------------
\* g_strchug and g_strchomp
Letters(t) == {i \in DOMAIN t : t[i] \notin {" ", "\n"}}
Chug(t) ==
    IF Letters(t) = {} THEN <<>>
    ELSE SubSeq(t, CHOOSE i \in Letters(t) : \A j \in Letters(t) : i <= j, Len(t))
Chomp(t) ==
    IF Letters(t) = {} THEN <<>>
    ELSE SubSeq(t, 1, CHOOSE i \in Letters(t) : \A j \in Letters(t) : i >= j)

\* balde_template_clean_whitespace_prev: the last text there is.
CleanPrev(blocks) ==
    LET Texts == {i \in DOMAIN blocks : blocks[i].kind = "text"} IN
    IF Texts = {} THEN blocks
    ELSE [blocks EXCEPT ![CHOOSE i \in Texts : \A j \in Texts : i >= j].text = Chomp(@)]

\* g_path_get_dirname and g_build_filename
PathOf(file, name) == Front(file) \o name

Top == stack[Len(stack)]

\* A file is read; what the parser's buffer has comes before it.
Frame(file) == [file |-> file, items |-> sources[file], blocks |-> <<>>]

Init ==
    /\ sources \in Sources
    /\ stack = <<Frame(Main)>>
    /\ nodes = <<>> /\ ifCount = 0 /\ cleanNext = FALSE
    /\ buffer = <<>> /\ leftover = FALSE
    /\ body = <<>> /\ includes = <<>> /\ imports = <<>>
    /\ status = "parse"

-----------------------------------------------------------------------------
(* balde_template_parse: yyparse until it fails.                           *)

Parsing == status = "parse" /\ Top.items # <<>> /\ buffer = <<>>
Item == Head(Top.items)
Read == stack' = [stack EXCEPT ![Len(stack)].items = Tail(@)]
Same == UNCHANGED <<sources, buffer, leftover, body, includes, imports>>

\* balde_template_content_block
ParseText ==
    /\ Parsing /\ Item.kind = "text"
    /\ nodes' = Append(nodes, IF cleanNext THEN [Item EXCEPT !.text = Chug(@)] ELSE Item)
    /\ cleanNext' = FALSE
    /\ Read /\ Same /\ UNCHANGED <<ifCount, status>>

\* Mutant: an "endif" is not counted.
ParseTagUncounted ==
    /\ Parsing /\ Item.kind \in Tags
    /\ cleanNext' = (cleanNext \/ Item.close)
    /\ IF Item.kind \in {"else", "endif"} /\ ifCount <= 0
       THEN status' = "error" /\ UNCHANGED <<nodes, ifCount>>
       ELSE /\ nodes' = Append(IF Item.open THEN CleanPrev(nodes) ELSE nodes, Item)
            /\ ifCount' = IF Item.kind = "if" THEN ifCount + 1 ELSE ifCount
            /\ UNCHANGED status
    /\ Read /\ Same

\* Mutant: a "-" at the end cleans what is before the tag.
ParseTagCleaning ==
    /\ Parsing /\ Item.kind \in Tags
    /\ IF Item.kind \in {"else", "endif"} /\ ifCount <= 0
       THEN status' = "error" /\ UNCHANGED <<nodes, ifCount>>
       ELSE /\ nodes' = Append(IF Item.close THEN CleanPrev(nodes) ELSE nodes, Item)
            /\ ifCount' = CASE Item.kind = "if" -> ifCount + 1
                            [] Item.kind = "endif" -> ifCount - 1
                            [] OTHER -> ifCount
            /\ UNCHANGED status
    /\ Read /\ Same /\ UNCHANGED cleanNext

\* The actions of a tag, in the order of the grammar: the "-" in front, the
\* one behind, the block.  An "else" or an "endif" needs an open "if".
ParseTag ==
    /\ Parsing /\ Item.kind \in Tags
    /\ cleanNext' = (cleanNext \/ Item.close)
    /\ IF Item.kind \in {"else", "endif"} /\ ifCount <= 0
       THEN status' = "error" /\ UNCHANGED <<nodes, ifCount>>
       ELSE /\ nodes' = Append(IF Item.open THEN CleanPrev(nodes) ELSE nodes, Item)
            /\ ifCount' = CASE Item.kind = "if" -> ifCount + 1
                            [] Item.kind = "endif" -> ifCount - 1
                            [] OTHER -> ifCount
            /\ UNCHANGED status
    /\ Read /\ Same

\* print_call
ParsePrint ==
    /\ Parsing /\ Item.kind \in {"var", "call"}
    /\ nodes' = Append(nodes, Item)
    /\ Read /\ Same /\ UNCHANGED <<ifCount, cleanNext, status>>

HasNewline(items) ==
    \E i \in DOMAIN items : items[i].kind = "text" /\ "\n" \in ToSet(items[i].text)

\* The pieces of a tag make one, also of two files: the rest of it is the
\* first that is read when the buffer has the beginning.
Completes == buffer = <<[kind |-> "begun", tag |-> Item.tag]>>
ParseRest ==
    /\ status = "parse" /\ Top.items # <<>>
    /\ Item.kind = "rest" /\ Completes
    /\ stack' = [stack EXCEPT ![Len(stack)].items = <<Item.tag>> \o Tail(@)]
    /\ buffer' = <<>>
    /\ UNCHANGED <<sources, nodes, ifCount, cleanNext, leftover, body, includes,
                   imports, status>>

\* The rule "anything" needs the end of a line.  Without one yyparse fails,
\* which ends the loop, and the line stays in the buffer of the parser.
ParseWrong ==
    /\ status = "parse" /\ Top.items # <<>>
    /\ IF buffer = <<>> THEN Item.kind \in Unreadable
       ELSE ~(Item.kind = "rest" /\ Completes)
    /\ IF HasNewline(Top.items)
       THEN status' = "error" /\ UNCHANGED <<buffer, leftover, stack>>
       ELSE /\ buffer' = buffer \o Top.items /\ leftover' = TRUE
            /\ stack' = [stack EXCEPT ![Len(stack)].items = <<>>]
            /\ UNCHANGED status
    /\ UNCHANGED <<sources, nodes, ifCount, cleanNext, body, includes, imports>>

\* The end of the file: every "if" must be closed in it.
ParseEnd ==
    /\ status = "parse" /\ Top.items = <<>>
    /\ IF ifCount # 0 THEN status' = "error" /\ UNCHANGED stack
       ELSE /\ status' = "build"
            /\ stack' = [stack EXCEPT ![Len(stack)].blocks = nodes]
    /\ nodes' = <<>>
    /\ Same /\ UNCHANGED <<ifCount, cleanNext>>

-----------------------------------------------------------------------------
(* balde_template_build_state: a block of the file on top.                 *)

Building == status = "build" /\ Top.blocks # <<>>
Block == Head(Top.blocks)
Built == [stack EXCEPT ![Len(stack)].blocks = Tail(@)]

BuildImport ==
    /\ Building /\ Block.kind = "import"
    /\ imports' = Append(imports, Block.arg)
    /\ stack' = Built
    /\ UNCHANGED <<sources, nodes, ifCount, cleanNext, buffer, leftover, body, includes, status>>

\* Mutant: the path is taken from the template, not from the including file.
BuildIncludeFromMain ==
    /\ Building /\ Block.kind = "include"
    /\ LET file == PathOf(Main, Block.arg) IN
        /\ includes' = Append(includes, file)
        /\ IF file \in DOMAIN sources
           THEN stack' = Append(Built, Frame(file)) /\ status' = "parse"
           ELSE status' = "error" /\ UNCHANGED stack
    /\ UNCHANGED <<sources, nodes, ifCount, cleanNext, buffer, leftover, body, imports>>

\* The included file is built before the next block; one that cannot be
\* read is an error.
BuildInclude ==
    /\ Building /\ Block.kind = "include"
    /\ LET file == PathOf(Top.file, Block.arg) IN
        /\ includes' = Append(includes, file)
        /\ IF file \in DOMAIN sources
           THEN stack' = Append(Built, Frame(file)) /\ status' = "parse"
           ELSE status' = "error" /\ UNCHANGED stack
    /\ UNCHANGED <<sources, nodes, ifCount, cleanNext, buffer, leftover, body, imports>>

\* The other blocks become statements.
BuildStatement ==
    /\ Building /\ Block.kind \notin {"import", "include"}
    /\ body' = Append(body, Block)
    /\ stack' = Built
    /\ UNCHANGED <<sources, nodes, ifCount, cleanNext, buffer, leftover, includes, imports, status>>

BuildReturn ==
    /\ status = "build" /\ Top.blocks = <<>>
    /\ IF Len(stack) = 1 THEN status' = "done" /\ UNCHANGED stack
       ELSE stack' = Front(stack) /\ UNCHANGED status
    /\ UNCHANGED <<sources, nodes, ifCount, cleanNext, buffer, leftover, body, includes, imports>>

\* balde_template_generate_dependencies
Dependencies == <<Main>> \o includes

Next ==
    \/ ParseText \/ ParseTag \/ ParsePrint \/ ParseRest \/ ParseWrong \/ ParseEnd
    \/ BuildImport \/ BuildInclude \/ BuildStatement \/ BuildReturn

Spec == Init /\ [][Next]_vars

-----------------------------------------------------------------------------
(* The generated function, run when the variables set are those of V: C    *)
(* has a condition for every open block.                                   *)

Flip(s) == Append(Front(s), ~Last(s))

Printed(statement, V) ==
    CASE statement.kind = "text" -> statement.text
      [] statement.kind = "var" -> IF statement.arg \in V THEN <<statement.arg>> ELSE <<>>
      [] OTHER -> <<statement.arg>>

Execute(state, statement, V) ==
    LET conditions == state.conditions IN
    CASE statement.kind = "if" ->
            [state EXCEPT !.conditions = Append(conditions, statement.arg \in V)]
      [] statement.kind = "else" -> [state EXCEPT !.conditions = Flip(conditions)]
      [] statement.kind = "endif" -> [state EXCEPT !.conditions = Front(conditions)]
      [] OTHER -> IF FALSE \in ToSet(conditions) THEN state
                  ELSE [state EXCEPT !.rv = @ \o Printed(statement, V)]

Run(V) ==
    FoldLeft(LAMBDA state, statement : Execute(state, statement, V),
             [conditions |-> <<>>, rv |-> <<>>], body).rv

-----------------------------------------------------------------------------
(* What a template means, said without a parser.                           *)

IsTag(item) == item.kind \in Tags

\* A text without the blanks next to a tag with a "-" on that side.
Trimmed(items, i) ==
    LET t == IF i > 1 /\ IsTag(items[i - 1]) /\ items[i - 1].close
             THEN Chug(items[i].text) ELSE items[i].text
    IN IF i < Len(items) /\ IsTag(items[i + 1]) /\ items[i + 1].open
       THEN Chomp(t) ELSE t

Depth == 0..Cardinality(DOMAIN sources)

\* A file with everything it includes in its place; a file that is missing or
\* includes itself has no meaning, and is not asked for.
Expanded[d \in Depth, f \in DOMAIN sources] ==
    IF d = 0 THEN <<>>
    ELSE FlattenSeq([i \in DOMAIN sources[f] |->
        LET item == sources[f][i] IN
        CASE item.kind = "text" -> <<[item EXCEPT !.text = Trimmed(sources[f], i)]>>
          [] item.kind = "include" -> Expanded[d - 1, PathOf(f, item.arg)]
          [] item.kind = "import" -> <<>>
          [] OTHER -> <<item>>])

Whole == Expanded[Cardinality(DOMAIN sources), Main]

Count(s, kind, i, j) == Cardinality({k \in i..j : s[k].kind = kind})
\* How many of the "if" blocks that begin from i on are open at j.
Balance(s, i, j) == Count(s, "if", i, j) - Count(s, "endif", i, j)
Encloses(s, i, j) == s[i].kind = "if" /\ i < j /\ \A k \in i..j : Balance(s, i, k) > 0
ElseOf(s, i, e) == Encloses(s, i, e) /\ s[e].kind = "else" /\ Balance(s, i, e) = 1
OneElse(s) == \A i, e, f \in DOMAIN s : ElseOf(s, i, e) /\ ElseOf(s, i, f) => e = f

\* An item is shown if every "if" around it has its condition, in its first
\* half, or has not, in the second.
Shown(s, j, V) ==
    \A i \in 1..(j - 1) : Encloses(s, i, j) =>
        (s[i].arg \in V) = (\A e \in 1..(j - 1) : ~ElseOf(s, i, e))

Meaning(s, V) ==
    FlattenSeq([j \in DOMAIN s |->
        IF s[j].kind \in Tags \/ ~Shown(s, j, V) THEN <<>> ELSE Printed(s[j], V)])

Reached[d \in Depth] ==
    IF d = 0 THEN {Main}
    ELSE Reached[d - 1] \cup
         UNION {{PathOf(f, sources[f][i].arg) :
                    i \in {k \in DOMAIN sources[f] : sources[f][k].kind = "include"}} :
                f \in Reached[d - 1] \cap DOMAIN sources}

WellFormed(f) ==
    /\ f \in DOMAIN sources
    /\ LET s == sources[f] IN
        /\ \A i \in DOMAIN s :
            /\ s[i].kind \notin Unreadable /\ Balance(s, 1, i) >= 0
            /\ s[i].kind = "else" => Balance(s, 1, i) > 0
        /\ Balance(s, 1, Len(s)) = 0

\* Every "-" is next to a text of its file.
DashesAtText(f) ==
    LET s == sources[f] IN
    \A i \in DOMAIN s : IsTag(s[i]) =>
        /\ s[i].open => i > 1 /\ s[i - 1].kind = "text"
        /\ s[i].close => i < Len(s) /\ s[i + 1].kind = "text"

-----------------------------------------------------------------------------
(* Properties.                                                             *)

Ink(t) == SelectSeq(t, LAMBDA c : c \notin {" ", "\n"})

(* Whatever variables are set, the generated function prints the text the  *)
(* template means, with the files it includes, blank for blank where every *)
(* "-" is next to a text of its file.  (A "-" that is not cleans a text    *)
(* further off: before another tag, or of the next file parsed.)           *)
TextExact ==
    status = "done" /\ ~leftover =>
        \E s \in {Whole} : OneElse(s) =>
            \A V \in SUBSET Variables :
                IF \A f \in Reached[Cardinality(DOMAIN sources)] : DashesAtText(f)
                THEN Run(V) = Meaning(s, V)
                ELSE Ink(Run(V)) = Ink(Meaning(s, V))

(* The generator ends with an error only if one of the files it read is    *)
(* wrong, and without one only if all are well formed, or the line that is *)
(* not is the last one of what was read, and has no end.                   *)
SyntaxChecked ==
    LET Files == ToSet(Dependencies) IN
    /\ status = "error" => \E f \in Files : ~WellFormed(f)
    /\ status = "done" => leftover \/ \A f \in Files : WellFormed(f)

(* The dependencies that are listed are the files the template is made of, *)
(* those in a branch that may never be taken among them: a build that      *)
(* follows them never leaves a stale page.                                 *)
DependenciesComplete ==
    status = "done" /\ ~leftover =>
        ToSet(Dependencies) = Reached[Cardinality(DOMAIN sources)]
=============================================================================
