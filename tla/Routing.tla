------------------------------ MODULE Routing ------------------------------
(***************************************************************************)
(* URL rules of balde (src/src/routing.c, url_for in src/src/app.c).       *)
(*                                                                         *)
(* A rule is written as a text with variables; here it is given as the     *)
(* texts between the variables, one more than there are variables, and the *)
(* variables, each with its converter and its name:                        *)
(*   [endpoint, methods, texts : Seq(text), vars : Seq([conv, name])]      *)
(* A view holds a rule that was accepted, with the methods it answers.     *)
(***************************************************************************)
EXTENDS WebText

Methods == {"OPTIONS", "GET", "HEAD", "POST", "PUT", "PATCH", "DELETE"}

\* balde_http_method_str2enum
MethodOf(name) == IF name \in Methods THEN name ELSE "NONE"

Indexes(s, Test(_)) == {i \in DOMAIN s : Test(s[i])}
Least(S) == CHOOSE i \in S : \A j \in S : i <= j

-----------------------------------------------------------------------------
(* balde_parse_url_rule.                                                   *)

\* The variables with a converter the callback knows, up to the first other
\* one, where it stops.
Known(rule) ==
    LET Others == Indexes(rule.vars, LAMBDA v : v.conv \notin {"", "path"})
    IN IF Others = {} THEN Len(rule.vars) ELSE Least(Others) - 1

\* The names the view will be given: the callback has taken the name before
\* it looks at the converter.
Args(rule) ==
    [i \in 1..(IF Known(rule) < Len(rule.vars) THEN Known(rule) + 1 ELSE Known(rule))
        |-> rule.vars[i].name]

\* Two variables of the expression with one name: it does not compile.
Refused(rule) ==
    \E i, j \in 1..Known(rule) : i # j /\ rule.vars[i].name = rule.vars[j].name

\* The literal texts of the expression.  The first unknown variable is
\* dropped, and those behind it are taken literally ("<").
PatternTexts(rule) ==
    LET k == Known(rule)
        Rest == {i \in DOMAIN rule.texts : i > k + 1}
    IN [i \in 1..(k + 1) |->
          IF i <= k \/ Rest = {} THEN rule.texts[i]
          ELSE FoldLeft(LAMBDA t, j :
                          t \o (IF j = k + 2 THEN <<>> ELSE <<"<">>) \o rule.texts[j],
                        rule.texts[i], [n \in 1..Cardinality(Rest) |-> k + 1 + n])]

\* g_regex_escape_string: what url_for will use as the texts of the rule.
Pieces(rule) ==
    [i \in DOMAIN rule.texts |->
        FlattenSeq([j \in DOMAIN rule.texts[i] |->
            IF rule.texts[i][j] \in {".", "+", "\\"}
            THEN <<"\\", rule.texts[i][j]>> ELSE <<rule.texts[i][j]>>])]

\* balde_app_add_url_rule: the methods a view answers.
Answers(rule) ==
    rule.methods \cup {"OPTIONS"}
                 \cup (IF "GET" \in rule.methods THEN {"HEAD"} ELSE {})

\* balde_list_allowed_methods, for the header Allow.
AllowedMethods(methods) ==
    SelectSeq(<<"OPTIONS", "DELETE", "GET", "HEAD", "POST", "PUT", "PATCH">>,
              LAMBDA m : m \in methods)

-----------------------------------------------------------------------------
(* balde_url_match and balde_dispatch_from_path.                           *)

\* Texts and values in turn.
Fill(texts, values) ==
    FoldLeft(LAMBDA t, i : t \o values[i] \o texts[i + 1],
             texts[1], [i \in 1..(Len(texts) - 1) |-> i])

\* What the expression of a variable accepts: [^/]+ or [^/].*?
Accepts(conv, value) ==
    /\ value # <<>>
    /\ IF conv = "path" THEN Head(value) # "/" ELSE ~Contains(value, "/")

Parts(path) == {SubSeq(path, i, j) : i, j \in DOMAIN path}

\* The ways to match the whole path, none unless it begins as the rule does.
Matches(rule, path) ==
    IF ~IsPrefix(PatternTexts(rule)[1], path) THEN {}
    ELSE {values \in [1..Known(rule) -> Parts(path)] :
            /\ \A i \in DOMAIN values : Accepts(rule.vars[i].conv, values[i])
            /\ path = Fill(PatternTexts(rule), values)}

\* Of two ways to match the expression takes the one that gives the first
\* variable in which they differ more, or, for a path, less.
Preferred(rule, values, others) ==
    values = others \/
    LET i == Least({j \in DOMAIN values : values[j] # others[j]})
    IN IF rule.vars[i].conv = "path" THEN Len(values[i]) < Len(others[i])
       ELSE Len(values[i]) > Len(others[i])

\* balde_url_match: the values, by name; one with an unknown converter, or
\* that cannot be decoded, is Null.
Values(rule, path, Null) ==
    LET M == Matches(rule, path)
        best == CHOOSE m \in M : \A n \in M : Preferred(rule, m, n)
    IN {<<Args(rule)[i], IF i <= Known(rule) THEN UrlDecode(best[i], Null) ELSE Null>> :
            i \in DOMAIN Args(rule)}

Root(path, Null) == IF path = Null \/ path = <<>> THEN <<"/">> ELSE path

\* The views whose rules match, by index.
Matching(views, path, Null) ==
    {i \in DOMAIN views : Matches(views[i], Root(path, Null)) # {}}

\* balde_dispatch_from_path: the first rule that matches, or 0.
Dispatch(views, path, Null) ==
    LET M == Matching(views, path, Null) IN IF M = {} THEN 0 ELSE Least(M)

\* balde_app_get_view_from_endpoint: the first view with the endpoint, or 0.
ViewOf(views, endpoint) ==
    LET E == Indexes(views, LAMBDA v : v.endpoint = endpoint)
    IN IF E = {} THEN 0 ELSE Least(E)

-----------------------------------------------------------------------------
\* balde_app_url_forv: the script name, then pieces and arguments in turn.
UrlFor(views, scriptName, endpoint, args, Null) ==
    LET v == ViewOf(views, endpoint) IN
    IF v = 0 THEN Null
    ELSE Escape((IF scriptName = Null THEN <<>> ELSE scriptName)
                    \o Fill(Pieces(views[v]), args))
=============================================================================
