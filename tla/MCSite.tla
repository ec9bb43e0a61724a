------------------------------- MODULE MCSite -------------------------------
(* A small instance of Site for TLC: one rule of every kind.               *)
EXTENDS Site

Rule(endpoint, methods, texts, variables) ==
    [endpoint |-> endpoint, methods |-> methods, texts |-> texts, vars |-> variables]
Var(conv, name) == [conv |-> conv, name |-> name]

MCRules == <<
    \* "/p/<x>", for pages and forms
    Rule("page", {"GET", "POST"}, << <<"/", "p", "/">>, <<>> >>, <<Var("", "x")>>),
    \* "/<x>/q<path:y>"
    Rule("pair", {"GET"}, << <<"/">>, <<"/", "q">>, <<>> >>,
         <<Var("", "x"), Var("path", "y")>>),
    \* "/g<x>a<y>", which can be taken in more than one way
    Rule("glued", {"GET"}, << <<"/", "g">>, <<"a">>, <<>> >>,
         <<Var("", "x"), Var("", "y")>>),
    \* "/r.", with a character the expression escapes
    Rule("dot", {"GET"}, << <<"/", "r", ".">> >>, <<>>),
    \* "/u<int:x>/<y>", with a converter there is not
    Rule("unknown", {"GET"}, << <<"/", "u">>, <<"/">>, <<>> >>,
         <<Var("int", "x"), Var("", "y")>>) >>

\* Another application has a rule that is refused, between two others.
MCApplications ==
    {MCRules, << MCRules[1],
                 Rule("same", {"GET"}, << <<"/", "e">>, <<"/">>, <<>> >>,
                      <<Var("", "x"), Var("", "x")>>),
                 MCRules[4] >>}

MCLateRules == <<
    \* "/d<x>/<x>" is refused; "/<path:z>" takes what is left
    Rule("twice", {"GET"}, << <<"/", "d">>, <<"/">>, <<>> >>,
         <<Var("", "x"), Var("", "x")>>),
    Rule("any", {"GET"}, << <<"/">>, <<>> >>, <<Var("path", "z")>>) >>

MCMount == <<"/", "m">>
MCFiles == {<<"a">>, <<"a", "/", "b">>}

MCTargets ==
    {<<"static", << <<"a", "/", "b">> >> >>, <<"page", << <<"a", " ">> >> >>,
     <<"page", << <<"+">> >> >>, <<"page", << <<"%">> >> >>,
     <<"pair", << <<"a">>, <<"b", "/", "q">> >> >>,
     <<"pair", << <<"q">>, <<"q">> >> >>,
     <<"glued", << <<"b">>, <<"b", "a">> >> >>,
     <<"dot", <<>> >>, <<"unknown", << <<"a">>, <<"b">> >> >>,
     <<"any", << <<"p", "/", "a", "/">> >> >>, <<"none", <<>> >>}

MCBookmarks == {<<>>, <<"/">>, <<"/", "p", "/", "a">>, <<"/", "s", "/", "a">>,
                <<"/", "m">>, <<"/", "m", "/", "p", "/", "a">>,
                <<"/", "m", "/", "s", "/", "a">>}

MCForms ==
    LET K == <<"a">> IN
    {<< <<K, <<>> >> >>, << <<K, <<"=", "&">> >> >>, << <<K, <<"%">> >>, <<K, <<"+", " ">> >> >>}

MCCookies == {<< <<"c">>, v>> : v \in {<<>>, <<"\"">>, <<" ", "=", " ">>, <<"a", ";">>}}
=============================================================================
