----------------------------- MODULE MCTemplate -----------------------------
(* Small templates for TLC: a file, what it includes from a directory, and *)
(* what that includes from the same directory.                             *)
EXTENDS Template

Text(t) == [kind |-> "text", text |-> t]
Tag(kind, arg, open, close) == [kind |-> kind, arg |-> arg, open |-> open, close |-> close]
Var(x) == [kind |-> "var", arg |-> x]
Call == [kind |-> "call", arg |-> "f"]
Wrong == [kind |-> "wrong"]
Begun(item) == [kind |-> "begun", tag |-> item]
Rest(item) == [kind |-> "rest", tag |-> item]
If(x, open, close) == Tag("if", x, open, close)
Else(open, close) == Tag("else", "", open, close)
End(open, close) == Tag("endif", "", open, close)
Include(name, open, close) == Tag("include", name, open, close)

MCMain == <<"main">>
Part == <<"sub", "part">>
Leaf == <<"sub", "leaf">>

a == Text(<<" ", "a", " ">>)
b == Text(<<"b", "\n">>)
blank == Text(<<" ">>)

\* What a template is made of: texts, prints, blocks in pieces and whole.
Phrases == {
    <<a>>, <<b>>, <<Var("x")>>, <<Wrong>>, <<Begun(Var("x"))>>, <<End(FALSE, FALSE)>>,
    <<Tag("import", "h", TRUE, FALSE)>>,
    <<Include(Part, FALSE, FALSE)>>, <<Include(Part, TRUE, TRUE)>>,
    <<If("x", FALSE, TRUE)>>,
    <<If("x", FALSE, FALSE), b, End(TRUE, TRUE)>>,
    <<If("y", TRUE, TRUE), a, Else(TRUE, FALSE), Call, End(FALSE, TRUE)>>,
    <<Else(FALSE, FALSE), Var("y"), End(TRUE, FALSE)>> }

Parts == {
    <<>>, <<blank, Var("y")>>, <<a, Include(<<"leaf">>, TRUE, FALSE), b>>,
    <<If("y", FALSE, FALSE), Include(<<"leaf">>, FALSE, TRUE), End(FALSE, FALSE), a>>,
    <<Else(FALSE, FALSE), b>>, <<Wrong, b>>, <<Rest(Var("x")), b>>, <<Include(<<"none">>, FALSE, FALSE)>> }

Readable(items) ==
    \A i \in 1..(Len(items) - 1) : items[i].kind # "text" \/ items[i + 1].kind # "text"

MCMains ==
    {items \in {FlattenSeq(p) : p \in UNION {[1..n -> Phrases] : n \in 0..3}} :
        Readable(items)}

MCSources ==
    { (MCMain :> m) @@ (Part :> p) @@ (Leaf :> <<blank, Var("x"), b>>)
                    @@ (<<"leaf">> :> <<b>>) :
      m \in MCMains, p \in Parts }
=============================================================================
