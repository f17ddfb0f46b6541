----------------------------- MODULE MCExpander -----------------------------
(***************************************************************************)
(* Expander for TLC: four files with every graph of includes of a bounded  *)
(* size.  A file declares a function and a variable and uses every name of *)
(* its namespace.                                                          *)
(***************************************************************************)
EXTENDS Expander, TLC

LOCAL INSTANCE FiniteSetsExt

Inc(f, a)      == [k |-> "include", file |-> f, alias |-> a]
Expr(name, rest, called, means) ==
    [name |-> name, rest |-> rest, called |-> called, inside |-> "nothing", means |-> means]
Do(e)          == [k |-> "do", e |-> e]

FunOf(f) == f
VarOf(f) == CASE f = "main" -> "mainvar" [] f = "a" -> "avar" [] f = "b" -> "bvar" [] f = "c" -> "cvar"
Means(f, n) == [file |-> f, name |-> n]

\* What a file declares, and the namespaces that follow from a graph of
\* includes without a cycle; of one with a cycle, a part.
Own(f) == (<<FunOf(f)>> :> Means(f, FunOf(f))) @@ (<<VarOf(f)>> :> Means(f, VarOf(f)))
          @@ (IF f = "c" THEN <<"i">> :> Means("c", "i") ELSE << >>)
RECURSIVE Names(_, _, _)
Names(g, f, n) ==
    LET under(i) == LET of == Names(g, g[f][i].file, n - 1)
                    IN  [q \in {Into(p, g[f][i].alias) : p \in DOMAIN of} |->
                            of[CHOOSE p \in DOMAIN of : Into(p, g[f][i].alias) = q]]
        from[i \in 0 .. Len(g[f])] ==
            IF i = 0 THEN Own(f)
            ELSE from[i - 1] @@ (IF n = 0 \/ g[f][i].file = NoFile THEN << >> ELSE under(i))
    IN  from[Len(g[f])]
Space(g) == ("main" :> Names(g, "main", 3)) @@ ("a" :> Names(g, "a", 3))
            @@ ("b" :> Names(g, "b", 3)) @@ ("c" :> Names(g, "c", 3))
Params == [f \in File |-> {<<"p">>}]

\* A use of a name: a call of a function, a read of a variable or, if it is
\* b's, a method of it.  A function is not found behind two aliases.
IsFunction(o) == o.name = FunOf(o.file)
Member(o) == IF o.name = VarOf("b") THEN <<"push">> ELSE <<>>
Use(q, o) ==
    LET called == IsFunction(o) \/ Member(o) # <<>>
    IN  IF Len(q) = 1 THEN Expr(q, Member(o), called, o)
        ELSE Expr(<<q[1]>>, Tail(q) \o Member(o), called, o)
Calls(names) == {q \in DOMAIN names : IsFunction(names[q]) /\ Len(q) <= 2}
Reads(names) == {q \in DOMAIN names : ~IsFunction(names[q])}
Using(S, names) == FoldSet(LAMBDA q, us : Append(us, Do(Use(q, names[q]))), <<>>, S)

Call(f)    == Use(<<FunOf(f)>>, Means(f, FunOf(f)))
\* A method of the variable.
Choice(f)  == [Expr(<<VarOf(f)>>, <<>>, FALSE, Means(f, VarOf(f))) EXCEPT !.inside = "choice"]
Grow(f)    == Expr(<<VarOf(f)>>, <<"push">>, TRUE, Means(f, VarOf(f)))
Param      == Expr(<<"p">>, <<>>, FALSE, Parameter)
Literal    == Expr(<<"1">>, <<>>, FALSE, None)

\* What the body of a function does with what its own file declares.
Body(f) ==
    <<[k |-> "set", name |-> <<VarOf(f)>>, means |-> Means(f, VarOf(f)), e |-> Grow(f)],
      [k |-> "fiber", name |-> <<"q">>, e |-> Call(f)],
      [k |-> "bind", name |-> <<"t">>, e |-> Choice(f)],
      Do(Param)>>

\* A variable with a protected name.
Counter == LET i == Expr(<<"i">>, <<>>, FALSE, Means("c", "i"))
           IN  <<[k |-> "var", name |-> <<"i">>, e |-> Literal, origin |-> i.means], Do(i)>>

TextOf(g, f, names) ==
    g[f] \o
    <<[k |-> "func", name |-> <<FunOf(f)>>, params |-> {<<"p">>},
       body |-> Using(Calls(names), names) \o Body(f), origin |-> Means(f, FunOf(f))],
      [k |-> "var", name |-> <<VarOf(f)>>, e |-> Literal, origin |-> Means(f, VarOf(f))]>>
    \o (IF f = "c" THEN Counter ELSE <<>>) \o Using(Reads(names), names)

\* Up to n of these includes.
AnyInc(files, as) == {Inc(f, a) : f \in files, a \in as}
Incs(incs, n) == UNION {[1 .. k -> incs] : k \in 0 .. n}

Library(main, a, b, c) ==
    {("main" :> w) @@ ("a" :> x) @@ ("b" :> y) @@ ("c" :> z) :
        w \in main, x \in a, y \in b, z \in c}

Graphs4 == Library(Incs(AnyInc({"a", "b", "c"}, {None, "m", "k"}), 2),
                   Incs(AnyInc({"main", "b", "c"}, {None, "m"}) \cup {Inc(NoFile, None)}, 1),
                   Incs(AnyInc({"a", "c"}, {None, "k"}) \cup {Inc("b", None)}, 1),
                   Incs(AnyInc({"main", "a"}, {None}), 1))

TextIn(g, names) ==
    ("main" :> TextOf(g, "main", names["main"])) @@ ("a" :> TextOf(g, "a", names["a"]))
      @@ ("b" :> TextOf(g, "b", names["b"])) @@ ("c" :> TextOf(g, "c", names["c"]))
Text(g) == TextIn(g, Space(g))
MCTexts == {Text(g) : g \in Graphs4}

MCProtected == {<<"i">>}
MCConstant == {<<"PI">>}

\* The texts without a cycle are ones that the theorem about names is about.
Acyclic(g) ==
    LET Edges == {<<f, h>> \in File \X File : \E i \in DOMAIN g[f] : g[f][i].file = h}
    IN  \A S \in SUBSET File \ {{}} : \E f \in S : \A h \in S : <<f, h>> \notin Edges
ASSUME TextsAreWellNamed ==
    \A g \in Graphs4 : Acyclic(g) =>
        LET names == Space(g) IN WellNamed(TextIn(g, names), names, Params)
=============================================================================
