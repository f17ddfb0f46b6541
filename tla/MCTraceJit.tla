----------------------------- MODULE MCTraceJit -----------------------------
(***************************************************************************)
(* TraceJit, for TLC: compiled programs with hot loops.  The body of a     *)
(* loop is compiled into two functions of the same layout, called one      *)
(* after the other: the second one's trace has the address of the first    *)
(* one's and runs without machine code.                                    *)
(***************************************************************************)
EXTENDS TraceJit, Syntax

LOCAL INSTANCE TLC

C == INSTANCE Compiler

MCCompiled(p) == C!Compile(p)
MCGlobals(p)  == C!GlobalsOf(p)

-----------------------------------------------------------------------------
(* The programs.                                                           *)

i == Name("i")
x == Name("x")
y == Name("y")
b == Name("b")
a == Name("a")
s == Name("s")
g == Name("g")
Add(l, r)  == Bin("Add", l, r)
Inc(v)     == Assign(v, Add(Name(v), Num(1)))
Nums(ns)   == [k \in DOMAIN ns |-> Num(ns[k])]
When(c, t) == If(<<Arm(c, <<t>>)>>, <<>>)
Again3(t)  == ForRange("j", Num(1), Num(4), <<>>, <<t>>)
AddTo(l, e) == Assign(l, Add(Name(l), e))

(* Statements on variables: ints i, n and x, a float y, a bool b, an array *)
(* a and a set s; and on the global g.  i is the loop's variable.          *)
Ints   == {AddTo("x", i), Assign("x", Bin("Sub", Bin("Mul", x, Num(2)), i)),
           Assign("x", Bin("Div", Add(x, Num(7)), i)),
           Assign("x", Bin("Div", Num(9), Bin("Sub", Num(6), i))),
           Assign("x", Bin("Mod", Add(x, i), Bin("Sub", Name("n"), i))),
           Assign("x", Bin("IntConcat", Bin("Sub", i, Num(5)), Num(1))),
           Assign("x", Bin("Mod", Bin("IntConcat", i, Num(-1)), Num(4)))}
Floats == {Assign("y", Bin("Sub", Bin("Mul", y, Real(4)), AsReal(i))),
           Assign("y", Bin("Div", y, Bin("Sub", AsReal(i), Real(10)))),
           Assign("y", Bin("Mod", Add(y, Real(3)), Real(4))),
           Inc("y"), Assign("b", Bin("Less", y, Real(9))), When(Bin("Equal", i, Num(6)), Assign("y", i)),
           AddTo("x", Real(2))}
Bools  == {Assign("b", Bin("And", Bin("Greater", i, Num(2)), NotOf(b))),
           Assign("b", Bin("Or", b, Bin("Equal", x, i)))}
Branches == {When(b, Inc("x")), When(Bin("NotEqual", i, Num(4)), Assign("x", Minus(x))),
             When(Bin("GreaterEqual", i, Num(6)), Break),
             If(<<Arm(Bin("LessEqual", i, Num(5)), <<Inc("x")>>)>>, <<<<AddTo("x", i)>>>>)}
Arrays == {Assign("b", Method(a, "push", <<x>>)),
           Assign("x", Method(a, "get", <<i>>)),
           Assign("x", Method(a, "size", <<>>)),
           Assign("b", Method(a, "update", <<Num(1), i>>)),
           Assign("b", Method(s, "contains", <<i>>)),
           Assign("x", Method(s, "size", <<>>))}
Inner  == {Again3(AddTo("x", i)), Again3(Inc("x")), Again3(Inc("g")),
           ForRange("j", Num(-2), Num(2), <<>>, <<AddTo("x", Name("j"))>>),
           While(Bin("Less", x, i), <<Inc("x")>>),
           While(Bin("Less", x, i), <<PrintStmt(x), AddTo("x", Num(2))>>)}
Various == {Assign("g", Add(g, x)), Inc("g"), PrintStmt(x),
            Assign("x", CallOf("twice", <<i>>)), Assign("x", CallOf("loops", <<i>>))}
Atoms == UNION {Ints, Floats, Bools, Branches, Arrays, Inner, Various}

Vars == <<Decl("x", Num(3)), Decl("y", Real(3)), Decl("b", Truth(TRUE)),
          Decl("a", ArrayOf(Nums(<<4, 0, 5, 2, 6, 1, 0, 8>>))), Decl("s", SetOf(Nums(<<1, 4>>)))>>
Loop(v, body, k) == <<Decl(v, Num(1)), While(Bin("Less", Name(v), Num(k)), body \o <<Inc(v)>>)>>
Hot(body, k)     == Loop("i", body, k)
Results == <<PrintStmt(x), PrintStmt(y), PrintStmt(b), PrintStmt(Method(a, "size", <<>>))>>

Helpers == [twice |-> Fun(<<"n">>, <<Return(<<Bin("Mul", Name("n"), Num(2))>>)>>),
            loops |-> Fun(<<"n">>, <<While(Bin("Less", Name("n"), Num(4)), <<Inc("n")>>),
                                     Return(<<Name("n")>>)>>)]

(* In the second function n - i becomes zero.                              *)
InFunctions(loop) ==
  LET f == Fun(<<"n">>, Vars \o loop \o Results)
  IN  Program(<<Decl("g", Num(1)), CallStmt("f", <<Num(20)>>), CallStmt("h", <<Num(7)>>),
                PrintStmt(Name("g"))>>,
              Helpers @@ [f |-> f, h |-> f], <<>>)
InMain(loop) ==
  Program(<<Decl("g", Num(1)), Decl("n", Num(20))>> \o Vars \o loop \o Results, Helpers, <<>>)
Range(body, from, to) == <<ForRange("i", Num(from), Num(to), <<>>, body)>>

(* A fiber runs with the counters and the traces of the function that      *)
(* resumes it.                                                             *)
WithFiber(body, fiber) ==
  Program(<<Decl("x", Num(3)), Decl("b", Truth(TRUE))>> \o Hot(body, 6)
            \o <<ForEach("fiber", "v", CallOf("q", <<Num(4)>>), <<PrintStmt(Name("v"))>>)>>,
          [q |-> Fun(<<"n">>, fiber)], [q |-> FALSE])
Yields(k) == [j \in 1 .. k |-> YieldStmt(Name("n"))]
YieldsInLoop(k) == Yields(k) \o <<Decl("x", Num(3))>> \o Hot(<<AddTo("x", i), YieldStmt(x)>>, 8)

Singles == {<<t>> : t \in Atoms}
Pairs   == {<<t, u>> : t \in Branches \cup Inner, u \in Atoms}
Triples == {<<Decl("k", Num(n)), t, AddTo("x", Name("k"))>> :
              n \in {0, 1}, t \in {Inc("k"), Again3(Inc("k")), Assign("k", i), Assign("k", Real(3))}}

LoopPrograms ==
  UNION {{InFunctions(Hot(body, 9)) : body \in UNION {Pairs, Singles, Triples}},
         {InMain(Hot(body, 7)) : body \in Singles},
         {InMain(Range(body, 1, 7)) : body \in Singles},
         {InFunctions(Loop("k", Range(body, 1, 4), 4)) : body \in Singles}}
FiberPrograms ==
  {WithFiber(body, fiber) :
     body \in UNION {{<<t>> : t \in Ints \cup Bools \cup Branches},
                    {<<AddTo("x", Bin("Mul", i, i)), When(Bin("Equal", i, Num(4)), Break)>>}},
     fiber \in {Yields(12), YieldsInLoop(3), YieldsInLoop(4)}}

(* A division by zero in machine code, and a loop from a negative number.  *)
CrashPrograms == {InFunctions(Hot(<<Assign("x", Bin("Mod", i, Bin("Sub", Num(6), i)))>>, 9))}
NegativePrograms == {InMain(Range(<<AddTo("x", i)>>, -6, 3))}

MainPrograms == UNION {LoopPrograms, FiberPrograms, CrashPrograms, NegativePrograms}

=============================================================================
