---------------------------- MODULE MCMethodJit ----------------------------
(***************************************************************************)
(* MethodJit, for TLC: compiled programs whose main calls a function f     *)
(* from a loop, often enough to be compiled; f calls itself or a helper h, *)
(* which may be compiled before f is, after it, or never.                  *)
(***************************************************************************)
EXTENDS MethodJit, Syntax

C == INSTANCE Compiler

MCCompiled(p) == C!Compile(p)
MCGlobals(p)  == C!GlobalsOf(p)

-----------------------------------------------------------------------------
(* The programs.                                                           *)

n == Name("n")
x == Name("x")
g == Name("g")
i == Name("i")
Add(l, r)   == Bin("Add", l, r)
Inc(v)      == Assign(v, Add(Name(v), Num(1)))
Less2       == Bin("Less", n, Num(2))
When(c, b)  == If(<<Arm(c, b)>>, <<>>)
Self(e)     == CallOf("f", <<e>>)
H(e)        == CallOf("h", <<e>>)
Minus1      == Bin("Sub", n, Num(1))
UpTo(b)     == ForRange("j", Num(1), n, <<>>, b)

(* What f and h do with their parameter n, an int.                         *)
Recursive == {<<When(Less2, <<Return(<<n>>)>>), Return(<<Bin(op, Self(Minus1), e)>>)>> :
                op \in {"Add", "Mul", "Sub"}, e \in {n, Self(Bin("Sub", n, Num(2)))}}
Plain == {<<Return(<<Bin(op, n, Num(3))>>)>> : op \in {"Add", "Less", "Equal", "Div", "Mod"}}
           \cup {<<Decl("x", n), Inc("x"), Return(<<x>>)>>,
                 <<If(<<Arm(Less2, <<Return(<<Num(7)>>)>>)>>, <<<<Return(<<n>>)>>>>)>>,
                 <<Decl("x", NotOf(Less2)), Return(<<x>>)>>}
OnGlobals == {<<Assign("g", Add(g, n)), Return(<<n>>)>>, <<Inc("g"), Return(<<g>>)>>}
Looped == {<<Decl("x", Num(0)), UpTo(b), Return(<<x>>)>> :
             b \in {<<Assign("x", Add(x, Name("j")))>>, <<Inc("x")>>, <<Inc("g")>>,
                    <<When(Bin("Equal", Name("j"), Num(2)), <<Continue>>), Inc("x")>>,
                    <<When(Bin("Equal", Name("j"), Num(3)), <<Break>>), Assign("x", Add(x, x))>>}}
Interpreted == {<<PrintStmt(n), Return(<<n>>)>>,
          <<Return(<<Method(ArrayOf(<<Num(5), Num(6)>>), "get", <<n>>)>>)>>,
          <<Decl("x", Method(ArrayOf(<<n>>), "update", <<Bin("Sub", Num(4), n), n>>)), Return(<<x>>)>>,
          <<PrintStmt(g), Return(<<n>>)>>,
          <<PrintStmt(n), Return(<<CallOf("k", <<n>>)>>)>>,
          <<FiberDecl("r", "q", <<n>>), Return(<<Method(Name("r"), "next", <<>>)>>)>>}
Void == {<<Assign("g", n)>>, <<PrintStmt(n)>>}

Callers == {<<Return(<<Add(H(n), n)>>)>>, <<Decl("x", H(n)), Return(<<H(x)>>)>>,
            <<When(Less2, <<Return(<<n>>)>>), Return(<<H(Minus1)>>)>>,
            <<When(Bin("Greater", n, Num(4)), <<CallStmt("h", <<n>>)>>), Return(<<n>>)>>}
Mutual  == <<When(Less2, <<Return(<<n>>)>>), Return(<<Self(Minus1)>>)>>

K       == Fun(<<"n">>, <<Return(<<Add(n, n)>>)>>)
Q       == {<<YieldStmt(n)>>, <<YieldStmt(CallOf("k", <<n>>))>>,
            <<YieldStmt(Method(ArrayOf(<<n>>), "get", <<n>>))>>}
Prints(e) == <<ForRange("i", Num(1), Num(5), <<>>, <<PrintStmt(e)>>)>>
Programme(before, e, fs) ==
  Program(<<Decl("g", Num(1))>> \o before \o Prints(e) \o <<PrintStmt(g)>>, fs, [q |-> FALSE])
Functions(f, h, q) ==
  [f |-> Fun(<<"n">>, f), h |-> Fun(<<"n">>, h), k |-> K, q |-> Fun(<<"n">>, q)]
AnyQ == <<YieldStmt(n)>>

(* h is called once before f is, as often as it takes, or never.           *)
Warm == {<<>>, <<ForRange("i", Num(0), Num(2), <<>>, <<CallStmt("h", <<i>>)>>)>>}

Alone == {Programme(<<>>, Self(i), Functions(f, AnyQ, AnyQ)) :
            f \in UNION {Recursive, Plain, OnGlobals, Looped, Interpreted}}
Pairs == {Programme(w, Self(i), Functions(f, h, AnyQ)) :
            w \in Warm, f \in Callers, h \in UNION {Plain, OnGlobals, Looped, Interpreted, Void, {Mutual}}}
WithFiber == {Programme(<<>>, Self(i), Functions(f, h, q)) :
                f \in Callers, h \in Interpreted, q \in Q}
                \cup {Program(<<Decl("g", Num(1)), ForEach("fiber", "v", CallOf("q", <<Num(4)>>), <<PrintStmt(Name("v"))>>)>>,
                              Functions(f, h, [j \in 1 .. 5 |-> YieldStmt(Self(Num(j)))]), [q |-> FALSE]) :
                        f \in Callers, h \in Interpreted \cup OnGlobals}

(* A float, an array and a bool for n.                                     *)
Compares == <<When(Bin("Equal", n, n), <<Return(<<n>>)>>), Return(<<Num(1)>>)>>
Others ==
  {Programme(<<>>, Self(e), Functions(Compares, AnyQ, AnyQ)) :
     e \in {Real(3), ArrayOf(<<Num(1)>>), Bin("Less", i, Num(3))}}
  \cup {Programme(<<>>, Self(Add(AsReal(i), Real(1))), Functions(<<Return(<<Bin(op, n, n)>>)>>, AnyQ, AnyQ)) :
           op \in {"Add", "Less", "Mul"}}

MethodPrograms == UNION {Alone, Pairs, WithFiber, Others}
=============================================================================
