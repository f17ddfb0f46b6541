--------------------------- MODULE TypedPrograms ---------------------------
(***************************************************************************)
(* Small programs with types, most of which the checker rejects: a         *)
(* variable x declared with each type and each value, in the main script   *)
(* or a parameter of a function, then a statement of every kind with       *)
(* every expression of x.  Four things the checker accepts are left out:   *)
(* a value of one type taken for one of another; a name declared in a      *)
(* block or a loop while it names a variable outside, which is that        *)
(* variable in the bytecode; an increment of a float, which IncLocal does  *)
(* not do; a function that may end without a return.                       *)
(***************************************************************************)
EXTENDS Syntax, TLC

LOCAL K == INSTANCE Checker

LOCAL x    == Name("x")
LOCAL y    == Name("y")
LOCAL v    == Name("v")
LOCAL One  == Num(1)
LOCAL OnX(m, args) == Method(x, m, args)

LOCAL Types  == {IntType, FloatType, BoolType, ArrayType(IntType), SetType("N"),
           FiberType(<<IntType>>), Unknown}
LOCAL Values == {One, Real(3), Truth(TRUE), ArrayOf(<<Num(5), One>>), SetOf(<<Num(3), One>>),
           CallOf("counts", <<Num(2)>>)}
LOCAL Uses   == {One, Real(3), Truth(TRUE), x, Bin("Add", x, One), Bin("Less", x, Num(2)),
           NotOf(x), OnX("size", <<>>), OnX("get", <<Num(0)>>), OnX("next", <<>>),
           OnX("contains", <<One>>), CallOf("succ", <<x>>), CallOf("negates", <<x>>),
           ArrayOf(<<One, x>>)}
LOCAL Conditions == {Truth(TRUE), x, Bin("Less", x, Num(2)), NotOf(x)}

LOCAL Typeds == [counts  |-> Typed(<<"n">>, <<IntType>>, <<IntType>>,
                             <<ForRange("i", One, Name("n"), <<>>, <<YieldStmt(Name("i"))>>)>>),
           succ    |-> Typed(<<"a">>, <<IntType>>, <<IntType>>,
                             <<Return(<<Bin("Add", Name("a"), One)>>)>>),
           negates |-> Typed(<<"a">>, <<BoolType>>, <<BoolType>>,
                             <<Return(<<NotOf(Name("a"))>>)>>),
           shows   |-> Typed(<<"a">>, <<IntType>>, <<>>, <<PrintStmt(Bin("Add", Name("a"), One))>>)]
LOCAL Definitions == <<Define("counts"), Define("succ"), Define("negates"), Define("shows")>>

(* Loops, and blocks with a variable.                                      *)
LOCAL Blocks ==
  {<<If(<<Arm(c, <<Declare(FALSE, t, "v", e), PrintStmt(v)>>)>>, <<>>)>> :
     c \in Conditions, t \in {IntType, BoolType}, e \in {One, x}}
  \cup {<<ForRange("v", One, e, <<>>, <<PrintStmt(v)>>)>> : e \in {Num(2), x}}
  \cup {<<ForEach(over, "v", e, <<PrintStmt(v)>>)>> :
          over \in {"array", "set", "fiber"}, e \in {x, ArrayOf(<<Num(4), One>>)}}
(* What is done with the value of an expression.                           *)
LOCAL Used ==
  UNION {{<<PrintStmt(e)>>, <<Assign("x", e)>>} : e \in Uses}
  \cup {<<Declare(FALSE, t, "y", e), PrintStmt(y)>> :
          t \in {IntType, FloatType, BoolType, ArrayType(IntType), Unknown}, e \in Uses}
LOCAL Statements == UNION {
  Blocks, Used,
  {<<Declare(TRUE, t, "y", x), Assign("y", x)>> : t \in {IntType, BoolType}},
  {<<CallStmt("shows", <<e>>)>> : e \in {One, Truth(TRUE), x}},
  {<<While(c, <<Assign("x", e), Break>>)>> : c \in Conditions, e \in {One, NotOf(x)}},
  {<<If(<<Arm(c, <<Decl("y", One)>>)>>, <<>>), PrintStmt(y)>> : c \in Conditions},
  {<<Break>>, <<Return(<<x>>)>>}}

(* A program: its c is a type for x, a value for it and what follows.  A   *)
(* variable declared as a fiber is a FiberDecl.  What follows is tried     *)
(* only after an x that the checker accepts.                               *)
LOCAL InMain(c) ==
  LET X == IF c[1].k = "fiber" /\ c[2].k = "call"
           THEN FiberOf(c[1].yields, "x", c[2].f, c[2].args) ELSE Declare(FALSE, c[1], "x", c[2])
  IN  Program(Definitions \o <<X>> \o c[3] \o <<PrintStmt(x)>>, Typeds, [counts |-> FALSE])
LOCAL InFunction(c) ==
  Program(Definitions \o <<Define("f"), PrintStmt(CallOf("f", <<c[2]>>))>>,
          Typeds @@ [f |-> Typed(<<"x">>, <<c[1]>>, <<>>, c[3] \o <<PrintStmt(x)>>)],
          [counts |-> FALSE])
LOCAL IncrementsFloat(c) == c[2] = Real(3) /\ c[3] = <<Assign("x", Bin("Add", x, One))>>
LOCAL Sound(p) == LET S == K!Check(p) IN S.errors = {} /\ ~S.loose
LOCAL Choices(Placed(_)) ==
  LET X == {c \in Types \X Values \X {<<>>} : Sound(Placed(c))}
  IN  {c \in {<<d[1], d[2], s>> : d \in X, s \in Statements} :
         ~IncrementsFloat(c) /\ Sound(Placed(c))}
TypedPrograms ==
  {InMain(c) : c \in Choices(InMain)}
    \cup {InFunction(c) : c \in {d \in Choices(InFunction) : d[1] # Unknown}}
=============================================================================
