------------------------------- MODULE Checker -------------------------------
(***************************************************************************)
(* The semantic analysis of src/sema: Checker's check, check_stmt and      *)
(* check_expr over the SymbolTable, for the statements, expressions and    *)
(* types of the Syntax module.  Checking is a fold over the syntax tree    *)
(* that threads the checker's state:                                       *)
(*   scopes  the symbol table, outermost scope first: the type of each     *)
(*           name, and whether it is a constant.  A child table's scopes   *)
(*           follow those of its parent, where lookup goes on              *)
(*   funs    `functions`, the signatures                                   *)
(*   depth   `loop_depth`                                                  *)
(*   ctx     `fiber_context`: empty outside of functions and fibers; else  *)
(*           it holds what is returned or yielded, empty for nothing       *)
(*   errors  the kinds of the TypeErrors of the first statement with any   *)
(*   ty      the type of the last expression                               *)
(*   loose   not in the code: a value of one type was taken for one of     *)
(*           another, which is compatible or was not looked at             *)
(* A program is compiled and run only if errors is empty.                  *)
(***************************************************************************)
EXTENDS Syntax, TLC

LOCAL INSTANCE SequencesExt

Arithmetics == {"Add", "Sub", "Mul", "Div", "Mod"}
Comparisons == {"Equal", "NotEqual", "Less", "LessEqual", "Greater", "GreaterEqual"}
Numeric     == {IntType, FloatType}

Fault(kind, wrong, S) == IF wrong THEN [S EXCEPT !.errors = @ \cup {kind}] ELSE S
Typing(t, S)          == [S EXCEPT !.ty = t]

-----------------------------------------------------------------------------
(* The symbol table.                                                       *)

EnterScope(S)      == [S EXCEPT !.scopes = Append(@, <<>>)]
ExitScope(S)       == [S EXCEPT !.scopes = Front(@)]
ScopesOf(x, S)     == {i \in DOMAIN S.scopes : x \in DOMAIN S.scopes[i]}
Visible(x, S)      == ScopesOf(x, S) # {}
IsCurrent(x, S)    == x \in DOMAIN Last(S.scopes)
Symbol(x, S) ==
  S.scopes[CHOOSE i \in ScopesOf(x, S) : \A j \in ScopesOf(x, S) : j <= i][x]
TypeOf(x, S)       == IF Visible(x, S) THEN Symbol(x, S).ty ELSE Unknown
IsConst(x, S)      == Visible(x, S) /\ Symbol(x, S).const
(* A constant's name stays one when it is defined again.                   *)
DefineSymbol(x, t, const, S) ==
  LET c == const \/ (IsCurrent(x, S) /\ Last(S.scopes)[x].const)
  IN  [S EXCEPT !.scopes[Len(S.scopes)] = (x :> [ty |-> t, const |-> c]) @@ @]
DefineVariable(x, t, S) == DefineSymbol(x, t, FALSE, S)

-----------------------------------------------------------------------------
(* Types.                                                                  *)

ElementOf(set) == CASE set \in {"N", "Z"} -> IntType
                    [] set = "Q"          -> FloatType
                    [] set \in {"S", "C"} -> StringType
                    [] set = "B"          -> BoolType

(* is_compatible.  Int and Float are, in both directions.                  *)
RECURSIVE Compatible(_, _)
Compatible(expected, actual) ==
  \/ Unknown \in {expected, actual}
  \/ expected = actual
  \/ {expected, actual} = Numeric
  \/ /\ expected.k = "array" /\ actual.k = "array"
     /\ Compatible(expected.of, actual.of)
  \/ /\ expected.k = "set" /\ actual.k = "array"
     /\ actual.of \in {ElementOf(expected.set), Unknown}
  \/ /\ expected.k = "array" /\ actual.k = "set"
     /\ expected.of \in {ElementOf(actual.set), Unknown}
  \/ /\ expected.k = "set" /\ actual.k = "set"
     /\ ElementOf(expected.set) = ElementOf(actual.set)
  \/ /\ expected.k = "fiber" /\ actual.k = "fiber"
     /\ Len(expected.yields) = Len(actual.yields)
     /\ \A i \in DOMAIN expected.yields : Compatible(expected.yields[i], actual.yields[i])

(* The last expression's type must be compatible with t; or must be t.     *)
Loosely(l, r, S) == [S EXCEPT !.loose = @ \/ (Unknown \notin {l, r} /\ l # r)]
Fits(t, S)    == Fault("TypeMismatch", ~Compatible(t, S.ty), Loosely(t, S.ty, S))
Exactly(t, S) == Fault("TypeMismatch", S.ty \notin {t, Unknown}, S)

(* Binary operators on types that are known.                               *)
Wider(l, r) == IF FloatType \in {l, r} THEN FloatType ELSE IntType
Joins(op, l, r)    == op = "Add" /\ StringType \in {l, r}
Computes(op, l, r) == op \in Arithmetics /\ {l, r} \subseteq Numeric
Removes(op, l, r)  == op = "Sub" /\ l = r /\ l.k = "set"
BinaryType(op, l, r) ==
  CASE Joins(op, l, r)    -> StringType
    [] Computes(op, l, r) -> Wider(l, r)
    [] Removes(op, l, r)  -> l
    [] op = "IntConcat"   -> IF {l, r} = {IntType} THEN IntType ELSE StringType
    [] op \in Comparisons \cup {"And", "Or"} -> BoolType
    [] OTHER -> Unknown
BinaryFaults(op, l, r) ==
  CASE op \in Comparisons   -> IF Compatible(l, r) THEN {} ELSE {"TypeMismatch"}
    [] op \in {"And", "Or"} -> IF {l, r} = {BoolType} THEN {} ELSE {"TypeMismatch"}
    [] op \in Arithmetics   -> IF Joins(op, l, r) \/ Computes(op, l, r) \/ Removes(op, l, r)
                               THEN {} ELSE {"InvalidBinaryOp"}
    [] OTHER -> {}
BinaryResult(op, l, R) ==
  IF Unknown \in {l, R.ty} THEN Typing(Unknown, R)
  ELSE [(IF op \in Comparisons THEN Loosely(l, R.ty, R) ELSE R) EXCEPT
          !.ty = BinaryType(op, l, @), !.errors = @ \cup BinaryFaults(op, l, R.ty)]

(* The methods a value of type t has, with the types of their results.     *)
(* Those the Bytecode module has no instruction for are left out.          *)
MethodsOf(t) ==
  CASE t.k = "array"  -> [size |-> IntType, get |-> t.of, push |-> BoolType, update |-> BoolType]
    [] t.k = "set"    -> [size |-> IntType, contains |-> BoolType]
    [] t.k = "string" -> [size |-> IntType]
    [] t.k = "fiber"  -> [isDone |-> BoolType, close |-> BoolType]
                           @@ (IF t.yields = <<>> THEN "run" :> BoolType
                               ELSE "next" :> t.yields[1])
    [] OTHER -> <<>>
MethodFaults(t, m) ==
  CASE t = Unknown \/ m \in DOMAIN MethodsOf(t) -> {}
    [] t.k = "fiber" /\ m = "next" -> {"Other"}
    [] t.k = "fiber" /\ m = "run" /\ t.yields # <<>> -> {"CannotRunTypedFiber"}
    [] OTHER -> {"MethodNotFound"}
MethodResult(t, m, A) ==
  [A EXCEPT !.ty = IF m \in DOMAIN MethodsOf(t) THEN MethodsOf(t)[m] ELSE Unknown,
            !.errors = @ \cup MethodFaults(t, m)]

(* What a call of f with n arguments is checked against, if anything: its  *)
(* signature or, when f is only a variable, its type.                      *)
Signature(f, n, S) ==
  CASE f \in DOMAIN S.funs -> <<S.funs[f]>>
    [] f \notin DOMAIN S.funs /\ Visible(f, S) ->
         <<[types |-> [i \in 1 .. n |-> Unknown], fiber |-> TypeOf(f, S).k = "fiber",
            ret |-> IF TypeOf(f, S).k = "fiber" THEN TypeOf(f, S).yields ELSE <<Unknown>>]>>
    [] OTHER -> <<>>
ReturnOr(ret, t) == IF ret = <<>> THEN t ELSE ret[1]

-----------------------------------------------------------------------------
(* Expressions.  want holds the type the context asks for, if any.         *)

RECURSIVE CheckExpr(_, _, _)

CheckAll(es, S) == FoldLeft(LAMBDA T, e : CheckExpr(e, <<>>, T), S, es)

CheckName(x, S) ==
  IF Visible(x, S) THEN Typing(TypeOf(x, S), S)
  ELSE Typing(Unknown, Fault("UndefinedVariable", TRUE, S))

(* The elements of an array have the type wanted, or that of the first.    *)
RestOf(es, t, F) ==
  Typing(ArrayType(t), FoldLeft(LAMBDA T, e : Fits(t, CheckExpr(e, <<t>>, T)), F, Tail(es)))
CheckElements(es, want, S) ==
  IF want # <<>> /\ want[1].k = "array"
  THEN IF es = <<>> THEN Typing(want[1], S)
       ELSE RestOf(es, want[1].of, Fits(want[1].of, CheckExpr(es[1], <<want[1].of>>, S)))
  ELSE IF es = <<>> THEN Typing(ArrayType(IntType), S)
       ELSE LET F == CheckExpr(es[1], <<>>, S) IN RestOf(es, F.ty, F)
CheckSet(e, S) ==
  Typing(SetType(e.set),
         FoldLeft(LAMBDA T, m : Exactly(ElementOf(e.set), CheckExpr(m, <<>>, T)), S, e.es))

CheckBinary(e, L) == BinaryResult(e.op, L.ty, CheckExpr(e.r, <<>>, L))

Negated(T) == IF T.ty = Unknown THEN T ELSE Typing(BoolType, Exactly(BoolType, T))
Minused(T) == IF T.ty \in Numeric \cup {Unknown} THEN T
              ELSE Typing(Unknown, Fault("TypeMismatch", TRUE, T))

(* Arguments are compared with the parameters there are; a fiber's call    *)
(* makes a fiber.                                                          *)
CheckArg(arg, i, types, S) ==
  LET T == CheckExpr(arg, <<>>, S)
  IN  IF i \in DOMAIN types THEN Fits(types[i], T) ELSE T
CheckArgs(args, types, S) ==
  FoldLeft(LAMBDA T, i : CheckArg(args[i], i, types, T), S, [i \in DOMAIN args |-> i])
CallResult(e, sig, S) ==
  Typing(IF sig.fiber THEN FiberType(<<ReturnOr(sig.ret, Unknown)>>)
         ELSE ReturnOr(sig.ret, Unknown),
         CheckArgs(e.args, sig.types,
                   Fault("InvalidArgumentCount", Len(e.args) # Len(sig.types), S)))
CheckCall(e, S) ==
  LET sig == Signature(e.f, Len(e.args), S)
  IN  IF sig # <<>> THEN CallResult(e, sig[1], S)
      ELSE Typing(Unknown, Fault("UndefinedVariable", TRUE, CheckAll(e.args, S)))

(* The arguments of a method: an array's index is an int and what a set is *)
(* asked for has its elements' type; what is pushed may be anything.       *)
MethodArgs(t, m, args, S) ==
  CASE t.k = "array" /\ m = "get" /\ Len(args) = 1 ->
         Exactly(IntType, CheckExpr(args[1], <<>>, S))
    [] t.k = "set" /\ m = "contains" /\ args # <<>> ->
         Exactly(ElementOf(t.set), CheckExpr(args[1], <<>>, S))
    [] \/ t.k = "array" /\ m \in {"push", "update"}
       \/ t.k = "fiber" /\ m = "next" /\ t.yields # <<>>
       \/ t.k = "string" -> CheckAll(args, S)
    [] OTHER -> S
CheckMethod(e, R) == MethodResult(R.ty, e.m, MethodArgs(R.ty, e.m, e.args, R))

CheckExpr(e, want, S) ==
  CASE e.k = "num"    -> Typing(IntType, S)
    [] e.k = "real"   -> Typing(FloatType, S)
    [] e.k = "truth"  -> Typing(BoolType, S)
    [] e.k = "name"   -> CheckName(e.x, S)
    [] e.k = "not"    -> Negated(CheckExpr(e.e, <<>>, S))
    [] e.k = "minus"  -> Minused(CheckExpr(e.e, <<>>, S))
    [] e.k = "asreal" -> Typing(FloatType, CheckExpr(e.e, <<>>, S))
    [] e.k = "bin"    -> CheckBinary(e, CheckExpr(e.l, <<>>, S))
    [] e.k = "ArrayInit" -> CheckElements(e.es, want, S)
    [] e.k = "SetInit"   -> CheckSet(e, S)
    [] e.k = "call"   -> CheckCall(e, S)
    [] e.k = "method" -> CheckMethod(e, CheckExpr(e.on, <<>>, S))

-----------------------------------------------------------------------------
(* Statements.                                                             *)

RECURSIVE CheckStmt(_, _, _)

(* The code goes on after an error; what it finds then changes nothing.    *)
CheckBlock(body, p, S) ==
  FoldLeft(LAMBDA T, s : IF T.errors # {} THEN T ELSE CheckStmt(s, p, T), S, body)
CheckScoped(body, p, S) == ExitScope(CheckBlock(body, p, EnterScope(S)))

(* VarDecl.  A name is declared twice only in one scope.  The initializer  *)
(* is checked before the name is defined; `var` takes its type.            *)
Defined(s, T) == DefineSymbol(s.x, IF s.ty = Unknown THEN T.ty ELSE s.ty, s.const, T)
CheckDecl(s, S) ==
  Defined(s, Fits(s.ty, CheckExpr(s.e, <<s.ty>>,
                                  Fault("RedefinedVariable", IsCurrent(s.x, S), S))))

\* Mutant: what is assigned is not compared with the variable's type.
CheckAssignAny(s, S) ==
  CheckExpr(s.e, <<>>, Fault("UndefinedVariable", ~Visible(s.x, S), S))

CheckAssign(s, S) ==
  Fits(TypeOf(s.x, S),
       CheckExpr(s.e, <<TypeOf(s.x, S)>>,
         Fault("ConstReassignment", TypeOf(s.x, S) # Unknown /\ IsConst(s.x, S),
           Fault("UndefinedVariable", ~Visible(s.x, S), S))))

(* FunctionCallStmt: the arguments are counted, their types not compared.  *)
Untested(args, types, S) ==
  FoldLeft(LAMBDA T, i : LET A == CheckExpr(args[i], <<>>, T)
                         IN  IF i \in DOMAIN types THEN Loosely(types[i], A.ty, A) ELSE A,
           S, [i \in DOMAIN args |-> i])
CheckCallStmt(s, S) ==
  IF s.f \in DOMAIN S.funs
  THEN Fault("InvalidArgumentCount", Len(s.args) # Len(S.funs[s.f].types),
             Untested(s.args, S.funs[s.f].types, S))
  ELSE Fault("UndefinedVariable", ~Visible(s.f, S), CheckAll(s.args, S))

(* FiberDecl: neither the number nor the types of the arguments, nor the   *)
(* type declared, are compared with the fiber's.                           *)
IsFiber(s, S) ==
  LET sig == Signature(s.f, Len(s.args), S) IN sig # <<>> /\ sig[1].fiber
CheckFiberDecl(s, S) ==
  DefineVariable(s.x, FiberType(s.ty),
    Fault("RedefinedVariable", IsCurrent(s.x, S),
      Fault("UndefinedVariable", ~IsFiber(s, S),
        IF s.f \in DOMAIN S.funs THEN Untested(s.args, S.funs[s.f].types, S)
        ELSE CheckAll(s.args, S))))

(* yield and return look at the same context: that of a function lets it   *)
(* yield.                                                                  *)
CheckYield(s, S) ==
  CASE S.ctx = <<>>      -> Fault("YieldOutsideFiber", TRUE, S)
    [] S.ctx = <<<<>>>>  -> Fault("FiberTypeMismatch", TRUE, CheckExpr(s.e, <<>>, S))
    [] OTHER             -> Fits(S.ctx[1][1], CheckExpr(s.e, <<>>, S))
CheckYieldFrom(s, S) ==
  LET T == CheckExpr(s.e, <<>>, Fault("YieldOutsideFiber", S.ctx = <<>>, S))
  IN  Fault("Other", T.ty.k \notin {"fiber", "unknown"}, T)
CheckReturn(s, S) ==
  CASE S.ctx \in {<<>>, <<<<>>>>} -> CheckAll(s.es, S)
    [] S.ctx \notin {<<>>, <<<<>>>>} /\ s.es = <<>> ->
         Fault("ReturnTypeMismatchInFiber", TRUE, S)
    [] OTHER -> Fits(S.ctx[1][1], CheckExpr(s.es[1], <<>>, S))

CheckCondition(c, S) == Exactly(BoolType, CheckExpr(c, <<>>, S))
CheckIf(s, p, S) ==
  FoldLeft(LAMBDA T, body : CheckScoped(body, p, T),
           FoldLeft(LAMBDA T, arm : CheckScoped(arm.body, p, CheckCondition(arm.c, T)), S, s.arms),
           s.els)

(* Loops.  The variable of a `for` is defined in the scope of its body.    *)
InLoop(body, p, S) ==
  [CheckBlock(body, p, [S EXCEPT !.depth = @ + 1]) EXCEPT !.depth = S.depth]
CheckWhile(s, p, S) ==
  ExitScope(InLoop(s.body, p, EnterScope(CheckCondition(s.c, S))))
CheckFor(x, t, body, p, S) ==
  ExitScope(InLoop(body, p, DefineVariable(x, t, EnterScope(S))))
CheckRange(s, p, S) ==
  CheckFor(s.x, IntType, s.body, p,
    FoldLeft(LAMBDA T, e : Exactly(IntType, CheckExpr(e, <<>>, T)), S,
             <<s.from, s.to>> \o s.step))

(* What a `for x in` is over, iter_type, and the type of its elements; a   *)
(* tree marked otherwise is not what the checker leaves.                   *)
IteratesOver(t)    == IF t.k \in {"set", "fiber"} THEN t.k ELSE "array"
IterationType(t) ==
  CASE t.k = "array" -> t.of
    [] t.k = "set"   -> ElementOf(t.set)
    [] t.k = "fiber" -> ReturnOr(t.yields, Unknown)
    [] OTHER         -> Unknown
IterationFaults(s, t) ==
  (IF s.over # IteratesOver(t) THEN {"NotTheTree"} ELSE {}) \cup
  CASE t = FiberType(<<>>) -> {"CannotIterateOverVoidFiber"}
    [] t.k \in {"array", "set", "unknown"} \/ (t.k = "fiber" /\ t.yields # <<>>) -> {}
    [] OTHER -> {"TypeMismatch"}
EachOf(s, p, T) ==
  CheckFor(s.x, IterationType(T.ty), s.body, p,
           [T EXCEPT !.errors = @ \cup IterationFaults(s, T.ty)])
CheckEach(s, p, S) == EachOf(s, p, CheckExpr(s.e, <<>>, S))

(* FunctionDef and FiberDef: the body is checked in a child table whose    *)
(* scope holds the name itself and the parameters.  A fiber's body is in   *)
(* no loop.                                                                *)
NameType(f, p) == IF f \in DOMAIN p.gens THEN FiberType(p.funs[f].ret) ELSE Unknown
Parameters(fun, S) ==
  FoldLeft(LAMBDA T, i : DefineVariable(fun.params[i], fun.types[i], T), S,
           [i \in DOMAIN fun.params |-> i])
InChild(f, p, S) ==
  Parameters(p.funs[f],
    DefineVariable(f, NameType(f, p),
      [EnterScope(EnterScope(S)) EXCEPT
         !.ctx = <<p.funs[f].ret>>,
         !.depth = IF f \in DOMAIN p.gens THEN 0 ELSE @]))
CheckBody(f, p, S) ==
  [CheckBlock(p.funs[f].body, p, InChild(f, p, S)) EXCEPT
     !.scopes = S.scopes, !.ctx = S.ctx, !.depth = S.depth]
CheckDefinition(f, p, S) ==
  CheckBody(f, p, IF Visible(f, S) THEN S ELSE DefineVariable(f, NameType(f, p), S))

CheckStmt(s, p, S) ==
  CASE s.k = "decl"      -> CheckDecl(s, S)
    [] s.k = "fiber"     -> CheckFiberDecl(s, S)
    [] s.k = "assign"    -> CheckAssign(s, S)
    [] s.k = "print"     -> CheckExpr(s.e, <<>>, S)
    [] s.k = "yield"     -> CheckYield(s, S)
    [] s.k = "yieldfrom" -> CheckYieldFrom(s, S)
    [] s.k = "callstmt"  -> CheckCallStmt(s, S)
    [] s.k = "if"        -> CheckIf(s, p, S)
    [] s.k = "while"     -> CheckWhile(s, p, S)
    [] s.k = "range"     -> CheckRange(s, p, S)
    [] s.k = "each"      -> CheckEach(s, p, S)
    [] s.k = "break"     -> Fault("BreakOutsideLoop", S.depth = 0, S)
    [] s.k = "continue"  -> Fault("ContinueOutsideLoop", S.depth = 0, S)
    [] s.k = "return"    -> CheckReturn(s, S)
    [] s.k = "def"       -> CheckDefinition(s.f, p, S)

-----------------------------------------------------------------------------
(* Programs.  pre_scan_stmts: the functions and fibers that main defines   *)
(* are known from its beginning.  Of the built-in names only those of the  *)
(* conversions matter here, and no function has one of them.               *)
DefinedIn(p) == {p.main[i].f : i \in {j \in DOMAIN p.main : p.main[j].k = "def"}}
PreScan(p) ==
  [scopes |-> <<[f \in DefinedIn(p) |-> [ty |-> NameType(f, p), const |-> FALSE]]>>,
   funs |-> [f \in DefinedIn(p) |-> [types |-> p.funs[f].types, ret |-> p.funs[f].ret,
                                     fiber |-> f \in DOMAIN p.gens]],
   depth |-> 0, ctx |-> <<>>, errors |-> {}, ty |-> Unknown,
   loose |-> FALSE]
Check(p) == CheckBlock(p.main, p, PreScan(p))
=============================================================================
