------------------------------ MODULE Compiler ------------------------------
(***************************************************************************)
(* The bytecode compiler of src/backend/mod.rs: FunctionCompiler's         *)
(* compile_expr and compile_stmt, and Compiler::compile.  Compiling is a   *)
(* fold over the syntax tree that threads the compiler's state:            *)
(*   code    the instructions emitted so far (`bytecode`); address a is    *)
(*           code[a + 1]                                                   *)
(*   scopes  the stack of scopes, each a map from names to registers       *)
(*   next    `next_local`, the next free register                          *)
(*   max     `max_locals_used`                                             *)
(*   loops   `loop_stack`: the addresses of the jumps that break and       *)
(*           continue left to patch, and the register of the loop's fiber; *)
(*           here also what compile_stmt's arm for the loop remembers      *)
(*   res     the register the last expression was left in                  *)
(* and main, globals and gens, which do not change.  Register numbers are  *)
(* u8 in the instructions and usize in next: Reg is the cast.  A statement *)
(* is compiled in steps, each an operator of the state before it.          *)
(***************************************************************************)
EXTENDS Syntax, TLC

LOCAL INSTANCE SequencesExt

Reg(n)  == n % 256
NoFiber == -1

Larger(a, b) == IF a > b THEN a ELSE b

NewCompiler(main, globals, gens, params) ==
  [code |-> <<>>, next |-> Len(params), max |-> 0, loops |-> <<>>, res |-> 0,
   scopes |-> <<[x \in ToSet(params) |-> (CHOOSE i \in DOMAIN params : params[i] = x) - 1]>>,
   main |-> main, globals |-> globals, gens |-> gens]

Here(S)              == Len(S.code)
Emit(S, op)          == [S EXCEPT !.code = Append(@, op)]
Patch(S, at, target) == [S EXCEPT !.code[at + 1].target = target]
PatchAll(S, addresses, target) ==
  [S EXCEPT !.code = [i \in DOMAIN S.code |->
     IF i - 1 \in addresses THEN [S.code[i] EXCEPT !.target = target] ELSE S.code[i]]]

SetNext(S, n) == [S EXCEPT !.next = n]
SyncMax(S)    == [S EXCEPT !.max = Larger(@, S.next)]
PushReg(S)    == SyncMax([S EXCEPT !.res = Reg(S.next), !.next = @ + 1])
PopReg(S)     == SetNext(S, S.next - 1)

EnterScope(S)         == [S EXCEPT !.scopes = Append(@, <<>>)]
ExitScope(S)          == [S EXCEPT !.scopes = Front(@)]
DefineLocal(S, x, r)  == [S EXCEPT !.scopes[Len(S.scopes)] = (x :> r) @@ @]
ScopesOf(S, x)        == {i \in DOMAIN S.scopes : x \in DOMAIN S.scopes[i]}
IsLocal(S, x)         == ScopesOf(S, x) # {}
LookupLocal(S, x) ==
  S.scopes[CHOOSE i \in ScopesOf(S, x) : \A j \in ScopesOf(S, x) : j <= i][x]

(* A loop begins with its variable in register var, its top at the current *)
(* address; base is the register that will be free when it has ended.      *)
EnterLoop(base, var, fiber, S) ==
  [S EXCEPT !.loops = Append(@, [breaks |-> {}, continues |-> {}, exits |-> {},
                                 fiber |-> fiber, var |-> var, base |-> base,
                                 top |-> Here(S), saved |-> S.next])]
Loop(S) == Last(S.loops)
LeaveAt(S, field) == [S EXCEPT !.loops[Len(S.loops)][field] = @ \cup {Here(S)}]
ExitLoop(contLabel, S) ==
  [PatchAll(PatchAll(S, Loop(S).exits \cup Loop(S).breaks, Here(S)),
            Loop(S).continues, contLabel) EXCEPT !.loops = Front(@)]
(* The loops over ranges, collections and fibers have a scope.             *)
CloseLoop(contLabel, S) ==
  SetNext(ExitScope(ExitLoop(contLabel, S)), Loop(S).base)

ConstOp(r, v)     == [op |-> "LoadConst", dst |-> r, v |-> v]
MoveOp(dst, src)      == [op |-> "Move", dst |-> dst, src |-> src]
JumpTo(target)      == [op |-> "Jump", target |-> target]
TestOp(b, r)        == [op |-> IF b THEN "JumpIfTrue" ELSE "JumpIfFalse",
                        src |-> r, target |-> 0]
MethodOp(dst, m, base, n) ==
  [op |-> "MethodCall", dst |-> dst, m |-> m, base |-> base, count |-> n]

IntValue(n)  == [t |-> "int", n |-> n]
BoolValue(b) == [t |-> "bool", n |-> IF b THEN 1 ELSE 0]
FloatValue(n) == [t |-> "float", n |-> n]

-----------------------------------------------------------------------------
(* Expressions.                                                            *)

RECURSIVE CompileExpr(_, _), CompileEach(_, _, _)

(* An operand that must be in register r: compiled, then moved if it was   *)
(* left elsewhere.                                                         *)
Into(r, T) == IF T.res = r THEN T ELSE Emit(T, MoveOp(r, T.res))
CompileInto(e, r, S) == Into(r, CompileExpr(e, S))

(* Operands in the consecutive registers r, r + 1, ...                     *)
CompileEach(es, r, S) ==
  IF es = <<>> THEN S
  ELSE CompileEach(Tail(es), Reg(r + 1), SetNext(CompileInto(Head(es), r, S), Reg(r + 1)))

(* An instruction whose operands, compiled before it, start at its result. *)
EmitAtBase(op, base, S) ==
  [SyncMax(SetNext(Emit(S, op @@ [dst |-> base, base |-> base]), Reg(base + 1)))
     EXCEPT !.res = base]

CompileCall(e, S) ==
  EmitAtBase([op |-> IF e.f \in DOMAIN S.gens THEN "FiberCreate" ELSE "Call", f |-> e.f,
              count |-> Len(e.args)], Reg(S.next), CompileEach(e.args, Reg(S.next), SetNext(S, Reg(S.next))))

(* The receiver is copied to a fresh register, the arguments follow it and *)
(* the result takes one more register: the registers below it stay taken.  *)
MethodResult(e, base, D) == Emit(D, MethodOp(D.res, e.m, base, Len(e.args)))
MethodOn(e, receiver, R) ==
  MethodResult(e, R.res,
    PushReg(SyncMax(SetNext(CompileEach(e.args, Reg(R.res + 1),
                                        SetNext(Emit(R, MoveOp(R.res, receiver)),
                                                Reg(R.res + 1))),
                            Reg(R.res + 1 + Len(e.args))))))
CompileReceiver(e, E) == MethodOn(e, E.res, PushReg(E))
CompileMethod(e, S)   == CompileReceiver(e, CompileExpr(e.on, S))

(* A local is copied to a fresh register, a global is loaded.              *)
CompileName(x, S) ==
  Emit(PushReg(S), IF IsLocal(S, x) THEN MoveOp(Reg(S.next), LookupLocal(S, x))
                   ELSE [op |-> "GetVar", dst |-> Reg(S.next), x |-> x])

BinaryResult(e, l, r, D) ==
  SetNext(Emit(D, [op |-> e.op, dst |-> D.res, src1 |-> l, src2 |-> r]), Reg(D.res + 1))
BinaryRight(e, l, R)  == BinaryResult(e, l, R.res, PushReg(SetNext(R, l)))
BinaryLeft(e, L)      == BinaryRight(e, L.res, CompileExpr(e.r, L))
CompileBinary(e, S)   == BinaryLeft(e, CompileExpr(e.l, S))

CompileElements(e, S) ==
  EmitAtBase([op |-> e.k, count |-> Len(e.es)], Reg(S.next),
             CompileEach(e.es, Reg(S.next), SetNext(S, Reg(S.next))))

(* Not; minus, which is the difference from a zero of its operand's kind;  *)
(* and f(), which converts in place.                                       *)
NegateBool(src, P)  == Emit(P, [op |-> "Not", dst |-> P.res, src |-> src])
CompileNot(T)       == NegateBool(T.res, PushReg(SetNext(T, T.res)))
Zero(e)             == IF e.k = "real" THEN FloatValue(0) ELSE IntValue(0)
Difference(zero, T) ==
  [SyncMax(SetNext(Emit(T, [op |-> "Sub", dst |-> zero, src1 |-> zero, src2 |-> T.res]),
                   Reg(zero + 1))) EXCEPT !.res = zero]
CompileMinus(e, P)  == Difference(P.res, CompileExpr(e, Emit(P, ConstOp(P.res, Zero(e)))))
CastInPlace(T)      == Emit(T, [op |-> "CastFloat", dst |-> T.res, src |-> T.res])

CompileExpr(e, S) ==
  CASE e.k = "num"    -> Emit(PushReg(S), ConstOp(Reg(S.next), IntValue(e.n)))
    [] e.k = "truth"  -> Emit(PushReg(S), ConstOp(Reg(S.next), BoolValue(e.b)))
    [] e.k = "real"   -> Emit(PushReg(S), ConstOp(Reg(S.next), FloatValue(e.n)))
    [] e.k = "not"    -> CompileNot(CompileExpr(e.e, S))
    [] e.k = "minus"  -> CompileMinus(e.e, PushReg(S))
    [] e.k = "asreal" -> CastInPlace(CompileExpr(e.e, S))
    [] e.k = "name"   -> CompileName(e.x, S)
    [] e.k = "bin"    -> CompileBinary(e, S)
    [] e.k \in {"ArrayInit", "SetInit"} -> CompileElements(e, S)
    [] e.k = "call"   -> CompileCall(e, S)
    [] e.k = "method" -> CompileMethod(e, S)

-----------------------------------------------------------------------------
(* Statements.                                                             *)

RECURSIVE CompileStmt(_, _), CompileBlock(_, _)

(* Statement by statement; the test of S makes TLC evaluate it here.       *)
CompileBlock(body, S) ==
  IF S.next < 0 \/ body = <<>> THEN S
  ELSE CompileBlock(Tail(body), CompileStmt(Head(body), S))
LastOf(body)     == IF body = <<>> THEN <<>> ELSE <<Last(body)>>
AllButLast(body) == IF body = <<>> THEN <<>> ELSE Front(body)
CompileScoped(body, S) == ExitScope(CompileBlock(body, EnterScope(S)))

(* A condition and the jump over what it guards, to be patched; the        *)
(* register of the condition is given back.  The jump is at Here - 1.      *)
Test(T)           == PopReg(Emit(T, TestOp(FALSE, T.res)))
CompileTest(c, S) == Test(CompileExpr(c, S))

(* A value used up by an instruction at once.                              *)
SetGlobal(x, T) == PopReg(Emit(T, [op |-> "SetVar", x |-> x, src |-> T.res]))
SetLocal(r, T)  == PopReg(Emit(T, MoveOp(r, T.res)))
Consume(op, T)  == PopReg(Emit(T, [op |-> op, src |-> T.res]))

(* VarDecl: a global at the top level of main; otherwise the register is   *)
(* taken and the name bound before the initializer is compiled.            *)
DeclLocal(s, D) ==
  SyncMax(SetNext(CompileInto(s.e, D.res, DefineLocal(D, s.x, D.res)), Reg(D.res + 1)))
CompileDecl(s, S) ==
  IF S.main /\ Len(S.scopes) = 1 THEN SetGlobal(s.x, CompileExpr(s.e, S))
  ELSE DeclLocal(s, PushReg(S))

Bind(x, P)        == DefineLocal(P, x, P.res)
BindFresh(x, S)   == Bind(x, PushReg(S))
FiberInto(s, base, D) ==
  SyncMax(SetNext(Emit(D, [op |-> "FiberCreate", dst |-> D.res, f |-> s.f,
                           base |-> base, count |-> Len(s.args)]), Reg(D.res + 1)))
FiberVariable(x, A) == IF IsLocal(A, x) THEN [A EXCEPT !.res = LookupLocal(A, x)]
                       ELSE BindFresh(x, A)
CompileFiberDecl(s, S) ==
  FiberInto(s, Reg(S.next), FiberVariable(s.x, CompileEach(s.args, Reg(S.next), S)))

CompileAssign(s, S) ==
  CASE ~IsIncrement(s) /\ IsLocal(S, s.x) -> SetLocal(LookupLocal(S, s.x), CompileExpr(s.e, S))
    [] ~IsIncrement(s) /\ ~IsLocal(S, s.x) -> SetGlobal(s.x, CompileExpr(s.e, S))
    [] IsIncrement(s) /\ IsLocal(S, s.x)   ->
         Emit(S, [op |-> "IncLocal", reg |-> LookupLocal(S, s.x)])
    [] IsIncrement(s) /\ ~IsLocal(S, s.x)  -> Emit(S, [op |-> "IncVar", x |-> s.x])

(* FunctionCallStmt: the call's result lands in the register at base,      *)
(* which nothing reserves when there are no arguments.                     *)
CompileCallStmt(s, S) ==
  SetNext(Emit(CompileEach(s.args, Reg(S.next), S),
               [op |-> "Call", dst |-> Reg(S.next), f |-> s.f, base |-> Reg(S.next),
                count |-> Len(s.args)]),
          Reg(S.next))

(* If: every arm jumps to the end, except a lone one; ends are the         *)
(* addresses of those jumps.                                               *)
LoneArm(test, B)     == Patch(B, test, Here(B))
EndArm(test, ends, B) ==
  [S |-> Patch(Emit(B, JumpTo(0)), test, Here(B) + 1), ends |-> ends \cup {Here(B)}]
CompileArm(ends, arm, C) == EndArm(Here(C) - 1, ends, CompileScoped(arm.body, C))
CompileLone(arm, C)      == LoneArm(Here(C) - 1, CompileScoped(arm.body, C))
AtEnd(ends, S)  == PatchAll(S, ends, Here(S))
EndIf(els, acc) ==
  AtEnd(acc.ends, IF els = <<>> THEN acc.S ELSE CompileScoped(els[1], acc.S))
CompileIf(s, S) ==
  IF Len(s.arms) = 1 /\ s.els = <<>>
  THEN CompileLone(s.arms[1], CompileTest(s.arms[1].c, S))
  ELSE EndIf(s.els, FoldLeft(LAMBDA acc, arm :
                                CompileArm(acc.ends, arm, CompileTest(arm.c, acc.S)),
                             [S |-> S, ends |-> {}], s.arms))

-----------------------------------------------------------------------------
(* Loops.                                                                  *)

(* A conditional jump to the end of the loop.                              *)
ExitOn(b, T)       == PopReg(Emit(LeaveAt(T, "exits"), TestOp(b, T.res)))
Compare(op, a, b, T) ==
  ExitOn(FALSE, Emit(T, [op |-> op, dst |-> T.res, src1 |-> a, src2 |-> b]))
RestoreRegs(S)     == SetNext(S, Loop(S).saved)
Again(S)           == Emit(S, JumpTo(Loop(S).top))

\* Mutant: the exit jump patched to the loop's start.
WhileExitsToTop(s, S) ==
  LET AtTop(B) == PatchAll(ExitLoop(Here(S), B), Loop(B).exits, Here(S))
  IN  AtTop(Again(CompileScoped(s.body,
        ExitOn(FALSE, CompileExpr(s.c, EnterLoop(S.next, 0, NoFiber, S))))))

CompileWhile(s, S) ==
  ExitLoop(Here(S), Again(CompileScoped(s.body,
    ExitOn(FALSE, CompileExpr(s.c, EnterLoop(S.next, 0, NoFiber, S))))))

(* The register of the loop variable of `for x in`: the one x already has, *)
(* if x is bound, or a new one, bound in the scope around the loop.        *)
LoopVariable(x, S) ==
  IF ~IsLocal(S, x) THEN BindFresh(x, S)
  ELSE [S EXCEPT !.res = LookupLocal(S, x), !.next = Larger(@, LookupLocal(S, x) + 1)]

(* For over an array or a set.  Consecutive registers from base on hold    *)
(* the array (the set's values), the argument of .get, the size and the    *)
(* index.                                                                  *)
Argument(base) == Reg(base + 1)
SizeReg(base)  == Reg(base + 2)
Index(base)    == Reg(base + 3)
BeginElements(s, source, R) ==
  LoopVariable(s.x,
    Emit(Emit(Emit(PushReg(PushReg(PushReg(R))),
                   IF s.over = "array" THEN MoveOp(R.res, source)
                   ELSE MethodOp(R.res, "values", source, 0)),
              MethodOp(SizeReg(R.res), "size", R.res, 0)),
         ConstOp(Index(R.res), IntValue(0))))
TakeElement(base, S) ==
  Emit(Emit(S, MoveOp(Argument(base), Index(base))),
       MethodOp(Loop(S).var, "get", base, 1))
NextElement(base, start, S) ==
  CloseLoop(Here(S), Emit(S, [op |-> "ArrayLoopNext", idx |-> Index(base),
                              size |-> SizeReg(base), target |-> start]))
EachElement(s, base, C) ==
  NextElement(base, Here(C), RestoreRegs(CompileBlock(s.body, TakeElement(base, C))))
OverElements(s, base, free, V) ==
  EachElement(s, base,
    Compare("Less", Index(base), SizeReg(base),
            PushReg(EnterLoop(free, V.res, NoFiber, EnterScope(V)))))
Collection(s, source, R) ==
  OverElements(s, R.res, IF s.over = "array" THEN R.res ELSE source,
               BeginElements(s, source, R))
CollectionIn(s, E) == Collection(s, E.res, PushReg(PopReg(E)))
CompileEachElement(s, S) == CollectionIn(s, CompileExpr(s.e, S))

(* The end of a stepless range loop: an increment that is the body's last  *)
(* statement is fused with the loop's own.                                 *)
Fused(op, operand, S) == [S EXCEPT !.code = Append(Front(@), operand @@ op)]
LoopStep(next, lastStart, S) ==
  LET last == Last(S.code)
  IN  IF Here(S) # lastStart + 1 \/ last.op \notin {"IncVar", "IncLocal"} THEN Emit(S, next)
      ELSE IF last.op = "IncVar"
      THEN Fused([next EXCEPT !.op = "IncVarLoopNext"], "x" :> last.x, S)
      ELSE Fused([next EXCEPT !.op = "IncLocalLoopNext"], "inc" :> last.reg, S)

(* The end of a range loop with a step.                                    *)
AddStep(var, P) ==
  PopReg(Again(Emit(P, [op |-> "Add", dst |-> var, src1 |-> var, src2 |-> P.res])))

(* For over a range.  The variable is bound in the scope around the loop.  *)
NextInRange(s, limit, start, lastStart, S) ==
  CloseLoop(Here(S),
    IF s.step = <<>>
    THEN LoopStep([op |-> "LoopNext", reg |-> Loop(S).var, limit |-> limit,
                   target |-> start], lastStart, S)
    ELSE AddStep(Loop(S).var, CompileExpr(s.step[1], S)))
LastInBody(s, limit, start, Most) ==
  NextInRange(s, limit, start, Here(Most),
              RestoreRegs(CompileBlock(LastOf(s.body), Most)))
EachInRange(s, limit, C) ==
  LastInBody(s, limit, Here(C), CompileBlock(AllButLast(s.body), C))
OverRange(s, var, E) ==
  EachInRange(s, E.res,
    Compare("LessEqual", var, E.res,
            PushReg(EnterLoop(var, var, NoFiber, EnterScope(E)))))
RangeVariable(s, from, V) ==
  OverRange(s, V.res, CompileExpr(s.to, Bind(s.x, Emit(V, MoveOp(V.res, from)))))
RangeFrom(s, E)    == RangeVariable(s, E.res, PushReg(PopReg(E)))
CompileRange(s, S) == RangeFrom(s, CompileExpr(s.from, S))

(* For over a fiber: a value that .next() leaves with the fiber done is    *)
(* not given to the body.                                                  *)
ExitIfDone(fiber, T) == ExitOn(TRUE, Emit(T, MethodOp(T.res, "isDone", fiber, 0)))
NextYield(fiber, S) ==
  ExitIfDone(fiber, PushReg(
    Emit(ExitIfDone(fiber, PushReg(S)), MethodOp(Loop(S).var, "next", fiber, 0))))
EndYields(S) == CloseLoop(Here(S), Again(S))
OverYields(s, fiber, V) ==
  EndYields(RestoreRegs(CompileBlock(s.body,
    NextYield(fiber, EnterLoop(fiber, V.res, fiber, EnterScope(V))))))
YieldsOf(s, F)         == OverYields(s, F.res, LoopVariable(s.x, F))
CompileEachYield(s, S) == YieldsOf(s, CompileExpr(s.e, S))

(* yield from: a value that .next() leaves with the fiber done is not      *)
(* yielded.  The test of a .isDone() is patched like an arm of an if.      *)
TestDone(fiber, T) ==
  PopReg(Emit(Emit(T, MethodOp(T.res, "isDone", fiber, 0)), TestOp(TRUE, T.res)))
YieldUnlessDone(val, test, T) ==
  LoneArm(test, Emit(T, [op |-> "Yield", src |-> val]))
YieldNext(fiber, V) ==
  LET T == TestDone(fiber, PushReg(Emit(V, MethodOp(V.res, "next", fiber, 0))))
  IN  PopReg(YieldUnlessDone(V.res, Here(T) - 1, T))
YieldsFrom(F) ==
  LET T == TestDone(F.res, PushReg(F))
      Y == Emit(YieldNext(F.res, PushReg(T)), JumpTo(Here(F)))
  IN  SetNext(Patch(Y, Here(T) - 1, Here(Y)), F.res)
CompileYieldFrom(s, S) == YieldsFrom(CompileExpr(s.e, S))

(* Break closes the fiber of the loop it leaves; the result of .close()    *)
(* goes to register 0.                                                     *)
CompileBreak(S) ==
  LET fiber == Loop(S).fiber
  IN  Emit(LeaveAt(IF fiber = NoFiber THEN S ELSE Emit(S, MethodOp(0, "close", fiber, 0)),
                   "breaks"), JumpTo(0))

CompileContinue(S) == Emit(LeaveAt(S, "continues"), JumpTo(0))

CompileReturn(s, S) ==
  IF s.es = <<>> THEN Emit(S, [op |-> "ReturnVoid"])
  ELSE Consume("Return", CompileExpr(s.es[1], S))

CompileStmt(s, S) ==
  CASE s.k = "def"      -> S
    [] s.k = "decl"     -> CompileDecl(s, S)
    [] s.k = "fiber"    -> CompileFiberDecl(s, S)
    [] s.k = "assign"   -> CompileAssign(s, S)
    [] s.k = "print"    -> Consume("Print", CompileExpr(s.e, S))
    [] s.k = "yield"    -> Consume("Yield", CompileExpr(s.e, S))
    [] s.k = "yieldfrom" -> CompileYieldFrom(s, S)
    [] s.k = "callstmt" -> CompileCallStmt(s, S)
    [] s.k = "if"       -> CompileIf(s, S)
    [] s.k = "while"    -> CompileWhile(s, S)
    [] s.k = "range"    -> CompileRange(s, S)
    [] s.k = "each"     -> IF s.over = "fiber" THEN CompileEachYield(s, S)
                           ELSE CompileEachElement(s, S)
    [] s.k = "break"    -> CompileBreak(S)
    [] s.k = "continue" -> CompileContinue(S)
    [] s.k = "return"   -> CompileReturn(s, S)

-----------------------------------------------------------------------------
(* Programs.                                                               *)

(* register_globals_recursive: the names the main script declares at its   *)
(* top level (the five built-in names are left out).                       *)
GlobalsOf(p) == {p.main[i].x : i \in {j \in DOMAIN p.main :
                                      p.main[j].k \in {"decl", "fiber"}}}

Chunk(S) == [code |-> S.code, max |-> Larger(S.max, S.next)]

(* compile_function_helper: a body that does not end with a return gets    *)
(* one.                                                                    *)
EndFunction(S) ==
  Chunk(IF S.code # <<>> /\ Last(S.code).op \in {"Return", "ReturnVoid"} THEN S
        ELSE Emit(S, [op |-> "ReturnVoid"]))
CompileFunction(f, p) ==
  EndFunction(CompileBlock(p.funs[f].body,
                           NewCompiler(FALSE, GlobalsOf(p), p.gens, p.funs[f].params)))

(* The main script: the instructions that set the built-in globals, which  *)
(* use one register, are left out.                                         *)
CompileMain(p) ==
  Chunk(CompileBlock(p.main, SyncMax(PopReg(PushReg(NewCompiler(TRUE, GlobalsOf(p),
                                                                p.gens, <<>>))))))

(* Compiler::compile: the chunk of the main script and of each function.   *)
Compile(p) ==
  [f \in {"main"} \cup DOMAIN p.funs |->
     IF f = "main" THEN CompileMain(p) ELSE CompileFunction(f, p)]
=============================================================================
