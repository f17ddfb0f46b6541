----------------------------- MODULE MCCompiler -----------------------------
(***************************************************************************)
(* Checker, Compiler and Bytecode against Language, for TLC: small         *)
(* programs that nest every kind of loop, in the main script (x is a       *)
(* global) and in a function (x is a parameter), and small programs with   *)
(* types (TypedPrograms), those of them that the checker accepts.  meaning *)
(* is the output the language definition gives to the program, and types   *)
(* what the checker takes its global variables for.                        *)
(***************************************************************************)
EXTENDS Bytecode, TypedPrograms

LOCAL INSTANCE SequencesExt

K == INSTANCE Checker
C == INSTANCE Compiler
L == INSTANCE Language

MCCompiled(p) == C!Compile(p)
MCGlobals(p)  == C!GlobalsOf(p)

-----------------------------------------------------------------------------
(* The programs.                                                           *)

x == Name("x")
v == Name("v")
IncX     == Assign("x", Bin("Add", x, Num(1)))
AddV     == Assign("x", Bin("Add", x, v))
When2(s) == If(<<Arm(Bin("Equal", v, Num(2)), <<s>>)>>, <<>>)
Nums(ns) == [i \in DOMAIN ns |-> Num(ns[i])]

Choose == If(<<Arm(Bin("Equal", v, Num(1)), <<IncX>>),
               Arm(Bin("Less", x, v), <<PrintStmt(v)>>)>>, <<<<PrintStmt(x)>>>>)
Local  == Decl("y", Bin("Add", v, x))
CallH  == Assign("x", CallOf("h", <<v>>))
InnerRange == ForRange("a", Num(1), Num(2), <<>>, <<IncX>>)
InnerArray == ForEach("array", "b", ArrayOf(Nums(<<5, 6>>)),
                      <<If(<<Arm(Bin("Equal", Name("b"), x), <<Break>>)>>, <<>>),
                        PrintStmt(Name("b"))>>)
InnerFiber == ForEach("fiber", "c", CallOf("yields", <<Num(2)>>),
                      <<Assign("x", Bin("Add", x, Name("c")))>>)
(* A method call leaves its result above two registers it does not free.   *)
Element(i) == Method(ArrayOf(Nums(<<7, 8>>)), "get", <<i>>)
LongWhile  == While(Bin("Less", x, Method(ArrayOf(Nums(<<7, 8>>)), "size", <<>>)), <<IncX>>)
InnerWhile == While(Bin("Less", x, v), <<IncX>>)

Plain == {PrintStmt(v), IncX, AddV, Choose, Local, CallH, CallStmt("g", <<x>>),
          InnerRange, InnerArray, InnerFiber, InnerWhile,
          CallStmt("k", <<v, Element(Num(1))>>), LongWhile}
InFunctionOnly == {Return(<<x>>), When2(Return(<<v>>))}
Atoms == Plain \cup InFunctionOnly \cup {When2(Break), When2(Continue)}
Bodies(atoms) == {<<a>> : a \in atoms} \cup {<<a, b>> : a, b \in atoms}

RangeLoop(b)  == ForRange("v", Num(1), Num(3), <<>>, b)
StepLoop(b)   == ForRange("v", Num(0), Num(5), <<Num(2)>>, b)
ArrayLoop(b)  == ForEach("array", "v", ArrayOf(Nums(<<3, 2, 1>>)), b)
SetLoop(b)    == ForEach("set", "v", SetOf(Nums(<<3, 1, 3, 2>>)), b)
FiberLoop(b)  == ForEach("fiber", "v", CallOf("yields", <<Num(3)>>), b)
RelayLoop(b)  == ForEach("fiber", "v", CallOf("relays", <<Num(2)>>), b)
WhileLoop(b)  == While(Bin("LessEqual", v, Num(3)),
                       <<Assign("v", Bin("Add", v, Num(1)))>> \o b)

Gens == [yields |-> FALSE, returns |-> TRUE, relays |-> FALSE]
OneToN == ForRange("i", Num(1), Name("n"), <<>>, <<YieldStmt(Name("i"))>>)
Helpers == [yields |-> Fun(<<"n">>, <<OneToN>>),
            returns |-> Fun(<<"n">>, <<OneToN, Return(<<Bin("Add", Name("n"), Num(1))>>)>>),
            relays |-> Fun(<<"n">>, <<YieldFrom(CallOf("yields", <<Name("n")>>))>>),
            g |-> Fun(<<"a">>, <<PrintStmt(Name("a"))>>),
            k |-> Fun(<<"a", "b">>, <<PrintStmt(Bin("Add", Name("a"), Name("b")))>>),
            h |-> Fun(<<"a">>, <<Return(<<Bin("Add", Name("a"), Num(1))>>)>>)]
After == <<Decl("z", Num(9)), PrintStmt(Name("z")), PrintStmt(x)>>

(* Every function is defined at the beginning of the main script.          *)
HelperNames == <<"yields", "returns", "relays", "g", "k", "h">>
Whole(names, funs, main) ==
  Program([i \in DOMAIN names |-> Define(names[i])] \o main, funs, Gens)
InMain(stmts)     == Whole(HelperNames, Helpers, <<Decl("x", Num(1))>> \o stmts)
InFunction(stmts) == Whole(HelperNames \o <<"f">>, Helpers @@ [f |-> Fun(<<"x">>, stmts)],
                           <<PrintStmt(CallOf("f", <<Num(1)>>))>>)
Placed(place, stmts) == IF place = "main" THEN InMain(stmts) ELSE InFunction(stmts)

(* A loop over a fiber that a variable holds, and what it leaves.          *)
OverVariable(b) ==
  <<FiberDecl("q", "yields", <<Num(3)>>), ForEach("fiber", "v", Name("q"), b),
    PrintStmt(Method(Name("q"), "isDone", <<>>)), PrintStmt(x)>>

Loop(kind, b) ==
  CASE kind = "range" -> <<RangeLoop(b)>> [] kind = "step"  -> <<StepLoop(b)>>
    [] kind = "array" -> <<ArrayLoop(b)>> [] kind = "set"   -> <<SetLoop(b)>>
    [] kind = "fiber" -> <<FiberLoop(b)>> [] kind = "relay" -> <<RelayLoop(b)>>
    [] kind = "variable" -> OverVariable(b)
    [] kind = "while" -> <<Decl("v", Num(1)), WhileLoop(b)>>
Kinds == {"range", "step", "array", "set", "fiber", "relay", "variable", "while"}
LoopProgram(c) == Placed(c.place, Loop(c.kind, c.body) \o After)

(* return is a statement of functions.  What the runs of the known         *)
(* disagreements are about is left out.                                    *)
Returns(b) == \E i \in DOMAIN b : b[i] \in InFunctionOnly
Skips(b)   == When2(Continue) \in {b[i] : i \in DOMAIN b} /\ b[Len(b)] = IncX
Breaks(b)  == When2(Break) \in {b[i] : i \in DOMAIN b}
Kept(c) ==
  /\ Returns(c.body) => c.place = "function"
  /\ c.kind = "range" => ~Skips(c.body)
  /\ c.kind \in {"fiber", "variable"} /\ Breaks(c.body) => c.place = "main"
  /\ c.kind = "relay" => Len(c.body) = 1 /\ c.body[1] \in Plain

LoopPrograms ==
  {LoopProgram(c) : c \in {d \in [kind : Kinds, body : Bodies(Atoms),
                                   place : {"main", "function"}] : Kept(d)}}

SameName == <<RangeLoop(<<PrintStmt(v)>>), ArrayLoop(<<PrintStmt(v)>>)>>
SameNamePrograms == {InMain(SameName), InFunction(SameName)}

ForwardPrograms ==
  {Whole(HelperNames \o <<"outer", "inner">>,
         Helpers @@ [outer |-> Fun(<<>>, <<CallStmt("inner", <<>>)>>),
                     inner |-> Fun(<<>>, <<PrintStmt(Num(1))>>)],
         <<CallStmt("outer", <<>>)>>)}

(* Programs that fault: an index out of bounds in a function, a register   *)
(* outside of the frame, a method called on a number in the main script.   *)
FaultPrograms == ForwardPrograms \cup {InMain(SameName)}
  \cup {InFunction(<<RangeLoop(<<PrintStmt(Element(Bin("Add", v, Num(n)))), IncX>>)>> \o After) :
          n \in {-2, -1, 0}}

MainPrograms == LoopPrograms \cup FaultPrograms \cup TypedPrograms

VARIABLES meaning, types

(* The global variables that are set: the compiler gives a fiber declared  *)
(* in the main script a global as well, but keeps it in a register.        *)
Declared(p) == {p.main[i].x : i \in {j \in DOMAIN p.main : p.main[j].k = "decl"}}

(* main.rs does not compile what the checker finds an error in.            *)
MCInit ==
  /\ Init
  /\ LET S == K!Check(prog)
     IN  /\ S.errors = {}
         /\ types = [y \in Declared(prog) |-> S.scopes[1][y].ty]
  /\ meaning = L!Meaning(prog)
MCNext == Next /\ UNCHANGED <<meaning, types>>
MCSpec == MCInit /\ [][MCNext]_<<vars, meaning, types>>
                 /\ WF_<<vars, meaning, types>>(MCNext)

-----------------------------------------------------------------------------
(* Properties.                                                             *)

(* What has been printed; an array or a set with its elements.             *)
Shown(w) == IF w.t \in {"array", "set"} THEN [t |-> w.t, elems |-> heap[w.n]] ELSE w
Printed  == [i \in DOMAIN out |-> Shown(out[i])]

(* Whatever stops a program, what it has printed is the beginning of what  *)
(* it should print: execution does not go on past a fault in its frame or, *)
(* if the fault is a counted error, in the callers of its frame.           *)
PrintsInOrder == IsPrefix(Printed, meaning)

(* The bytecode of a program prints what the program says, in order, and   *)
(* reaches its end: no register is overwritten while it is needed, no jump *)
(* goes astray, no instruction finds a value of another type or a register *)
(* that its frame does not have.                                           *)
Computes == status # "running" => \/ status = "ended" /\ Printed = meaning
                                  \/ prog \in FaultPrograms

RECURSIVE HasType(_, _)
HasType(w, t) ==
  \/ t = Unknown
  \/ w.t = t.k /\ (t.k = "array" =>
                     \A i \in DOMAIN heap[w.n] : HasType(heap[w.n][i], t.of))

(* check_stmt and check_expr are sound: a global variable holds values of  *)
(* the type the checker gave its name, from when it is set, and a function *)
(* is entered with arguments of its parameters' types.                     *)
TypesHold ==
  /\ \A y \in DOMAIN types : \/ HasType(globals[y], types[y])
                             \/ globals[y] = Unset /\ status # "ended"
  /\ Top.ip = 0 /\ Top.f # "main" /\ Top.fiber = NoFiber =>
       \A i \in DOMAIN prog.funs[Top.f].types :
         HasType(Top.reg[i - 1], prog.funs[Top.f].types[i])

(* Every loop of these programs is finite: the program stops.              *)
Terminates == <>(status # "running")

-----------------------------------------------------------------------------
(* What the documentation says of features the compiler gets wrong.        *)

ContinuePrograms ==
  {Placed(place, <<RangeLoop(b)>> \o After) :
     place \in {"main", "function"}, b \in {c \in Bodies(Plain \cup {When2(Continue)}) : Skips(c)}}

(* control_flow.md:97, "`continue` skips to the next iteration": a program *)
(* that ends has run all the iterations.                                   *)
ContinueSkips == status = "ended" => out = meaning

BreakPrograms == {InFunction(OverVariable(<<When2(Break), PrintStmt(v)>>))}

(* control_flow.md:108, break in a loop over a fiber closes that fiber:    *)
(* that is all it does, and what follows the loop runs.                    *)
BreakCloses == status # "running" => status = "ended" /\ out = meaning

(* control_flow.md:63, "the loop variable receives the element": also when *)
(* an earlier loop had a variable of the same name.                        *)
VariableReceivesElement == status # "running" => out = meaning

(* backend.md:45, the register vector of a call is "of exactly the right   *)
(* size": no instruction uses a register that its frame does not have.     *)
FrameLargeEnough == status # "panicked"

ReturningPrograms ==
  {InMain(<<FiberDecl("q", "returns", <<Num(2)>>),
            ForEach("fiber", "v", Name("q"), <<PrintStmt(v)>>)>>)}

(* The while loop that functions_fibers.md:145 says a fiber loop is        *)
(* equivalent to.                                                          *)
WhileForm(s) ==
  While(Bin("Equal", Method(s.e, "isDone", <<>>), Truth(FALSE)),
        <<Decl(s.x, Method(s.e, "next", <<>>))>> \o s.body)
WithWhile(p) ==
  [p EXCEPT !.main = [i \in DOMAIN p.main |->
     IF p.main[i].k = "each" THEN WhileForm(p.main[i]) ELSE p.main[i]]]

(* functions_fibers.md:145: a program that ends has printed what it prints *)
(* with its fiber loops written as while loops.                            *)
EquivalentToWhile == status = "ended" => out = L!Meaning(WithWhile(prog))
=============================================================================
