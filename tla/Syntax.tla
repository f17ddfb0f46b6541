------------------------------- MODULE Syntax -------------------------------
(***************************************************************************)
(* The part of the abstract syntax (src/parser/ast.rs) that the models of  *)
(* the compiler and of the language share.  A node is a record whose field *)
(* k names the variant; the other fields are the variant's.  Spans and the *)
(* variants the models leave out are not represented.                      *)
(***************************************************************************)
EXTENDS Integers, Sequences

(* Types.  SetType takes one of the letters N, Z, Q, S, C and B; a fiber   *)
(* that yields no values has none in yields.                               *)
Unknown       == [k |-> "unknown"]
IntType       == [k |-> "int"]
FloatType     == [k |-> "float"]
BoolType      == [k |-> "bool"]
StringType    == [k |-> "string"]
ArrayType(t)  == [k |-> "array", of |-> t]
SetType(s)    == [k |-> "set", set |-> s]
FiberType(ys) == [k |-> "fiber", yields |-> ys]

(* Expressions. *)
Num(n)              == [k |-> "num", n |-> n]
Truth(b)            == [k |-> "truth", b |-> b]
Real(n)             == [k |-> "real", n |-> n]   \* in the models' units
Name(x)             == [k |-> "name", x |-> x]
Bin(op, l, r)       == [k |-> "bin", op |-> op, l |-> l, r |-> r]
NotOf(e)            == [k |-> "not", e |-> e]
Minus(e)            == [k |-> "minus", e |-> e]
AsReal(e)           == [k |-> "asreal", e |-> e] \* the call f(e)
ArrayOf(es)         == [k |-> "ArrayInit", es |-> es]
SetLiteral(s, es)   == [k |-> "SetInit", es |-> es, set |-> s]
SetOf(es)           == SetLiteral("N", es)
CallOf(f, args)     == [k |-> "call", f |-> f, args |-> args]
Method(on, m, args) == [k |-> "method", on |-> on, m |-> m, args |-> args]

(* Statements.  The bodies of loops and the arms of an `if` are sequences  *)
(* of statements; an `if` has its condition and its else-ifs in arms, and  *)
(* els is empty or holds the one else branch; a stepless range loop has an *)
(* empty step.  What a ForEach is over, Checker::check decides.  Define    *)
(* stands where the definition of a function or fiber stands in main.      *)
Declare(const, ty, x, e) == [k |-> "decl", const |-> const, ty |-> ty, x |-> x, e |-> e]
Decl(x, e)          == Declare(FALSE, Unknown, x, e)
FiberOf(ty, x, f, as) == [k |-> "fiber", ty |-> ty, x |-> x, f |-> f, args |-> as]
FiberDecl(x, f, as) == FiberOf(<<Unknown>>, x, f, as)
Define(f)           == [k |-> "def", f |-> f]
Assign(x, e)        == [k |-> "assign", x |-> x, e |-> e]
PrintStmt(e)        == [k |-> "print", e |-> e]
YieldStmt(e)        == [k |-> "yield", e |-> e]
YieldFrom(e)        == [k |-> "yieldfrom", e |-> e]
CallStmt(f, args)   == [k |-> "callstmt", f |-> f, args |-> args]
If(arms, els)       == [k |-> "if", arms |-> arms, els |-> els]
While(c, body)      == [k |-> "while", c |-> c, body |-> body]
ForRange(x, from, to, step, body) ==
  [k |-> "range", x |-> x, from |-> from, to |-> to, step |-> step,
   body |-> body]
ForEach(kind, x, e, body) ==
  [k |-> "each", over |-> kind, x |-> x, e |-> e, body |-> body]
Break               == [k |-> "break"]
Continue            == [k |-> "continue"]
Return(es)          == [k |-> "return", es |-> es]

Arm(c, body)        == [c |-> c, body |-> body]

(* A program: its main statements, its functions and its fibers.  A        *)
(* function has the types of its parameters and the type it returns, or    *)
(* none.  gens are the names of the fibers, whose bodies are among funs.   *)
(* A fiber f of one parameter n yields 1, 2, ..., n; then it returns n + 1,*)
(* if gens[f], or nothing.                                                 *)
Typed(params, types, ret, body) ==
  [params |-> params, types |-> types, ret |-> ret, body |-> body]
Fun(params, body) ==
  Typed(params, [i \in DOMAIN params |-> Unknown], <<Unknown>>, body)
Program(main, funs, gens) == [main |-> main, funs |-> funs, gens |-> gens]

(* parse_statement turns a bare call f(args) into FunctionCallStmt.        *)
IsIncrement(s) == s.e \in {Bin("Add", Name(s.x), Num(1)),
                           Bin("Add", Num(1), Name(s.x))}
=============================================================================
