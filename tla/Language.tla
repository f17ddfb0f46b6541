------------------------------ MODULE Language ------------------------------
(***************************************************************************)
(* What a program of the Syntax module means, independently of bytecode:   *)
(* the output it prints, by structural recursion over the syntax tree.     *)
(* This is what the compiler and the interpreter together promise.  A      *)
(* state s of an execution is a record:                                    *)
(*   env     scopes, outermost first: env[1] holds the global variables    *)
(*   fibers  the state of each fiber made so far                           *)
(*   out     what has been printed                                         *)
(*   ctl     "next", or "break", "continue" or "return" being carried out  *)
(*   val     the value of the last expression                              *)
(***************************************************************************)
EXTENDS Syntax, TLC

LOCAL INSTANCE SequencesExt

LOCAL IntValue(n)  == [t |-> "int", n |-> n]
LOCAL BoolValue(b) == [t |-> "bool", n |-> IF b THEN 1 ELSE 0]
LOCAL FloatValue(n) == [t |-> "float", n |-> n]
LOCAL IsTrue(v)    == v = BoolValue(TRUE)
LOCAL Going(s)     == s.ctl = "next"

ScopeOf(x, s) ==
  LET having == {i \in DOMAIN s.env : x \in DOMAIN s.env[i]}
  IN  CHOOSE i \in having : \A j \in having : j <= i
ValueOf(x, s)   == s.env[ScopeOf(x, s)][x]
Update(x, v, s) == [s EXCEPT !.env[ScopeOf(x, s)][x] = v]
Bind(x, v, s)   == [s EXCEPT !.env[Len(s.env)] = (x :> v) @@ @]
Enter(s)        == [s EXCEPT !.env = Append(@, <<>>)]
Exit(s)         == [s EXCEPT !.env = Front(@)]

(* The elements of a set, in ascending order.                              *)
Ascending(vs) == SetToSortSeq(ToSet(vs), LAMBDA a, b : a.n < b.n)

NewFiber(last, returns, s) ==
  [s EXCEPT !.fibers = Append(@, [at |-> 0, last |-> last, done |-> FALSE,
                                  returns |-> returns]),
            !.val = [t |-> "fiber", n |-> Len(s.fibers) + 1]]

(* One .next(): the fiber's next value, or its return value and it is done. *)
Resume(id, s) ==
  LET f == s.fibers[id]
  IN  IF f.done THEN [s EXCEPT !.val = BoolValue(FALSE)]
      ELSE [s EXCEPT !.fibers[id] = [f EXCEPT !.at = @ + 1, !.done = f.at >= f.last],
                     !.val = IntValue(f.at + 1)]

-----------------------------------------------------------------------------
RECURSIVE Eval(_, _, _), Exec(_, _, _), Block(_, _, _), RunWhile(_, _, _),
          RunEach(_, _, _, _, _), RunYields(_, _, _, _), RunArms(_, _, _, _),
          EvalEach(_, _, _, _)

Block(body, p, s)  ==
  IF body = <<>> \/ ~Going(s) THEN s ELSE Block(Tail(body), p, Exec(Head(body), p, s))
Scoped(body, p, s) == Exit(Block(body, p, Enter(s)))

(* Operands from left to right: val is the sequence of their values.       *)
EvalEach(es, p, vs, s) ==
  IF es = <<>> THEN [s EXCEPT !.val = vs]
  ELSE LET r == Eval(Head(es), p, s)
       IN  EvalEach(Tail(es), p, Append(vs, r.val), r)
EvalAll(es, p, s) == EvalEach(es, p, <<>>, s)

(* A call sees the globals and its parameters; only its effects remain.    *)
Apply(f, p, s) ==
  LET params == p.funs[f].params
      inner  == [s EXCEPT !.env = <<@[1], [x \in ToSet(params) |->
                   s.val[CHOOSE i \in DOMAIN params : params[i] = x]]>>]
      r      == Block(p.funs[f].body, p, inner)
  IN  [r EXCEPT !.env = <<r.env[1]>> \o Tail(s.env), !.ctl = "next",
                !.val = IF r.ctl = "return" THEN @ ELSE BoolValue(FALSE)]

(* A float counts halves.  Of an int and a float the int is promoted.      *)
Halves(v) == IF v.t = "int" THEN 2 * v.n ELSE v.n
EvalBinary(op, a, b) ==
  CASE op = "Add" /\ a.t = b.t -> [t |-> a.t, n |-> a.n + b.n]
    [] op = "Add" /\ a.t # b.t -> FloatValue(Halves(a) + Halves(b))
    [] op = "Less"      -> BoolValue(Halves(a) < Halves(b))
    [] op = "LessEqual" -> BoolValue(Halves(a) <= Halves(b))
    [] op = "Equal"     -> BoolValue(a = b)

EvalMethod(m, on, s) ==
  CASE m = "next"   -> Resume(on.n, s)
    [] m = "isDone" -> [s EXCEPT !.val = BoolValue(s.fibers[on.n].done)]
    [] m = "size"   -> [s EXCEPT !.val = IntValue(Len(on.elems))]
    [] m = "contains" -> [s EXCEPT !.val = BoolValue(s.val[1] \in ToSet(on.elems))]
    [] m = "get"    -> [s EXCEPT !.val = IF s.val[1].n + 1 \in DOMAIN on.elems
                                         THEN on.elems[s.val[1].n + 1]
                                         ELSE BoolValue(FALSE)]

Eval(e, p, s) ==
  CASE e.k = "num"   -> [s EXCEPT !.val = IntValue(e.n)]
    [] e.k = "truth" -> [s EXCEPT !.val = BoolValue(e.b)]
    [] e.k = "real"  -> [s EXCEPT !.val = FloatValue(e.n)]
    [] e.k = "not"   -> LET r == Eval(e.e, p, s)
                        IN  [r EXCEPT !.val = BoolValue(~IsTrue(@))]
    [] e.k = "name"  -> [s EXCEPT !.val = ValueOf(e.x, s)]
    [] e.k = "bin"   -> LET r == EvalAll(<<e.l, e.r>>, p, s)
                        IN  [r EXCEPT !.val = EvalBinary(e.op, @[1], @[2])]
    [] e.k = "ArrayInit" -> LET r == EvalAll(e.es, p, s)
                            IN  [r EXCEPT !.val = [t |-> "array", elems |-> @]]
    [] e.k = "SetInit"   -> LET r == EvalAll(e.es, p, s)
                            IN  [r EXCEPT !.val = [t |-> "set", elems |-> Ascending(@)]]
    [] e.k = "call"  -> LET r == EvalAll(e.args, p, s)
                        IN  IF e.f \in DOMAIN p.gens
                            THEN NewFiber(r.val[1].n, p.gens[e.f], r)
                            ELSE Apply(e.f, p, r)
    [] e.k = "method" -> LET r == Eval(e.on, p, s)
                         IN  EvalMethod(e.m, r.val, EvalAll(e.args, p, r))

-----------------------------------------------------------------------------
(* Loops.  An iteration binds the loop variable in a scope of its own;     *)
(* `continue` ends the iteration, `break` the loop.                        *)

Iteration(x, v, body, p, s) ==
  LET r == Exit(Block(body, p, Bind(x, v, Enter(s))))
  IN  IF r.ctl = "continue" THEN [r EXCEPT !.ctl = "next"] ELSE r
LoopLeft(s) == IF s.ctl = "break" THEN [s EXCEPT !.ctl = "next"] ELSE s

RunEach(x, vs, body, p, s) ==
  IF vs = <<>> \/ ~Going(s) THEN LoopLeft(s)
  ELSE RunEach(x, Tail(vs), body, p, Iteration(x, Head(vs), body, p, s))

Steps(from, to, by) ==
  IF from > to THEN <<>>
  ELSE [i \in 1 .. (to - from) \div by + 1 |-> IntValue(from + (i - 1) * by)]

RunWhile(stmt, p, s) ==
  LET c == Eval(stmt.c, p, s)
  IN  IF ~IsTrue(c.val) THEN c
      ELSE LET r == Scoped(stmt.body, p, c)
               n == IF r.ctl = "continue" THEN [r EXCEPT !.ctl = "next"] ELSE r
           IN  IF Going(n) THEN RunWhile(stmt, p, n) ELSE LoopLeft(n)

(* The body gets what the fiber yields; breaking out closes the fiber.     *)
RunYields(stmt, id, p, s) ==
  LET n == Resume(id, s)
  IN  IF s.fibers[id].done THEN s
      ELSE IF n.fibers[id].done THEN n
      ELSE LET r == Iteration(stmt.x, n.val, stmt.body, p, n)
           IN  IF Going(r) THEN RunYields(stmt, id, p, r)
               ELSE IF r.ctl = "break"
               THEN LoopLeft([r EXCEPT !.fibers[id].done = TRUE])
               ELSE r

(* The first arm whose condition holds, or the else branch.                *)
RunArms(arms, els, p, s) ==
  IF arms = <<>> THEN IF els = <<>> THEN s ELSE Scoped(els[1], p, s)
  ELSE LET c == Eval(Head(arms).c, p, s)
       IN  IF IsTrue(c.val) THEN Scoped(Head(arms).body, p, c)
           ELSE RunArms(Tail(arms), els, p, c)

Exec(stmt, p, s) ==
  CASE stmt.k = "def"      -> s
    [] stmt.k = "decl"     -> LET r == Eval(stmt.e, p, s) IN Bind(stmt.x, r.val, r)
    [] stmt.k = "fiber"    -> LET r == Eval(CallOf(stmt.f, stmt.args), p, s)
                              IN  Bind(stmt.x, r.val, r)
    [] stmt.k = "assign"   -> LET r == Eval(stmt.e, p, s) IN Update(stmt.x, r.val, r)
    [] stmt.k = "print"    -> LET r == Eval(stmt.e, p, s)
                              IN  [r EXCEPT !.out = Append(@, r.val)]
    [] stmt.k = "callstmt" -> Apply(stmt.f, p, EvalAll(stmt.args, p, s))
    [] stmt.k = "if"       -> RunArms(stmt.arms, stmt.els, p, s)
    [] stmt.k = "while"    -> RunWhile(stmt, p, s)
    [] stmt.k = "range"    ->
         LET ends == EvalAll(<<stmt.from, stmt.to>> \o stmt.step, p, s)
         IN  RunEach(stmt.x, Steps(ends.val[1].n, ends.val[2].n,
                                   IF stmt.step = <<>> THEN 1 ELSE ends.val[3].n),
                     stmt.body, p, ends)
    [] stmt.k = "each"     ->
         LET r == Eval(stmt.e, p, s)
         IN  IF stmt.over = "fiber" THEN RunYields(stmt, r.val.n, p, r)
             ELSE RunEach(stmt.x, r.val.elems, stmt.body, p, r)
    [] stmt.k = "break"    -> [s EXCEPT !.ctl = "break"]
    [] stmt.k = "continue" -> [s EXCEPT !.ctl = "continue"]
    [] stmt.k = "return"   -> LET r == EvalAll(stmt.es, p, s)
                              IN  [r EXCEPT !.ctl = "return",
                                            !.val = IF @ = <<>> THEN BoolValue(FALSE)
                                                    ELSE @[1]]

(* The output of program p.                                                *)
Meaning(p) ==
  Block(p.main, p, [env |-> <<<<>>>>, fibers |-> <<>>, out |-> <<>>,
                    ctl |-> "next", val |-> BoolValue(FALSE)]).out
=============================================================================
