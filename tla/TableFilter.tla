----------------------------- MODULE TableFilter -----------------------------
(***************************************************************************)
(* The predicate of table.where(...): the code the compiler makes of the   *)
(* shorthand form (mod.rs 690-752), its evaluation for one row (vm.rs) and *)
(* its translation to a SQL condition (translate_filter_to_sql).           *)
(*                                                                         *)
(* A predicate is a comparison, the negation of one, or two of them joined *)
(* by AND or OR.  An operand is a column, a literal, a local variable of   *)
(* the enclosing function (captured) or a global variable.  Register 0 is  *)
(* the row, register 1 the captured local if there is one.                 *)
(***************************************************************************)
EXTENDS Integers, Sequences, SequencesExt

CONSTANT Missing   \* false: what a column without a value holds in memory

Column == {"key", "val"}
Comparison == {"=", "<>", "<", "<=", ">", ">="}
Register == 0 .. 4

Col(c)    == [kind |-> "column",  of |-> c]
Lit(n)    == [kind |-> "literal", of |-> n]
Local(n)  == [kind |-> "local",   of |-> n]
Global(n) == [kind |-> "global",  of |-> n]

Compare(l, cc, r) == [form |-> "compare", parts |-> <<[left |-> l, cc |-> cc, right |-> r]>>]
Negation(p) == [p EXCEPT !.form = "not"]
Both(p, q)   == [form |-> "and", parts |-> p.parts \o q.parts]
Either(p, q) == [form |-> "or", parts |-> p.parts \o q.parts]

\* What programs write.
Operand == [kind : {"column"}, of : Column] \cup [kind : {"literal", "local", "global"}, of : Int]
IsPredicate(p) ==
    /\ p.form \in {"compare", "not", "and", "or"}
    /\ p.parts \in Seq([left : Operand, cc : Comparison, right : Operand])
    /\ Len(p.parts) = IF p.form \in {"compare", "not"} THEN 1 ELSE 2

Operands(p) == UNION {{p.parts[i].left, p.parts[i].right} : i \in DOMAIN p.parts}

-----------------------------------------------------------------------------
(* Compilation.  A compiled operand goes to the next free register; a      *)
(* comparison leaves its result where its left operand was.                *)

\* The values passed behind the row: at most one local, in register 1.
Captures(p) == {o.of : o \in {o \in Operands(p) : o.kind = "local"}}
Base(p) == 1 + (IF Captures(p) = {} THEN 0 ELSE 1)

Load(o, dst) ==
    CASE o.kind = "column"  -> [op |-> "MethodCallCustom", dst |-> dst, column |-> o.of]
      [] o.kind = "literal" -> [op |-> "LoadConst", dst |-> dst, value |-> o.of]
      [] o.kind = "local"   -> [op |-> "Move", dst |-> dst, src |-> 1]
      [] o.kind = "global"  -> [op |-> "GetVar", dst |-> dst, value |-> o.of]

CompareCode(part, at) ==
    <<Load(part.left, at), Load(part.right, at + 1),
      [op |-> "Compare", cc |-> part.cc, dst |-> at, src1 |-> at, src2 |-> at + 1]>>

Code(p) ==
    LET b == Base(p)
        first == CompareCode(p.parts[1], b)
    IN  CASE p.form = "compare" -> first
          [] p.form = "not" -> Append(first, [op |-> "Not", dst |-> b, src |-> b])
          [] p.form \in {"and", "or"} ->
                Append(first \o CompareCode(p.parts[2], b + 1),
                       [op |-> p.form, dst |-> b, src1 |-> b, src2 |-> b + 1])

-----------------------------------------------------------------------------
(* Evaluation.  Values order by their rank first: an int is below a bool.  *)

Rank(v) == IF v = Missing THEN 2 ELSE 0
Below(a, b) == IF Rank(a) # Rank(b) THEN Rank(a) < Rank(b)
               ELSE a # Missing /\ a < b

Relates(a, cc, b) ==
    CASE cc = "="  -> a = b
      [] cc = "<>" -> a # b
      [] cc = "<"  -> Below(a, b)
      [] cc = "<=" -> ~Below(b, a)
      [] cc = ">"  -> Below(b, a)
      [] cc = ">=" -> ~Below(a, b)

\* What one instruction of the predicate leaves in its register.
Result(regs, i, row) ==
    CASE i.op = "MethodCallCustom" -> row[i.column]
      [] i.op \in {"LoadConst", "GetVar"} -> i.value
      [] i.op = "Move"    -> regs[i.src]
      [] i.op = "Compare" -> Relates(regs[i.src1], i.cc, regs[i.src2])
      [] i.op = "Not"     -> ~regs[i.src]
      [] i.op = "and"     -> regs[i.src1] /\ regs[i.src2]
      [] i.op = "or"      -> regs[i.src1] \/ regs[i.src2]

Locals(p) == [r \in Register |-> IF r = 1 /\ Captures(p) # {}
                                 THEN CHOOSE v \in Captures(p) : TRUE ELSE Missing]

\* The registers when the predicate returns.
Executed(p, row) ==
    LET code == Code(p)
        after[n \in 0 .. Len(code)] ==
            IF n = 0 THEN Locals(p)
            ELSE [after[n - 1] EXCEPT ![code[n].dst] = Result(after[n - 1], code[n], row)]
    IN  after[Len(code)]

Holds(p, row) == Executed(p, row)[Base(p)]

-----------------------------------------------------------------------------
(* translate_filter_to_sql.  It follows what registers hold: a column, a   *)
(* value, or it does not know.  An instruction it does not know leaves the *)
(* register's old entry.  Captured values would be known if the predicate  *)
(* were a closure; the shorthand form compiles to a plain function, whose  *)
(* captures are empty here.                                                *)

Unknown == [is |-> "unknown", of |-> Missing]
NoFilter == [column |-> "none", cc |-> "none", value |-> Missing]
IsA(entry, kind) == entry.is = kind

\* The entries after one instruction.
Known(regs, i) ==
    CASE i.op = "MethodCallCustom" -> [regs EXCEPT ![i.dst] = [is |-> "column", of |-> i.column]]
      [] i.op = "LoadConst" -> [regs EXCEPT ![i.dst] = [is |-> "value", of |-> i.value]]
      [] i.op = "Move" /\ ~IsA(regs[i.src], "unknown") -> [regs EXCEPT ![i.dst] = regs[i.src]]
      [] OTHER -> regs

\* The column and value a comparison found; those of an earlier one stay.
Pair(final, a, b) ==
    CASE IsA(a, "column") /\ IsA(b, "value") -> [final EXCEPT !.column = a.of, !.value = b.of]
      [] IsA(a, "value") /\ IsA(b, "column") -> [final EXCEPT !.column = b.of, !.value = a.of]
      [] OTHER -> final

\* Mutant: >= is translated as >.
FoundStrict(S, i) ==
    LET final == Pair(S.final, S.regs[i.src1], S.regs[i.src2])
    IN  IF final.column = "none" THEN final
        ELSE [final EXCEPT !.cc = IF i.cc = ">=" THEN ">" ELSE i.cc]

Found(S, i) ==
    LET final == Pair(S.final, S.regs[i.src1], S.regs[i.src2])
    IN  IF final.column = "none" THEN final ELSE [final EXCEPT !.cc = i.cc]

Track(S, i) == [regs  |-> Known(S.regs, i),
                final |-> IF i.op = "Compare" THEN Found(S, i) ELSE S.final]

\* The entries and the condition found after the last instruction.
Tracked(p) ==
    LET code == Code(p)
        after[n \in 0 .. Len(code)] ==
            IF n = 0 THEN [regs |-> [r \in Register |-> Unknown], final |-> NoFilter]
            ELSE Track(after[n - 1], code[n])
    IN  after[Len(code)]

translate_filter_to_sql(p) == IF Len(Code(p)) > 40 THEN NoFilter ELSE Tracked(p).final

\* The rows a statement without a WHERE, or with this one, applies to.
SqlSelects(where, row) ==
    \/ where = NoFilter
    \/ where # NoFilter /\ Relates(row[where.column], where.cc, where.value)
==============================================================================
