------------------------------ MODULE Bytecode ------------------------------
(***************************************************************************)
(* The virtual machine's bytecode loop (execute_bytecode_inner and         *)
(* execute_bytecode_extended in src/backend/vm.rs), one action per         *)
(* instruction or family of instructions.  A program runs alone and the    *)
(* globals guard is held throughout: the instructions modelled here never  *)
(* give it up.  No function is called often enough to be compiled to       *)
(* native code; what hot loops become is the TraceJit module's subject.    *)
(*                                                                         *)
(* A value is [t |-> type, n |-> payload].  A float's payload counts       *)
(* units of 1/Unit: programs are such that nothing is rounded.  The        *)
(* payload of an array, a set or a fiber is its place in heap or fibers.   *)
(***************************************************************************)
EXTENDS Integers, Sequences

LOCAL Ext == INSTANCE SequencesExt

CONSTANTS Programs,    \* the programs to run
          Compiled(_), \* the chunks of a program, by function
          Globals(_)   \* the global variables of a program

VARIABLES prog,     \* the program
          chunks,   \* its compiled chunks
          frames,   \* activations of functions and fibers, innermost last
          globals,  \* VM::globals
          heap,     \* the elements of the arrays and sets made so far
          fibers,   \* the FiberStates made so far
          out,      \* what has been printed
          errors,   \* VM::error_count > 0
          status    \* running, ended, halted, panicked or undefined

Arithmetics == {"Add", "Sub", "Mul", "Div", "Mod"}
Comparisons == {"Equal", "NotEqual", "Less", "LessEqual", "Greater", "GreaterEqual"}
LoopOps     == {"LoopNext", "IncLocalLoopNext", "IncVarLoopNext"}
JumpOps     == {"Jump", "JumpIfFalse", "JumpIfTrue", "ArrayLoopNext"} \cup LoopOps
ResultOps   == {"LoadConst", "Move", "GetVar", "And", "Or", "Not", "IntConcat", "CastFloat"}
                 \cup Arithmetics \cup Comparisons

(* What an instruction of a compiled program names is there: a jump goes   *)
(* to an address of its function or to its end, a call or a fiber's        *)
(* creation is of a function.                                              *)
Operated(o) == /\ o.op \in JumpOps => "target" \in DOMAIN o /\ o.target \in Nat
               /\ o.op \in ResultOps => "dst" \in DOMAIN o
               /\ o.op \in LoopOps => "reg" \in DOMAIN o /\ "limit" \in DOMAIN o
               /\ o.op = "IncLocalLoopNext" => "inc" \in DOMAIN o
               /\ o.op = "Call" => "count" \in DOMAIN o /\ o.count \in Nat
WellFormed(cs) ==
  /\ "main" \in DOMAIN cs
  /\ \A f \in DOMAIN cs :
       /\ cs[f].max \in Nat
       /\ Len(cs[f].code) \in Nat /\ DOMAIN cs[f].code = 1 .. Len(cs[f].code)
       /\ \A i \in DOMAIN cs[f].code :
            /\ Operated(cs[f].code[i])
            /\ cs[f].code[i].op \in JumpOps => cs[f].code[i].target <= Len(cs[f].code)
            /\ cs[f].code[i].op \in {"Call", "FiberCreate"} => cs[f].code[i].f \in DOMAIN cs
ASSUME CompiledAssumption == \A p \in Programs : WellFormed(Compiled(p))

vars == <<prog, chunks, frames, globals, heap, fibers, out, errors, status>>

Unit == 2

IntValue(n)   == [t |-> "int", n |-> n]
BoolValue(b)  == [t |-> "bool", n |-> IF b THEN 1 ELSE 0]
FloatValue(n) == [t |-> "float", n |-> n]
String        == [t |-> "string", n |-> 0]   \* which one does not matter
NaN           == [t |-> "nan", n |-> 1]      \* packed, a value of no type
Unset         == BoolValue(FALSE)

IsInt(v)     == v.t = "int"
IsBool(v)    == v.t = "bool"
IsFloat(v)   == v.t = "float"
IsNumeric(v) == IsInt(v) \/ IsFloat(v)
IsPointer(v) == v.t \in {"array", "set", "fiber", "string"}

(* as_i64 and as_bool take the low 48 bits and the lowest bit of whatever  *)
(* the value is: those of a float of few digits are zero, and so, here,    *)
(* are those of an address.                                                *)
AsInt(v)  == IF v.t \in {"int", "bool", "nan"} THEN v.n ELSE 0
LowBit(v) == AsInt(v) % 2 = 1

-----------------------------------------------------------------------------
(* Operations on values.                                                   *)

Magnitude(n)    == IF n < 0 THEN -n ELSE n
Quotient(a, b)  == IF (a < 0) = (b < 0) THEN Magnitude(a) \div Magnitude(b)
                   ELSE -(Magnitude(a) \div Magnitude(b))
Remainder(a, b) == a - b * Quotient(a, b)

IntArithmetic(op, a, b) ==
  CASE op = "Add" -> a + b [] op = "Sub" -> a - b [] op = "Mul" -> a * b
    [] op = "Div" -> Quotient(a, b) [] op = "Mod" -> Remainder(a, b)
FloatArithmetic(op, a, b) ==
  CASE op = "Add" -> a + b [] op = "Sub" -> a - b
    [] op = "Mul" -> Quotient(a * b, Unit)
    [] op = "Div" -> Quotient(a * Unit, b) [] op = "Mod" -> Remainder(a, b)
AsFloat(v) == IF IsInt(v) THEN v.n * Unit ELSE v.n

Divides(op) == op \in {"Div", "Mod"}

(* The result of an arithmetic instruction, or nothing: the frame halts.   *)
(* Sets and dates are not operands.                                        *)
Arithmetic(op, a, b) ==
  CASE IsInt(a) /\ IsInt(b) /\ (b.n # 0 \/ ~Divides(op)) ->
         <<IntValue(IntArithmetic(op, a.n, b.n))>>
    [] IsInt(a) /\ IsInt(b) /\ b.n = 0 /\ op = "Mod" -> <<Unset>>
    [] IsNumeric(a) /\ IsNumeric(b) /\ ~(IsInt(a) /\ IsInt(b)) /\ (AsFloat(b) # 0 \/ ~Divides(op)) ->
         <<FloatValue(FloatArithmetic(op, AsFloat(a), AsFloat(b)))>>
    [] IsNumeric(a) /\ IsNumeric(b) /\ ~(IsInt(a) /\ IsInt(b)) /\ AsFloat(b) = 0 /\ op = "Mod" -> <<NaN>>
    [] op = "Add" /\ "string" \in {a.t, b.t} -> <<String>>
    [] ~(IsNumeric(a) /\ IsNumeric(b)) /\ "string" \notin {a.t, b.t}
         /\ op \in {"Add", "Sub", "Mod"} -> <<Unset>>
    [] op \in {"Sub", "Mod"} /\ "string" \in {a.t, b.t} -> <<Unset>>
    [] OTHER -> <<>>

(* The variants of a value are ordered before their payloads.              *)
Rank(v) == CASE v.t = "int" -> 0 [] v.t = "float" -> 1 [] v.t = "bool" -> 2
             [] v.t = "string" -> 3 [] v.t = "array" -> 4 [] v.t = "set" -> 5
             [] v.t = "fiber" -> 12 [] OTHER -> 255
Below(a, b) == \/ Rank(a) < Rank(b)
               \/ Rank(a) = Rank(b) /\ ~IsPointer(a) /\ a.n < b.n
Compare(op, a, b) ==
  CASE op = "Equal"   -> a = b         [] op = "NotEqual"     -> a # b
    [] op = "Less"    -> Below(a, b)   [] op = "LessEqual"    -> ~Below(b, a)
    [] op = "Greater" -> Below(b, a)   [] op = "GreaterEqual" -> ~Below(a, b)

(* Concatenation is that of the numerals; what is no numeral any more is a *)
(* string.  Numbers have at most 9 digits here.                            *)
Shift(b) == CHOOSE p \in {10^k : k \in 1 .. 9} : p > b /\ (p = 10 \/ p \div 10 <= b)
Concatenate(a, b) ==
  IF ~(IsInt(a) /\ IsInt(b)) \/ b.n < 0 THEN String
  ELSE IntValue(IF a.n < 0 THEN a.n * Shift(b.n) - b.n ELSE a.n * Shift(b.n) + b.n)

(* JumpIfFalse and JumpIfTrue take any pointer for true, a number for      *)
(* false.                                                                  *)
Taken(v) == IF IsBool(v) THEN LowBit(v) ELSE IsPointer(v)

(* A loop's own increment; and that of a variable of any type.             *)
Incremented(v) == IntValue(AsInt(v) + 1)

-----------------------------------------------------------------------------
(* Frames.                                                                 *)

Larger(a, b) == IF a > b THEN a ELSE b

Locals(args, size) == [r \in 0 .. size - 1 |-> IF r < Len(args) THEN args[r + 1] ELSE Unset]

(* An activation of function f; dst is where the caller wants the result.  *)
(* fiber is the fiber that runs in the frame, if any.                      *)
NoFiber == 0
Frame(f, chunk, args, dst) ==
  [f |-> f, ip |-> 0, dst |-> dst, fiber |-> NoFiber,
   reg |-> Locals(args, Larger(chunk.max, Len(args)))]

Init == \E p \in Programs :
          /\ prog = p /\ chunks = Compiled(p)
          /\ frames = <<Frame("main", chunks["main"], <<>>, 0)>>
          /\ globals = [x \in Globals(p) |-> Unset]
          /\ heap = <<>> /\ fibers = <<>> /\ out = <<>>
          /\ errors = FALSE /\ status = "running"

Top   == frames[Len(frames)]
Code  == chunks[Top.f].code
Op    == Code[Top.ip + 1]
R(r)  == Top.reg[r]
Next1 == Top.ip + 1

(* has_loops: of a function, compile_function_helper looks at jumps only.  *)
Jumps == {"Jump", "JumpIfFalse", "JumpIfTrue"}
HasLoops(f) ==
  \E i \in DOMAIN chunks[f].code :
    LET o == chunks[f].code[i]
    IN  /\ o.op \in Jumps \/ (f = "main" /\ o.op \in LoopOps \cup {"ArrayLoopNext"})
        /\ o.target < i - 1

(* The registers instruction o uses.  A call writes its destination only   *)
(* after the callee has run.                                               *)
RegisterFields == {"dst", "src", "src1", "src2", "reg", "limit", "inc", "idx", "size"}
RegistersOf(o) ==
  {o[f] : f \in (RegisterFields \ (IF o.op = "Call" THEN {"dst"} ELSE {})) \cap DOMAIN o}
    \cup (IF "base" \in DOMAIN o
          THEN o.base .. (o.base + o.count - (IF o.op = "MethodCall" THEN 0 ELSE 1))
          ELSE {})
InFrame(o) == \A r \in RegistersOf(o) : r \in DOMAIN Top.reg

Runs(names) == /\ status = "running" /\ Top.ip < Len(Code)
               /\ Op.op \in names /\ InFrame(Op)

(* The frame goes on at address ip with registers reg.                     *)
Go(ip, reg) ==
  frames' = [frames EXCEPT ![Len(frames)] = [@ EXCEPT !.ip = ip, !.reg = reg]]
Write(v)    == Go(Next1, [Top.reg EXCEPT ![Op.dst] = v])
Loaded      == <<prog, chunks>>
Machine     == <<Loaded, errors, status>>
Rest        == <<Machine, globals, heap, fibers, out>>

-----------------------------------------------------------------------------
(* Frames that are left.                                                   *)

Caller  == frames[Len(frames) - 1]
Resumed == fibers[Top.fiber]

\* Mutant: the registers are not given back to the state.
SavedAddressOnly(fiber, ip, reg, done) ==
  [f |-> fiber.f, ip |-> ip, reg |-> fiber.reg, done |-> done]

Saved(fiber, ip, reg, done) == [f |-> fiber.f, ip |-> ip, reg |-> reg, done |-> done]

(* The frames above the innermost fiber halt one after the other, and that *)
(* fiber with them, where it is; without one the program halts.            *)
Unwind(n) ==
  LET in == {i \in 1 .. n : frames[i].fiber # NoFiber}
  IN  IF in = {} THEN status' = "halted" /\ UNCHANGED <<frames, fibers>>
      ELSE \E k \in in :
             /\ \A j \in in : j <= k
             /\ frames' = SubSeq(frames, 1, k - 1)
             /\ fibers' = [fibers EXCEPT ![frames[k].fiber] =
                             Saved(@, frames[k].ip, frames[k].reg, @.done)]
             /\ UNCHANGED status

(* A function's frame is left with v for the register the call names, if   *)
(* no error has been counted; main's frame is the end of the program.      *)
LeaveCall(v, error, last) ==
  IF Len(frames) = 1 THEN status' = last /\ UNCHANGED <<frames, fibers>>
  ELSE IF error THEN Unwind(Len(frames) - 1)
  ELSE IF Top.dst \in DOMAIN Caller.reg
  THEN /\ frames' = Append(SubSeq(frames, 1, Len(frames) - 2),
                           [Caller EXCEPT !.reg = [@ EXCEPT ![Top.dst] = v]])
       /\ UNCHANGED <<fibers, status>>
  ELSE status' = "panicked" /\ UNCHANGED <<frames, fibers>>

(* A fiber gives control back, with a value or without.  The value of a    *)
(* fiber that is done counts only if it is a pointer, an int or true.      *)
Counts(v, done) == ~done \/ IsPointer(v) \/ IsInt(v) \/ (IsBool(v) /\ LowBit(v))
Suspend(ip, done, value) ==
  /\ frames' =
       Append(SubSeq(frames, 1, Len(frames) - 2),
              [Caller EXCEPT !.reg =
                 IF /\ value # <<>> /\ Top.dst \in DOMAIN Caller.reg
                    /\ Counts(value[1], Resumed.done \/ done)
                 THEN [@ EXCEPT ![Top.dst] = value[1]] ELSE @])
  /\ fibers' = [fibers EXCEPT ![Top.fiber] =
                  Saved(@, ip, Top.reg, @.done \/ done)]
  /\ UNCHANGED status

LeaveWith(value) ==
  /\ IF Top.fiber # NoFiber THEN Suspend(Len(Code), TRUE, value)
     ELSE LeaveCall(IF value = <<>> THEN Unset ELSE value[1], errors, "ended")
  /\ UNCHANGED <<Loaded, globals, heap, out, errors>>

(* OpResult::Halt ends the frame: a caller goes on with false unless the   *)
(* error was counted, the one that resumed a fiber goes on with what it    *)
(* has.                                                                    *)
Halt(counted) ==
  /\ errors' = (errors \/ counted)
  /\ IF Top.fiber # NoFiber THEN Suspend(Next1, FALSE, <<>>)
     ELSE LeaveCall(Unset, errors \/ counted, "halted")
  /\ UNCHANGED <<Loaded, globals, heap, out>>

-----------------------------------------------------------------------------
(* Registers and globals.                                                  *)

LoadConst == Runs({"LoadConst"}) /\ Write(Op.v) /\ UNCHANGED Rest
Move      == Runs({"Move"}) /\ Write(R(Op.src)) /\ UNCHANGED Rest

Global(x) == IF x \in DOMAIN globals THEN globals[x] ELSE Unset
GetVar == Runs({"GetVar"}) /\ Write(Global(Op.x)) /\ UNCHANGED Rest

SetVar == /\ Runs({"SetVar"})
          /\ globals' = [globals EXCEPT ![Op.x] = R(Op.src)]
          /\ Go(Next1, Top.reg)
          /\ UNCHANGED <<Machine, heap, fibers, out>>

(* A register that does not hold an int keeps what it holds; a global      *)
(* becomes an int.                                                         *)
IncLocal == /\ Runs({"IncLocal"})
            /\ Go(Next1, IF IsInt(R(Op.reg))
                         THEN [Top.reg EXCEPT ![Op.reg] = Incremented(@)] ELSE Top.reg)
            /\ UNCHANGED Rest

IncVar == /\ Runs({"IncVar"})
          /\ globals' = [globals EXCEPT ![Op.x] = Incremented(@)]
          /\ Go(Next1, Top.reg)
          /\ UNCHANGED <<Machine, heap, fibers, out>>

Arithmetically ==
  /\ Runs(Arithmetics)
  /\ LET result == Arithmetic(Op.op, R(Op.src1), R(Op.src2))
     IN  IF result = <<>> THEN Halt(FALSE) ELSE Write(result[1]) /\ UNCHANGED Rest

Comparison == /\ Runs(Comparisons)
              /\ Write(BoolValue(Compare(Op.op, R(Op.src1), R(Op.src2))))
              /\ UNCHANGED Rest

Connected(op, a, b) == BoolValue(IF op = "And" THEN LowBit(a) /\ LowBit(b)
                                 ELSE LowBit(a) \/ LowBit(b))
AndOr == /\ Runs({"And", "Or"})
         /\ Write(Connected(Op.op, R(Op.src1), R(Op.src2))) /\ UNCHANGED Rest
Not == /\ Runs({"Not"}) /\ Write(BoolValue(~LowBit(R(Op.src)))) /\ UNCHANGED Rest

IntConcat == /\ Runs({"IntConcat"})
             /\ Write(Concatenate(R(Op.src1), R(Op.src2))) /\ UNCHANGED Rest

ToFloat(v) == FloatValue(IF IsNumeric(v) THEN AsFloat(v) ELSE 0)
CastFloat == Runs({"CastFloat"}) /\ Write(ToFloat(R(Op.src))) /\ UNCHANGED Rest

PrintValue == /\ Runs({"Print"})
              /\ out' = Append(out, R(Op.src))
              /\ Go(Next1, Top.reg)
              /\ UNCHANGED <<Machine, globals, heap, fibers>>

-----------------------------------------------------------------------------
(* Jumps and loops.                                                        *)

Jump == /\ Runs({"Jump"}) /\ Go(Op.target, Top.reg) /\ UNCHANGED Rest

JumpIf == /\ Runs({"JumpIfFalse", "JumpIfTrue"})
          /\ Go(IF Taken(R(Op.src)) = (Op.op = "JumpIfTrue") THEN Op.target ELSE Next1,
                Top.reg)
          /\ UNCHANGED Rest

(* A loop goes round again as long as its variable is within the limit.    *)
Around(n, limit) == IF n <= limit THEN Op.target ELSE Next1

\* Mutant: the range excludes its end.
LoopNextExclusive ==
  /\ Runs({"LoopNext"})
  /\ Go(Around(R(Op.reg).n + 2, R(Op.limit).n), [Top.reg EXCEPT ![Op.reg] = Incremented(@)])
  /\ UNCHANGED Rest

LoopNext ==
  /\ Runs({"LoopNext"})
  /\ IF IsInt(R(Op.reg)) /\ IsInt(R(Op.limit))
     THEN /\ Go(Around(R(Op.reg).n + 1, R(Op.limit).n),
                [Top.reg EXCEPT ![Op.reg] = Incremented(@)])
          /\ UNCHANGED Rest
     ELSE Halt(FALSE)

(* The fused forms decide on the loop variable as the loop incremented it, *)
(* before the increment of the body's statement, and on the limit as it    *)
(* was before both.                                                        *)
IncLocalLoopNext ==
  /\ Runs({"IncLocalLoopNext"})
  /\ IF IsInt(R(Op.reg))
     THEN Go(Around(R(Op.reg).n + 1, AsInt(R(Op.limit))),
             [[Top.reg EXCEPT ![Op.reg] = Incremented(@)]
                EXCEPT ![Op.inc] = Incremented(@)])
     ELSE Go(Next1, Top.reg)
  /\ UNCHANGED Rest

IncVarLoopNext ==
  /\ Runs({"IncVarLoopNext"})
  /\ IF IsInt(R(Op.reg))
     THEN /\ Go(Around(R(Op.reg).n + 1, AsInt(R(Op.limit))),
                [Top.reg EXCEPT ![Op.reg] = Incremented(@)])
          /\ globals' = [globals EXCEPT ![Op.x] = Incremented(@)]
     ELSE Go(Next1, Top.reg) /\ UNCHANGED globals
  /\ UNCHANGED <<Machine, heap, fibers, out>>

ArrayLoopNext ==
  /\ Runs({"ArrayLoopNext"})
  /\ IF IsInt(R(Op.idx)) /\ IsInt(R(Op.size))
     THEN LET n == R(Op.idx).n + 1
          IN  Go(IF n < R(Op.size).n THEN Op.target ELSE Next1,
                 [Top.reg EXCEPT ![Op.idx] = IntValue(n)])
     ELSE Go(Next1, Top.reg)
  /\ UNCHANGED Rest

-----------------------------------------------------------------------------
(* Arrays and sets.                                                        *)

Operands == [i \in 1 .. Op.count |-> R(Op.base + i - 1)]
Receiver == R(Op.base)
Elements == heap[Receiver.n]
Arg(i)   == R(Op.base + i)
On(types, methods) ==
  Runs({"MethodCall"}) /\ Receiver.t \in types /\ Op.m \in methods

(* The elements of a set, each once and in the order of values.            *)
InOrder(vs) == Ext!SetToSortSeq({vs[i] : i \in DOMAIN vs}, Below)
Make(type, elements) ==
  /\ heap' = Append(heap, elements)
  /\ Write([t |-> type, n |-> Len(heap) + 1])
  /\ UNCHANGED <<Machine, globals, fibers, out>>

Collect == \/ Runs({"ArrayInit"}) /\ Make("array", Operands)
           \/ Runs({"SetInit"}) /\ Make("set", InOrder(Operands))
Values  == On({"set"}, {"values"}) /\ Make("array", Elements)

Size == /\ On({"array", "set"}, {"size"})
        /\ Write(IntValue(Len(Elements))) /\ UNCHANGED Rest

Member(v, elements) == BoolValue(\E i \in DOMAIN elements : elements[i] = v)
HasMember == /\ On({"set"}, {"contains"})
             /\ Write(Member(Arg(1), Elements)) /\ UNCHANGED Rest

(* An index out of bounds, R303, is counted as an error.                   *)
Get == /\ On({"array"}, {"get"})
       /\ CASE IsInt(Arg(1)) /\ Arg(1).n + 1 \in DOMAIN Elements ->
                 Write(Elements[Arg(1).n + 1]) /\ UNCHANGED Rest
            [] IsInt(Arg(1)) /\ Arg(1).n + 1 \notin DOMAIN Elements ->
                 Halt(TRUE)
            [] ~IsInt(Arg(1)) -> Write(Unset) /\ UNCHANGED Rest

(* Push and update change the array that every copy of the reference sees, *)
(* and leave true.                                                         *)
Store(elements) ==
  /\ heap' = [heap EXCEPT ![Receiver.n] = elements]
  /\ Write(BoolValue(TRUE))
  /\ UNCHANGED <<Machine, globals, fibers, out>>

Push == On({"array"}, {"push"}) /\ Store(Append(Elements, Arg(1)))

(* An update beyond the end makes the array as long as it takes.           *)
Updated(elements, i, v) ==
  [j \in 1 .. Larger(Len(elements), i) |->
     IF j = i THEN v ELSE IF j \in DOMAIN elements THEN elements[j] ELSE Unset]
Update == /\ On({"array"}, {"update"})
          /\ IF ~IsInt(Arg(1)) THEN Write(Unset) /\ UNCHANGED Rest
             ELSE IF Arg(1).n >= 0 THEN Store(Updated(Elements, Arg(1).n + 1, Arg(2)))
             ELSE Halt(TRUE)

-----------------------------------------------------------------------------
(* Calls and fibers.                                                       *)

Call == /\ Runs({"Call"})
        /\ frames' = Append([frames EXCEPT ![Len(frames)].ip = Next1],
                            Frame(Op.f, chunks[Op.f], Operands, Op.dst))
        /\ UNCHANGED Rest

ReturnOp == Runs({"Return"}) /\ LeaveWith(<<R(Op.src)>>)
ReturnVoid == Runs({"ReturnVoid"}) /\ LeaveWith(<<>>)

(* Running off the end of the code, as main does, leaves without a value;  *)
(* a fiber that did so would not be done.                                  *)
RunOff == /\ status = "running" /\ Top.ip >= Len(Code)
          /\ IF Top.fiber # NoFiber THEN Suspend(Top.ip, FALSE, <<>>)
             ELSE LeaveCall(Unset, errors, "ended")
          /\ UNCHANGED <<Loaded, globals, heap, out, errors>>

FiberCreate ==
  /\ Runs({"FiberCreate"})
  /\ fibers' = Append(fibers, [f |-> Op.f, ip |-> 0, done |-> FALSE,
                               reg |-> Locals(Operands, chunks[Op.f].max)])
  /\ Write([t |-> "fiber", n |-> Len(fibers) + 1])
  /\ UNCHANGED <<Machine, globals, heap, out>>

IsDone == /\ On({"fiber"}, {"isDone"})
          /\ Write(BoolValue(fibers[Receiver.n].done)) /\ UNCHANGED Rest

Close  == /\ On({"fiber"}, {"close"})
          /\ fibers' = [fibers EXCEPT ![Receiver.n] = Saved(@, @.ip, @.reg, TRUE)]
          /\ Write(BoolValue(TRUE))
          /\ UNCHANGED <<Machine, globals, heap, out>>

(* A fiber that is done gives false; otherwise it runs in its own frame,   *)
(* with the registers it kept.                                             *)
NextValue ==
  /\ On({"fiber"}, {"next"})
  /\ \E id \in DOMAIN fibers :
       LET F  == fibers[id]
       IN  /\ id = Receiver.n
           /\ IF F.done THEN Write(Unset) /\ UNCHANGED fibers
              ELSE /\ frames' = Append([frames EXCEPT ![Len(frames)].ip = Next1],
                                       [f |-> F.f, ip |-> F.ip, dst |-> Op.dst,
                                        fiber |-> id, reg |-> F.reg])
                   /\ fibers' = [fibers EXCEPT ![id].reg = <<>>]
  /\ UNCHANGED <<Machine, globals, heap, out>>

Yield == /\ Runs({"Yield"}) /\ Top.fiber # NoFiber
         /\ Suspend(Next1, FALSE, <<R(Op.src)>>)
         /\ UNCHANGED <<Loaded, globals, heap, out, errors>>

\* Mutant: a method that does not exist is skipped.
NoMethodIgnored == /\ Runs({"MethodCall"}) /\ Receiver.t = "int"
                   /\ Go(Next1, Top.reg) /\ UNCHANGED Rest

(* No other method exists on these values.                                 *)
MethodExists == \/ Receiver.t = "array" /\ Op.m \in {"size", "get", "push", "update"}
                \/ Receiver.t = "set" /\ Op.m \in {"size", "values", "contains"}
                \/ Receiver.t = "fiber" /\ Op.m \in {"isDone", "next", "close"}
NoMethod == Runs({"MethodCall"}) /\ ~MethodExists /\ Halt(FALSE)

(* locals[r] with r outside of the frame is an index panic.                *)
Panic == /\ status = "running" /\ Top.ip < Len(Code) /\ ~InFrame(Op)
         /\ status' = "panicked"
         /\ UNCHANGED <<Loaded, frames, globals, heap, fibers, out, errors>>

Next == \/ LoadConst \/ Move \/ GetVar \/ SetVar \/ IncLocal \/ IncVar
        \/ Arithmetically \/ Comparison \/ AndOr \/ Not \/ IntConcat \/ CastFloat
        \/ PrintValue \/ Jump \/ JumpIf
        \/ LoopNext \/ IncLocalLoopNext \/ IncVarLoopNext \/ ArrayLoopNext
        \/ Collect \/ Values \/ Size \/ HasMember \/ Get \/ Push \/ Update
        \/ Call \/ ReturnOp \/ ReturnVoid \/ RunOff
        \/ FiberCreate \/ IsDone \/ Close \/ NextValue \/ Yield \/ NoMethod \/ Panic

Spec == Init /\ [][Next]_vars /\ WF_vars(Next)

-----------------------------------------------------------------------------
(* Properties.                                                             *)

InCode(a) == a.f \in DOMAIN chunks /\ a.ip \in 0 .. Len(chunks[a.f].code)
Own(f)    == 0 .. chunks[f].max - 1        \* the registers the compiler gave f
HasOwn(a) == DOMAIN a.reg = Own(a.f)
Empty(a)  == DOMAIN a.reg = {}
RunBy(id) == {i \in DOMAIN frames : frames[i].fiber = id}

(* All of a fiber's registers are in its state as long as no frame runs    *)
(* it, and in the first frame that does from then on.                      *)
InOnePlace(id) ==
  IF RunBy(id) = {} THEN HasOwn(fibers[id])
  ELSE /\ Empty(fibers[id])
       /\ \E i \in RunBy(id) : /\ HasOwn(frames[i])
                               /\ \A j \in RunBy(id) \ {i} : j > i /\ Empty(frames[j])

(* Every activation is at an address of the code it runs and has the       *)
(* registers of its function; those of a fiber are moved between its state *)
(* and a frame by resume_fiber_with_guard, and none is lost or in both,    *)
(* whether the frame returns, yields, halts, or is left because an error   *)
(* was counted above it.                                                   *)
ActivationsWhole ==
  /\ \A i \in DOMAIN frames :
       /\ InCode(frames[i])
       /\ IF frames[i].fiber = NoFiber THEN Own(frames[i].f) \subseteq DOMAIN frames[i].reg
          ELSE frames[i].fiber \in DOMAIN fibers /\ fibers[frames[i].fiber].f = frames[i].f
  /\ \A id \in DOMAIN fibers : InCode(fibers[id]) /\ InOnePlace(id)
=============================================================================
