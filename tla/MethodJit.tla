------------------------------ MODULE MethodJit ------------------------------
(***************************************************************************)
(* The method JIT (run_frame_with_guard and xcx_jit_call_recursive in      *)
(* src/backend/vm.rs, JIT::compile_method in src/backend/jit.rs).  A       *)
(* function that is called often is compiled whole and then runs as        *)
(* machine code, which takes every operand for an int and leaves the       *)
(* function at the first instruction it has no code for.                   *)
(*                                                                         *)
(* The frames of Bytecode are the activations of both kinds; modes says    *)
(* which kind each one is.  Machine code runs while the thread holds the   *)
(* globals lock: what it calls and is not compiled is interpreted without  *)
(* a guard of its own.                                                     *)
(***************************************************************************)
EXTENDS Bytecode, FiniteSets

CONSTANTS CompileThreshold, \* calls before the one that compiles: 10
          MaxCode           \* functions as long as this are not compiled: 500

ASSUME ThresholdAssumption == CompileThreshold \in Nat

VARIABLES modes,    \* per frame: holding the guard, native, or without a guard
          calls,    \* call_count of each function, at most CompileThreshold + 1
          compiled  \* the functions with a jit_ptr

compiling == <<calls, compiled>>
mvars == <<vars, modes, compiling>>

-----------------------------------------------------------------------------
(* What is compiled.                                                       *)

(* No method call, nothing printed, no float constant, no loop but those   *)
(* has_loops does not see.                                                 *)
Eligible(f) ==
  /\ ~HasLoops(f) /\ Len(chunks[f].code) < MaxCode
  /\ \A i \in DOMAIN chunks[f].code :
       LET o == chunks[f].code[i]
       IN  o.op \notin {"MethodCall", "Print"} /\ (o.op = "LoadConst" => ~IsFloat(o.v))

\* Mutant: jumps lead to blocks, what follows them does not begin one.
TargetsOnly(f) ==
  {0} \cup {chunks[f].code[i].target : i \in {j \in DOMAIN chunks[f].code : chunks[f].code[j].op \in Jumps}}

(* The addresses that get a block of machine code.                         *)
Blocks(f) ==
  LET at(ops) == {i \in DOMAIN chunks[f].code : chunks[f].code[i].op \in ops}
  IN  {0} \cup {chunks[f].code[i].target : i \in at(Jumps)}
          \cup at(Jumps \ {"Jump"})

(* A block no instruction falls into is refused by the code generator: a   *)
(* function that ends in an if that returns has one.                       *)
Accepted(f) == \A b \in Blocks(f) : b < Len(chunks[f].code)

Translated == {"LoadConst", "Move", "GetVar", "SetVar", "IncVar", "Add", "Sub", "Mul",
               "Call"} \cup Comparisons
EndsBlock(op) == op \notin Translated

(* The instructions that code is made for: those not behind the end of the *)
(* block they are in.                                                      *)
Generated(f, i) ==
  \E b \in Blocks(f) : /\ b < i
                       /\ \A j \in b + 1 .. i - 1 : ~EndsBlock(chunks[f].code[j].op)

(* A call that enters function f in the bytecode loop counts; the one      *)
(* after CompileThreshold of them compiles f, and is still interpreted.    *)
Counted(f) ==
  IF Eligible(f) /\ f \notin compiled /\ calls[f] <= CompileThreshold
  THEN /\ calls' = [calls EXCEPT ![f] = @ + 1]
       /\ compiled' = compiled \cup {g \in {f} : calls[f] = CompileThreshold /\ Accepted(f)}
  ELSE UNCHANGED compiling

MInit == /\ Init
         /\ modes = <<"holding">>
         /\ calls = [f \in DOMAIN chunks |-> 0] /\ compiled = {}

Mode == modes[Len(frames)]

-----------------------------------------------------------------------------
(* The bytecode loop, with or without the guard.                           *)

CallsNative == Runs({"Call"}) /\ Op.f \in compiled

(* The globals are reached through the guard.                              *)
TouchesGlobals == \/ Runs({"GetVar", "SetVar", "IncVar"})
                  \/ Runs({"IncVarLoopNext"}) /\ IsInt(R(Op.reg))

(* A frame ends: it returns, runs off its code or halts.                   *)
HaltsCounted == \/ /\ On({"array"}, {"get"}) /\ IsInt(Arg(1))
                   /\ Arg(1).n + 1 \notin DOMAIN Elements
                \/ On({"array"}, {"update"}) /\ IsInt(Arg(1)) /\ Arg(1).n < 0
Halts == \/ HaltsCounted
         \/ Runs(Arithmetics) /\ Arithmetic(Op.op, R(Op.src1), R(Op.src2)) = <<>>
         \/ Runs({"LoopNext"}) /\ ~(IsInt(R(Op.reg)) /\ IsInt(R(Op.limit)))
         \/ Runs({"MethodCall"}) /\ ~MethodExists
Ends  == Runs({"Return", "ReturnVoid"}) \/ Top.ip >= Len(Code) \/ Halts

(* The innermost frame of machine code below the top one, and whether what *)
(* ends the top frame is for it: it called the top frame, or an error made *)
(* every caller in between halt, no fiber among them.                      *)
NativeFrames == {k \in 1 .. Len(frames) - 1 : modes[k] = "native"}
ReachesNative(n) ==
  /\ n \in NativeFrames /\ \A k \in NativeFrames : k <= n
  /\ \A k \in n + 1 .. Len(frames) : frames[k].fiber = NoFiber
  /\ n = Len(frames) - 1 \/ errors \/ HaltsCounted

(* A frame of machine code goes on at address ip with v in register r.     *)
Given(n, v) == Append(SubSeq(frames, 1, n - 1),
                      [frames[n] EXCEPT !.reg = [@ EXCEPT ![frames[n + 1].dst] = v]])

(* Machine code that interpreted code returns to gets the value, or zero   *)
(* bits if there is none, and does not look at the errors.                 *)
Zero == FloatValue(0)
GiveBack ==
  /\ status = "running" /\ Mode = "without" /\ Ends
  /\ \E n \in NativeFrames :
       /\ ReachesNative(n)
       /\ frames' = Given(n, IF n = Len(frames) - 1 /\ Runs({"Return"}) THEN R(Op.src) ELSE Zero)
       /\ modes' = SubSeq(modes, 1, n)
  /\ errors' = IF HaltsCounted THEN TRUE ELSE errors
  /\ UNCHANGED <<Loaded, globals, heap, fibers, out, status, compiling>>

Stop(st) == /\ status' = st
            /\ UNCHANGED <<Loaded, frames, globals, heap, fibers, out, errors, modes, compiling>>

(* Without the guard there are no globals to reach, and the lock a call of *)
(* machine code takes is never given up: the thread holds it itself.       *)
LoseGuard     == Mode = "without" /\ TouchesGlobals /\ Stop("panicked")
WaitForItself == Mode = "without" /\ CallsNative /\ Stop("deadlocked")

\* Mutant: what is not compiled always runs with a guard.
CalleeModeHeld == IF Op.f \in compiled THEN "native" ELSE "holding"

CalleeMode == IF Mode = "without" THEN "without" ELSE IF Op.f \in compiled THEN "native" ELSE "holding"
Enter == /\ Mode # "native" /\ ~(Mode = "without" /\ CallsNative)
         /\ Call
         /\ modes' = Append(modes, CalleeMode)
         /\ Counted(Op.f)

(* A fiber runs in the mode of the frame that resumes it.                  *)
Step == /\ Mode # "native"
        /\ ~Runs({"Call"})
        /\ ~(Mode = "without" /\ (TouchesGlobals \/ (Ends /\ \E n \in NativeFrames : ReachesNative(n))))
        /\ Next
        /\ modes' = IF Len(frames') > Len(frames) THEN Append(modes, Mode)
                    ELSE SubSeq(modes, 1, Len(frames'))
        /\ UNCHANGED compiling

Interpret == Step \/ Enter \/ GiveBack \/ LoseGuard \/ WaitForItself

-----------------------------------------------------------------------------
(* Machine code.                                                           *)

(* Its memory accesses are not checked, and arithmetic on the address of a *)
(* heap value depends on where that lies.                                  *)
Addressed(o) ==
  \/ o.op \in {"Add", "Sub", "Mul"} \cup Comparisons /\ (IsPointer(R(o.src1)) \/ IsPointer(R(o.src2)))
  \/ o.op \in LoopOps /\ (IsPointer(R(o.reg)) \/ IsPointer(R(o.limit)))
  \/ o.op = "IncLocalLoopNext" /\ IsPointer(R(o.inc))
  \/ o.op \in {"IncVar", "IncVarLoopNext"} /\ IsPointer(globals[o.x])
Defined(o) ==
  /\ InFrame(o)
  /\ o.op = "Call" => o.dst \in DOMAIN Top.reg
  /\ o.op \in {"GetVar", "SetVar", "IncVar", "IncVarLoopNext"} => o.x \in DOMAIN globals
  /\ ~Addressed(o)

Executes(ops) == Runs(ops) /\ Mode = "native" /\ Defined(Op)
KeepMode      == UNCHANGED <<modes, compiling>>

(* What is the same as in the bytecode loop.                               *)
NativeCopy == /\ Executes({"LoadConst", "Move", "GetVar", "SetVar", "IncVar", "Jump"})
              /\ LoadConst \/ Move \/ GetVar \/ SetVar \/ IncVar \/ Jump
              /\ KeepMode

(* Operands are unpacked as ints, whatever they are.                       *)
Comparing(op, a, b) ==
  CASE op = "Equal"   -> a = b [] op = "NotEqual"     -> a # b
    [] op = "Less"    -> a < b [] op = "LessEqual"    -> ~(b < a)
    [] op = "Greater" -> b < a [] op = "GreaterEqual" -> ~(a < b)
NativeBinary ==
  /\ Executes({"Add", "Sub", "Mul"} \cup Comparisons)
  /\ LET a == AsInt(R(Op.src1))
         b == AsInt(R(Op.src2))
     IN  Write(IF Op.op \in Comparisons THEN BoolValue(Comparing(Op.op, a, b))
               ELSE IntValue(IntArithmetic(Op.op, a, b)))
  /\ UNCHANGED Rest /\ KeepMode

NativeBranch == /\ Executes({"JumpIfFalse", "JumpIfTrue"})
                /\ Go(IF LowBit(R(Op.src)) = (Op.op = "JumpIfTrue") THEN Op.target ELSE Next1, Top.reg)
                /\ UNCHANGED Rest /\ KeepMode

\* Mutant: the range excludes its end.
LoopsExclusive(reg) ==
  LET n == AsInt(reg[Op.reg]) + 1
  IN  Go(IF n < AsInt(reg[Op.limit]) THEN Op.target ELSE Next1, [reg EXCEPT ![Op.reg] = IntValue(n)])

\* Mutant: the loop variable is not stored.
LoopsUnstored(reg) ==
  Go(IF AsInt(reg[Op.reg]) + 1 <= AsInt(reg[Op.limit]) THEN Op.target ELSE Next1, reg)

(* The statement's increment, if there is one, comes before the loop's.    *)
Loops(reg) ==
  LET n == AsInt(reg[Op.reg]) + 1
  IN  Go(IF n <= AsInt(reg[Op.limit]) THEN Op.target ELSE Next1, [reg EXCEPT ![Op.reg] = IntValue(n)])
NativeLoop ==
  /\ \/ Executes({"LoopNext"}) /\ Loops(Top.reg) /\ UNCHANGED globals
     \/ /\ Executes({"IncLocalLoopNext"})
        /\ Loops([Top.reg EXCEPT ![Op.inc] = Incremented(@)]) /\ UNCHANGED globals
     \/ /\ Executes({"IncVarLoopNext"}) /\ Loops(Top.reg)
        /\ globals' = [globals EXCEPT ![Op.x] = Incremented(@)]
  /\ UNCHANGED <<Machine, heap, fibers, out>> /\ KeepMode

\* Mutant: every call takes the slow path.
NativeCallSlow == /\ Executes({"Call"}) /\ Call
                  /\ modes' = Append(modes, "without")
                  /\ Counted(Op.f)

(* Compiled functions are called without taking the lock again, others are *)
(* given to the bytecode loop, without a guard.                            *)
NativeCall == /\ Executes({"Call"}) /\ Call
              /\ modes' = Append(modes, IF Op.f \in compiled THEN "native" ELSE "without")
              /\ IF Op.f \in compiled THEN UNCHANGED compiling ELSE Counted(Op.f)

(* The frame is left with v, for machine code or for the bytecode loop.    *)
Leave(v) ==
  /\ IF modes[Len(frames) - 1] = "native"
     THEN frames' = Given(Len(frames) - 1, v) /\ UNCHANGED <<fibers, status>>
     ELSE LeaveCall(v, errors, "ended")
  /\ modes' = SubSeq(modes, 1, Len(frames'))
  /\ UNCHANGED <<Loaded, globals, heap, out, errors, compiling>>

NativeReturn == \/ Executes({"Return"}) /\ Leave(R(Op.src))
                \/ Executes({"ReturnVoid"}) /\ Leave(Unset)

(* An instruction there is no code for returns zero bits from the function.*)
Untranslated(op) == op \notin Translated \cup Jumps \cup LoopOps \cup {"Return", "ReturnVoid"}
AtNative == status = "running" /\ Top.ip < Len(Code) /\ Mode = "native"
Quit     == AtNative /\ Untranslated(Op.op) /\ Leave(Zero)

Stray == AtNative /\ ~Untranslated(Op.op) /\ ~Defined(Op) /\ Stop("undefined")

Native == NativeCopy \/ NativeBinary \/ NativeBranch \/ NativeLoop \/ NativeCall
            \/ NativeReturn \/ Quit \/ Stray

MNext == Interpret \/ Native

MSpec == MInit /\ [][MNext]_mvars /\ WF_mvars(MNext)

-----------------------------------------------------------------------------
(* Properties.                                                             *)

(* Every frame has a mode, the program's first the guard; what is compiled *)
(* was eligible and has been called CompileThreshold times before.         *)
MTypeOK ==
  /\ Len(modes) = Len(frames) /\ modes[1] = "holding"
  /\ \A k \in DOMAIN modes : modes[k] \in {"holding", "native", "without"}
  /\ DOMAIN calls = DOMAIN chunks
  /\ \A f \in DOMAIN calls : calls[f] \in 0 .. CompileThreshold + 1
  /\ \A f \in compiled : Eligible(f) /\ Accepted(f) /\ calls[f] = CompileThreshold + 1
  /\ status \in {"running", "ended", "halted", "panicked", "deadlocked", "undefined"}

(* vm.rs:2070, the lock is taken once: above machine code, which runs      *)
(* under the write lock of whoever entered it, no frame has a guard; and   *)
(* frames without one are there only because machine code is below them.   *)
OneHolder ==
  \A k \in DOMAIN modes :
    /\ modes[k] = "holding" => \A j \in 1 .. k : modes[j] = "holding"
    /\ modes[k] = "native" => frames[k].fiber = NoFiber /\ frames[k].f \in compiled
    /\ modes[k] = "without" => modes[k - 1] # "holding"

(* vm.rs:2072, compiled functions that call nothing but themselves never   *)
(* run anything without the guard: a thread that waits for its own lock or *)
(* has lost its globals had a compiled function call another one.          *)
CallsAnother(f) == \E i \in DOMAIN chunks[f].code :
                     chunks[f].code[i].op = "Call" /\ chunks[f].code[i].f # f
SelfCallsAreSafe ==
  status = "deadlocked" \/ "without" \in {modes[k] : k \in DOMAIN modes} =>
    \E f \in compiled : CallsAnother(f)

(* jit.rs:1474 indexes the blocks: both ways a loop's instruction goes     *)
(* have one, in every function that may be compiled.                       *)
LoopsHaveBlocks ==
  \A f \in {g \in DOMAIN chunks : Eligible(g)} : \A i \in DOMAIN chunks[f].code :
    chunks[f].code[i].op \in LoopOps \cup {"ArrayLoopNext"} /\ Generated(f, i) =>
      {chunks[f].code[i].target, i} \subseteq Blocks(f)

(* Where machine code is known to do something else than the bytecode.     *)
TakesForInts ==
  \/ Op.op \in {"Add", "Sub", "Mul"} /\ ~(IsInt(R(Op.src1)) /\ IsInt(R(Op.src2)))
  \/ Op.op \in Comparisons /\ ~\E t \in {"int", "bool"} : \A s \in {Op.src1, Op.src2} :
                                  R(s) = [t |-> t, n |-> AsInt(R(s))]
TakesForBool == Op.op \in {"JumpIfFalse", "JumpIfTrue"} /\ ~IsBool(R(Op.src))
CountsOther ==
  \/ Op.op \in LoopOps /\ ~(IsInt(R(Op.reg)) /\ IsInt(R(Op.limit)))
  \/ Op.op = "IncLocalLoopNext" /\ Op.inc \in {Op.reg, Op.limit}
IgnoresErrors == errors /\ Op.op \in {"Return", "ReturnVoid"}

NativeDiffers == Untranslated(Op.op) \/ ~Defined(Op) \/ TakesForInts \/ TakesForBool
                   \/ CountsOther \/ IgnoresErrors

(* And where bytecode that machine code called does: it has no globals, it *)
(* cannot call machine code, and what ends without a value or with an      *)
(* error gives back zero bits.                                             *)
CalledDiffers == TouchesGlobals \/ CallsNative \/ (Ends /\ (~Runs({"Return"}) \/ errors))

Differs == (Mode = "native" /\ NativeDiffers) \/ (Mode = "without" /\ CalledDiffers)

(* jit.md:25: what runs is the bytecode, step by step, except where        *)
(* machine code or what it calls is known to differ.                       *)
Implements == [][Next \/ Differs]_vars

(* The programs end, compiled or not: no call of machine code is made      *)
(* again with nothing done.                                                *)
Ending == <>(status # "running")

(* "Slow path: falls back to run_frame_with_guard for uncompiled           *)
(* functions" (jit.md:430): a call can always be made.                     *)
SlowPathWorks == status # "deadlocked"
=============================================================================
