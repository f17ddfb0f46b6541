------------------------------ MODULE TraceJit ------------------------------
(***************************************************************************)
(* The tracing JIT (execute_trace, check_start_recording, record_op and    *)
(* process_finished_trace in src/backend/vm.rs, JIT::compile in            *)
(* src/backend/jit.rs).  A loop that is hot is recorded for one iteration, *)
(* the recording is compiled, and from then on the trace runs in place of  *)
(* the bytecode, until a guard fails or the loop ends.                     *)
(*                                                                         *)
(* A trace runs as machine code (the Native actions) or, when the compiler *)
(* failed, entry by entry in the virtual machine (the Trace actions).  An  *)
(* entry stands for the guards and the operation that record_op made of    *)
(* one instruction.  While a trace runs its frame's ip is not kept by the  *)
(* program: here it is the address the running entry was recorded at.      *)
(***************************************************************************)
EXTENDS Bytecode, FiniteSets

CONSTANTS JumpThreshold,  \* iterations before a loop with a jump is hot
          LoopThreshold   \* and before one with LoopNext is

VARIABLES tables,     \* per call on the stack: its function, counters, traces
          pool,       \* for each table given back, whether it had a size
          recording,  \* is_recording and recording_trace
          traces,     \* VM::traces, by function and address
          symbols,    \* the addresses JIT::compile has defined a name for
          trace, pos, \* the trace that runs and where it is
          known       \* the registers whose contents the compiler knows at pos

jit  == <<tables, pool, recording, traces, symbols>>
run  == <<trace, pos, known>>
jvars == <<vars, jit, run>>

-----------------------------------------------------------------------------
(* Tables, recordings and traces.                                          *)

(* The traces filed under function f so far, by address.                   *)
TracesOf(f, ts) ==
  [ip \in {key[2] : key \in {k \in DOMAIN ts : k[1] = f}} |-> ts[<<f, ip>>]]

SizedTable(f, ts) ==
  [f |-> f, hot |-> [ip \in 0 .. Len(chunks[f].code) - 1 |-> 0], cache |-> TracesOf(f, ts)]
EmptyTable(f) == [f |-> f, hot |-> <<>>, cache |-> <<>>]
HasSize(t)    == DOMAIN t.hot # {}

(* A call takes its tables from the pool if the pool has any: tables that  *)
(* a function without loops gave back have no size, and get none.          *)
TableFor(f, ts) ==
  IF HasLoops(f) /\ (pool = <<>> \/ pool[Len(pool)]) THEN SizedTable(f, ts) ELSE EmptyTable(f)
PoolAfterCall(f) ==
  IF HasLoops(f) /\ pool # <<>> THEN SubSeq(pool, 1, Len(pool) - 1) ELSE pool

NoTrace     == [f |-> "main", start |-> 0, entries |-> <<>>, torn |-> FALSE, native |-> FALSE]
NoRecording == [on |-> FALSE, f |-> "main", start |-> 0, entries |-> <<>>, torn |-> FALSE]
Recording(f, start) == [on |-> TRUE, f |-> f, start |-> start, entries |-> <<>>, torn |-> FALSE]

JInit == /\ Init
         /\ tables = <<SizedTable("main", <<>>)>>
         /\ pool = <<>> /\ recording = NoRecording
         /\ traces = <<>> /\ symbols = {}
         /\ trace = NoTrace /\ pos = 1 /\ known = <<>>

Table   == tables[Len(tables)]
InTrace == trace.entries # <<>>

-----------------------------------------------------------------------------
(* Recording.                                                              *)

BothInt(o)   == IsInt(R(o.src1)) /\ IsInt(R(o.src2))
BothFloat(o) == IsFloat(R(o.src1)) /\ IsFloat(R(o.src2))
IsTrue(v)    == IsBool(v) /\ LowBit(v)
IsFalse(v)   == IsBool(v) /\ ~LowBit(v)

Unguarded == {"LoadConst", "Move", "GetVar", "SetVar", "IncLocal", "IncVar", "Jump",
              "And", "Or", "Not", "IncLocalLoopNext", "IncVarLoopNext"}
Numerics  == Arithmetics \cup Comparisons

(* What record_op makes of an instruction: the kind of values the entry is *)
(* for, the outcome a guard expects, or "none", when it gives up.          *)
Kind(o) ==
  CASE o.op \in Unguarded -> "any"
    [] o.op \in Numerics /\ BothInt(o) -> "int"
    [] o.op \in Numerics /\ BothFloat(o) -> "float"
    [] o.op = "LoopNext" /\ IsInt(R(o.reg)) /\ IsInt(R(o.limit)) -> "int"
    [] o.op = "CastFloat" /\ IsInt(R(o.src)) -> "int"
    [] o.op = "IntConcat" -> "int"
    [] o.op = "JumpIfFalse" -> IF IsFalse(R(o.src)) THEN "false" ELSE "true"
    [] o.op = "JumpIfTrue"  -> IF IsTrue(R(o.src)) THEN "true" ELSE "false"
    [] o.op = "MethodCall" /\ R(o.base).t = "array" /\ o.m \in {"size", "get", "push", "update"} -> "array"
    [] o.op = "MethodCall" /\ R(o.base).t = "set" /\ o.m \in {"size", "contains"} -> "set"
    [] OTHER -> "none"

(* sure says that a branch was recorded on a bool.                         *)
Entry(o) == [f |-> Top.f, at |-> Top.ip, op |-> o, as |-> Kind(o),
             sure |-> o.op \in {"JumpIfFalse", "JumpIfTrue"} => IsBool(R(o.src))]

Executes == Top.ip < Len(Code) /\ InFrame(Op)

(* The recording is back where it started.                                 *)
Complete == /\ recording.on /\ recording.entries # <<>>
            /\ Top.ip = recording.start /\ HasSize(Table) /\ Top.ip \in DOMAIN Table.hot
            /\ Top.ip < Len(Code)

(* Compiling it defines the symbol trace_<start>: the second trace with    *)
(* that start, in whatever function, fails and has no machine code.        *)
Finished == [f |-> recording.f, start |-> recording.start, entries |-> recording.entries,
             torn |-> recording.torn, native |-> recording.start \notin symbols]
Extended(f, key, value) ==
  [k \in DOMAIN f \cup {key} |-> IF k = key THEN value ELSE f[k]]

\* Mutant: an instruction that has no entry is passed over.
RecordedOnly ==
  IF Complete THEN NoRecording
  ELSE IF ~recording.on \/ ~Executes \/ Kind(Op) = "none" THEN recording
  ELSE [recording EXCEPT !.entries = Append(@, Entry(Op))]

Recorded == IF Complete THEN NoRecording
            ELSE IF ~recording.on \/ ~Executes THEN recording
            ELSE IF Kind(Op) = "none" THEN NoRecording
            ELSE [recording EXCEPT !.entries = Append(@, Entry(Op))]
Tables1  == IF Complete
            THEN [tables EXCEPT ![Len(tables)].cache = Extended(@, Top.ip, Finished)]
            ELSE tables
Traces1  == IF Complete THEN Extended(traces, <<Table.f, Top.ip>>, Finished) ELSE traces

-----------------------------------------------------------------------------
(* An instruction in the bytecode loop, with what the JIT does around it.  *)

Calls(fs) == Cardinality({i \in DOMAIN fs : fs[i].fiber = NoFiber})

Smaller(m, n) == IF m < n THEN m ELSE n

(* A jump back, or a loop going round, counts for its target.              *)
GoesBack ==
  /\ Executes /\ Op.op \in {"Jump"} \cup LoopOps
  /\ status' = "running" /\ Len(frames') = Len(frames)
  /\ frames'[Len(frames)].ip = Op.target
  /\ Op.op = "Jump" => Op.target < Top.ip
Threshold == IF Op.op = "Jump" THEN JumpThreshold ELSE LoopThreshold
CountsAt(ip) == ip \in DOMAIN Table.hot
(* A counter above every threshold counts no further here.                 *)
CountedAt(ip) == Smaller(Table.hot[ip] + 1, Larger(JumpThreshold, LoopThreshold))
Starts(ip) == /\ Table.hot[ip] + 1 >= Threshold
              /\ ~Recorded.on /\ ip \notin DOMAIN Tables1[Len(tables)].cache

(* A recording is not told that its frame was left.                        *)
Continued(left) ==
  [on |-> Recorded.on, f |-> Recorded.f, start |-> Recorded.start, entries |-> Recorded.entries,
   torn |-> Recorded.on /\ (Recorded.torn \/ left)]

Stay == /\ IF GoesBack /\ CountsAt(Op.target)
           THEN /\ tables' = [Tables1 EXCEPT ![Len(tables)].hot[Op.target] = CountedAt(Op.target)]
                /\ recording' = IF Starts(Op.target) THEN Recording(Top.f, Op.target)
                                ELSE Recorded
           ELSE /\ tables' = Tables1
                /\ recording' = Continued(Len(frames') < Len(frames))
        /\ UNCHANGED pool

(* run_frame_with_guard: tables for the call, and nothing is recorded.     *)
EnterCall == LET f == frames'[Len(frames')].f
             IN  /\ tables' = Append(Tables1, TableFor(f, Traces1))
                 /\ pool' = PoolAfterCall(f)
                 /\ recording' = NoRecording

\* Mutant: the tables of the innermost call are kept.
LeaveCallsOnly == /\ tables' = Tables1 /\ UNCHANGED pool
                  /\ recording' = Continued(TRUE)

(* The calls that are left give their tables back, the innermost first; a  *)
(* recording goes on in the caller.                                        *)
LeaveCalls ==
  LET n == Calls(frames')
  IN  /\ tables' = SubSeq(Tables1, 1, n)
      /\ pool' = pool \o [i \in 1 .. Len(tables) - n |-> HasSize(tables[Len(tables) + 1 - i])]
      /\ recording' = Continued(TRUE)

CacheHit == ~recording.on /\ HasSize(Table) /\ Top.ip \in DOMAIN Table.cache

Interpret ==
  /\ ~InTrace /\ ~(CacheHit /\ Top.ip < Len(Code))
  /\ Next
  /\ CASE Calls(frames') = Calls(frames) -> Stay
       [] Calls(frames') > Calls(frames) -> EnterCall
       [] Calls(frames') < Calls(frames) -> LeaveCalls
  /\ traces' = Traces1
  /\ symbols' = IF Complete THEN symbols \cup {Top.ip} ELSE symbols
  /\ UNCHANGED run

EnterTrace == /\ status = "running" /\ ~InTrace /\ Top.ip < Len(Code) /\ CacheHit
              /\ trace' = Table.cache[Top.ip] /\ pos' = 1 /\ known' = <<>>
              /\ UNCHANGED <<vars, jit>>

-----------------------------------------------------------------------------
(* Running a trace: where it goes from an entry.  Registers are accessed   *)
(* without a check.                                                        *)

E == trace.entries[pos]
O == E.op

Executing(native, ops, kinds) ==
  /\ status = "running" /\ InTrace /\ trace.native = native
  /\ O.op \in ops /\ E.as \in kinds
  /\ RegistersOf(O) \subseteq DOMAIN Top.reg

(* A trace gives the address to go on at as its result, and 0 to say that  *)
(* it ran to its end: the ip is then still the trace's start.              *)
Arrival(ip) == IF trace.native /\ ip = 0 THEN trace.start ELSE ip

Stop == trace' = NoTrace /\ pos' = 1 /\ known' = <<>>
Exit(ip, reg) == Go(Arrival(ip), reg) /\ Stop

\* Mutant: an increment is no assignment.
OverwrittenBySet(o) == IF "dst" \in DOMAIN o THEN {o.dst} ELSE {}

(* The operation's registers whose contents the compiler forgets, and what *)
(* it knows after the entry.                                               *)
Overwritten(o) ==
  CASE o.op = "MethodCall" -> IF o.m \in {"push", "update"} THEN {} ELSE {o.dst}
    [] o.op \in {"IncLocal", "LoopNext", "IncVarLoopNext"} -> {o.reg}
    [] o.op = "IncLocalLoopNext" -> {o.inc, o.reg}
    [] OTHER -> IF "dst" \in DOMAIN o THEN {o.dst} ELSE {}
Without(f, rs)  == [r \in DOMAIN f \ rs |-> f[r]]
WholeNumber(v)  == IsInt(v) \/ (IsFloat(v) /\ v.n = Unit * (v.n \div Unit))
IntegerOf(v)    == IF IsInt(v) THEN v.n ELSE v.n \div Unit
KnownAfter(o) ==
  LET kept == Without(known, Overwritten(o))
  IN  CASE o.op = "LoadConst" /\ WholeNumber(o.v) -> Extended(kept, o.dst, IntegerOf(o.v))
        [] o.op = "Move" /\ o.src \in DOMAIN kept -> Extended(kept, o.dst, kept[o.src])
        [] OTHER -> kept

(* On to the next entry; after the last one, the trace gives control back  *)
(* at its start.                                                           *)
Onward == IF pos < Len(trace.entries) THEN trace.entries[pos + 1].at ELSE trace.start
Proceed(reg) ==
  /\ Go(Onward, reg)
  /\ IF pos < Len(trace.entries)
     THEN pos' = pos + 1 /\ known' = KnownAfter(O) /\ UNCHANGED trace
     ELSE Stop
Set(r, v) == Proceed([Top.reg EXCEPT ![r] = v])

(* A jump to the start stays in the trace, any other leaves it.            *)
JumpTo(ip, reg) ==
  IF ip = trace.start THEN Go(ip, reg) /\ pos' = 1 /\ known' = <<>> /\ UNCHANGED trace
  ELSE Exit(ip, reg)

Others == UNCHANGED <<Machine, fibers, out, jit>>
Only   == Others /\ UNCHANGED <<globals, heap>>

-----------------------------------------------------------------------------
(* What the operations do, whoever runs them.                              *)

\* Mutant: every guard fails to where the trace starts.
FailsToStart == Exit(trace.start, Top.reg) /\ Only

Fails    == Exit(E.at, Top.reg) /\ Only
AreInt   == IsInt(R(O.src1)) /\ IsInt(R(O.src2))
AreFloat == IsFloat(R(O.src1)) /\ IsFloat(R(O.src2))
Guarded  == IF E.as = "int" THEN AreInt ELSE AreFloat

Copying ==
  CASE O.op = "LoadConst" -> Set(O.dst, O.v) /\ Only
    [] O.op = "Move"      -> Set(O.dst, R(O.src)) /\ Only
    [] O.op = "GetVar"    -> Set(O.dst, Global(O.x)) /\ Only
    [] O.op = "SetVar"    -> /\ globals' = [globals EXCEPT ![O.x] = R(O.src)]
                             /\ Proceed(Top.reg) /\ Others /\ UNCHANGED heap

(* An increment makes an int of anything.                                  *)
Counting ==
  IF O.op = "IncLocal" THEN Set(O.reg, Incremented(R(O.reg))) /\ Only
  ELSE /\ globals' = [globals EXCEPT ![O.x] = Incremented(@)]
       /\ Proceed(Top.reg) /\ Others /\ UNCHANGED heap

ComputingFloat ==
  IF ~AreFloat \/ (Divides(O.op) /\ R(O.src2).n = 0) THEN Fails
  ELSE Set(O.dst, FloatValue(FloatArithmetic(O.op, R(O.src1).n, R(O.src2).n))) /\ Only

Comparing == IF ~Guarded THEN Fails
             ELSE Set(O.dst, BoolValue(Compare(O.op, R(O.src1), R(O.src2)))) /\ Only

Reasoning == IF O.op = "Not" THEN Set(O.dst, BoolValue(~LowBit(R(O.src)))) /\ Only
             ELSE Set(O.dst, Connected(O.op, R(O.src1), R(O.src2))) /\ Only

Casting == IF ~IsInt(R(O.src)) THEN Fails ELSE Set(O.dst, ToFloat(R(O.src))) /\ Only

Joined(a, b)  == IntValue(a.n * Shift(Magnitude(b.n)) + b.n)
Concatenating == IF ~AreInt THEN Fails ELSE Set(O.dst, Joined(R(O.src1), R(O.src2))) /\ Only

\* Mutant: a branch that was taken exits to its target.
OtherWayTaken == O.target

(* A guard on a branch: where it was not taken, the other way is outside   *)
(* of the trace.                                                           *)
OtherWay == IF (E.as = "true") = (O.op = "JumpIfTrue") THEN E.at + 1 ELSE O.target
Branching(holds) == (IF holds THEN Proceed(Top.reg) ELSE Exit(OtherWay, Top.reg)) /\ Only

(* The loop variable's new value, or the limit, decides.                   *)
Looping(n, limit, reg) ==
  IF n <= limit THEN JumpTo(O.target, reg) ELSE Exit(E.at + 1, reg)

(* A call of a method on an array or a set.                                *)
Object   == R(O.base)
Contents == heap[Object.n]
Argument(i) == R(O.base + i)
Measuring == Set(O.dst, IntValue(Len(Contents))) /\ Only
Searching == Set(O.dst, Member(Argument(1), Contents)) /\ Only
InBounds  == AsInt(Argument(1)) >= 0 /\ AsInt(Argument(1)) + 1 \in DOMAIN Contents
Fetched   == Contents[AsInt(Argument(1)) + 1]
(* Push and update leave their destination alone.                          *)
Storing(elements) ==
  /\ heap' = [heap EXCEPT ![Object.n] = elements]
  /\ Proceed(Top.reg) /\ Others /\ UNCHANGED globals
Pushing   == Storing(Append(Contents, Argument(1)))
Replacing == IF InBounds THEN Storing(Updated(Contents, AsInt(Argument(1)) + 1, Argument(2)))
             ELSE Fails

Calling(native, type, m) ==
  Executing(native, {"MethodCall"}, {type}) /\ O.m = m /\ Object.t = type

-----------------------------------------------------------------------------
(* execute_trace without machine code.                                     *)

TraceCopy == Executing(FALSE, {"LoadConst", "Move", "GetVar", "SetVar"}, {"any"}) /\ Copying
TraceInc  == Executing(FALSE, {"IncLocal", "IncVar"}, {"any"}) /\ Counting

TraceArithmetic ==
  /\ Executing(FALSE, {"Add", "Sub", "Mul"}, {"int"})
  /\ IF ~AreInt THEN Fails
     ELSE Set(O.dst, IntValue(IntArithmetic(O.op, R(O.src1).n, R(O.src2).n))) /\ Only
TraceDivide ==
  /\ Executing(FALSE, {"Div", "Mod"}, {"int"})
  /\ IF ~AreInt \/ R(O.src2).n = 0 THEN Fails
     ELSE Set(O.dst, IntValue(IntArithmetic(O.op, R(O.src1).n, R(O.src2).n))) /\ Only
TraceFloat   == Executing(FALSE, Arithmetics, {"float"}) /\ ComputingFloat
TraceCompare == Executing(FALSE, Comparisons, {"int", "float"}) /\ Comparing
TraceLogic   == Executing(FALSE, {"And", "Or", "Not"}, {"any"}) /\ Reasoning
TraceCast    == Executing(FALSE, {"CastFloat"}, {"int"}) /\ Casting
TraceConcat  == Executing(FALSE, {"IntConcat"}, {"int"}) /\ Concatenating

TraceBranch ==
  /\ Executing(FALSE, {"JumpIfFalse", "JumpIfTrue"}, {"true", "false"})
  /\ Branching(IF E.as = "true" THEN IsTrue(R(O.src)) ELSE IsFalse(R(O.src)))

TraceLoop ==
  /\ Executing(FALSE, {"LoopNext"}, {"int"})
  /\ IF ~(IsInt(R(O.reg)) /\ IsInt(R(O.limit))) THEN Fails
     ELSE /\ Looping(R(O.reg).n + 1, R(O.limit).n, [Top.reg EXCEPT ![O.reg] = Incremented(@)])
          /\ Only

TraceIncVarLoop ==
  /\ Executing(FALSE, {"IncVarLoopNext"}, {"any"})
  /\ globals' = [globals EXCEPT ![O.x] = Incremented(@)]
  /\ Looping(AsInt(R(O.reg)) + 1, AsInt(R(O.limit)),
             [Top.reg EXCEPT ![O.reg] = Incremented(@)])
  /\ Others /\ UNCHANGED heap

(* Once, if both increments are of the same register; then the limit is    *)
(* read.                                                                   *)
TraceIncLocalLoop ==
  /\ Executing(FALSE, {"IncLocalLoopNext"}, {"any"})
  /\ LET reg == [r \in DOMAIN Top.reg |->
                   IF r \in {O.inc, O.reg} THEN Incremented(R(r)) ELSE R(r)]
     IN  Looping(AsInt(R(O.reg)) + 1, AsInt(reg[O.limit]), reg)
  /\ Only

TraceJump == Executing(FALSE, {"Jump"}, {"any"}) /\ JumpTo(O.target, Top.reg) /\ Only

TraceSize     == (\E type \in {"array", "set"} : Calling(FALSE, type, "size")) /\ Measuring
TraceContains == Calling(FALSE, "set", "contains") /\ Searching
TraceGet      == /\ Calling(FALSE, "array", "get")
                 /\ IF InBounds THEN Set(O.dst, Fetched) /\ Only ELSE Fails
TracePush     == Calling(FALSE, "array", "push") /\ Pushing
TraceUpdate   == Calling(FALSE, "array", "update") /\ Replacing

TraceStep ==
  \/ TraceCopy \/ TraceInc \/ TraceArithmetic \/ TraceDivide \/ TraceFloat
  \/ TraceCompare \/ TraceLogic \/ TraceCast \/ TraceConcat \/ TraceBranch
  \/ TraceLoop \/ TraceIncVarLoop \/ TraceIncLocalLoop \/ TraceJump
  \/ TraceSize \/ TraceContains \/ TraceGet \/ TracePush \/ TraceUpdate

-----------------------------------------------------------------------------
(* The code that JIT::compile generates.                                   *)

NativeCopy == Executing(TRUE, {"LoadConst", "Move", "GetVar", "SetVar"}, {"any"}) /\ Copying
NativeInc  == Executing(TRUE, {"IncLocal", "IncVar"}, {"any"}) /\ Counting

(* An operand the compiler knows is a constant of the code: the second, or *)
(* else the first.                                                         *)
Right == IF O.src2 \in DOMAIN known THEN known[O.src2] ELSE AsInt(R(O.src2))
Left  == IF O.src2 \notin DOMAIN known /\ O.src1 \in DOMAIN known THEN known[O.src1]
         ELSE AsInt(R(O.src1))
NativeArithmetic ==
  /\ Executing(TRUE, {"Add", "Sub", "Mul"}, {"int"})
  /\ IF ~AreInt THEN Fails
     ELSE Set(O.dst, IntValue(IntArithmetic(O.op, Left, Right))) /\ Only

(* The remainder is computed before its divisor is tested: one of zero     *)
(* kills the process.                                                      *)
Crash == /\ status' = "crashed"
         /\ UNCHANGED <<Loaded, errors, frames, globals, heap, fibers, out, jit, run>>
NativeDivide ==
  /\ Executing(TRUE, {"Div"}, {"int"})
  /\ IF ~AreInt \/ R(O.src2).n = 0 THEN Fails
     ELSE Set(O.dst, IntValue(Quotient(R(O.src1).n, R(O.src2).n))) /\ Only
NativeRemainder ==
  /\ Executing(TRUE, {"Mod"}, {"int"})
  /\ IF ~AreInt THEN Fails
     ELSE IF Right = 0 THEN Crash
     ELSE Set(O.dst, IntValue(Remainder(AsInt(R(O.src1)), Right))) /\ Only

NativeFloat   == Executing(TRUE, Arithmetics, {"float"}) /\ ComputingFloat
NativeCompare == Executing(TRUE, Comparisons, {"int", "float"}) /\ Comparing
NativeLogic   == Executing(TRUE, {"And", "Or", "Not"}, {"any"}) /\ Reasoning
NativeCast    == Executing(TRUE, {"CastFloat"}, {"int"}) /\ Casting
NativeConcat  == Executing(TRUE, {"IntConcat"}, {"int"}) /\ Concatenating

(* A guard looks at the lowest bit, whatever the value.                    *)
NativeBranch ==
  /\ Executing(TRUE, {"JumpIfFalse", "JumpIfTrue"}, {"true", "false"})
  /\ Branching(LowBit(R(O.src)) = (E.as = "true"))

(* The loops add 1 to the packed value: the 48 bits of -1 overflow into    *)
(* the tag of an int, which gives false.  A float is some bit pattern      *)
(* away, here not told apart.                                              *)
PlusOne(v) == IF IsInt(v) /\ v.n = -1 THEN Unset
              ELSE IF IsFloat(v) THEN v
              ELSE [t |-> v.t, n |-> v.n + 1]
PlusOneAt(rs) == [r \in DOMAIN Top.reg |-> IF r \in rs THEN PlusOne(R(r)) ELSE R(r)]
NativeLooping(reg) == Looping(AsInt(R(O.reg)) + 1, AsInt(reg[O.limit]), reg)

NativeLoop ==
  /\ Executing(TRUE, {"LoopNext"}, {"int"})
  /\ IF ~(IsInt(R(O.reg)) /\ IsInt(R(O.limit))) THEN Fails
     ELSE NativeLooping(PlusOneAt({O.reg})) /\ Only
NativeIncVarLoop ==
  /\ Executing(TRUE, {"IncVarLoopNext"}, {"any"})
  /\ globals' = [globals EXCEPT ![O.x] = PlusOne(@)]
  /\ NativeLooping(PlusOneAt({O.reg}))
  /\ Others /\ UNCHANGED heap
NativeIncLocalLoop ==
  /\ Executing(TRUE, {"IncLocalLoopNext"}, {"any"})
  /\ NativeLooping(PlusOneAt({O.inc, O.reg})) /\ Only

NativeJump == Executing(TRUE, {"Jump"}, {"any"}) /\ JumpTo(O.target, Top.reg) /\ Only

NativeSize     == (\E type \in {"array", "set"} : Calling(TRUE, type, "size")) /\ Measuring
NativeContains == Calling(TRUE, "set", "contains") /\ Searching
(* The bits of 0.0 are how xcx_jit_array_get reports a bad index.          *)
NativeGet      == /\ Calling(TRUE, "array", "get")
                  /\ IF InBounds /\ Fetched # FloatValue(0) THEN Set(O.dst, Fetched) /\ Only
                     ELSE Fails
NativePush     == Calling(TRUE, "array", "push") /\ Pushing
NativeUpdate   == Calling(TRUE, "array", "update") /\ Replacing

NativeStep ==
  \/ NativeCopy \/ NativeInc \/ NativeArithmetic \/ NativeDivide \/ NativeRemainder
  \/ NativeFloat \/ NativeCompare \/ NativeLogic \/ NativeCast \/ NativeConcat
  \/ NativeBranch \/ NativeLoop \/ NativeIncVarLoop \/ NativeIncLocalLoop \/ NativeJump
  \/ NativeSize \/ NativeContains \/ NativeGet \/ NativePush \/ NativeUpdate

(* A register outside of the frame, or a method on a value of another type *)
(* than the recorded one: memory is read that is something else.           *)
Defined == /\ RegistersOf(O) \subseteq DOMAIN Top.reg
           /\ O.op = "MethodCall" => R(O.base).t = E.as
Stray == /\ status = "running" /\ InTrace /\ ~Defined
         /\ status' = "undefined"
         /\ UNCHANGED <<Loaded, errors, frames, globals, heap, fibers, out, jit, run>>

-----------------------------------------------------------------------------

JNext == Interpret \/ EnterTrace \/ TraceStep \/ NativeStep \/ Stray

JSpec == JInit /\ [][JNext]_jvars /\ WF_jvars(JNext)

-----------------------------------------------------------------------------
(* Properties.                                                             *)

(* Every call on the stack has its tables, sized for the function's code   *)
(* or not at all; a trace is filed under the address it starts at, which   *)
(* has a symbol; the trace that runs is at one of its entries.             *)
JTypeOK ==
  /\ Len(tables) = Calls(frames)
  /\ \A k \in DOMAIN tables :
       /\ HasSize(tables[k]) => DOMAIN tables[k].hot = 0 .. Len(chunks[tables[k].f].code) - 1
       /\ DOMAIN tables[k].cache \subseteq DOMAIN tables[k].hot
       /\ \A ip \in DOMAIN tables[k].cache : tables[k].cache[ip].start = ip
  /\ \A key \in DOMAIN traces : key[2] \in symbols /\ traces[key].start = key[2]
  /\ InTrace => pos \in DOMAIN trace.entries
  /\ status \in {"running", "ended", "halted", "panicked", "crashed", "undefined"}

(* Where a trace is known to do something else than the bytecode it was    *)
(* recorded from.                                                          *)
RunsElsewhere    == trace.f # Top.f \/ trace.torn
LacksRegisters   == ~(RegistersOf(O) \subseteq DOMAIN Top.reg)
CountsNonInt     == \/ O.op = "IncLocal" /\ ~IsInt(R(O.reg))
                    \/ O.op \in {"IncLocalLoopNext", "IncVarLoopNext"} /\ ~IsInt(R(O.reg))
CountsTwice      == O.op = "IncLocalLoopNext" /\ O.inc = O.reg
CountsPastLimit  == \/ O.op \in LoopOps /\ O.limit = O.reg
                    \/ O.op = "IncLocalLoopNext" /\ O.limit = O.inc
Overflows(v)     == ~IsInt(v) \/ v.n = -1
CountsPacked     == /\ trace.native
                    /\ \/ O.op \in LoopOps /\ Overflows(R(O.reg))
                       \/ O.op = "IncLocalLoopNext" /\ Overflows(R(O.inc))
                       \/ O.op = "IncVarLoopNext" /\ Overflows(globals[O.x])
KeepsDestination == /\ O.op = "MethodCall" /\ O.m \in {"push", "update"}
                    /\ R(O.dst) # BoolValue(TRUE)
DividesByZero    == trace.native /\ O.op = "Mod" /\ AsInt(R(O.src2)) = 0
BranchesOnOther  == O.op \in {"JumpIfFalse", "JumpIfTrue"} /\ ~(E.sure /\ IsBool(R(O.src)))
JoinsNegatives   == /\ O.op = "IntConcat"
                    /\ AsInt(R(O.src1)) < 0 \/ AsInt(R(O.src2)) < 0
MistakesTypes    == /\ O.op = "MethodCall"
                    /\ \/ R(O.base).t # E.as
                       \/ O.m \in {"get", "update"} /\ ~IsInt(R(O.base + 1))
ExitsToZero      == /\ trace.native /\ trace.start # 0
                    /\ E.at = 0 \/ ("target" \in DOMAIN O /\ O.target = 0)

Deviates ==
  InTrace /\ (RunsElsewhere \/ LacksRegisters \/ CountsNonInt \/ CountsTwice \/ CountsPastLimit
              \/ CountsPacked \/ KeepsDestination \/ DividesByZero \/ BranchesOnOther
              \/ JoinsNegatives \/ MistakesTypes \/ ExitsToZero)

(* jit.md:25: what runs while a trace runs is the bytecode, step by step:  *)
(* every step is one of the bytecode loop's, or changes nothing it sees,   *)
(* except where a trace is known to deviate.                               *)
Transparent == [][Next \/ Deviates]_vars

(* The same without exceptions, which is what jit.md:25 says.              *)
CompletelyTransparent == [][Next]_vars

(* What the compiler knows of a register when it generates an entry is     *)
(* what the register holds when the entry runs.                            *)
ConstantsHold ==
  \A r \in DOMAIN known : \/ IsInt(R(r)) /\ R(r).n = known[r]
                          \/ IsFloat(R(r)) /\ R(r).n = Unit * known[r]

(* A trace or a recording that never left its frame is a path through one  *)
(* function: every entry is an instruction of it, at its address, and goes *)
(* on at the next entry's address; the last of a trace at its start.       *)
Leads(e, next) ==
  CASE e.op.op \in {"Jump"} \cup LoopOps -> TRUE
    [] e.op.op \in {"JumpIfFalse", "JumpIfTrue"} ->
         e.sure => next = IF (e.op.op = "JumpIfTrue") = (e.as = "true")
                          THEN e.op.target ELSE e.at + 1
    [] OTHER -> next = e.at + 1
Path(es, f, start, end) ==
  \A i \in DOMAIN es :
    /\ es[i].f = f /\ es[i].at \in 0 .. Len(chunks[f].code) - 1
    /\ es[i].op = chunks[f].code[es[i].at + 1]
    /\ i = 1 => es[i].at = start
    /\ Leads(es[i], IF i < Len(es) THEN es[i + 1].at ELSE end)
WholePath(t) == ~t.torn => Path(t.entries, t.f, t.start, t.start)
TracesFollowCode ==
  /\ \A key \in DOMAIN traces : WholePath(traces[key])
  /\ status = "running" /\ recording.on /\ ~recording.torn =>
       /\ Top.f = recording.f
       /\ Path(recording.entries, recording.f, recording.start, Top.ip)

(* The program ends: no trace gives control back to where it is entered    *)
(* again with nothing done.  Only a program that runs one function's trace *)
(* in another frame may go on for ever.                                    *)
Terminates == <>(status # "running" \/ (InTrace /\ RunsElsewhere))

(* jit.md:31, a loop is traced after its iterations, in whatever function: *)
(* a function with loops has counters.                                     *)
LoopsAreCounted ==
  \A i \in DOMAIN tables : HasLoops(tables[i].f) => HasSize(tables[i])
=============================================================================
