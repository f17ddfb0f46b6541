--------------------------- MODULE TraceJitProofs ---------------------------
(***************************************************************************)
(* Proofs about TraceJit, for every set of well-formed programs and all    *)
(* thresholds: traces and recordings follow the code, the compiler's       *)
(* constants hold, and what a trace does is what the bytecode it was       *)
(* recorded from does, except where a deviation is named.                  *)
(***************************************************************************)
EXTENDS TraceJit, BytecodeProofs, FiniteSetTheorems

EntryShape(e) == e.at \in Nat /\ Operated(e.op)
TraceShape(t) ==
  /\ t = [f |-> t.f, start |-> t.start, entries |-> t.entries, torn |-> t.torn, native |-> t.native]
  /\ t.start \in Nat /\ IsSeq(t.entries)
  /\ \A i \in DOMAIN t.entries : EntryShape(t.entries[i])
  /\ WholePath(t)
CacheShape(cache) == \A ip \in DOMAIN cache : TraceShape(cache[ip]) /\ cache[ip].start = ip
TableShape(t) ==
  /\ t = [f |-> t.f, hot |-> t.hot, cache |-> t.cache]
  /\ t.f \in DOMAIN chunks
  /\ HasSize(t) => DOMAIN t.hot = 0 .. Len(chunks[t.f].code) - 1
  /\ DOMAIN t.cache \subseteq DOMAIN t.hot
  /\ CacheShape(t.cache)

TablesShape == /\ IsSeq(tables) /\ Len(tables) = Calls(frames)
               /\ \A k \in DOMAIN tables : TableShape(tables[k])
(* A trace is filed under an address of a function that has its symbol.    *)
TracesShape ==
  \A key \in DOMAIN traces :
    /\ key = <<key[1], key[2]>> /\ key[1] \in DOMAIN chunks
    /\ key[2] \in 0 .. Len(chunks[key[1]].code) - 1
    /\ key[2] \in symbols /\ traces[key].start = key[2] /\ TraceShape(traces[key])
(* A recording that has not left its frame leads to where the frame is.    *)
RecordingShape ==
  /\ recording = [on |-> recording.on, f |-> recording.f, start |-> recording.start,
                  entries |-> recording.entries, torn |-> recording.torn]
  /\ recording.start \in Nat /\ IsSeq(recording.entries)
  /\ \A i \in DOMAIN recording.entries : EntryShape(recording.entries[i])
  /\ status = "running" /\ recording.on /\ ~recording.torn =>
       /\ Top.f = recording.f
       /\ Path(recording.entries, recording.f, recording.start, Top.ip)
       /\ recording.entries = <<>> => Top.ip = recording.start
(* The trace that runs is at its frame's address, and nothing is recorded. *)
RunShape ==
  /\ TraceShape(trace)
  /\ ~InTrace => known = <<>>
  /\ InTrace => /\ pos \in DOMAIN trace.entries /\ ~recording.on
                /\ status = "running" /\ trace.f = Top.f /\ ~trace.torn => Top.ip = E.at
  /\ DOMAIN known \subseteq DOMAIN Top.reg /\ ConstantsHold
StatusShape == status \in {"running", "ended", "halted", "panicked", "crashed", "undefined"}

JInv == Shape /\ TablesShape /\ TracesShape /\ RecordingShape /\ RunShape /\ StatusShape

-----------------------------------------------------------------------------
(* A trace in its own frame, where it does not deviate, is at the          *)
(* instruction its entry was made of.                                      *)

LEMMA AtInstruction ==
  ASSUME JInv, ~Deviates, NEW native, NEW ops, NEW kinds, Executing(native, ops, kinds)
  PROVE  /\ Runs({O.op}) /\ Op = O /\ Top.ip = E.at /\ Next1 = E.at + 1 /\ O.op \in ops /\ E.as \in kinds
         /\ Leads(E, Onward) /\ Operated(O) /\ pos \in DOMAIN trace.entries
  <1>1. InTrace /\ trace.f = Top.f /\ ~trace.torn /\ status = "running"
    BY DEF Executing, Deviates, RunsElsewhere
  <1>2. pos \in DOMAIN trace.entries /\ Top.ip = E.at
    BY <1>1 DEF JInv, RunShape
  <1>3. Path(trace.entries, trace.f, trace.start, trace.start) /\ EntryShape(E)
    BY <1>1, <1>2 DEF JInv, RunShape, TraceShape, WholePath, E
  <1>4. /\ E.at \in 0 .. Len(Code) - 1 /\ E.op = Code[E.at + 1]
        /\ Leads(E, Onward)
    BY <1>1, <1>2, <1>3 DEF Path, E, Code, Onward
  <1>5. Op = O /\ Top.ip < Len(Code)
    BY <1>2, <1>4, TopShape DEF Op, O, JInv
  <1>6. O.op \in ops /\ E.as \in kinds /\ RegistersOf(O) \subseteq DOMAIN Top.reg
    BY DEF Executing
  <1>7. InFrame(Op)
    BY <1>5, <1>6 DEF InFrame
  <1> QED
    BY <1>1, <1>2, <1>3, <1>4, <1>5, <1>6, <1>7 DEF Runs, EntryShape, O, Next1

(* A guard that fails gives control back where it is.                      *)
LEMMA FailsStutters ==
  ASSUME JInv, ~Deviates, InTrace, Top.ip = E.at, Fails
  PROVE  UNCHANGED vars
  <1>1. Arrival(E.at) = E.at
    BY DEF Arrival, Deviates, ExitsToZero
  <1>2. FrameShape(Top) /\ Top = frames[Len(frames)] /\ IsFun(frames)
    BY TopShape, SeqFacts DEF JInv, Shape, FramesShape
  <1>3. frames' = [frames EXCEPT ![Len(frames)] = [@ EXCEPT !.ip = Top.ip, !.reg = Top.reg]]
    BY <1>1 DEF Fails, Exit, Go
  <1>4. [Top EXCEPT !.ip = Top.ip, !.reg = Top.reg] = Top
    BY <1>2, FrameExcept DEF FrameShape
  <1>5. frames' = [frames EXCEPT ![Len(frames)] = Top]
    BY <1>2, <1>3, <1>4
  <1>6. frames' = frames
    BY <1>2, <1>5 DEF IsFun
  <1> QED
    BY <1>6 DEF Fails, Only, Others, Machine, Loaded, vars

LEMMA OnlyRest ==
  ASSUME Only
  PROVE  UNCHANGED Rest
  BY DEF Only, Others, Rest, Machine, Loaded

(* An entry that is no jump goes on where the instruction does.            *)
LEMMA SetWrites ==
  ASSUME Leads(E, Onward), Next1 = E.at + 1, Op = O,
         O.op \notin {"Jump", "JumpIfFalse", "JumpIfTrue"} \cup LoopOps
  PROVE  /\ Onward = Next1
         /\ \A reg : Proceed(reg) => Go(Next1, reg)
         /\ \A v : Set(O.dst, v) => Write(v)
  <1>1. Onward = Next1
    BY DEF Leads, O
  <1> QED
    BY <1>1 DEF Set, Proceed, Write

-----------------------------------------------------------------------------
(* Entry by entry                                                          *)

LEMMA CopyTransparent ==
  ASSUME JInv, ~Deviates, NEW native,
         Executing(native, {"LoadConst", "Move", "GetVar", "SetVar"}, {"any"}), Copying
  PROVE  Next
  <1>1. /\ Runs({O.op}) /\ Op = O /\ Next1 = E.at + 1 /\ O.op \in {"LoadConst", "Move", "GetVar", "SetVar"}
        /\ Leads(E, Onward)
    BY AtInstruction
  <1>2. /\ \A reg : Proceed(reg) => Go(Next1, reg)
        /\ \A v : Set(O.dst, v) => Write(v)
    BY <1>1, SetWrites DEF LoopOps
  <1>3. CASE O.op = "LoadConst"
    BY <1>1, <1>2, <1>3, OnlyRest DEF Copying, LoadConst, Next
  <1>4. CASE O.op = "Move"
    BY <1>1, <1>2, <1>4, OnlyRest DEF Copying, Move, Next
  <1>5. CASE O.op = "GetVar"
    BY <1>1, <1>2, <1>5, OnlyRest DEF Copying, GetVar, Next
  <1>6. CASE O.op = "SetVar"
    BY <1>1, <1>2, <1>6 DEF Copying, SetVar, Next, Others
  <1> QED
    BY <1>1, <1>3, <1>4, <1>5, <1>6

LEMMA CountTransparent ==
  ASSUME JInv, ~Deviates, NEW native, Executing(native, {"IncLocal", "IncVar"}, {"any"}), Counting
  PROVE  Next
  <1>1. /\ Runs({O.op}) /\ Op = O /\ Next1 = E.at + 1 /\ O.op \in {"IncLocal", "IncVar"}
        /\ Leads(E, Onward)
    BY AtInstruction
  <1>2. /\ Onward = Next1
        /\ \A reg : Proceed(reg) => Go(Next1, reg)
    BY <1>1, SetWrites DEF LoopOps
  <1>3. CASE O.op = "IncLocal"
    <2>1. IsInt(R(O.reg))
      BY <1>3 DEF Deviates, CountsNonInt, Executing
    <2>2. Proceed([Top.reg EXCEPT ![O.reg] = Incremented(R(O.reg))]) /\ UNCHANGED Rest
      BY <1>3, OnlyRest DEF Counting, Set
    <2>3. [Top.reg EXCEPT ![O.reg] = Incremented(R(O.reg))] = [Top.reg EXCEPT ![O.reg] = Incremented(@)]
      BY DEF R
    <2> QED
      BY <1>1, <1>2, <1>3, <2>1, <2>2, <2>3 DEF IncLocal, Next
  <1>4. CASE O.op = "IncVar"
    BY <1>1, <1>2, <1>4 DEF Counting, IncVar, Next, Others
  <1> QED
    BY <1>1, <1>3, <1>4

(* What is known of an operand is what it holds.                           *)
LEMMA OperandsKnown ==
  ASSUME JInv, AreInt
  PROVE  Left = R(O.src1).n /\ Right = R(O.src2).n
  <1>1. R(O.src1).t = "int" /\ R(O.src2).t = "int"
    BY DEF AreInt, IsInt
  <1>2. \A r \in DOMAIN known : R(r).t = "int" => R(r).n = known[r]
    BY DEF JInv, RunShape, ConstantsHold, IsInt, IsFloat
  <1>3. AsInt(R(O.src1)) = R(O.src1).n /\ AsInt(R(O.src2)) = R(O.src2).n
    BY <1>1 DEF AsInt
  <1> QED
    BY <1>1, <1>2, <1>3 DEF Left, Right

LEMMA ArithmeticInt ==
  ASSUME NEW op, NEW a, NEW b, IsInt(a), IsInt(b), b.n # 0 \/ ~Divides(op)
  PROVE  Arithmetic(op, a, b) = <<IntValue(IntArithmetic(op, a.n, b.n))>>
  <1>1. a.t # "string" /\ b.t # "string" /\ IsNumeric(a) /\ IsNumeric(b)
    BY DEF IsInt, IsNumeric
  <1> QED
    BY <1>1 DEF Arithmetic, Divides

LEMMA ArithmeticFloat ==
  ASSUME NEW op, NEW a, NEW b, IsFloat(a), IsFloat(b), b.n # 0 \/ ~Divides(op)
  PROVE  Arithmetic(op, a, b) = <<FloatValue(FloatArithmetic(op, a.n, b.n))>>
  <1>1. /\ a.t # "string" /\ b.t # "string" /\ IsNumeric(a) /\ IsNumeric(b) /\ ~IsInt(a) /\ ~IsInt(b)
        /\ AsFloat(a) = a.n /\ AsFloat(b) = b.n
    BY DEF IsInt, IsNumeric, IsFloat, AsFloat
  <1> QED
    BY <1>1 DEF Arithmetic, Divides

LEMMA IntTransparent ==
  ASSUME JInv, ~Deviates, NEW native, Executing(native, Arithmetics, {"int"}), AreInt,
         R(O.src2).n # 0 \/ ~Divides(O.op),
         Set(O.dst, IntValue(IntArithmetic(O.op, R(O.src1).n, R(O.src2).n))), Only
  PROVE  Next
  <1>1. /\ Runs({O.op}) /\ Op = O /\ Next1 = E.at + 1 /\ O.op \in Arithmetics /\ Leads(E, Onward)
    BY AtInstruction
  <1>2. \A v : Set(O.dst, v) => Write(v)
    BY <1>1, SetWrites DEF LoopOps, Arithmetics
  <1>3. Arithmetic(O.op, R(O.src1), R(O.src2)) =
          <<IntValue(IntArithmetic(O.op, R(O.src1).n, R(O.src2).n))>>
    BY ArithmeticInt DEF AreInt
  <1>4. Runs(Arithmetics)
    BY <1>1 DEF Runs
  <1>5. Write(IntValue(IntArithmetic(O.op, R(O.src1).n, R(O.src2).n))) /\ UNCHANGED Rest
    BY <1>2, OnlyRest
  <1> DEFINE result == Arithmetic(Op.op, R(Op.src1), R(Op.src2))
             value  == IntValue(IntArithmetic(O.op, R(O.src1).n, R(O.src2).n))
  <1>6. result = <<value>>
    BY <1>1, <1>3
  <1> HIDE DEF result, value
  <1>7. result # <<>> /\ result[1] = value
    BY <1>6
  <1> USE DEF value
  <1>8. Arithmetically
    BY <1>4, <1>5, <1>7 DEF Arithmetically, result
  <1> QED
    BY <1>8 DEF Next

LEMMA FloatTransparent ==
  ASSUME JInv, ~Deviates, NEW native, Executing(native, Arithmetics, {"float"}), ComputingFloat
  PROVE  Next \/ UNCHANGED vars
  <1>1. /\ Runs({O.op}) /\ Op = O /\ Next1 = E.at + 1 /\ O.op \in Arithmetics /\ Leads(E, Onward)
        /\ Top.ip = E.at /\ InTrace
    BY AtInstruction DEF Executing
  <1>2. CASE Fails
    BY <1>1, <1>2, FailsStutters
  <1>3. CASE /\ AreFloat /\ ~(Divides(O.op) /\ R(O.src2).n = 0)
             /\ Set(O.dst, FloatValue(FloatArithmetic(O.op, R(O.src1).n, R(O.src2).n))) /\ Only
    <2> DEFINE value  == FloatValue(FloatArithmetic(O.op, R(O.src1).n, R(O.src2).n))
               result == Arithmetic(O.op, R(O.src1), R(O.src2))
    <2>1. Write(value) /\ UNCHANGED Rest
      BY <1>1, <1>3, SetWrites, OnlyRest DEF LoopOps, Arithmetics
    <2>2. result = <<value>>
      BY <1>3, ArithmeticFloat DEF AreFloat
    <2> HIDE DEF value, result
    <2>3. result # <<>> /\ result[1] = value
      BY <2>2
    <2>4. Arithmetically
      BY <1>1, <2>1, <2>3 DEF Arithmetically, Runs, result
    <2> QED
      BY <2>4 DEF Next
  <1> QED
    BY <1>2, <1>3 DEF ComputingFloat

LEMMA CompareTransparent ==
  ASSUME JInv, ~Deviates, NEW native, Executing(native, Comparisons, {"int", "float"}), Comparing
  PROVE  Next \/ UNCHANGED vars
  <1>1. /\ Runs({O.op}) /\ Op = O /\ Next1 = E.at + 1 /\ O.op \in Comparisons /\ Leads(E, Onward)
        /\ Top.ip = E.at /\ InTrace
    BY AtInstruction DEF Executing
  <1>2. CASE Fails
    BY <1>1, <1>2, FailsStutters
  <1>3. CASE Set(O.dst, BoolValue(Compare(O.op, R(O.src1), R(O.src2)))) /\ Only
    <2>1. Write(BoolValue(Compare(O.op, R(O.src1), R(O.src2)))) /\ UNCHANGED Rest
      BY <1>1, <1>3, SetWrites, OnlyRest DEF LoopOps, Comparisons
    <2>2. Comparison
      BY <1>1, <2>1 DEF Comparison, Runs
    <2> QED
      BY <2>2 DEF Next
  <1> QED
    BY <1>2, <1>3 DEF Comparing

LEMMA LogicTransparent ==
  ASSUME JInv, ~Deviates, NEW native, Executing(native, {"And", "Or", "Not"}, {"any"}), Reasoning
  PROVE  Next
  <1>1. /\ Runs({O.op}) /\ Op = O /\ Next1 = E.at + 1 /\ O.op \in {"And", "Or", "Not"} /\ Leads(E, Onward)
    BY AtInstruction
  <1>2. \A v : Set(O.dst, v) => Write(v)
    BY <1>1, SetWrites DEF LoopOps
  <1>3. CASE O.op = "Not"
    BY <1>1, <1>2, <1>3, OnlyRest DEF Reasoning, Not, Next
  <1>4. CASE O.op # "Not"
    <2>1. Runs({"And", "Or"})
      BY <1>1, <1>4 DEF Runs
    <2>2. AndOr
      BY <1>1, <1>2, <1>4, <2>1, OnlyRest DEF Reasoning, AndOr
    <2> QED
      BY <2>2 DEF Next
  <1> QED
    BY <1>3, <1>4

LEMMA CastTransparent ==
  ASSUME JInv, ~Deviates, NEW native, Executing(native, {"CastFloat"}, {"int"}), Casting
  PROVE  Next \/ UNCHANGED vars
  <1>1. /\ Runs({O.op}) /\ Op = O /\ Next1 = E.at + 1 /\ O.op = "CastFloat" /\ Leads(E, Onward)
        /\ Top.ip = E.at /\ InTrace
    BY AtInstruction DEF Executing
  <1>2. CASE Fails
    BY <1>1, <1>2, FailsStutters
  <1>3. CASE Set(O.dst, ToFloat(R(O.src))) /\ Only
    BY <1>1, <1>3, SetWrites, OnlyRest DEF LoopOps, CastFloat, Next
  <1> QED
    BY <1>2, <1>3 DEF Casting

LEMMA ConcatTransparent ==
  ASSUME JInv, ~Deviates, NEW native, Executing(native, {"IntConcat"}, {"int"}), Concatenating
  PROVE  Next \/ UNCHANGED vars
  <1>1. /\ Runs({O.op}) /\ Op = O /\ Next1 = E.at + 1 /\ O.op = "IntConcat" /\ Leads(E, Onward)
        /\ Top.ip = E.at /\ InTrace
    BY AtInstruction DEF Executing
  <1>2. CASE Fails
    BY <1>1, <1>2, FailsStutters
  <1>3. CASE AreInt /\ Set(O.dst, Joined(R(O.src1), R(O.src2))) /\ Only
    <2>1. Joined(R(O.src1), R(O.src2)) = Concatenate(R(O.src1), R(O.src2))
      <3>1. ~(AsInt(R(O.src1)) < 0) /\ ~(AsInt(R(O.src2)) < 0)
        BY <1>1 DEF Deviates, JoinsNegatives
      <3>2. ~(R(O.src1).n < 0) /\ ~(R(O.src2).n < 0) /\ IsInt(R(O.src1)) /\ IsInt(R(O.src2))
        BY <1>3, <3>1 DEF AreInt, IsInt, AsInt
      <3> QED
        BY <3>2 DEF Joined, Concatenate, Magnitude
    <2> QED
      BY <1>1, <1>3, <2>1, SetWrites, OnlyRest DEF LoopOps, IntConcat, Next
  <1> QED
    BY <1>2, <1>3 DEF Concatenating

(* Exits that are no guard's go to where the jump goes.                    *)
LEMMA ExitGoes ==
  ASSUME ~Deviates, InTrace, NEW ip, NEW reg, Exit(ip, reg),
         (ip = E.at + 1 /\ E.at \in Nat) \/ ("target" \in DOMAIN O /\ ip = O.target)
  PROVE  Go(ip, reg)
  <1>1. trace.native /\ ip = 0 => trace.start = 0
    BY DEF Deviates, ExitsToZero
  <1>2. Arrival(ip) = ip
    BY <1>1 DEF Arrival
  <1> QED
    BY <1>2 DEF Exit

LEMMA JumpsGo ==
  ASSUME ~Deviates, InTrace, NEW reg, "target" \in DOMAIN O, JumpTo(O.target, reg)
  PROVE  Go(O.target, reg)
  <1>1. CASE O.target = trace.start
    BY <1>1 DEF JumpTo
  <1>2. CASE O.target # trace.start
    BY <1>2, ExitGoes DEF JumpTo
  <1> QED
    BY <1>1, <1>2

LEMMA LoopsGo ==
  ASSUME JInv, ~Deviates, InTrace, NEW n, NEW limit, NEW reg, Looping(n, limit, reg),
         Op = O, Next1 = E.at + 1, E.at \in Nat, "target" \in DOMAIN O
  PROVE  Go(Around(n, limit), reg)
  <1>1. CASE n <= limit
    BY <1>1, JumpsGo DEF Looping, Around
  <1>2. CASE ~(n <= limit)
    BY <1>2, ExitGoes DEF Looping, Around
  <1> QED
    BY <1>1, <1>2

(* A jump names its target.                                                *)
LEMMA JumpInstruction ==
  ASSUME JInv, ~Deviates, NEW native, NEW ops, NEW kinds, Executing(native, ops, kinds),
         O.op \in JumpOps
  PROVE  "target" \in DOMAIN O /\ E.at \in Nat /\ InTrace
  <1>1. Top.ip = E.at /\ InTrace /\ Operated(O) /\ Op = O /\ Top.ip < Len(Code)
    BY AtInstruction DEF Executing, Runs
  <1>2. E.at \in Nat
    BY <1>1, TopShape DEF JInv, FrameShape
  <1> QED
    BY <1>1, <1>2 DEF Operated

LEMMA BranchTransparent ==
  ASSUME JInv, ~Deviates, NEW native, NEW holds \in BOOLEAN,
         Executing(native, {"JumpIfFalse", "JumpIfTrue"}, {"true", "false"}),
         E.sure /\ IsBool(R(O.src)) => holds = (LowBit(R(O.src)) = (E.as = "true")),
         Branching(holds)
  PROVE  Next
  <1>1. /\ Runs({O.op}) /\ Op = O /\ Next1 = E.at + 1 /\ O.op \in {"JumpIfFalse", "JumpIfTrue"}
        /\ E.as \in {"true", "false"} /\ Leads(E, Onward) /\ InTrace
    BY AtInstruction DEF Executing
  <1>2. "target" \in DOMAIN O /\ E.at \in Nat
    BY <1>1, JumpInstruction DEF JumpOps
  <1>3. E.sure /\ IsBool(R(O.src))
    BY <1>1 DEF Deviates, BranchesOnOther
  <1>4. Taken(R(Op.src)) = LowBit(R(O.src))
    BY <1>1, <1>3 DEF Taken
  <1> DEFINE ip == IF Taken(R(Op.src)) = (Op.op = "JumpIfTrue") THEN Op.target ELSE Next1
  <1>5. ASSUME holds PROVE Go(ip, Top.reg)
    <2>1. Onward = IF (O.op = "JumpIfTrue") = (E.as = "true") THEN O.target ELSE E.at + 1
      BY <1>1, <1>3 DEF Leads, O, LoopOps
    <2>2. LowBit(R(O.src)) = (E.as = "true")
      BY <1>3, <1>5
    <2>3. Onward = ip
      BY <1>1, <1>4, <2>1, <2>2
    <2>4. Go(Onward, Top.reg)
      BY <1>5 DEF Branching, Proceed
    <2> HIDE DEF ip
    <2> QED
      BY <2>3, <2>4
  <1>6. ASSUME ~holds PROVE Go(ip, Top.reg)
    <2>1. Exit(OtherWay, Top.reg)
      BY <1>6 DEF Branching
    <2>2. OtherWay = E.at + 1 \/ OtherWay = O.target
      BY DEF OtherWay
    <2>3. Go(OtherWay, Top.reg)
      BY <1>1, <1>2, <2>1, <2>2, ExitGoes
    <2>4. LowBit(R(O.src)) # (E.as = "true") /\ LowBit(R(O.src)) \in BOOLEAN
      BY <1>3, <1>6 DEF LowBit
    <2>5. OtherWay = ip
      <3>1. CASE O.op = "JumpIfTrue" /\ E.as = "true"
        BY <1>1, <1>4, <2>4, <3>1 DEF OtherWay
      <3>2. CASE O.op = "JumpIfTrue" /\ E.as = "false"
        BY <1>1, <1>4, <2>4, <3>2 DEF OtherWay
      <3>3. CASE O.op = "JumpIfFalse" /\ E.as = "true"
        BY <1>1, <1>4, <2>4, <3>3 DEF OtherWay
      <3>4. CASE O.op = "JumpIfFalse" /\ E.as = "false"
        BY <1>1, <1>4, <2>4, <3>4 DEF OtherWay
      <3> QED
        BY <1>1, <3>1, <3>2, <3>3, <3>4
    <2> HIDE DEF ip
    <2> QED
      BY <2>3, <2>5
  <1>7. Go(ip, Top.reg)
    <2> HIDE DEF ip
    <2> QED
      BY <1>5, <1>6
  <1>8. UNCHANGED Rest /\ Runs({"JumpIfFalse", "JumpIfTrue"})
    BY <1>1, OnlyRest DEF Branching, Runs
  <1> QED
    BY <1>7, <1>8 DEF JumpIf, Next

LEMMA JumpTransparent ==
  ASSUME JInv, ~Deviates, NEW native, Executing(native, {"Jump"}, {"any"}),
         JumpTo(O.target, Top.reg), Only
  PROVE  Next
  <1>1. /\ Runs({O.op}) /\ Op = O /\ O.op = "Jump"
    BY AtInstruction
  <1>2. Go(Op.target, Top.reg)
    BY <1>1, JumpInstruction, JumpsGo DEF JumpOps
  <1> QED
    BY <1>1, <1>2, OnlyRest DEF Jump, Next

LEMMA LoopTransparent ==
  ASSUME JInv, ~Deviates, NEW native, Executing(native, {"LoopNext"}, {"int"}),
         IsInt(R(O.reg)), IsInt(R(O.limit)), Only,
         Looping(R(O.reg).n + 1, R(O.limit).n, [Top.reg EXCEPT ![O.reg] = Incremented(@)])
  PROVE  Next
  <1>1. /\ Runs({O.op}) /\ Op = O /\ O.op = "LoopNext" /\ Next1 = E.at + 1
    BY AtInstruction
  <1>2. "target" \in DOMAIN O /\ E.at \in Nat /\ InTrace
    BY <1>1, JumpInstruction DEF JumpOps, LoopOps
  <1>3. Go(Around(R(O.reg).n + 1, R(O.limit).n), [Top.reg EXCEPT ![O.reg] = Incremented(@)])
    BY <1>1, <1>2, LoopsGo
  <1> QED
    BY <1>1, <1>3, OnlyRest DEF LoopNext, Next

LEMMA IncVarLoopTransparent ==
  ASSUME JInv, ~Deviates, NEW native, Executing(native, {"IncVarLoopNext"}, {"any"}),
         globals' = [globals EXCEPT ![O.x] = Incremented(@)],
         Looping(AsInt(R(O.reg)) + 1, AsInt(R(O.limit)), [Top.reg EXCEPT ![O.reg] = Incremented(@)]),
         Others, UNCHANGED heap
  PROVE  Next
  <1>1. /\ Runs({O.op}) /\ Op = O /\ O.op = "IncVarLoopNext" /\ Next1 = E.at + 1
    BY AtInstruction
  <1>2. "target" \in DOMAIN O /\ E.at \in Nat /\ InTrace
    BY <1>1, JumpInstruction DEF JumpOps, LoopOps
  <1>3. IsInt(R(O.reg))
    BY <1>1, <1>2 DEF Deviates, CountsNonInt
  <1>4. Go(Around(AsInt(R(O.reg)) + 1, AsInt(R(O.limit))), [Top.reg EXCEPT ![O.reg] = Incremented(@)])
    BY <1>1, <1>2, LoopsGo
  <1>5. AsInt(R(O.reg)) = R(O.reg).n
    BY <1>3 DEF IsInt, AsInt
  <1> QED
    BY <1>1, <1>3, <1>4, <1>5 DEF IncVarLoopNext, Next, Others

LEMMA IncLocalLoopTransparent ==
  ASSUME JInv, ~Deviates, NEW native, Executing(native, {"IncLocalLoopNext"}, {"any"}),
         NEW reg, Only,
         reg = [r \in DOMAIN Top.reg |-> IF r \in {O.inc, O.reg} THEN Incremented(R(r)) ELSE R(r)],
         Looping(AsInt(R(O.reg)) + 1, AsInt(reg[O.limit]), reg)
  PROVE  Next
  <1>1. /\ Runs({O.op}) /\ Op = O /\ O.op = "IncLocalLoopNext" /\ Next1 = E.at + 1 /\ Operated(O)
    BY AtInstruction
  <1>2. "target" \in DOMAIN O /\ E.at \in Nat /\ InTrace
    BY <1>1, JumpInstruction DEF JumpOps, LoopOps
  <1>3. IsInt(R(O.reg)) /\ O.inc # O.reg /\ O.limit # O.reg /\ O.limit # O.inc
    BY <1>1, <1>2 DEF Deviates, CountsNonInt, CountsTwice, CountsPastLimit, LoopOps
  <1>4. {O.limit, O.reg, O.inc} \subseteq DOMAIN Top.reg
    <2>1. {"limit", "reg", "inc"} \subseteq DOMAIN O
      BY <1>1 DEF Operated, LoopOps
    <2>2. {O.limit, O.reg, O.inc} \subseteq RegistersOf(O)
      BY <1>1, <2>1 DEF RegistersOf, RegisterFields
    <2> QED
      BY <2>2 DEF Executing
  <1>5. reg[O.limit] = R(O.limit)
    BY <1>3, <1>4
  <1>6. reg = [[Top.reg EXCEPT ![O.reg] = Incremented(@)] EXCEPT ![O.inc] = Incremented(@)]
    BY <1>3, <1>4 DEF R
  <1>7. AsInt(R(O.reg)) = R(O.reg).n
    BY <1>3 DEF IsInt, AsInt
  <1>8. Go(Around(R(O.reg).n + 1, AsInt(R(O.limit))), reg)
    BY <1>1, <1>2, <1>5, <1>7, LoopsGo
  <1> QED
    BY <1>1, <1>3, <1>6, <1>8, OnlyRest DEF IncLocalLoopNext, Next

(* Where it does not overflow, adding 1 to the packed value is counting.   *)
LEMMA PlusOneCounts ==
  ASSUME NEW v, ~Overflows(v)
  PROVE  PlusOne(v) = Incremented(v) /\ IsInt(v)
  <1>1. IsInt(v) /\ v.n # -1 /\ v.t = "int" /\ AsInt(v) = v.n
    BY DEF Overflows, IsInt, AsInt
  <1> QED
    BY <1>1 DEF PlusOne, Incremented, IntValue, IsFloat

LEMMA NativeLoopTransparent ==
  ASSUME JInv, ~Deviates, NativeLoop \/ NativeIncVarLoop \/ NativeIncLocalLoop
  PROVE  Next \/ UNCHANGED vars
  <1>0. ASSUME NEW kinds, Executing(TRUE, {O.op}, kinds), O.op \in LoopOps
        PROVE  /\ ~Overflows(R(O.reg)) /\ O.limit # O.reg
               /\ {O.limit, O.reg} \subseteq DOMAIN Top.reg
    <2>1. InTrace /\ trace.native /\ Operated(O)
      BY <1>0, AtInstruction DEF Executing
    <2>2. ~Overflows(R(O.reg)) /\ O.limit # O.reg
      BY <1>0, <2>1 DEF Deviates, CountsPacked, CountsPastLimit
    <2>3. {O.limit, O.reg} \subseteq RegistersOf(O)
      BY <1>0, <2>1 DEF RegistersOf, RegisterFields, Operated, LoopOps
    <2> QED
      BY <1>0, <2>2, <2>3 DEF Executing
  <1>1. ASSUME NEW kinds, Executing(TRUE, {O.op}, kinds), O.op \in LoopOps
        PROVE  /\ PlusOneAt({O.reg}) = [Top.reg EXCEPT ![O.reg] = Incremented(@)]
               /\ PlusOneAt({O.reg})[O.limit] = R(O.limit)
    BY <1>0, <1>1, PlusOneCounts DEF PlusOneAt, R
  <1>2. CASE NativeLoop
    <2>1. Executing(TRUE, {"LoopNext"}, {"int"}) /\ O.op = "LoopNext" /\ InTrace
      BY <1>2 DEF NativeLoop, Executing
    <2>2. CASE Fails
      <3>1. Top.ip = E.at
        BY <2>1, AtInstruction
      <3> QED
        BY <2>1, <2>2, <3>1, FailsStutters
    <2>3. CASE IsInt(R(O.reg)) /\ IsInt(R(O.limit)) /\ NativeLooping(PlusOneAt({O.reg})) /\ Only
      <3>1. AsInt(R(O.reg)) = R(O.reg).n /\ AsInt(R(O.limit)) = R(O.limit).n
        BY <2>3 DEF IsInt, AsInt
      <3>2. Looping(R(O.reg).n + 1, R(O.limit).n, [Top.reg EXCEPT ![O.reg] = Incremented(@)])
        BY <2>1, <2>3, <3>1, <1>1 DEF NativeLooping, LoopOps
      <3> QED
        BY <2>1, <2>3, <3>2, LoopTransparent
    <2> QED
      BY <1>2, <2>2, <2>3 DEF NativeLoop
  <1>3. CASE NativeIncVarLoop
    <2>1. Executing(TRUE, {"IncVarLoopNext"}, {"any"}) /\ O.op = "IncVarLoopNext" /\ InTrace /\ trace.native
      BY <1>3 DEF NativeIncVarLoop, Executing
    <2>2. ~Overflows(globals[O.x])
      BY <2>1 DEF Deviates, CountsPacked
    <2>3. globals' = [globals EXCEPT ![O.x] = Incremented(@)]
      BY <1>3, <2>2, PlusOneCounts DEF NativeIncVarLoop
    <2>4. Looping(AsInt(R(O.reg)) + 1, AsInt(R(O.limit)), [Top.reg EXCEPT ![O.reg] = Incremented(@)])
      BY <1>3, <2>1, <1>1 DEF NativeIncVarLoop, NativeLooping, LoopOps
    <2> QED
      BY <1>3, <2>1, <2>3, <2>4, IncVarLoopTransparent DEF NativeIncVarLoop
  <1>4. CASE NativeIncLocalLoop
    <2>1. Executing(TRUE, {"IncLocalLoopNext"}, {"any"}) /\ O.op = "IncLocalLoopNext" /\ InTrace /\ trace.native
      BY <1>4 DEF NativeIncLocalLoop, Executing
    <2>2. ~Overflows(R(O.reg)) /\ ~Overflows(R(O.inc))
      BY <2>1 DEF Deviates, CountsPacked, LoopOps
    <2> DEFINE reg == PlusOneAt({O.inc, O.reg})
    <2>3. reg = [r \in DOMAIN Top.reg |-> IF r \in {O.inc, O.reg} THEN Incremented(R(r)) ELSE R(r)]
      BY <2>2, PlusOneCounts DEF PlusOneAt
    <2>4. Looping(AsInt(R(O.reg)) + 1, AsInt(reg[O.limit]), reg) /\ Only
      BY <1>4 DEF NativeIncLocalLoop, NativeLooping
    <2> HIDE DEF reg
    <2> QED
      BY <2>1, <2>3, <2>4, IncLocalLoopTransparent
  <1> QED
    BY <1>2, <1>3, <1>4

LEMMA TraceLoopTransparent ==
  ASSUME JInv, ~Deviates, TraceLoop \/ TraceIncVarLoop \/ TraceIncLocalLoop
  PROVE  Next \/ UNCHANGED vars
  <1>1. CASE TraceLoop
    <2>1. Executing(FALSE, {"LoopNext"}, {"int"}) /\ InTrace
      BY <1>1 DEF TraceLoop, Executing
    <2>2. CASE Fails
      BY <2>1, <2>2, AtInstruction, FailsStutters
    <2> QED
      BY <1>1, <2>1, <2>2, LoopTransparent DEF TraceLoop
  <1>2. CASE TraceIncVarLoop
    BY <1>2, IncVarLoopTransparent DEF TraceIncVarLoop
  <1>3. CASE TraceIncLocalLoop
    BY <1>3, IncLocalLoopTransparent DEF TraceIncLocalLoop
  <1> QED
    BY <1>1, <1>2, <1>3

-----------------------------------------------------------------------------
(* Methods of arrays and sets.                                             *)

LEMMA CallInstruction ==
  ASSUME JInv, ~Deviates, NEW native, NEW type, NEW m, Calling(native, type, m)
  PROVE  /\ On({type}, {m}) /\ Op = O /\ Top.ip = E.at /\ InTrace /\ Onward = Next1
         /\ \A reg : Proceed(reg) => Go(Next1, reg)
         /\ \A v : Set(O.dst, v) => Write(v)
  <1>1. /\ Runs({O.op}) /\ Op = O /\ Next1 = E.at + 1 /\ O.op = "MethodCall" /\ Leads(E, Onward)
        /\ Top.ip = E.at /\ InTrace
    BY AtInstruction DEF Calling, Executing
  <1>2. /\ Onward = Next1
        /\ \A reg : Proceed(reg) => Go(Next1, reg)
        /\ \A v : Set(O.dst, v) => Write(v)
    BY <1>1, SetWrites DEF LoopOps
  <1>3. On({type}, {m})
    BY <1>1 DEF Calling, On, Receiver, Object
  <1> QED
    BY <1>1, <1>2, <1>3

LEMMA ReadTransparent ==
  ASSUME JInv, ~Deviates, NEW native,
         \/ (\E type \in {"array", "set"} : Calling(native, type, "size")) /\ Measuring
         \/ Calling(native, "set", "contains") /\ Searching
         \/ Calling(native, "array", "get") /\ InBounds /\ Set(O.dst, Fetched) /\ Only
  PROVE  Next
  <1>1. CASE (\E type \in {"array", "set"} : Calling(native, type, "size")) /\ Measuring
    <2>1. PICK type \in {"array", "set"} : Calling(native, type, "size")
      BY <1>1
    <2>2. /\ On({type}, {"size"}) /\ Op = O
          /\ \A v : Set(O.dst, v) => Write(v)
      BY <2>1, CallInstruction
    <2>3. On({"array", "set"}, {"size"})
      BY <2>2 DEF On
    <2>4. Write(IntValue(Len(Elements))) /\ UNCHANGED Rest
      BY <1>1, <2>2, OnlyRest DEF Measuring, Contents, Elements, Object, Receiver
    <2> QED
      BY <2>3, <2>4 DEF Size, Next
  <1>2. CASE Calling(native, "set", "contains") /\ Searching
    <2>1. /\ On({"set"}, {"contains"}) /\ Op = O
          /\ \A v : Set(O.dst, v) => Write(v)
      BY <1>2, CallInstruction
    <2>2. Write(Member(Arg(1), Elements)) /\ UNCHANGED Rest
      BY <1>2, <2>1, OnlyRest DEF Searching, Contents, Elements, Object, Receiver, Argument, Arg
    <2> QED
      BY <2>1, <2>2 DEF HasMember, Next
  <1>3. CASE Calling(native, "array", "get") /\ InBounds /\ Set(O.dst, Fetched) /\ Only
    <2>1. /\ On({"array"}, {"get"}) /\ Op = O /\ InTrace
          /\ \A v : Set(O.dst, v) => Write(v)
      BY <1>3, CallInstruction
    <2>2. IsInt(Arg(1))
      BY <1>3, <2>1 DEF Deviates, MistakesTypes, Calling, Arg, Executing
    <2>3. Argument(1) = Arg(1) /\ Contents = Elements
      BY <2>1 DEF Argument, Arg, Contents, Elements, Object, Receiver
    <2>4. AsInt(Arg(1)) = Arg(1).n
      BY <2>2 DEF IsInt, AsInt
    <2>5. Arg(1).n + 1 \in DOMAIN Elements /\ Write(Elements[Arg(1).n + 1]) /\ UNCHANGED Rest
      BY <1>3, <2>1, <2>3, <2>4, OnlyRest DEF InBounds, Fetched
    <2> QED
      BY <2>1, <2>2, <2>5 DEF Get, Next
  <1> QED
    BY <1>1, <1>2, <1>3

LEMMA StoreTransparent ==
  ASSUME JInv, ~Deviates, NEW native,
         \/ Calling(native, "array", "push") /\ Pushing
         \/ Calling(native, "array", "update") /\ Replacing
  PROVE  Next \/ UNCHANGED vars
  <1>0. ASSUME NEW m \in {"push", "update"}, Calling(native, "array", m), NEW elements, Storing(elements)
        PROVE  Store(elements)
    <2>1. /\ On({"array"}, {m}) /\ Op = O /\ InTrace
          /\ \A reg : Proceed(reg) => Go(Next1, reg)
      BY <1>0, CallInstruction
    <2>2. R(O.dst) = BoolValue(TRUE)
      BY <1>0, <2>1 DEF Deviates, KeepsDestination, Calling, Executing
    <2>3. IsFun(Top.reg)
      BY TopShape DEF JInv, FrameShape
    <2>4. Top.reg = [Top.reg EXCEPT ![O.dst] = BoolValue(TRUE)]
      BY <2>2, <2>3 DEF IsFun, R
    <2>5. Go(Next1, Top.reg)
      BY <1>0, <2>1 DEF Storing
    <2>6. Write(BoolValue(TRUE))
      BY <2>1, <2>4, <2>5 DEF Write
    <2>7. heap' = [heap EXCEPT ![Receiver.n] = elements]
      BY <1>0, <2>1 DEF Storing, Object, Receiver
    <2> QED
      BY <1>0, <2>6, <2>7 DEF Storing, Store, Others
  <1>1. CASE Calling(native, "array", "push") /\ Pushing
    <2>1. On({"array"}, {"push"}) /\ Op = O
      BY <1>1, CallInstruction
    <2>2. Append(Contents, Argument(1)) = Append(Elements, Arg(1))
      BY <2>1 DEF Argument, Arg, Contents, Elements, Object, Receiver
    <2>3. Store(Append(Elements, Arg(1)))
      BY <1>0, <1>1, <2>2 DEF Pushing
    <2> QED
      BY <2>1, <2>3 DEF Push, Next
  <1>2. CASE Calling(native, "array", "update") /\ Replacing
    <2>1. On({"array"}, {"update"}) /\ Op = O /\ InTrace /\ Top.ip = E.at
      BY <1>2, CallInstruction
    <2>2. IsInt(Arg(1))
      BY <1>2, <2>1 DEF Deviates, MistakesTypes, Calling, Arg, Executing
    <2>3. Argument(1) = Arg(1) /\ Argument(2) = Arg(2) /\ Contents = Elements
      BY <2>1 DEF Argument, Arg, Contents, Elements, Object, Receiver
    <2>4. AsInt(Arg(1)) = Arg(1).n
      BY <2>2 DEF IsInt, AsInt
    <2>5. CASE Fails
      BY <2>1, <2>5, FailsStutters
    <2>6. CASE InBounds
      <3>1. Store(Updated(Contents, AsInt(Argument(1)) + 1, Argument(2)))
        BY <1>0, <1>2, <2>6 DEF Replacing
      <3>2. Store(Updated(Elements, Arg(1).n + 1, Arg(2))) /\ Arg(1).n >= 0
        BY <2>3, <2>4, <2>6, <3>1 DEF InBounds
      <3> QED
        BY <2>1, <2>2, <3>2 DEF Update, Next
    <2> QED
      BY <1>2, <2>5, <2>6 DEF Replacing
  <1> QED
    BY <1>1, <1>2

LEMMA DivideTransparent ==
  ASSUME JInv, ~Deviates,
         TraceArithmetic \/ TraceDivide \/ NativeArithmetic \/ NativeDivide \/ NativeRemainder
  PROVE  Next \/ UNCHANGED vars
  <1>0. ASSUME NEW native, NEW ops \in SUBSET Arithmetics, Executing(native, ops, {"int"})
        PROVE  Executing(native, Arithmetics, {"int"}) /\ InTrace /\ Top.ip = E.at
    <2>1. Top.ip = E.at
      BY <1>0, AtInstruction
    <2> QED
      BY <1>0, <2>1 DEF Executing
  <1>1. CASE Fails
    <2>1. InTrace /\ Top.ip = E.at
      BY <1>0 DEF TraceArithmetic, TraceDivide, NativeArithmetic, NativeDivide, NativeRemainder, Arithmetics
    <2> QED
      BY <1>1, <2>1, FailsStutters
  <1>2. CASE TraceArithmetic /\ ~Fails
    <2>1. /\ Executing(FALSE, {"Add", "Sub", "Mul"}, {"int"}) /\ AreInt /\ Only
          /\ Set(O.dst, IntValue(IntArithmetic(O.op, R(O.src1).n, R(O.src2).n)))
      BY <1>2 DEF TraceArithmetic
    <2>2. ~Divides(O.op)
      BY <2>1 DEF Executing, Divides
    <2> QED
      BY <1>0, <2>1, <2>2, IntTransparent DEF Arithmetics
  <1>3. CASE TraceDivide /\ ~Fails
    <2>1. /\ Executing(FALSE, {"Div", "Mod"}, {"int"}) /\ AreInt /\ Only /\ R(O.src2).n # 0
          /\ Set(O.dst, IntValue(IntArithmetic(O.op, R(O.src1).n, R(O.src2).n)))
      BY <1>3 DEF TraceDivide
    <2> QED
      BY <1>0, <2>1, IntTransparent DEF Arithmetics
  <1>4. CASE NativeArithmetic /\ ~Fails
    <2>1. /\ Executing(TRUE, {"Add", "Sub", "Mul"}, {"int"}) /\ AreInt /\ Only
          /\ Set(O.dst, IntValue(IntArithmetic(O.op, Left, Right)))
      BY <1>4 DEF NativeArithmetic
    <2>2. ~Divides(O.op)
      BY <2>1 DEF Executing, Divides
    <2>3. Left = R(O.src1).n /\ Right = R(O.src2).n
      BY <2>1, OperandsKnown
    <2>4. Set(O.dst, IntValue(IntArithmetic(O.op, R(O.src1).n, R(O.src2).n)))
      BY <2>1, <2>3
    <2> QED
      BY <1>0, <2>1, <2>2, <2>4, IntTransparent DEF Arithmetics
  <1>5. CASE NativeDivide /\ ~Fails
    <2>1. /\ Executing(TRUE, {"Div"}, {"int"}) /\ AreInt /\ Only /\ R(O.src2).n # 0
          /\ Set(O.dst, IntValue(Quotient(R(O.src1).n, R(O.src2).n)))
      BY <1>5 DEF NativeDivide
    <2>2. O.op = "Div"
      BY <2>1 DEF Executing
    <2>3. IntArithmetic(O.op, R(O.src1).n, R(O.src2).n) = Quotient(R(O.src1).n, R(O.src2).n)
      BY <2>2 DEF IntArithmetic
    <2> QED
      BY <1>0, <2>1, <2>3, IntTransparent DEF Arithmetics
  <1>6. CASE NativeRemainder /\ ~Fails
    <2>1. Executing(TRUE, {"Mod"}, {"int"}) /\ AreInt /\ O.op = "Mod" /\ trace.native /\ InTrace
      BY <1>6 DEF NativeRemainder, Executing
    <2>2. Right = R(O.src2).n /\ AsInt(R(O.src1)) = R(O.src1).n /\ AsInt(R(O.src2)) = R(O.src2).n
      BY <2>1, OperandsKnown DEF AreInt, IsInt, AsInt
    <2>3. R(O.src2).n # 0
      BY <2>1, <2>2 DEF Deviates, DividesByZero
    <2>4. Set(O.dst, IntValue(Remainder(R(O.src1).n, R(O.src2).n))) /\ Only
      BY <1>6, <2>1, <2>2, <2>3 DEF NativeRemainder
    <2>5. IntArithmetic(O.op, R(O.src1).n, R(O.src2).n) = Remainder(R(O.src1).n, R(O.src2).n)
      BY <2>1 DEF IntArithmetic
    <2> QED
      BY <1>0, <2>1, <2>3, <2>4, <2>5, IntTransparent DEF Arithmetics
  <1> QED
    BY <1>1, <1>2, <1>3, <1>4, <1>5, <1>6

LEMMA StepTransparent ==
  ASSUME JInv, ~Deviates, TraceStep \/ NativeStep
  PROVE  Next \/ UNCHANGED vars
  <1>1. CASE TraceCopy \/ TraceInc \/ NativeCopy \/ NativeInc
    BY <1>1, CopyTransparent, CountTransparent DEF TraceCopy, TraceInc, NativeCopy, NativeInc
  <1>2. CASE TraceFloat \/ TraceCompare \/ TraceLogic \/ TraceCast \/ TraceConcat
    BY <1>2, FloatTransparent, CompareTransparent, LogicTransparent, CastTransparent, ConcatTransparent
       DEF TraceFloat, TraceCompare, TraceLogic, TraceCast, TraceConcat
  <1>3. CASE NativeFloat \/ NativeCompare \/ NativeLogic \/ NativeCast \/ NativeConcat
    BY <1>3, FloatTransparent, CompareTransparent, LogicTransparent, CastTransparent, ConcatTransparent
       DEF NativeFloat, NativeCompare, NativeLogic, NativeCast, NativeConcat
  <1>4. CASE TraceBranch
    <2> DEFINE holds == IF E.as = "true" THEN IsTrue(R(O.src)) ELSE IsFalse(R(O.src))
    <2>1. Executing(FALSE, {"JumpIfFalse", "JumpIfTrue"}, {"true", "false"}) /\ Branching(holds)
      BY <1>4 DEF TraceBranch
    <2>2. holds \in BOOLEAN
      BY DEF IsTrue, IsFalse, IsBool, LowBit
    <2>3. IsBool(R(O.src)) => holds = (LowBit(R(O.src)) = (E.as = "true"))
      <3>1. CASE E.as = "true"
        BY <3>1 DEF IsTrue, LowBit
      <3>2. CASE E.as # "true"
        BY <3>2 DEF IsFalse, LowBit
      <3> QED
        BY <3>1, <3>2
    <2> HIDE DEF holds
    <2> QED
      BY <2>1, <2>2, <2>3, BranchTransparent
  <1>5. CASE NativeBranch
    <2> DEFINE holds == LowBit(R(O.src)) = (E.as = "true")
    <2>1. Executing(TRUE, {"JumpIfFalse", "JumpIfTrue"}, {"true", "false"}) /\ Branching(holds)
      BY <1>5 DEF NativeBranch
    <2>2. holds \in BOOLEAN
      OBVIOUS
    <2>3. holds = (LowBit(R(O.src)) = (E.as = "true"))
      OBVIOUS
    <2> HIDE DEF holds
    <2> QED
      BY <2>1, <2>2, <2>3, BranchTransparent
  <1>6. CASE TraceJump \/ NativeJump
    BY <1>6, JumpTransparent DEF TraceJump, NativeJump
  <1>7. CASE TraceSize \/ TraceContains \/ TracePush \/ TraceUpdate
             \/ NativeSize \/ NativeContains \/ NativePush \/ NativeUpdate
    BY <1>7, ReadTransparent, StoreTransparent DEF TraceSize, TraceContains, TracePush, TraceUpdate,
       NativeSize, NativeContains, NativePush, NativeUpdate
  <1>8. CASE TraceGet \/ NativeGet
    <2>1. PICK native : Calling(native, "array", "get")
      BY <1>8 DEF TraceGet, NativeGet
    <2>2. Top.ip = E.at /\ InTrace
      BY <2>1, CallInstruction
    <2>3. CASE Fails
      BY <2>2, <2>3, FailsStutters
    <2> QED
      BY <1>8, <2>3, ReadTransparent DEF TraceGet, NativeGet
  <1> QED
    BY <1>1, <1>2, <1>3, <1>4, <1>5, <1>6, <1>7, <1>8, DivideTransparent, TraceLoopTransparent,
       NativeLoopTransparent DEF TraceStep, NativeStep

LEMMA StepIsNext ==
  ASSUME JInv, [JNext]_jvars
  PROVE  [Next \/ Deviates]_vars
  <1>1. CASE Interpret
    BY <1>1 DEF Interpret
  <1>2. CASE EnterTrace
    BY <1>2 DEF EnterTrace
  <1>3. CASE Stray
    BY <1>3 DEF Stray, Defined, Deviates, LacksRegisters, MistakesTypes
  <1>4. CASE UNCHANGED jvars
    BY <1>4 DEF jvars
  <1> QED
    BY <1>1, <1>2, <1>3, <1>4, StepTransparent DEF JNext

-----------------------------------------------------------------------------
(* What a step of a trace does: its frame goes on, and control is given    *)
(* back, returns to the first entry or passes to the next one.             *)

Updates(reg) ==
  /\ \A r \in DOMAIN Top.reg : r \notin Overwritten(O) => reg[r] = Top.reg[r]
  /\ O.op = "LoadConst" => O.dst \in DOMAIN Top.reg /\ reg[O.dst] = O.v
  /\ O.op = "Move" => O.dst \in DOMAIN Top.reg /\ reg[O.dst] = Top.reg[O.src]
Moves ==
  /\ status = "running" /\ InTrace
  /\ UNCHANGED <<Machine, fibers, jit>>
  /\ \E ip \in Nat : \E reg :
       /\ IsFun(reg) /\ DOMAIN reg = DOMAIN Top.reg /\ Go(ip, reg)
       /\ \/ Stop
          \/ pos' = 1 /\ known' = <<>> /\ UNCHANGED trace /\ ip = trace.start
          \/ /\ pos < Len(trace.entries) /\ ip = trace.entries[pos + 1].at /\ pos' = pos + 1
             /\ known' = KnownAfter(O) /\ Updates(reg) /\ UNCHANGED trace

LEMMA EntryFacts ==
  ASSUME JInv, NEW native, NEW ops, NEW kinds, Executing(native, ops, kinds)
  PROVE  /\ status = "running" /\ InTrace /\ O.op \in ops /\ EntryShape(E) /\ Operated(O)
         /\ RegistersOf(O) \subseteq DOMAIN Top.reg
         /\ pos \in 1 .. Len(trace.entries) /\ Len(trace.entries) \in Nat /\ trace.start \in Nat
         /\ IsFun(Top.reg)
  <1>1. status = "running" /\ InTrace /\ O.op \in ops /\ RegistersOf(O) \subseteq DOMAIN Top.reg
    BY DEF Executing
  <1>2. pos \in DOMAIN trace.entries /\ TraceShape(trace)
    BY <1>1 DEF JInv, RunShape
  <1>3. DOMAIN trace.entries = 1 .. Len(trace.entries) /\ Len(trace.entries) \in Nat
    BY <1>2, SeqFacts DEF TraceShape
  <1>4. EntryShape(E) /\ Operated(O)
    BY <1>2 DEF TraceShape, EntryShape, E, O
  <1>5. IsFun(Top.reg)
    BY TopShape DEF JInv, FrameShape
  <1> QED
    BY <1>1, <1>2, <1>3, <1>4, <1>5 DEF TraceShape

LEMMA ProceedMoves ==
  ASSUME JInv, NEW native, NEW ops, NEW kinds, Executing(native, ops, kinds), Others,
         NEW reg, IsFun(reg), DOMAIN reg = DOMAIN Top.reg, Updates(reg), Proceed(reg)
  PROVE  Moves
  <1>1. /\ status = "running" /\ InTrace /\ pos \in 1 .. Len(trace.entries)
        /\ Len(trace.entries) \in Nat /\ trace.start \in Nat
    BY EntryFacts
  <1>2. UNCHANGED <<Machine, fibers, jit>>
    BY DEF Others
  <1>3. CASE pos < Len(trace.entries)
    <2>1. pos + 1 \in 1 .. Len(trace.entries)
      BY <1>1, <1>3
    <2>2. TraceShape(trace) /\ DOMAIN trace.entries = 1 .. Len(trace.entries)
      BY SeqFacts DEF JInv, RunShape, TraceShape
    <2>3. trace.entries[pos + 1].at \in Nat
      BY <2>1, <2>2 DEF TraceShape, EntryShape
    <2>4. /\ Go(trace.entries[pos + 1].at, reg) /\ pos' = pos + 1 /\ known' = KnownAfter(O)
          /\ UNCHANGED trace
      BY <1>3 DEF Proceed, Onward
    <2> QED
      BY <1>1, <1>2, <1>3, <2>3, <2>4 DEF Moves
  <1>4. CASE ~(pos < Len(trace.entries))
    <2>1. Go(trace.start, reg) /\ Stop
      BY <1>4 DEF Proceed, Onward
    <2> QED
      BY <1>1, <1>2, <2>1 DEF Moves
  <1> QED
    BY <1>3, <1>4

LEMMA SetMoves ==
  ASSUME JInv, NEW native, NEW ops, NEW kinds, Executing(native, ops, kinds), Others,
         NEW r, NEW v, Set(r, v), r \in Overwritten(O),
         O.op \in {"LoadConst", "Move"} => r = O.dst,
         O.op = "LoadConst" => v = O.v, O.op = "Move" => v = R(O.src)
  PROVE  Moves
  <1> DEFINE reg == [Top.reg EXCEPT ![r] = v]
  <1>1. IsFun(reg) /\ DOMAIN reg = DOMAIN Top.reg
    BY DEF IsFun
  <1>2. O.op \in {"LoadConst", "Move"} => O.dst \in DOMAIN Top.reg
    <2>1. Operated(O) /\ RegistersOf(O) \subseteq DOMAIN Top.reg
      BY EntryFacts
    <2>2. O.op \in {"LoadConst", "Move"} => "dst" \in DOMAIN O
      BY <2>1 DEF Operated, ResultOps
    <2>3. O.op \in {"LoadConst", "Move"} => O.dst \in RegistersOf(O)
      BY <2>2 DEF RegistersOf, RegisterFields
    <2> QED
      BY <2>1, <2>3
  <1>3. Updates(reg)
    BY <1>2 DEF Updates, R
  <1>4. Proceed(reg)
    BY DEF Set
  <1> HIDE DEF reg
  <1> QED
    BY <1>1, <1>3, <1>4, ProceedMoves

LEMMA ExitMoves ==
  ASSUME JInv, NEW native, NEW ops, NEW kinds, Executing(native, ops, kinds), Others,
         NEW ip \in Nat, NEW reg, IsFun(reg), DOMAIN reg = DOMAIN Top.reg, Exit(ip, reg)
  PROVE  Moves
  <1>1. Arrival(ip) \in Nat
    BY EntryFacts DEF Arrival
  <1>2. Go(Arrival(ip), reg) /\ Stop
    BY DEF Exit
  <1>3. status = "running" /\ InTrace
    BY EntryFacts
  <1> QED
    BY <1>1, <1>2, <1>3 DEF Moves, Others

LEMMA FailsMoves ==
  ASSUME JInv, NEW native, NEW ops, NEW kinds, Executing(native, ops, kinds), Fails
  PROVE  Moves
  <1>1. E.at \in Nat /\ IsFun(Top.reg)
    BY EntryFacts DEF EntryShape
  <1> QED
    BY <1>1, ExitMoves DEF Fails, Only

LEMMA JumpMoves ==
  ASSUME JInv, NEW native, NEW ops, NEW kinds, Executing(native, ops, kinds), Others,
         NEW reg, IsFun(reg), DOMAIN reg = DOMAIN Top.reg, O.op \in JumpOps, JumpTo(O.target, reg)
  PROVE  Moves
  <1>1. O.target \in Nat /\ status = "running" /\ InTrace
    BY EntryFacts DEF Operated
  <1>2. CASE O.target = trace.start
    BY <1>1, <1>2 DEF JumpTo, Moves, Others
  <1>3. CASE O.target # trace.start
    BY <1>1, <1>3, ExitMoves DEF JumpTo
  <1> QED
    BY <1>2, <1>3

LEMMA LoopMoves ==
  ASSUME JInv, NEW native, NEW ops, NEW kinds, Executing(native, ops, kinds), Others,
         NEW reg, IsFun(reg), DOMAIN reg = DOMAIN Top.reg, O.op \in JumpOps,
         NEW n, NEW limit, Looping(n, limit, reg)
  PROVE  Moves
  <1>1. E.at + 1 \in Nat
    BY EntryFacts DEF EntryShape
  <1> QED
    BY <1>1, JumpMoves, ExitMoves DEF Looping

LEMMA KeepMoves ==
  ASSUME JInv, NEW native, NEW ops, NEW kinds, Executing(native, ops, kinds), Others,
         Proceed(Top.reg), O.op \notin {"LoadConst", "Move"}
  PROVE  Moves
  BY ProceedMoves, EntryFacts DEF Updates

LEMMA ResultMoves ==
  ASSUME JInv, NEW native, NEW ops, NEW kinds, Executing(native, ops, kinds), Others,
         O.op \in ResultOps, NEW v, Set(O.dst, v),
         O.op = "LoadConst" => v = O.v, O.op = "Move" => v = R(O.src)
  PROVE  Moves
  <1>1. "dst" \in DOMAIN O
    BY EntryFacts DEF Operated
  <1>2. O.dst \in Overwritten(O)
    BY <1>1 DEF Overwritten, ResultOps, Arithmetics, Comparisons
  <1> QED
    BY <1>2, SetMoves

LEMMA SimpleMoves ==
  ASSUME JInv, NEW native, NEW ops, NEW kinds, Executing(native, ops, kinds),
         \/ ops = {"LoadConst", "Move", "GetVar", "SetVar"} /\ Copying
         \/ ops = {"IncLocal", "IncVar"} /\ Counting
         \/ ops = {"And", "Or", "Not"} /\ Reasoning
         \/ ops = {"CastFloat"} /\ Casting
         \/ ops = {"IntConcat"} /\ Concatenating
         \/ ops = Arithmetics /\ ComputingFloat
         \/ ops = Comparisons /\ Comparing
  PROVE  Moves
  <1>0. O.op \in ops /\ (Only => Others)
    BY EntryFacts DEF Only
  <1>1. CASE Fails
    BY <1>1, FailsMoves
  <1>2. CASE ops = {"LoadConst", "Move", "GetVar", "SetVar"} /\ Copying
    <2>1. CASE O.op = "SetVar"
      BY <1>0, <1>2, <2>1, KeepMoves DEF Copying
    <2>2. CASE O.op # "SetVar"
      <3>1. O.op \in ResultOps
        BY <1>0, <1>2, <2>2 DEF ResultOps
      <3> QED
        BY <1>0, <1>2, <2>2, <3>1, ResultMoves DEF Copying
    <2> QED
      BY <2>1, <2>2
  <1>3. CASE ops = {"IncLocal", "IncVar"} /\ Counting
    <2>1. CASE O.op = "IncLocal"
      BY <1>0, <1>3, <2>1, SetMoves DEF Counting, Overwritten
    <2>2. CASE O.op = "IncVar"
      BY <1>0, <1>3, <2>2, KeepMoves DEF Counting
    <2> QED
      BY <1>0, <1>3, <2>1, <2>2
  <1>4. CASE ops = {"And", "Or", "Not"} /\ Reasoning
    BY <1>0, <1>4, ResultMoves DEF Reasoning, ResultOps
  <1>5. CASE ops = {"CastFloat"} /\ Casting
    BY <1>0, <1>1, <1>5, ResultMoves DEF Casting, ResultOps
  <1>6. CASE ops = {"IntConcat"} /\ Concatenating
    BY <1>0, <1>1, <1>6, ResultMoves DEF Concatenating, ResultOps
  <1>7. CASE ops = Arithmetics /\ ComputingFloat
    BY <1>0, <1>1, <1>7, ResultMoves DEF ComputingFloat, ResultOps, Arithmetics
  <1>8. CASE ops = Comparisons /\ Comparing
    BY <1>0, <1>1, <1>8, ResultMoves DEF Comparing, ResultOps, Comparisons
  <1> QED
    BY <1>2, <1>3, <1>4, <1>5, <1>6, <1>7, <1>8

LEMMA DivideMoves ==
  ASSUME JInv, TraceArithmetic \/ TraceDivide \/ NativeArithmetic \/ NativeDivide \/ NativeRemainder
  PROVE  Moves \/ Crash
  <1>0. ASSUME NEW native, NEW ops \in SUBSET Arithmetics, Executing(native, ops, {"int"}),
               Fails \/ \E v : Set(O.dst, v) /\ Only
        PROVE  Moves
    <2>1. O.op \in ResultOps /\ (Only => Others)
      BY <1>0, EntryFacts DEF ResultOps, Only
    <2>2. O.op \notin {"LoadConst", "Move"}
      BY <1>0, EntryFacts DEF Arithmetics
    <2> QED
      BY <1>0, <2>1, <2>2, FailsMoves, ResultMoves
  <1>1. CASE TraceArithmetic
    BY <1>0, <1>1 DEF TraceArithmetic, Arithmetics
  <1>2. CASE TraceDivide
    BY <1>0, <1>2 DEF TraceDivide, Arithmetics
  <1>3. CASE NativeArithmetic
    BY <1>0, <1>3 DEF NativeArithmetic, Arithmetics
  <1>4. CASE NativeDivide
    BY <1>0, <1>4 DEF NativeDivide, Arithmetics
  <1>5. CASE NativeRemainder
    BY <1>0, <1>5 DEF NativeRemainder, Arithmetics
  <1> QED
    BY <1>1, <1>2, <1>3, <1>4, <1>5

LEMMA BranchMoves ==
  ASSUME JInv, NEW native, Executing(native, {"JumpIfFalse", "JumpIfTrue"}, {"true", "false"}),
         NEW holds, Branching(holds)
  PROVE  Moves
  <1>1. /\ E.at + 1 \in Nat /\ O.target \in Nat /\ IsFun(Top.reg)
        /\ O.op \in {"JumpIfFalse", "JumpIfTrue"}
    BY EntryFacts DEF EntryShape, Operated, JumpOps
  <1>2. OtherWay \in Nat
    BY <1>1 DEF OtherWay
  <1>3. Proceed(Top.reg) \/ Exit(OtherWay, Top.reg)
    BY DEF Branching
  <1>4. Others
    BY DEF Branching, Only
  <1> QED
    BY <1>1, <1>2, <1>3, <1>4, KeepMoves, ExitMoves

LEMMA LoopsMove ==
  ASSUME JInv, \/ TraceLoop \/ TraceIncVarLoop \/ TraceIncLocalLoop \/ TraceJump
               \/ NativeLoop \/ NativeIncVarLoop \/ NativeIncLocalLoop \/ NativeJump
  PROVE  Moves
  <1>0. ASSUME NEW native, NEW ops \in SUBSET JumpOps, NEW kinds, Executing(native, ops, kinds),
               Others, NEW reg, IsFun(reg), DOMAIN reg = DOMAIN Top.reg,
               (\E n, limit : Looping(n, limit, reg)) \/ JumpTo(O.target, reg)
        PROVE  Moves
    <2>1. O.op \in JumpOps
      BY <1>0, EntryFacts
    <2> QED
      BY <1>0, <2>1, LoopMoves, JumpMoves
  <1>1. /\ {"LoopNext"} \in SUBSET JumpOps /\ {"IncVarLoopNext"} \in SUBSET JumpOps
        /\ {"IncLocalLoopNext"} \in SUBSET JumpOps /\ {"Jump"} \in SUBSET JumpOps
    BY DEF JumpOps, LoopOps
  <1>2. \A r, v : /\ IsFun([Top.reg EXCEPT ![r] = v])
                  /\ DOMAIN [Top.reg EXCEPT ![r] = v] = DOMAIN Top.reg
    BY DEF IsFun
  <1>3. \A rs : IsFun(PlusOneAt(rs)) /\ DOMAIN PlusOneAt(rs) = DOMAIN Top.reg
    BY DEF IsFun, PlusOneAt
  <1>4. Only => Others
    BY DEF Only
  <1>5. CASE TraceLoop
    <2>1. Executing(FALSE, {"LoopNext"}, {"int"})
      BY <1>5 DEF TraceLoop
    <2> QED
      BY <1>0, <1>1, <1>2, <1>4, <1>5, <2>1, FailsMoves DEF TraceLoop
  <1>6. CASE TraceIncVarLoop
    BY <1>0, <1>1, <1>2, <1>6 DEF TraceIncVarLoop
  <1>7. CASE TraceIncLocalLoop
    <2> DEFINE reg == [r \in DOMAIN Top.reg |->
                         IF r \in {O.inc, O.reg} THEN Incremented(R(r)) ELSE R(r)]
    <2>1. IsFun(reg) /\ DOMAIN reg = DOMAIN Top.reg
      BY DEF IsFun
    <2>2. /\ Executing(FALSE, {"IncLocalLoopNext"}, {"any"}) /\ Only
          /\ Looping(AsInt(R(O.reg)) + 1, AsInt(reg[O.limit]), reg)
      BY <1>7 DEF TraceIncLocalLoop
    <2> HIDE DEF reg
    <2> QED
      BY <1>0, <1>1, <1>4, <2>1, <2>2
  <1>8. CASE NativeLoop
    <2>1. Executing(TRUE, {"LoopNext"}, {"int"})
      BY <1>8 DEF NativeLoop
    <2> QED
      BY <1>0, <1>1, <1>3, <1>4, <1>8, <2>1, FailsMoves DEF NativeLoop, NativeLooping
  <1>9. CASE NativeIncVarLoop
    BY <1>0, <1>1, <1>3, <1>9 DEF NativeIncVarLoop, NativeLooping
  <1>10. CASE NativeIncLocalLoop
    BY <1>0, <1>1, <1>3, <1>4, <1>10 DEF NativeIncLocalLoop, NativeLooping
  <1>11. CASE TraceJump \/ NativeJump
    <2>1. IsFun(Top.reg)
      BY TopShape DEF JInv, FrameShape
    <2> QED
      BY <1>0, <1>1, <1>4, <1>11, <2>1 DEF TraceJump, NativeJump
  <1> QED
    BY <1>5, <1>6, <1>7, <1>8, <1>9, <1>10, <1>11

LEMMA MethodMoves ==
  ASSUME JInv, \/ TraceSize \/ TraceContains \/ TraceGet \/ TracePush \/ TraceUpdate
               \/ NativeSize \/ NativeContains \/ NativeGet \/ NativePush \/ NativeUpdate
  PROVE  Moves
  <1>1. PICK native, type, m :
          /\ Calling(native, type, m)
          /\ \/ Fails
             \/ m \in {"size", "contains", "get"} /\ Only /\ \E v : Set(O.dst, v)
             \/ \E elements : Storing(elements)
    <2>1. CASE TraceSize \/ NativeSize
      BY <2>1 DEF TraceSize, NativeSize, Measuring
    <2>2. CASE TraceContains \/ NativeContains
      BY <2>2 DEF TraceContains, NativeContains, Searching
    <2>3. CASE TraceGet \/ NativeGet
      BY <2>3 DEF TraceGet, NativeGet
    <2>4. CASE TracePush \/ NativePush
      BY <2>4 DEF TracePush, NativePush, Pushing
    <2>5. CASE TraceUpdate \/ NativeUpdate
      BY <2>5 DEF TraceUpdate, NativeUpdate, Replacing
    <2> QED
      BY <2>1, <2>2, <2>3, <2>4, <2>5
  <1>2. Executing(native, {"MethodCall"}, {type}) /\ O.m = m /\ O.op = "MethodCall"
    BY <1>1 DEF Calling, Executing
  <1>3. CASE Fails
    BY <1>2, <1>3, FailsMoves
  <1>4. CASE m \in {"size", "contains", "get"} /\ Only /\ \E v : Set(O.dst, v)
    <2>1. O.dst \in Overwritten(O)
      BY <1>2, <1>4 DEF Overwritten
    <2> QED
      BY <1>2, <1>4, <2>1, SetMoves DEF Only
  <1>5. CASE \E elements : Storing(elements)
    BY <1>2, <1>5, KeepMoves DEF Storing
  <1> QED
    BY <1>1, <1>3, <1>4, <1>5

LEMMA StepMoves ==
  ASSUME JInv, TraceStep \/ NativeStep
  PROVE  Moves \/ (status = "running" /\ InTrace /\ Crash)
  <1>1. CASE TraceCopy \/ TraceInc \/ TraceFloat \/ TraceCompare \/ TraceLogic \/ TraceCast \/ TraceConcat
    BY <1>1, SimpleMoves DEF TraceCopy, TraceInc, TraceFloat, TraceCompare, TraceLogic, TraceCast, TraceConcat
  <1>2. CASE \/ NativeCopy \/ NativeInc \/ NativeFloat \/ NativeCompare \/ NativeLogic \/ NativeCast
             \/ NativeConcat
    BY <1>2, SimpleMoves
       DEF NativeCopy, NativeInc, NativeFloat, NativeCompare, NativeLogic, NativeCast, NativeConcat
  <1>3. CASE TraceBranch \/ NativeBranch
    BY <1>3, BranchMoves DEF TraceBranch, NativeBranch
  <1>4. CASE TraceArithmetic \/ TraceDivide \/ NativeArithmetic \/ NativeDivide \/ NativeRemainder
    BY <1>4, DivideMoves DEF TraceArithmetic, TraceDivide, NativeArithmetic, NativeDivide,
       NativeRemainder, Executing
  <1> QED
    BY <1>1, <1>2, <1>3, <1>4, LoopsMove, MethodMoves DEF TraceStep, NativeStep

-----------------------------------------------------------------------------
(* What does not depend on the frames is kept when it is not changed.      *)

LEMMA FilesKept ==
  ASSUME JInv, UNCHANGED <<chunks, jit>>, Calls(frames') = Calls(frames)
  PROVE  TablesShape' /\ TracesShape'
  <1>1. UNCHANGED <<chunks, tables, traces, symbols>>
    BY DEF jit
  <1>2. \A t : TraceShape(t) => TraceShape(t)'
    BY <1>1 DEF TraceShape, WholePath, Path
  <1>3. \A t : TableShape(t) => TableShape(t)'
    BY <1>1, <1>2 DEF TableShape, CacheShape, HasSize
  <1>4. TablesShape'
    BY <1>1, <1>3 DEF JInv, TablesShape
  <1>5. TracesShape'
    BY <1>1, <1>2 DEF JInv, TracesShape
  <1> QED
    BY <1>4, <1>5

LEMMA RecordingKept ==
  ASSUME JInv, UNCHANGED <<chunks, recording>>,
         ~recording.on \/ status' # "running" \/ UNCHANGED <<frames, status>>
  PROVE  RecordingShape'
  BY DEF JInv, RecordingShape, EntryShape, Path, Top

LEMMA CallsKept ==
  ASSUME NEW fs, NEW gs, DOMAIN fs = DOMAIN gs, \A i \in DOMAIN fs : fs[i].fiber = gs[i].fiber
  PROVE  Calls(fs) = Calls(gs)
  <1>1. {i \in DOMAIN fs : fs[i].fiber = NoFiber} = {i \in DOMAIN gs : gs[i].fiber = NoFiber}
    OBVIOUS
  <1> QED
    BY <1>1 DEF Calls

(* A program that stops with its frames as they are.                       *)
LEMMA StopKeeps ==
  ASSUME JInv, status' \in {"crashed", "undefined"}, UNCHANGED <<Loaded, frames, fibers, jit, run>>
  PROVE  JInv'
  <1>1. UNCHANGED <<chunks, frames, fibers, recording, trace, pos, known>>
    BY DEF Loaded, jit, run
  <1>2. Shape'
    BY <1>1 DEF JInv, Shape, WellFormed, FramesShape, FrameShape, FibersShape, FiberShape
  <1>3. TablesShape' /\ TracesShape' /\ RecordingShape'
    BY <1>1, FilesKept, RecordingKept
  <1>4. RunShape'
    BY <1>1 DEF JInv, RunShape, TraceShape, WholePath, Path, EntryShape, InTrace, ConstantsHold, Top, E, R
  <1>5. StatusShape'
    BY DEF StatusShape
  <1> QED
    BY <1>2, <1>3, <1>4, <1>5 DEF JInv

LEMMA NoTraceShape ==
  TraceShape(NoTrace) /\ NoTrace.entries = <<>>
  <1>1. IsSeq(<<>>) /\ DOMAIN <<>> = {}
    <2>1. <<>> \in Seq({})
      OBVIOUS
    <2> QED
      BY <2>1 DEF IsSeq
  <1> QED
    BY <1>1 DEF TraceShape, NoTrace, WholePath, Path

(* What the compiler knows after an entry is what the registers hold then. *)
LEMMA KnownKept ==
  ASSUME JInv, InTrace, NEW reg, DOMAIN reg = DOMAIN Top.reg, Updates(reg)
  PROVE  \A r \in DOMAIN KnownAfter(O) :
           /\ r \in DOMAIN reg
           /\ \/ IsInt(reg[r]) /\ reg[r].n = KnownAfter(O)[r]
              \/ IsFloat(reg[r]) /\ reg[r].n = Unit * KnownAfter(O)[r]
  <1> DEFINE kept == Without(known, Overwritten(O))
             Holds(r, n) == \/ IsInt(reg[r]) /\ reg[r].n = n
                            \/ IsFloat(reg[r]) /\ reg[r].n = Unit * n
  <1>1. \A r \in DOMAIN known : r \in DOMAIN Top.reg
                                /\ \/ IsInt(Top.reg[r]) /\ Top.reg[r].n = known[r]
                                   \/ IsFloat(Top.reg[r]) /\ Top.reg[r].n = Unit * known[r]
    BY DEF JInv, RunShape, ConstantsHold, R
  <1>2. \A r \in DOMAIN kept : r \in DOMAIN known /\ r \notin Overwritten(O) /\ kept[r] = known[r]
    BY DEF Without
  <1>3. \A r \in DOMAIN kept : r \in DOMAIN reg /\ Holds(r, kept[r])
    BY <1>1, <1>2 DEF Updates
  <1>4. CASE O.op = "LoadConst" /\ WholeNumber(O.v)
    <2>1. KnownAfter(O) = Extended(kept, O.dst, IntegerOf(O.v))
      BY <1>4 DEF KnownAfter
    <2>2. O.dst \in DOMAIN reg /\ reg[O.dst] = O.v
      BY <1>4 DEF Updates
    <2>3. Holds(O.dst, IntegerOf(O.v))
      BY <1>4, <2>2 DEF WholeNumber, IntegerOf, IsInt, IsFloat
    <2> HIDE DEF kept, Holds
    <2>4. \A r \in DOMAIN KnownAfter(O) : r \in DOMAIN reg /\ Holds(r, KnownAfter(O)[r])
      BY <1>3, <2>1, <2>2, <2>3 DEF Extended
    <2> QED
      BY <2>4 DEF Holds
  <1>5. CASE O.op = "Move" /\ O.src \in DOMAIN kept
    <2>1. KnownAfter(O) = Extended(kept, O.dst, kept[O.src])
      BY <1>5 DEF KnownAfter
    <2>2. O.dst \in DOMAIN reg /\ reg[O.dst] = Top.reg[O.src]
      BY <1>5 DEF Updates
    <2>3. reg[O.src] = Top.reg[O.src]
      BY <1>1, <1>2, <1>5 DEF Updates
    <2>4. Holds(O.dst, kept[O.src])
      BY <1>3, <1>5, <2>2, <2>3
    <2> HIDE DEF kept, Holds
    <2>5. \A r \in DOMAIN KnownAfter(O) : r \in DOMAIN reg /\ Holds(r, KnownAfter(O)[r])
      BY <1>3, <2>1, <2>2, <2>4 DEF Extended
    <2> QED
      BY <2>5 DEF Holds
  <1>6. CASE ~(O.op = "LoadConst" /\ WholeNumber(O.v)) /\ ~(O.op = "Move" /\ O.src \in DOMAIN kept)
    <2>1. KnownAfter(O) = kept
      BY <1>6 DEF KnownAfter
    <2> QED
      BY <1>3, <2>1
  <1> QED
    BY <1>4, <1>5, <1>6

LEMMA MovesKeeps ==
  ASSUME JInv, Moves
  PROVE  JInv'
  <1>1. PICK ip, reg :
          /\ ip \in Nat /\ IsFun(reg) /\ DOMAIN reg = DOMAIN Top.reg /\ Go(ip, reg)
          /\ \/ Stop
             \/ pos' = 1 /\ known' = <<>> /\ UNCHANGED trace /\ ip = trace.start
             \/ /\ pos < Len(trace.entries) /\ ip = trace.entries[pos + 1].at /\ pos' = pos + 1
                /\ known' = KnownAfter(O) /\ Updates(reg) /\ UNCHANGED trace
    BY DEF Moves
  <1>2. status = "running" /\ InTrace /\ UNCHANGED <<chunks, status, fibers, jit>>
    BY DEF Moves, Machine, Loaded
  <1>3. ~recording.on /\ UNCHANGED recording /\ pos \in DOMAIN trace.entries /\ TraceShape(trace)
    BY <1>2 DEF JInv, RunShape, jit
  <1>4. /\ FramesShape' /\ Len(frames') = Len(frames) /\ DOMAIN frames' = DOMAIN frames
        /\ \A i \in DOMAIN frames : i # Len(frames) => frames'[i] = frames[i]
        /\ Top' = [f |-> Top.f, ip |-> ip, dst |-> Top.dst, fiber |-> Top.fiber, reg |-> reg]
    BY <1>1, <1>2, AheadFrames DEF JInv
  <1>5. Shape'
    BY <1>2, <1>4, FibersKept DEF JInv, Shape, WellFormed
  <1>6. Calls(frames') = Calls(frames)
    <2>1. Top' = frames'[Len(frames)] /\ Top = frames[Len(frames)]
      BY <1>4 DEF Top
    <2>2. \A i \in DOMAIN frames' : frames'[i].fiber = frames[i].fiber
      BY <1>4, <2>1
    <2> QED
      BY <1>4, <2>2, CallsKept
  <1>7. TablesShape' /\ TracesShape' /\ RecordingShape'
    BY <1>2, <1>3, <1>6, FilesKept, RecordingKept
  <1>8. RunShape'
    <2>0. DOMAIN <<>> = {} /\ \A t : TraceShape(t) => TraceShape(t)'
      BY <1>2 DEF TraceShape, WholePath, Path
    <2>1. CASE Stop
      <3>1. trace' = NoTrace /\ known' = <<>> /\ ~InTrace'
        BY <2>1, NoTraceShape DEF Stop, InTrace
      <3>2. TraceShape(trace)'
        BY <2>0, <3>1, NoTraceShape
      <3> QED
        BY <2>0, <3>1, <3>2 DEF RunShape, ConstantsHold
    <2>2. CASE pos' = 1 /\ known' = <<>> /\ UNCHANGED trace /\ ip = trace.start
      <3>1. DOMAIN trace.entries = 1 .. Len(trace.entries) /\ Len(trace.entries) \in Nat
        BY <1>3, SeqFacts DEF TraceShape
      <3>2. 1 \in DOMAIN trace.entries
        BY <1>3, <3>1
      <3>3. ~trace.torn => E'.at = trace.start
        BY <1>3, <2>2, <3>2 DEF TraceShape, WholePath, Path, E
      <3>4. Top'.ip = ip
        BY <1>4
      <3>5. TraceShape(trace)'
        BY <1>3, <2>0, <2>2
      <3>6. InTrace' /\ pos' \in DOMAIN trace'.entries /\ ~recording'.on
        BY <1>2, <1>3, <2>2, <3>2 DEF InTrace
      <3>7. ~trace'.torn => Top'.ip = E'.at
        BY <2>2, <3>3, <3>4
      <3> QED
        BY <2>0, <2>2, <3>5, <3>6, <3>7 DEF RunShape, ConstantsHold
    <2>3. CASE /\ pos < Len(trace.entries) /\ ip = trace.entries[pos + 1].at /\ pos' = pos + 1
               /\ known' = KnownAfter(O) /\ Updates(reg) /\ UNCHANGED trace
      <3>1. DOMAIN trace.entries = 1 .. Len(trace.entries) /\ Len(trace.entries) \in Nat
        BY <1>3, SeqFacts DEF TraceShape
      <3>2. pos + 1 \in DOMAIN trace.entries
        BY <1>3, <2>3, <3>1
      <3>3. Top'.ip = ip /\ Top'.reg = reg /\ E'.at = trace.entries[pos + 1].at
        BY <1>4, <2>3 DEF E
      <3>4. TraceShape(trace)'
        BY <1>3, <2>0, <2>3
      <3>5. InTrace' /\ pos' \in DOMAIN trace'.entries /\ ~recording'.on
        BY <1>2, <1>3, <2>3, <3>2 DEF InTrace
      <3>6. Top'.ip = E'.at
        BY <2>3, <3>3
      <3>7. DOMAIN known' \subseteq DOMAIN Top'.reg /\ ConstantsHold'
        BY <1>1, <1>2, <2>3, <3>3, KnownKept DEF ConstantsHold, R
      <3> QED
        BY <3>4, <3>5, <3>6, <3>7 DEF RunShape
    <2> QED
      BY <1>1, <2>1, <2>2, <2>3
  <1>9. StatusShape'
    BY <1>2 DEF StatusShape
  <1> QED
    BY <1>5, <1>7, <1>8, <1>9 DEF JInv

-----------------------------------------------------------------------------
(* A trace is entered; an instruction is interpreted.                      *)

LEMMA CallsFacts ==
  ASSUME NEW fs, IsSeq(fs)
  PROVE  /\ IsFiniteSet({i \in DOMAIN fs : fs[i].fiber = NoFiber}) /\ Calls(fs) \in Nat
         /\ Len(fs) > 0 /\ fs[1].fiber = NoFiber => Calls(fs) > 0
  <1> DEFINE S == {i \in DOMAIN fs : fs[i].fiber = NoFiber}
  <1>1. DOMAIN fs = 1 .. Len(fs) /\ Len(fs) \in Nat
    BY SeqFacts
  <1>2. IsFiniteSet(1 .. Len(fs))
    BY <1>1, FS_Interval
  <1>3. S \in SUBSET (1 .. Len(fs))
    BY <1>1
  <1>4. IsFiniteSet(S)
    BY <1>2, <1>3, FS_Subset
  <1>5. Cardinality(S) \in Nat
    BY <1>4, FS_CardinalityType
  <1>6. Len(fs) > 0 /\ fs[1].fiber = NoFiber => S # {}
    BY <1>1
  <1>7. Cardinality(S) = 0 <=> S = {}
    BY <1>4, FS_EmptySet
  <1> HIDE DEF S
  <1>8. Len(fs) > 0 /\ fs[1].fiber = NoFiber => Cardinality(S) > 0
    BY <1>5, <1>6, <1>7
  <1> QED
    BY <1>4, <1>5, <1>8 DEF Calls, S

LEMMA TableFacts ==
  ASSUME JInv
  PROVE  /\ IsSeq(tables) /\ Len(tables) \in Nat \ {0} /\ DOMAIN tables = 1 .. Len(tables)
         /\ Len(tables) \in DOMAIN tables /\ TableShape(Table) /\ Table = tables[Len(tables)]
         /\ Len(tables) = Calls(frames)
  <1>1. Calls(frames) \in Nat /\ Calls(frames) > 0
    BY CallsFacts DEF JInv, Shape, FramesShape
  <1>2. IsSeq(tables) /\ Len(tables) = Calls(frames) /\ \A k \in DOMAIN tables : TableShape(tables[k])
    BY DEF JInv, TablesShape
  <1>3. DOMAIN tables = 1 .. Len(tables)
    BY <1>2, SeqFacts
  <1>4. Len(tables) \in DOMAIN tables /\ Len(tables) \in Nat \ {0}
    BY <1>1, <1>2, <1>3
  <1> QED
    BY <1>2, <1>3, <1>4 DEF Table

LEMMA EnterKeeps ==
  ASSUME JInv, EnterTrace
  PROVE  JInv'
  <1>1. /\ status = "running" /\ CacheHit /\ UNCHANGED <<vars, jit>>
        /\ trace' = Table.cache[Top.ip] /\ pos' = 1 /\ known' = <<>>
    BY DEF EnterTrace
  <1>2. UNCHANGED <<chunks, frames, fibers, status, recording>>
    BY <1>1 DEF vars, jit
  <1>3. Shape'
    BY <1>2 DEF JInv, Shape, WellFormed, FramesShape, FrameShape, FibersShape, FiberShape
  <1>4. TablesShape' /\ TracesShape' /\ RecordingShape'
    BY <1>1, <1>2, FilesKept, RecordingKept
  <1>5. TraceShape(Table.cache[Top.ip]) /\ Table.cache[Top.ip].start = Top.ip /\ ~recording.on
    BY <1>1, TableFacts DEF CacheHit, TableShape, CacheShape
  <1>6. TraceShape(trace)'
    <2>1. \A t : TraceShape(t) => TraceShape(t)'
      BY <1>2 DEF TraceShape, WholePath, Path
    <2> QED
      BY <1>1, <1>5, <2>1
  <1>7. RunShape'
    <2>1. DOMAIN <<>> = {} /\ Top' = Top
      BY <1>2 DEF Top
    <2>2. ASSUME InTrace'
          PROVE  pos' \in DOMAIN trace'.entries
      <3>1. IsSeq(Table.cache[Top.ip].entries) /\ Table.cache[Top.ip].entries # <<>>
        BY <1>1, <1>5, <2>2 DEF TraceShape, InTrace
      <3>2. PICK S : Table.cache[Top.ip].entries \in Seq(S)
        BY <3>1 DEF IsSeq
      <3>3. 1 \in DOMAIN Table.cache[Top.ip].entries
        BY <3>1, <3>2, EmptySeq, SeqFacts
      <3> QED
        BY <1>1, <3>3
    <2>3. ASSUME InTrace', ~trace'.torn
          PROVE  Top'.ip = E'.at
      <3>1. Path(Table.cache[Top.ip].entries, Table.cache[Top.ip].f, Table.cache[Top.ip].start,
                 Table.cache[Top.ip].start)
        BY <1>1, <1>5, <2>3 DEF TraceShape, WholePath
      <3>2. Table.cache[Top.ip].entries[1].at = Top.ip
        BY <1>1, <1>5, <2>2, <2>3, <3>1 DEF Path
      <3> QED
        BY <1>1, <2>1, <3>2 DEF E
    <2> QED
      BY <1>1, <1>2, <1>5, <1>6, <2>1, <2>2, <2>3 DEF RunShape, ConstantsHold
  <1>8. StatusShape'
    BY <1>2 DEF JInv, StatusShape
  <1> QED
    BY <1>3, <1>4, <1>7, <1>8 DEF JInv

(* A recording that is complete becomes a trace.                           *)
LEMMA FinishedShape ==
  ASSUME JInv, status = "running", Complete
  PROVE  TraceShape(Finished) /\ Finished.start = Top.ip
  <1>1. /\ recording.on /\ Top.ip = recording.start /\ recording.start \in Nat
        /\ IsSeq(recording.entries) /\ \A i \in DOMAIN recording.entries : EntryShape(recording.entries[i])
        /\ ~recording.torn =>
             Path(recording.entries, recording.f, recording.start, recording.start)
    BY DEF JInv, RecordingShape, Complete
  <1> QED
    BY <1>1 DEF TraceShape, Finished, WholePath

LEMMA ExecutesFacts ==
  ASSUME JInv, Executes
  PROVE  /\ Top.f \in DOMAIN chunks /\ Top.ip \in 0 .. Len(Code) - 1 /\ Op = Code[Top.ip + 1]
         /\ Operated(Op)
  <1>1. Top.ip < Len(Code) /\ FrameShape(Top) /\ Len(Code) \in Nat
    BY TopShape DEF JInv, Executes
  <1> QED
    BY <1>1, OpShape DEF JInv, FrameShape, Op

LEMMA RecordedShape ==
  ASSUME JInv, status = "running"
  PROVE  /\ Recorded = [on |-> Recorded.on, f |-> Recorded.f, start |-> Recorded.start,
                        entries |-> Recorded.entries, torn |-> Recorded.torn]
         /\ Recorded.start \in Nat /\ IsSeq(Recorded.entries)
         /\ \A i \in DOMAIN Recorded.entries : EntryShape(Recorded.entries[i])
  <1>1. CASE Recorded = NoRecording
    <2>1. <<>> \in Seq({}) /\ DOMAIN <<>> = {}
      OBVIOUS
    <2> QED
      BY <1>1, <2>1 DEF NoRecording, IsSeq
  <1>2. CASE Recorded = recording
    BY <1>2 DEF JInv, RecordingShape
  <1>3. CASE Executes /\ Recorded = [recording EXCEPT !.entries = Append(@, Entry(Op))]
    <2> DEFINE es == Append(recording.entries, Entry(Op))
    <2>1. /\ IsSeq(recording.entries) /\ recording.start \in Nat
          /\ \A i \in DOMAIN recording.entries : EntryShape(recording.entries[i])
      BY DEF JInv, RecordingShape
    <2>2. EntryShape(Entry(Op))
      BY <1>3, ExecutesFacts DEF EntryShape, Entry
    <2>3. /\ IsSeq(es) /\ Len(es) = Len(recording.entries) + 1 /\ es[Len(recording.entries) + 1] = Entry(Op)
          /\ \A i \in 1 .. Len(recording.entries) : es[i] = recording.entries[i]
      BY <2>1, SeqAppend
    <2>4. /\ DOMAIN es = 1 .. Len(recording.entries) + 1 /\ Len(recording.entries) \in Nat
          /\ DOMAIN recording.entries = 1 .. Len(recording.entries)
      BY <2>1, <2>3, SeqFacts
    <2>5. ASSUME NEW i \in DOMAIN es
          PROVE  EntryShape(es[i])
      <3>1. i \in DOMAIN recording.entries \/ i = Len(recording.entries) + 1
        BY <2>4
      <3> HIDE DEF es
      <3> QED
        BY <2>1, <2>2, <2>3, <2>4, <3>1
    <2>6. Recorded = [on |-> recording.on, f |-> recording.f, start |-> recording.start,
                      entries |-> es, torn |-> recording.torn]
      BY <1>3 DEF JInv, RecordingShape
    <2> HIDE DEF es
    <2> QED
      BY <2>1, <2>3, <2>5, <2>6
  <1> QED
    BY <1>1, <1>2, <1>3 DEF Recorded

(* An entry leads to where its instruction goes.                           *)
LEMMA EntryLeads ==
  ASSUME JInv, Executes, Ahead, UNCHANGED chunks, Kind(Op) # "none"
  PROVE  Leads(Entry(Op), Top'.ip)
  <1>1. PICK ip, reg :
          /\ ip \in Nat /\ IsFun(reg) /\ Go(ip, reg)
          /\ Op.op \notin JumpOps => ip = Next1
          /\ Op.op \in {"JumpIfFalse", "JumpIfTrue"} =>
               ip = IF Taken(R(Op.src)) = (Op.op = "JumpIfTrue") THEN Op.target ELSE Next1
    BY DEF Ahead
  <1> DEFINE e == Entry(Op)
  <1>2. e.op = Op /\ e.at = Top.ip /\ e.as = Kind(Op)
        /\ (Op.op \in {"JumpIfFalse", "JumpIfTrue"} /\ e.sure => IsBool(R(Op.src)))
    BY DEF Entry
  <1>3. Top'.ip = ip
    BY <1>1, AheadFrames DEF JInv
  <1>4. Next1 = Top.ip + 1
    BY DEF Next1
  <1> HIDE DEF e
  <1>5. CASE Op.op \in {"Jump"} \cup LoopOps
    BY <1>2, <1>5 DEF Leads, LoopOps, e
  <1>6. CASE Op.op \in {"JumpIfFalse", "JumpIfTrue"}
    <2>1. ASSUME e.sure
          PROVE  Top'.ip = IF (Op.op = "JumpIfTrue") = (e.as = "true") THEN Op.target ELSE e.at + 1
      <3>1. IsBool(R(Op.src)) /\ Taken(R(Op.src)) = LowBit(R(Op.src)) /\ LowBit(R(Op.src)) \in BOOLEAN
        BY <1>2, <1>6, <2>1 DEF Taken, LowBit
      <3>2. (e.as = "true") = LowBit(R(Op.src))
        <4>1. CASE Op.op = "JumpIfFalse"
          <5>1. e.as = IF IsFalse(R(Op.src)) THEN "false" ELSE "true"
            BY <1>2, <4>1 DEF Kind, Unguarded, Numerics, Arithmetics, Comparisons
          <5> QED
            BY <3>1, <5>1 DEF IsFalse
        <4>2. CASE Op.op = "JumpIfTrue"
          <5>1. e.as = IF IsTrue(R(Op.src)) THEN "true" ELSE "false"
            BY <1>2, <4>2 DEF Kind, Unguarded, Numerics, Arithmetics, Comparisons
          <5> QED
            BY <3>1, <5>1 DEF IsTrue
        <4> QED
          BY <1>6, <4>1, <4>2
      <3>3. ip = IF LowBit(R(Op.src)) = (Op.op = "JumpIfTrue") THEN Op.target ELSE Next1
        BY <1>1, <1>6, <3>1
      <3> QED
        BY <1>2, <1>3, <1>4, <3>1, <3>2, <3>3
    <2>2. Op.op \notin {"Jump"} \cup LoopOps
      BY <1>6 DEF LoopOps
    <2> QED
      BY <1>2, <1>6, <2>1, <2>2 DEF Leads, e
  <1>7. CASE Op.op = "ArrayLoopNext"
    BY <1>7 DEF Kind, Unguarded, Numerics, Arithmetics, Comparisons
  <1>8. CASE Op.op \notin JumpOps
    <2>1. Op.op \notin {"Jump", "JumpIfFalse", "JumpIfTrue"} \cup LoopOps
      BY <1>8 DEF JumpOps
    <2> QED
      BY <1>1, <1>2, <1>3, <1>4, <1>8, <2>1 DEF Leads, e
  <1> QED
    BY <1>5, <1>6, <1>7, <1>8 DEF JumpOps

(* Filing the trace keeps the shape of the tables and of the traces.       *)
LEMMA Tables1Shape ==
  ASSUME JInv, status = "running"
  PROVE  /\ IsSeq(Tables1) /\ Len(Tables1) = Len(tables) /\ DOMAIN Tables1 = DOMAIN tables
         /\ \A k \in DOMAIN Tables1 : TableShape(Tables1[k])
         /\ Tables1[Len(tables)].hot = Table.hot
  <1>1. CASE ~Complete
    <2>1. Tables1 = tables
      BY <1>1 DEF Tables1
    <2> QED
      BY <2>1, TableFacts DEF JInv, TablesShape
  <1>2. CASE Complete
    <2> DEFINE n     == Len(tables)
               cache == Extended(Table.cache, Top.ip, Finished)
               new   == [f |-> Table.f, hot |-> Table.hot, cache |-> cache]
    <2>1. /\ IsSeq(tables) /\ n \in Nat \ {0} /\ DOMAIN tables = 1 .. n /\ n \in DOMAIN tables
          /\ TableShape(Table) /\ Table = tables[n]
      BY TableFacts
    <2>2. Top.ip \in DOMAIN Table.hot
      BY <1>2 DEF Complete
    <2>3. CacheShape(cache) /\ DOMAIN cache \subseteq DOMAIN Table.hot
      <3>1. TraceShape(Finished) /\ Finished.start = Top.ip
        BY <1>2, FinishedShape
      <3>2. CacheShape(Table.cache) /\ DOMAIN Table.cache \subseteq DOMAIN Table.hot
        BY <2>1 DEF TableShape
      <3>3. /\ DOMAIN cache = DOMAIN Table.cache \cup {Top.ip} /\ cache[Top.ip] = Finished
            /\ \A k \in DOMAIN Table.cache : k # Top.ip => cache[k] = Table.cache[k]
        BY DEF Extended
      <3> HIDE DEF cache
      <3>4. ASSUME NEW ip \in DOMAIN cache
            PROVE  TraceShape(cache[ip]) /\ cache[ip].start = ip
        <4>1. CASE ip = Top.ip
          BY <3>1, <3>3, <4>1
        <4>2. CASE ip # Top.ip
          BY <3>2, <3>3, <3>4, <4>2 DEF CacheShape
        <4> QED
          BY <4>1, <4>2
      <3> QED
        BY <2>2, <3>2, <3>3, <3>4 DEF CacheShape
    <2> HIDE DEF cache
    <2>4. TableShape(new)
      BY <2>1, <2>3 DEF TableShape, HasSize
    <2>5. [Table EXCEPT !.cache = cache] = new
      BY <2>1 DEF TableShape
    <2>6. Tables1 = [tables EXCEPT ![n] = new]
      BY <1>2, <2>1, <2>5 DEF Tables1, cache
    <2>7. new.hot = Table.hot
      OBVIOUS
    <2> HIDE DEF new, n
    <2>8. /\ IsSeq(Tables1) /\ Len(Tables1) = Len(tables) /\ Tables1[n] = new
          /\ \A i \in DOMAIN tables : i # n => Tables1[i] = tables[i]
      BY <2>1, <2>6, SeqExcept DEF n
    <2>9. DOMAIN Tables1 = DOMAIN tables
      BY <2>1, <2>8, SeqFacts DEF n
    <2>10. \A k \in DOMAIN Tables1 : TableShape(Tables1[k])
      BY <2>4, <2>8, <2>9 DEF JInv, TablesShape
    <2> QED
      BY <2>7, <2>8, <2>9, <2>10 DEF n
  <1> QED
    BY <1>1, <1>2

Symbols1 == IF Complete THEN symbols \cup {Top.ip} ELSE symbols
Filed(ts, names) ==
  \A key \in DOMAIN ts :
    /\ key = <<key[1], key[2]>> /\ key[1] \in DOMAIN chunks
    /\ key[2] \in 0 .. Len(chunks[key[1]].code) - 1
    /\ key[2] \in names /\ ts[key].start = key[2] /\ TraceShape(ts[key])

LEMMA Traces1Shape ==
  ASSUME JInv, status = "running"
  PROVE  Filed(Traces1, Symbols1)
  <1>1. Filed(traces, symbols)
    BY DEF JInv, TracesShape, Filed
  <1>2. CASE ~Complete
    BY <1>1, <1>2 DEF Traces1, Symbols1
  <1>3. CASE Complete
    <2> DEFINE new == <<Table.f, Top.ip>>
    <2>1. TraceShape(Finished) /\ Finished.start = Top.ip
      BY <1>3, FinishedShape
    <2>2. Table.f \in DOMAIN chunks /\ Top.ip \in 0 .. Len(chunks[Table.f].code) - 1
      BY <1>3, TableFacts DEF TableShape, Complete
    <2>3. new[1] = Table.f /\ new[2] = Top.ip
      OBVIOUS
    <2>4. Traces1 = Extended(traces, new, Finished) /\ Symbols1 = symbols \cup {Top.ip}
      BY <1>3 DEF Traces1, Symbols1
    <2> HIDE DEF new
    <2>5. new = <<new[1], new[2]>>
      BY <2>3 DEF new
    <2>6. /\ DOMAIN Traces1 = DOMAIN traces \cup {new} /\ Traces1[new] = Finished
          /\ \A k \in DOMAIN traces : k # new => Traces1[k] = traces[k]
      BY <2>4 DEF Extended
    <2>7. ASSUME NEW key \in DOMAIN Traces1
          PROVE  /\ key = <<key[1], key[2]>> /\ key[1] \in DOMAIN chunks
                 /\ key[2] \in 0 .. Len(chunks[key[1]].code) - 1 /\ key[2] \in Symbols1
                 /\ Traces1[key].start = key[2] /\ TraceShape(Traces1[key])
      <3>1. CASE key = new
        BY <2>1, <2>2, <2>3, <2>4, <2>5, <2>6, <3>1
      <3>2. CASE key # new
        BY <1>1, <2>4, <2>6, <2>7, <3>2 DEF Filed
      <3> QED
        BY <3>1, <3>2
    <2> QED
      BY <2>7 DEF Filed
  <1> QED
    BY <1>2, <1>3

LEMMA TableForShape ==
  ASSUME NEW ts, NEW names, Filed(ts, names), NEW f \in DOMAIN chunks, JInv
  PROVE  TableShape(TableFor(f, ts))
  <1>1. TableShape(EmptyTable(f))
    BY DEF TableShape, EmptyTable, HasSize, CacheShape
  <1>2. TableShape(SizedTable(f, ts))
    <2> DEFINE cache == TracesOf(f, ts)
               hot   == [ip \in 0 .. Len(chunks[f].code) - 1 |-> 0]
    <2>1. ASSUME NEW ip \in DOMAIN cache
          PROVE  ip \in DOMAIN hot /\ TraceShape(cache[ip]) /\ cache[ip].start = ip
      <3>1. PICK key \in DOMAIN ts : key[1] = f /\ ip = key[2]
        BY DEF TracesOf
      <3>2. key = <<f, ip>>
        BY <3>1 DEF Filed
      <3>3. cache[ip] = ts[<<f, ip>>]
        BY DEF TracesOf
      <3> QED
        BY <3>1, <3>2, <3>3 DEF Filed
    <2>2. CacheShape(cache) /\ DOMAIN cache \subseteq DOMAIN hot
      BY <2>1 DEF CacheShape
    <2>3. SizedTable(f, ts) = [f |-> f, hot |-> hot, cache |-> cache]
      BY DEF SizedTable
    <2>4. DOMAIN hot = 0 .. Len(chunks[f].code) - 1
      OBVIOUS
    <2> HIDE DEF cache, hot
    <2> QED
      BY <2>2, <2>3, <2>4 DEF TableShape
  <1> QED
    BY <1>1, <1>2 DEF TableFor

(* How many calls are left after an instruction.                           *)
LEMMA CallsForm ==
  ASSUME JInv, Forms
  PROVE  /\ Calls(frames') \in Nat /\ Calls(frames) \in Nat
         /\ Calls(frames') > Calls(frames) => Pushes /\ Calls(frames') = Calls(frames) + 1
  <1> DEFINE S == {i \in DOMAIN frames : frames[i].fiber = NoFiber}
             T == {i \in DOMAIN frames' : frames'[i].fiber = NoFiber}
  <1>0. /\ IsSeq(frames) /\ Len(frames) \in Nat /\ DOMAIN frames = 1 .. Len(frames) /\ UNCHANGED chunks
        /\ Shape' /\ Shape
    BY TopShape, ShapeKept DEF JInv, Shape, FramesShape, Forms
  <1>1. IsFiniteSet(S) /\ Calls(frames) \in Nat /\ Calls(frames) = Cardinality(S)
    BY <1>0, CallsFacts DEF Calls
  <1>2. Calls(frames') \in Nat /\ Calls(frames') = Cardinality(T) /\ DOMAIN frames' = 1 .. Len(frames')
    BY <1>0, CallsFacts, SeqFacts DEF Calls, Shape, FramesShape
  <1>3. CASE Ahead
    <2>1. PICK ip, reg : ip \in Nat /\ IsFun(reg) /\ Go(ip, reg)
      BY <1>3 DEF Ahead
    <2>2. /\ Len(frames') = Len(frames) /\ DOMAIN frames' = DOMAIN frames
          /\ \A i \in DOMAIN frames : i # Len(frames) => frames'[i] = frames[i]
          /\ Top' = [f |-> Top.f, ip |-> ip, dst |-> Top.dst, fiber |-> Top.fiber, reg |-> reg]
      <3> HIDE DEF S, T
      <3> QED
        BY <1>0, <2>1, AheadFrames
    <2>3. \A i \in DOMAIN frames : frames'[i].fiber = frames[i].fiber
      <3>1. Top'.fiber = Top.fiber
        BY <2>2
      <3> QED
        BY <2>2, <3>1 DEF Top
    <2>4. T = S
      BY <2>2, <2>3
    <2> HIDE DEF S, T
    <2> QED
      BY <1>1, <1>2, <2>4
  <1>4. CASE Pushes
    <2>1. PICK fr : /\ FrameShape(fr)
                    /\ frames' = Append([frames EXCEPT ![Len(frames)].ip = Next1], fr)
      BY <1>4 DEF Pushes
    <2>2. /\ DOMAIN frames' = 1 .. Len(frames) + 1
          /\ \A i \in DOMAIN frames : frames'[i].fiber = frames[i].fiber
      BY <1>0, <2>1, PushFrames DEF SameActivation
    <2>3. T = S \/ T = S \cup {Len(frames) + 1}
      BY <1>0, <2>2
    <2>4. Len(frames) + 1 \notin S
      BY <1>0
    <2> HIDE DEF S, T
    <2>5. Cardinality(S \cup {Len(frames) + 1}) = Cardinality(S) + 1
      BY <1>1, <2>4, FS_AddElement
    <2>6. Calls(frames') = Calls(frames) \/ Calls(frames') = Calls(frames) + 1
      BY <1>1, <1>2, <2>3, <2>5
    <2> DEFINE m == Calls(frames')
               n == Calls(frames)
    <2>7. m \in Nat /\ n \in Nat /\ (m = n \/ m = n + 1)
      BY <1>1, <1>2, <2>6
    <2> HIDE DEF m, n
    <2>8. m > n => m = n + 1
      BY <2>7
    <2> QED
      BY <1>4, <2>7, <2>8 DEF m, n
  <1>5. CASE Leaves
    <2>1. \A i \in DOMAIN frames' : i \in DOMAIN frames /\ frames'[i].fiber = frames[i].fiber
      BY <1>0, <1>2, <1>5 DEF Leaves, SameActivation
    <2>2. T \in SUBSET S
      BY <2>1
    <2> HIDE DEF S, T
    <2>3. Cardinality(T) <= Cardinality(S)
      BY <1>1, <2>2, FS_Subset
    <2> QED
      BY <1>1, <1>2, <2>3
  <1>6. CASE Stops
    BY <1>1, <1>2, <1>6 DEF Stops
  <1> QED
    BY <1>3, <1>4, <1>5, <1>6 DEF Forms

(* A recording that goes on without a mark has followed its frame.         *)
LEMMA PathExtends ==
  ASSUME NEW es, IsSeq(es), NEW f, NEW start, NEW at, NEW e, NEW end,
         Path(es, f, start, at), es = <<>> => at = start,
         e.f = f, e.at = at, at \in 0 .. Len(chunks[f].code) - 1, e.op = chunks[f].code[at + 1],
         Leads(e, end)
  PROVE  Path(Append(es, e), f, start, end)
  <1> DEFINE n == Len(es)
             t == Append(es, e)
  <1>1. n \in Nat /\ DOMAIN es = 1 .. n
    BY SeqFacts
  <1>2. /\ IsSeq(t) /\ Len(t) = n + 1 /\ t[n + 1] = e /\ \A i \in 1 .. n : t[i] = es[i]
    BY SeqAppend
  <1>3. DOMAIN t = 1 .. n + 1
    BY <1>2, SeqFacts
  <1>4. n = 0 => es = <<>>
    <2>1. PICK S : es \in Seq(S)
      BY DEF IsSeq
    <2> QED
      BY <2>1, EmptySeq
  <1>5. \A i \in 1 .. n : /\ es[i].f = f /\ es[i].at \in 0 .. Len(chunks[f].code) - 1
                          /\ es[i].op = chunks[f].code[es[i].at + 1]
                          /\ i = 1 => es[i].at = start
                          /\ Leads(es[i], IF i < n THEN es[i + 1].at ELSE at)
    BY <1>1 DEF Path
  <1> HIDE DEF n, t
  <1>6. ASSUME NEW i \in 1 .. n + 1
        PROVE  /\ t[i].f = f /\ t[i].at \in 0 .. Len(chunks[f].code) - 1
               /\ t[i].op = chunks[f].code[t[i].at + 1]
               /\ i = 1 => t[i].at = start
               /\ Leads(t[i], IF i < n + 1 THEN t[i + 1].at ELSE end)
    <2>1. CASE i = n + 1
      <3>1. t[i] = e /\ (i = 1 => n = 0) /\ ~(i < n + 1)
        BY <1>1, <1>2, <2>1
      <3> QED
        BY <1>4, <3>1
    <2>2. CASE i # n + 1
      <3>1. i \in 1 .. n /\ t[i] = es[i] /\ i < n + 1
        BY <1>1, <1>2, <2>2
      <3>2. t[i + 1].at = IF i < n THEN es[i + 1].at ELSE at
        <4>1. CASE i < n
          <5>1. i + 1 \in 1 .. n
            BY <1>1, <3>1, <4>1
          <5> QED
            BY <1>2, <4>1, <5>1
        <4>2. CASE ~(i < n)
          <5>1. i + 1 = n + 1
            BY <1>1, <3>1, <4>2
          <5> QED
            BY <1>2, <4>2, <5>1
        <4> QED
          BY <4>1, <4>2
      <3> QED
        BY <1>5, <3>1, <3>2
    <2> QED
      BY <2>1, <2>2
  <1> QED
    BY <1>2, <1>3, <1>6 DEF Path, t

LEMMA RecordedFollows ==
  ASSUME JInv, Forms, status' = "running", Recorded.on, ~Recorded.torn, ~(Len(frames') < Len(frames))
  PROVE  /\ Top'.f = Recorded.f
         /\ Path(Recorded.entries, Recorded.f, Recorded.start, Top'.ip)
         /\ Recorded.entries # <<>>
  <1>0. Len(frames) \in Nat
    BY TopShape DEF JInv
  <1>1. ~Stops /\ ~Leaves /\ (Ahead \/ Pushes)
    <2>1. ~Leaves
      <3>1. Leaves => Len(frames') \in 1 .. Len(frames) - 1
        BY DEF Leaves
      <3> DEFINE n == Len(frames)
                 m == Len(frames')
      <3>2. n \in Nat /\ ~(m < n) /\ (Leaves => m \in 1 .. n - 1)
        BY <1>0, <3>1
      <3> HIDE DEF n, m
      <3> QED
        BY <3>2
    <2>2. ~Stops
      BY DEF Stops
    <2> QED
      BY <2>1, <2>2 DEF Forms
  <1>2. status = "running" /\ Executes
    BY <1>1 DEF Ahead, Pushes, Running, Executes
  <1>3. /\ recording.on /\ ~Complete /\ Kind(Op) # "none"
        /\ Recorded = [recording EXCEPT !.entries = Append(@, Entry(Op))]
    BY <1>2 DEF Recorded, NoRecording
  <1>4. Ahead
    <2>1. Pushes => Kind(Op) = "none"
      BY DEF Pushes, Kind, Unguarded, Numerics, Arithmetics, Comparisons, Receiver
    <2> QED
      BY <1>1, <1>3, <2>1
  <1> DEFINE es == recording.entries
  <1>5. /\ Recorded.f = recording.f /\ Recorded.start = recording.start /\ Recorded.torn = recording.torn
        /\ Recorded.entries = Append(es, Entry(Op))
    BY <1>3 DEF JInv, RecordingShape
  <1>6. /\ IsSeq(es) /\ Top.f = recording.f /\ Path(es, recording.f, recording.start, Top.ip)
        /\ es = <<>> => Top.ip = recording.start
    BY <1>2, <1>3, <1>5 DEF JInv, RecordingShape
  <1>7. Top'.f = Top.f
    BY <1>4, AheadFrames DEF Ahead, Forms, JInv
  <1>8. /\ Entry(Op).f = Top.f /\ Entry(Op).at = Top.ip /\ Entry(Op).op = Op
        /\ Leads(Entry(Op), Top'.ip)
    BY <1>2, <1>3, <1>4, EntryLeads DEF Entry, Forms
  <1>9. Top.ip \in 0 .. Len(chunks[Top.f].code) - 1 /\ Op = chunks[Top.f].code[Top.ip + 1]
    BY <1>2, ExecutesFacts DEF Code
  <1>10. Path(Append(es, Entry(Op)), recording.f, recording.start, Top'.ip)
    BY <1>6, <1>8, <1>9, PathExtends
  <1>11. Append(es, Entry(Op)) # <<>>
    <2>1. Len(Append(es, Entry(Op))) = Len(es) + 1 /\ Len(es) \in Nat
      BY <1>6, SeqAppend, SeqFacts
    <2>2. Len(Append(es, Entry(Op))) # 0
      <3> DEFINE n == Len(es)
                 m == Len(Append(es, Entry(Op)))
      <3>1. m = n + 1 /\ n \in Nat
        BY <2>1
      <3> HIDE DEF m, n
      <3> QED
        BY <3>1 DEF m
    <2>3. PICK S : Append(es, Entry(Op)) \in Seq(S)
      BY <1>6, SeqAppend DEF IsSeq
    <2> QED
      BY <2>2, <2>3, EmptySeq
  <1> QED
    BY <1>5, <1>6, <1>7, <1>10, <1>11

(* One of the tables is replaced by one with the same shape.               *)
LEMMA TableReplaced ==
  ASSUME JInv, status = "running", NEW ip, ip \in DOMAIN Table.hot, NEW count
  PROVE  /\ IsSeq([Tables1 EXCEPT ![Len(tables)].hot[ip] = count])
         /\ Len([Tables1 EXCEPT ![Len(tables)].hot[ip] = count]) = Len(tables)
         /\ \A k \in DOMAIN [Tables1 EXCEPT ![Len(tables)].hot[ip] = count] :
              TableShape([Tables1 EXCEPT ![Len(tables)].hot[ip] = count][k])
  <1> DEFINE m   == Len(tables)
             t   == Tables1[m]
             new == [f |-> t.f, hot |-> [t.hot EXCEPT ![ip] = count], cache |-> t.cache]
             ts  == [Tables1 EXCEPT ![m].hot[ip] = count]
  <1>1. /\ IsSeq(Tables1) /\ Len(Tables1) = m /\ DOMAIN Tables1 = 1 .. m /\ m \in 1 .. m
        /\ \A k \in DOMAIN Tables1 : TableShape(Tables1[k])
    BY Tables1Shape, TableFacts
  <1>2. TableShape(t) /\ t = [f |-> t.f, hot |-> t.hot, cache |-> t.cache]
    BY <1>1 DEF TableShape
  <1>3. TableShape(new)
    <2>1. DOMAIN [t.hot EXCEPT ![ip] = count] = DOMAIN t.hot
      OBVIOUS
    <2> DEFINE hot == [t.hot EXCEPT ![ip] = count]
    <2> HIDE DEF hot, t
    <2> QED
      BY <1>2, <2>1 DEF TableShape, HasSize, hot
  <1>4. [t EXCEPT !.hot[ip] = count] = new
    <2> HIDE DEF t
    <2> QED
      BY <1>2
  <1>5. ts = [Tables1 EXCEPT ![m] = [t EXCEPT !.hot[ip] = count]]
    OBVIOUS
  <1>6. ts = [Tables1 EXCEPT ![m] = new]
    BY <1>4, <1>5
  <1> HIDE DEF new, t, ts
  <1>7. /\ IsSeq(ts) /\ Len(ts) = m /\ ts[m] = new
        /\ \A i \in 1 .. m : i # m => ts[i] = Tables1[i]
    <2> HIDE DEF m
    <2>1. IsSeq(Tables1) /\ m \in 1 .. Len(Tables1) /\ Len(Tables1) = m
      BY <1>1
    <2>2. IsSeq(ts)
      BY <1>6, <2>1, SeqExcept
    <2>3. Len(ts) = Len(Tables1)
      BY <1>6, <2>1, SeqExcept
    <2>4. ts[m] = new
      BY <1>6, <2>1, SeqFacts
    <2>5. \A i \in 1 .. Len(Tables1) : i # m => ts[i] = Tables1[i]
      BY <1>6, <2>1, SeqFacts
    <2> QED
      BY <2>1, <2>2, <2>3, <2>4, <2>5
  <1>8. DOMAIN ts = 1 .. m
    BY <1>7, SeqFacts
  <1>9. \A k \in DOMAIN ts : TableShape(ts[k])
    BY <1>1, <1>3, <1>7, <1>8
  <1> QED
    BY <1>7, <1>9 DEF ts

LEMMA TablesAfter ==
  ASSUME JInv, Forms, status = "running",
         CASE Calls(frames') = Calls(frames) -> Stay
           [] Calls(frames') > Calls(frames) -> EnterCall
           [] Calls(frames') < Calls(frames) -> LeaveCalls
  PROVE  TablesShape'
  <1>0. /\ Calls(frames') \in Nat /\ Calls(frames) \in Nat /\ Len(tables) = Calls(frames)
        /\ Calls(frames') > Calls(frames) => Pushes /\ Calls(frames') = Calls(frames) + 1
    BY CallsForm, TableFacts
  <1>1. /\ IsSeq(Tables1) /\ Len(Tables1) = Len(tables)
        /\ \A k \in DOMAIN Tables1 : TableShape(Tables1[k])
    BY Tables1Shape
  <1>2. \A t : TableShape(t) => TableShape(t)'
    BY DEF TableShape, CacheShape, TraceShape, WholePath, Path, HasSize, Forms
  <1>3. ASSUME NEW ts, IsSeq(ts), Len(ts) = Calls(frames'), \A k \in DOMAIN ts : TableShape(ts[k]),
               tables' = ts
        PROVE  TablesShape'
    BY <1>2, <1>3 DEF TablesShape
  <1>4. CASE Calls(frames') = Calls(frames) /\ Stay
    <2>1. CASE GoesBack /\ CountsAt(Op.target)
      <3>1. tables' = [Tables1 EXCEPT ![Len(tables)].hot[Op.target] = CountedAt(Op.target)]
        BY <1>4, <2>1 DEF Stay
      <3>2. Op.target \in DOMAIN Table.hot
        BY <2>1 DEF CountsAt
      <3> QED
        BY <1>0, <1>3, <1>4, <3>1, <3>2, TableReplaced
    <2>2. CASE ~(GoesBack /\ CountsAt(Op.target))
      BY <1>0, <1>1, <1>3, <1>4, <2>2 DEF Stay
    <2> QED
      BY <2>1, <2>2
  <1>5. CASE Calls(frames') > Calls(frames) /\ EnterCall
    <2>1. PICK fr : FrameShape(fr) /\ frames' = Append([frames EXCEPT ![Len(frames)].ip = Next1], fr)
      BY <1>0, <1>5 DEF Pushes
    <2>2. Top' = fr
      BY <2>1, PushFrames DEF JInv, Forms
    <2> DEFINE t == TableFor(fr.f, Traces1)
    <2>3. tables' = Append(Tables1, t)
      BY <1>5, <2>2 DEF EnterCall, Top
    <2>4. TableShape(t)
      BY <2>1, Traces1Shape, TableForShape DEF FrameShape
    <2> HIDE DEF t
    <2>5. /\ IsSeq(Append(Tables1, t)) /\ Len(Append(Tables1, t)) = Len(Tables1) + 1
          /\ Append(Tables1, t)[Len(Tables1) + 1] = t
          /\ \A i \in 1 .. Len(Tables1) : Append(Tables1, t)[i] = Tables1[i]
      BY <1>1, SeqAppend
    <2>6. /\ DOMAIN Append(Tables1, t) = 1 .. Len(Tables1) + 1 /\ Len(Tables1) \in Nat
          /\ DOMAIN Tables1 = 1 .. Len(Tables1)
      BY <1>1, <2>5, SeqFacts
    <2>7. ASSUME NEW k \in DOMAIN Append(Tables1, t)
          PROVE  TableShape(Append(Tables1, t)[k])
      <3>1. k \in 1 .. Len(Tables1) \/ k = Len(Tables1) + 1
        BY <2>6
      <3> QED
        BY <1>1, <2>4, <2>5, <2>6, <3>1
    <2> QED
      BY <1>0, <1>1, <1>3, <1>5, <2>3, <2>5, <2>7
  <1>6. CASE Calls(frames') < Calls(frames) /\ LeaveCalls
    <2> DEFINE n == Calls(frames')
    <2>1. tables' = SubSeq(Tables1, 1, n) /\ n \in 0 .. Len(Tables1)
      BY <1>0, <1>1, <1>6 DEF LeaveCalls
    <2> HIDE DEF n
    <2>2. /\ IsSeq(SubSeq(Tables1, 1, n)) /\ Len(SubSeq(Tables1, 1, n)) = n
          /\ \A i \in 1 .. n : SubSeq(Tables1, 1, n)[i] = Tables1[i]
      BY <1>1, <2>1, SeqPrefix
    <2>3. DOMAIN SubSeq(Tables1, 1, n) = 1 .. n /\ DOMAIN Tables1 = 1 .. Len(Tables1)
      BY <1>1, <2>2, SeqFacts
    <2>4. 1 .. n \subseteq DOMAIN Tables1
      <3>1. Len(Tables1) \in Nat
        BY <1>1, SeqFacts
      <3> QED
        BY <2>1, <2>3, <3>1
    <2>5. \A k \in DOMAIN SubSeq(Tables1, 1, n) : TableShape(SubSeq(Tables1, 1, n)[k])
      BY <1>1, <2>2, <2>3, <2>4
    <2>6. Len(SubSeq(Tables1, 1, n)) = Calls(frames')
      BY <2>2 DEF n
    <2> QED
      BY <1>3, <2>1, <2>2, <2>5, <2>6
  <1>7. \/ Calls(frames') = Calls(frames) /\ Stay
        \/ Calls(frames') > Calls(frames) /\ EnterCall
        \/ Calls(frames') < Calls(frames) /\ LeaveCalls
    <2> DEFINE a == Calls(frames')
               b == Calls(frames)
    <2>1. /\ a \in Nat /\ b \in Nat
          /\ CASE a = b -> Stay [] a > b -> EnterCall [] a < b -> LeaveCalls
      BY <1>0
    <2> HIDE DEF a, b
    <2>2. a = b \/ a > b \/ a < b
      BY <2>1
    <2>3. ~(a = b /\ a > b) /\ ~(a = b /\ a < b) /\ ~(a > b /\ a < b)
      BY <2>1
    <2>4. ASSUME a = b PROVE Stay
      BY <2>1, <2>3, <2>4
    <2>5. ASSUME a > b PROVE EnterCall
      BY <2>1, <2>3, <2>5
    <2>6. ASSUME a < b PROVE LeaveCalls
      BY <2>1, <2>3, <2>6
    <2> QED
      BY <2>2, <2>4, <2>5, <2>6 DEF a, b
  <1> QED
    BY <1>4, <1>5, <1>6, <1>7

LEMMA RecordingAfter ==
  ASSUME JInv, Forms, status = "running", Stay \/ EnterCall \/ LeaveCalls
  PROVE  RecordingShape'
  <1>1. UNCHANGED chunks
    BY DEF Forms
  <1>2. /\ Recorded = [on |-> Recorded.on, f |-> Recorded.f, start |-> Recorded.start,
                       entries |-> Recorded.entries, torn |-> Recorded.torn]
        /\ Recorded.start \in Nat /\ IsSeq(Recorded.entries)
        /\ \A i \in DOMAIN Recorded.entries : EntryShape(Recorded.entries[i])
    BY RecordedShape
  <1>3. \A es, f, start, end : Path(es, f, start, end) => Path(es, f, start, end)'
    BY <1>1 DEF Path
  <1>4. ASSUME NEW rec,
               rec = [on |-> rec.on, f |-> rec.f, start |-> rec.start, entries |-> rec.entries,
                      torn |-> rec.torn],
               rec.start \in Nat, IsSeq(rec.entries), \A i \in DOMAIN rec.entries : EntryShape(rec.entries[i]),
               status' = "running" /\ rec.on /\ ~rec.torn =>
                 /\ Top'.f = rec.f /\ Path(rec.entries, rec.f, rec.start, Top'.ip)
                 /\ rec.entries = <<>> => Top'.ip = rec.start,
               recording' = rec
        PROVE  RecordingShape'
    BY <1>1, <1>4 DEF RecordingShape, EntryShape, Path
  <1>5. CASE recording' = NoRecording
    <2>1. <<>> \in Seq({}) /\ DOMAIN <<>> = {}
      OBVIOUS
    <2>2. /\ NoRecording = [on |-> NoRecording.on, f |-> NoRecording.f, start |-> NoRecording.start,
                            entries |-> NoRecording.entries, torn |-> NoRecording.torn]
          /\ NoRecording.start \in Nat /\ NoRecording.entries = <<>> /\ ~NoRecording.on
      BY DEF NoRecording
    <2>3. IsSeq(NoRecording.entries) /\ DOMAIN NoRecording.entries = {}
      BY <2>1, <2>2 DEF IsSeq
    <2> QED
      BY <1>4, <1>5, <2>2, <2>3
  <1>6. ASSUME NEW left, recording' = Continued(left),
               left \/ (status' = "running" => ~(Len(frames') < Len(frames)))
        PROVE  RecordingShape'
    <2> DEFINE rec == Continued(left)
    <2>1. /\ rec = [on |-> Recorded.on, f |-> Recorded.f, start |-> Recorded.start,
                    entries |-> Recorded.entries, torn |-> Recorded.on /\ (Recorded.torn \/ left)]
      BY DEF Continued
    <2>2. /\ rec.on = Recorded.on /\ rec.f = Recorded.f /\ rec.start = Recorded.start
          /\ rec.entries = Recorded.entries /\ rec.torn = (Recorded.on /\ (Recorded.torn \/ left))
      BY <2>1
    <2>3. rec = [on |-> rec.on, f |-> rec.f, start |-> rec.start, entries |-> rec.entries,
                 torn |-> rec.torn]
      BY <2>1
    <2>4. rec.on /\ ~rec.torn => Recorded.on /\ ~Recorded.torn /\ ~left
      BY <2>2, Zenon
    <2> HIDE DEF rec
    <2>5. status' = "running" /\ rec.on /\ ~rec.torn =>
            /\ Top'.f = rec.f /\ Path(rec.entries, rec.f, rec.start, Top'.ip)
            /\ rec.entries # <<>>
      BY <1>6, <2>2, <2>4, RecordedFollows
    <2>6. rec.start \in Nat /\ IsSeq(rec.entries) /\ \A i \in DOMAIN rec.entries : EntryShape(rec.entries[i])
      BY <1>2, <2>2
    <2> QED
      BY <1>4, <1>6, <2>3, <2>5, <2>6 DEF rec
  <1>7. CASE Stay /\ GoesBack /\ CountsAt(Op.target)
    <2>1. Executes /\ Operated(Op) /\ status' = "running" /\ Len(frames') = Len(frames)
          /\ Op.op \in {"Jump"} \cup LoopOps
      BY <1>7, ExecutesFacts DEF GoesBack
    <2>2. CASE recording' = Recorded
      <3>1. status' = "running" /\ Recorded.on /\ ~Recorded.torn =>
              /\ Top'.f = Recorded.f /\ Path(Recorded.entries, Recorded.f, Recorded.start, Top'.ip)
              /\ Recorded.entries # <<>>
        <4>1. ~(Len(frames') < Len(frames))
          <5>1. Len(frames) \in Nat
            BY TopShape DEF JInv
          <5> DEFINE n == Len(frames)
                     m == Len(frames')
          <5>2. m = n /\ n \in Nat
            BY <2>1, <5>1
          <5> HIDE DEF m, n
          <5>3. ~(m < n)
            BY <5>2
          <5> QED
            BY <5>3 DEF m, n
        <4> QED
          BY <4>1, RecordedFollows
      <3> QED
        BY <1>2, <1>4, <2>2, <3>1
    <2>3. CASE recording' = Recording(Top.f, Op.target)
      <3> DEFINE rec == Recording(Top.f, Op.target)
      <3>1. /\ rec = [on |-> TRUE, f |-> Top.f, start |-> Op.target, entries |-> <<>>, torn |-> FALSE]
            /\ <<>> \in Seq({}) /\ DOMAIN <<>> = {}
        BY DEF Recording
      <3>2. /\ rec = [on |-> rec.on, f |-> rec.f, start |-> rec.start, entries |-> rec.entries, torn |-> rec.torn]
            /\ rec.f = Top.f /\ rec.start = Op.target /\ rec.entries = <<>>
        BY <3>1
      <3>3. Op.target \in Nat
        BY <2>1 DEF Operated, JumpOps
      <3>4. Top'.f = Top.f /\ Top'.ip = Op.target
        <4>1. Shape' /\ Shape
          BY ShapeKept DEF JInv
        <4>2. Top' = frames'[Len(frames')] /\ Len(frames') = Len(frames)
          BY <2>1, <4>1, TopShape DEF Top
        <4>3. Top'.ip = Op.target
          BY <1>7, <4>2 DEF GoesBack
        <4>4. Ahead
          <5>1. ~Stops
            BY <2>1 DEF Stops
          <5>2. ~Leaves /\ ~Pushes
            <6>0. Len(frames) \in Nat
              BY TopShape DEF JInv
            <6>1. Leaves => Len(frames') \in 1 .. Len(frames) - 1
              BY DEF Leaves
            <6>2. Pushes => Len(frames') = Len(frames) + 1
              BY PushFrames DEF JInv, Pushes, Forms
            <6> DEFINE n == Len(frames)
                       m == Len(frames')
            <6>3. n \in Nat /\ m = n /\ (Leaves => m \in 1 .. n - 1) /\ (Pushes => m = n + 1)
              BY <2>1, <6>0, <6>1, <6>2
            <6> HIDE DEF n, m
            <6> QED
              BY <6>3
          <5> QED
            BY <5>1, <5>2 DEF Forms
        <4>5. PICK ip, reg : ip \in Nat /\ IsFun(reg) /\ Go(ip, reg)
          BY <4>4 DEF Ahead
        <4>6. Top'.f = Top.f
          BY <1>1, <4>1, <4>5, AheadFrames
        <4> QED
          BY <4>3, <4>6
      <3>5. Path(rec.entries, rec.f, rec.start, Top'.ip) /\ IsSeq(rec.entries)
            /\ \A i \in DOMAIN rec.entries : EntryShape(rec.entries[i])
        BY <3>1, <3>2 DEF Path, IsSeq
      <3> HIDE DEF rec
      <3>6. recording' = rec
        BY <2>3 DEF rec
      <3> QED
        BY <1>4, <3>2, <3>3, <3>4, <3>5, <3>6
    <2> QED
      BY <1>7, <2>2, <2>3 DEF Stay
  <1>8. CASE Stay /\ ~(GoesBack /\ CountsAt(Op.target))
    BY <1>6, <1>8 DEF Stay
  <1>9. CASE EnterCall
    BY <1>5, <1>9 DEF EnterCall
  <1>10. CASE LeaveCalls
    BY <1>6, <1>10 DEF LeaveCalls
  <1> QED
    BY <1>7, <1>8, <1>9, <1>10

LEMMA InterpretKeeps ==
  ASSUME JInv, Interpret
  PROVE  JInv'
  <1>1. Next /\ ~InTrace /\ UNCHANGED run
    BY DEF Interpret
  <1>2. Forms
    BY <1>1, NextForms DEF JInv
  <1>3. /\ status = "running" /\ UNCHANGED chunks
        /\ status' \in {"running", "ended", "halted", "panicked"}
    BY <1>2 DEF Forms, Ahead, Pushes, Leaves, Stops, Running
  <1>4. Shape'
    BY <1>2, ShapeKept DEF JInv
  <1>5. (CASE Calls(frames') = Calls(frames) -> Stay
           [] Calls(frames') > Calls(frames) -> EnterCall
           [] Calls(frames') < Calls(frames) -> LeaveCalls)
    BY DEF Interpret
  <1>6. TablesShape'
    BY <1>2, <1>3, <1>5, TablesAfter
  <1>7. Stay \/ EnterCall \/ LeaveCalls
    <2> DEFINE a == Calls(frames')
               b == Calls(frames)
    <2>1. /\ a \in Nat /\ b \in Nat
          /\ CASE a = b -> Stay [] a > b -> EnterCall [] a < b -> LeaveCalls
      BY <1>2, <1>5, CallsForm
    <2> HIDE DEF a, b
    <2>2. a = b \/ a > b \/ a < b
      BY <2>1
    <2>3. ~(a = b /\ a > b) /\ ~(a = b /\ a < b) /\ ~(a > b /\ a < b)
      BY <2>1
    <2> QED
      BY <2>1, <2>2, <2>3
  <1>8. RecordingShape'
    BY <1>2, <1>3, <1>7, RecordingAfter
  <1>9. TracesShape'
    <2>1. Filed(Traces1, Symbols1)
      BY <1>3, Traces1Shape
    <2>2. traces' = Traces1 /\ symbols' = Symbols1
      BY DEF Interpret, Symbols1
    <2>3. \A t : TraceShape(t) => TraceShape(t)'
      BY <1>3 DEF TraceShape, WholePath, Path
    <2>4. ASSUME NEW ts, NEW names, Filed(ts, names), traces' = ts, symbols' = names
          PROVE  TracesShape'
      BY <1>3, <2>3, <2>4 DEF Filed, TracesShape
    <2> QED
      BY <2>1, <2>2, <2>4
  <1>10. RunShape'
    <2>1. UNCHANGED <<trace, pos, known>> /\ known = <<>> /\ DOMAIN <<>> = {}
      BY <1>1 DEF run, JInv, RunShape
    <2>2. TraceShape(trace)'
      BY <1>3, <2>1 DEF JInv, RunShape, TraceShape, WholePath, Path
    <2>3. ~InTrace'
      BY <1>1, <2>1 DEF InTrace
    <2> QED
      BY <2>1, <2>2, <2>3 DEF RunShape, ConstantsHold
  <1>11. StatusShape'
    BY <1>3 DEF StatusShape
  <1> QED
    BY <1>4, <1>6, <1>8, <1>9, <1>10, <1>11 DEF JInv

-----------------------------------------------------------------------------
(* JInv is an invariant.                                                   *)

LEMMA StepKeeps ==
  ASSUME JInv, [JNext]_jvars
  PROVE  JInv'
  <1>1. CASE Interpret
    BY <1>1, InterpretKeeps
  <1>2. CASE EnterTrace
    BY <1>2, EnterKeeps
  <1>3. CASE TraceStep \/ NativeStep
    <2>1. CASE Moves
      BY <2>1, MovesKeeps
    <2>2. CASE Crash
      BY <2>2, StopKeeps DEF Crash
    <2> QED
      BY <1>3, <2>1, <2>2, StepMoves
  <1>4. CASE Stray
    BY <1>4, StopKeeps DEF Stray
  <1>5. CASE UNCHANGED jvars
    <2>1. /\ UNCHANGED <<chunks, frames, fibers, status, recording, trace, pos, known>>
          /\ UNCHANGED jit
      BY <1>5 DEF jvars, vars, jit, run
    <2>2. Shape'
      BY <2>1 DEF JInv, Shape, WellFormed, FramesShape, FrameShape, FibersShape, FiberShape
    <2>3. TablesShape' /\ TracesShape' /\ RecordingShape'
      BY <2>1, FilesKept, RecordingKept
    <2>4. RunShape'
      BY <2>1 DEF JInv, RunShape, TraceShape, WholePath, Path, EntryShape, InTrace, ConstantsHold, Top, E, R
    <2>5. StatusShape'
      BY <2>1 DEF JInv, StatusShape
    <2> QED
      BY <2>2, <2>3, <2>4, <2>5 DEF JInv
  <1> QED
    BY <1>1, <1>2, <1>3, <1>4, <1>5 DEF JNext

LEMMA InitKeeps ==
  ASSUME JInit
  PROVE  JInv
  <1>1. Shape
    BY InitShape DEF JInit
  <1>2. /\ tables = <<SizedTable("main", <<>>)>> /\ recording = NoRecording /\ traces = <<>>
        /\ trace = NoTrace /\ known = <<>> /\ status = "running" /\ DOMAIN <<>> = {}
    BY DEF JInit, Init
  <1>3. "main" \in DOMAIN chunks
    BY <1>1 DEF Shape, WellFormed
  <1>4. TablesShape
    <2> DEFINE t == SizedTable("main", <<>>)
    <2>1. TableShape(t)
      <3>1. TracesOf("main", <<>>) = <<>>
        BY <1>2 DEF TracesOf
      <3> QED
        BY <1>2, <1>3, <3>1 DEF TableShape, SizedTable, HasSize, CacheShape
    <2>2. Calls(frames) = 1
      <3>1. Len(frames) = 1 /\ DOMAIN frames = {1} /\ frames[1].fiber = NoFiber
        BY <1>1 DEF JInit, Init, Shape, FramesShape
      <3>2. {i \in DOMAIN frames : frames[i].fiber = NoFiber} = {1}
        BY <3>1
      <3> QED
        BY <3>2, FS_Singleton DEF Calls
    <2> HIDE DEF t
    <2>3. tables = <<t>>
      BY <1>2 DEF t
    <2>4. tables \in Seq({t}) /\ Len(tables) = 1 /\ DOMAIN tables = {1} /\ tables[1] = t
      BY <2>3
    <2> QED
      BY <2>1, <2>2, <2>4 DEF TablesShape, IsSeq
  <1>5. TracesShape
    BY <1>2 DEF TracesShape
  <1>6. RecordingShape
    <2>1. <<>> \in Seq({})
      OBVIOUS
    <2>2. /\ NoRecording = [on |-> NoRecording.on, f |-> NoRecording.f, start |-> NoRecording.start,
                            entries |-> NoRecording.entries, torn |-> NoRecording.torn]
          /\ NoRecording.start \in Nat /\ NoRecording.entries = <<>> /\ ~NoRecording.on
      BY DEF NoRecording
    <2>3. IsSeq(NoRecording.entries) /\ DOMAIN NoRecording.entries = {}
      BY <1>2, <2>1, <2>2 DEF IsSeq
    <2> QED
      BY <1>2, <2>2, <2>3 DEF RecordingShape
  <1>7. RunShape
    BY <1>2, NoTraceShape DEF RunShape, InTrace, ConstantsHold
  <1>8. StatusShape
    BY <1>2 DEF StatusShape
  <1> QED
    BY <1>1, <1>4, <1>5, <1>6, <1>7, <1>8 DEF JInv

LEMMA JInvariant == JSpec => []JInv
  <1>1. JInit => JInv
    BY InitKeeps
  <1>2. JInv /\ [JNext]_jvars => JInv'
    BY StepKeeps
  <1> QED
    BY <1>1, <1>2, PTL DEF JSpec

-----------------------------------------------------------------------------
(* The theorems                                                            *)

(* jit.md:25, with the exceptions Deviates names: whatever is recorded,    *)
(* compiled, cached and run in place of the bytecode, every step of the    *)
(* program that the rest of the virtual machine can see is a step of the   *)
(* bytecode loop.                                                          *)
THEOREM TracesAreTransparent == JSpec => Transparent
  <1>1. JInv /\ [JNext]_jvars => [Next \/ Deviates]_vars
    BY StepIsNext
  <1> QED
    BY <1>1, JInvariant, PTL DEF JSpec, Transparent

(* record_op and process_finished_trace: a trace that was recorded in one  *)
(* frame is a path through that frame's function from the trace's start    *)
(* back to it.                                                             *)
THEOREM TracesArePaths == JSpec => []TracesFollowCode
  <1>1. JInv => TracesFollowCode
    BY DEF JInv, TracesShape, TraceShape, RecordingShape, TracesFollowCode
  <1> QED
    BY <1>1, JInvariant, PTL

(* JIT::compile's table of constants: what it has of a register is what    *)
(* the register holds when the code runs, whichever way the loop went.     *)
THEOREM ConstantsAreHeld == JSpec => []ConstantsHold
  <1>1. JInv => ConstantsHold
    BY DEF JInv, RunShape
  <1> QED
    BY <1>1, JInvariant, PTL

(* run_frame_with_guard: every call has its tables, and every trace its    *)
(* address.                                                                *)
THEOREM JTypesHold == JSpec => []JTypeOK
  <1>1. JInv => JTypeOK
    BY DEF JInv, TablesShape, TableShape, CacheShape, TracesShape, RunShape, StatusShape, JTypeOK
  <1> QED
    BY <1>1, JInvariant, PTL
=============================================================================
