--------------------------- MODULE BytecodeProofs ---------------------------
(***************************************************************************)
(* Proofs about Bytecode, for every set of programs whose compiled form is *)
(* WellFormed: what the stack of activations and the fibers look like, and *)
(* what an instruction may do to them.                                     *)
(*                                                                         *)
(* Registers hold values of any kind and frames are of any depth: IsSeq    *)
(* and IsFun say that something is a sequence or a function without saying *)
(* of what.                                                                *)
(***************************************************************************)
EXTENDS Bytecode, SequenceTheorems, TLAPS

IsSeq(s) == \E S : s \in Seq(S)
IsFun(f) == f = [x \in DOMAIN f |-> f[x]]

FrameShape(fr) ==
  /\ fr = [f |-> fr.f, ip |-> fr.ip, dst |-> fr.dst, fiber |-> fr.fiber, reg |-> fr.reg]
  /\ fr.f \in DOMAIN chunks /\ fr.ip \in Nat /\ IsFun(fr.reg)
FiberShape(fb) ==
  /\ fb = [f |-> fb.f, ip |-> fb.ip, done |-> fb.done, reg |-> fb.reg]
  /\ fb.f \in DOMAIN chunks /\ fb.ip \in Nat /\ IsFun(fb.reg)

FramesShape == /\ IsSeq(frames) /\ Len(frames) > 0 /\ frames[1].fiber = NoFiber
               /\ \A i \in DOMAIN frames : FrameShape(frames[i])
FibersShape == IsSeq(fibers) /\ \A i \in DOMAIN fibers : FiberShape(fibers[i])

Shape == WellFormed(chunks) /\ FramesShape /\ FibersShape

(* What an instruction does to the stack of frames: its frame goes on, a   *)
(* frame is entered, frames are left, or the program stops.                *)
Running == status = "running" /\ Top.ip < Len(Code) /\ InFrame(Op)
Ahead == /\ Running /\ status' = "running"
         /\ \E ip \in Nat : \E reg :
              /\ IsFun(reg) /\ Go(ip, reg)
              /\ DOMAIN reg = DOMAIN Top.reg /\ ip <= Len(Code)
              /\ Op.op \notin JumpOps => ip = Next1
              /\ Op.op \in {"JumpIfFalse", "JumpIfTrue"} =>
                   ip = IF Taken(R(Op.src)) = (Op.op = "JumpIfTrue") THEN Op.target ELSE Next1
Pushes == /\ Running /\ status' = "running"
          /\ Op.op = "Call" \/ (Op.op = "MethodCall" /\ Op.m = "next" /\ Receiver.t = "fiber")
          /\ \E fr : /\ FrameShape(fr)
                     /\ frames' = Append([frames EXCEPT ![Len(frames)].ip = Next1], fr)
SameActivation(fr, old) == fr.fiber = old.fiber /\ fr.f = old.f /\ fr.dst = old.dst
Leaves == /\ status = "running" /\ status' = "running"
          /\ IsSeq(frames') /\ Len(frames') \in 1 .. Len(frames) - 1
          /\ \A i \in DOMAIN frames' : FrameShape(frames'[i]) /\ SameActivation(frames'[i], frames[i])
          /\ \A i \in 1 .. Len(frames') - 1 : frames'[i] = frames[i]
Stops == /\ status = "running" /\ status' \in {"ended", "halted", "panicked"}
         /\ frames' = frames

-----------------------------------------------------------------------------
(* Sequences of anything.                                                  *)

LEMMA SeqFacts ==
  ASSUME NEW s, IsSeq(s)
  PROVE  /\ Len(s) \in Nat /\ DOMAIN s = 1 .. Len(s) /\ IsFun(s)
  <1>1. PICK S : s \in Seq(S)
    BY DEF IsSeq
  <1>2. s \in [1 .. Len(s) -> S] /\ Len(s) \in Nat
    BY <1>1, LenProperties
  <1> QED
    BY <1>2 DEF IsFun

LEMMA SeqAppend ==
  ASSUME NEW s, IsSeq(s), NEW x
  PROVE  /\ IsSeq(Append(s, x)) /\ Len(Append(s, x)) = Len(s) + 1
         /\ Append(s, x)[Len(s) + 1] = x
         /\ \A i \in 1 .. Len(s) : Append(s, x)[i] = s[i]
  <1>1. PICK S : s \in Seq(S)
    BY DEF IsSeq
  <1> DEFINE T == S \cup {x}
  <1>2. s \in Seq(T) /\ x \in T
    <2>1. \A n \in 1 .. Len(s) : s[n] \in T
      BY <1>1
    <2> QED
      BY <1>1, <2>1, SeqDef
  <1> HIDE DEF T
  <1>3. /\ Append(s, x) \in Seq(T) /\ Len(Append(s, x)) = Len(s) + 1
        /\ \A i \in 1 .. Len(s) : Append(s, x)[i] = s[i]
        /\ Append(s, x)[Len(s) + 1] = x
    BY <1>2, AppendProperties
  <1> QED
    BY <1>3 DEF IsSeq

LEMMA SeqExcept ==
  ASSUME NEW s, IsSeq(s), NEW n \in 1 .. Len(s), NEW x
  PROVE  /\ IsSeq([s EXCEPT ![n] = x]) /\ Len([s EXCEPT ![n] = x]) = Len(s)
         /\ [s EXCEPT ![n] = x][n] = x
         /\ \A i \in 1 .. Len(s) : i # n => [s EXCEPT ![n] = x][i] = s[i]
  <1>1. PICK S : s \in Seq(S)
    BY DEF IsSeq
  <1> DEFINE T == S \cup {x}
  <1>2. s \in Seq(T) /\ x \in T
    <2>1. \A i \in 1 .. Len(s) : s[i] \in T
      BY <1>1
    <2> QED
      BY <1>1, <2>1, SeqDef
  <1> HIDE DEF T
  <1>3. [s EXCEPT ![n] = x] \in Seq(T) /\ Len([s EXCEPT ![n] = x]) = Len(s)
    BY <1>2, ExceptSeq
  <1>4. DOMAIN s = 1 .. Len(s)
    BY SeqFacts
  <1> QED
    BY <1>3, <1>4 DEF IsSeq

LEMMA SeqPrefix ==
  ASSUME NEW s, IsSeq(s), NEW n \in 0 .. Len(s)
  PROVE  /\ IsSeq(SubSeq(s, 1, n)) /\ Len(SubSeq(s, 1, n)) = n
         /\ \A i \in 1 .. n : SubSeq(s, 1, n)[i] = s[i]
  <1>1. PICK S : s \in Seq(S)
    BY DEF IsSeq
  <1>2. /\ SubSeq(s, 1, n) \in Seq(S) /\ Len(SubSeq(s, 1, n)) = n
        /\ \A i \in 1 .. n : SubSeq(s, 1, n)[i] = s[1 + i - 1]
    <2>1. n \in Nat /\ n <= Len(s) /\ Len(s) \in Nat
      BY <1>1
    <2> QED
      BY <1>1, <2>1, SubSeqProperties
  <1> QED
    BY <1>2 DEF IsSeq

-----------------------------------------------------------------------------
(* The steps                                                               *)

LEMMA TopShape ==
  ASSUME Shape
  PROVE  /\ Len(frames) \in Nat /\ DOMAIN frames = 1 .. Len(frames) /\ Len(frames) \in DOMAIN frames
         /\ FrameShape(Top) /\ Top = frames[Len(frames)]
         /\ Len(Code) \in Nat /\ DOMAIN Code = 1 .. Len(Code)
         /\ Top.ip < Len(Code) => Top.ip + 1 \in DOMAIN Code
  <1>1. Len(frames) \in Nat /\ DOMAIN frames = 1 .. Len(frames) /\ Len(frames) \in DOMAIN frames
    BY SeqFacts DEF Shape, FramesShape
  <1>2. FrameShape(Top) /\ Top = frames[Len(frames)]
    BY <1>1 DEF Shape, FramesShape, Top
  <1>3. Len(Code) \in Nat /\ DOMAIN Code = 1 .. Len(Code)
    BY <1>2 DEF Shape, WellFormed, Code, FrameShape
  <1>4. Top.ip < Len(Code) => Top.ip + 1 \in DOMAIN Code
    BY <1>2, <1>3 DEF FrameShape
  <1> QED
    BY <1>1, <1>2, <1>3, <1>4

(* An instruction's targets are addresses and functions of the program.    *)
LEMMA OpShape ==
  ASSUME Shape, Top.ip < Len(Code)
  PROVE  /\ Operated(Op)
         /\ Op.op \in {"Call", "FiberCreate"} => Op.f \in DOMAIN chunks
         /\ Op.op \in JumpOps => Op.target <= Len(Code)
  <1>1. Top.f \in DOMAIN chunks /\ Top.ip + 1 \in DOMAIN chunks[Top.f].code
    BY TopShape DEF FrameShape, Code
  <1> QED
    BY <1>1 DEF Shape, WellFormed, Op, Code

LEMMA Goes ==
  ASSUME Shape, Running, NEW ip \in Nat, NEW reg, IsFun(reg), Go(ip, reg), UNCHANGED status,
         DOMAIN reg = DOMAIN Top.reg, ip <= Len(Code),
         Op.op \notin JumpOps => ip = Next1,
         Op.op \in {"JumpIfFalse", "JumpIfTrue"} =>
           ip = IF Taken(R(Op.src)) = (Op.op = "JumpIfTrue") THEN Op.target ELSE Next1
  PROVE  Ahead
  BY DEF Ahead, Running

LEMMA GoesOn ==
  ASSUME Shape, Running, NEW reg, IsFun(reg), Go(Next1, reg), UNCHANGED status, Op.op \notin JumpOps,
         DOMAIN reg = DOMAIN Top.reg
  PROVE  Ahead
  <1>1. Next1 \in Nat /\ Next1 <= Len(Code)
    BY TopShape DEF FrameShape, Next1, Running
  <1>2. Op.op \notin {"JumpIfFalse", "JumpIfTrue"}
    BY DEF JumpOps, LoopOps
  <1> QED
    BY <1>1, <1>2, Goes

LEMMA Writes ==
  ASSUME Shape, Running, NEW v, Write(v), UNCHANGED status, Op.op \notin JumpOps
  PROVE  Ahead
  <1> DEFINE reg == [Top.reg EXCEPT ![Op.dst] = v]
  <1>1. IsFun(reg) /\ DOMAIN reg = DOMAIN Top.reg /\ Go(Next1, reg)
    BY DEF IsFun, Write
  <1> HIDE DEF reg
  <1> QED
    BY <1>1, GoesOn

LEMMA Runnings ==
  ASSUME NEW ops, Runs(ops)
  PROVE  Running /\ Op.op \in ops
  BY DEF Runs, Running

-----------------------------------------------------------------------------
(* Frames that are left                                                    *)

LEMMA OneFiberKept ==
  ASSUME Shape, UNCHANGED chunks, NEW id, NEW fb, FiberShape(fb), fibers' = [fibers EXCEPT ![id] = fb]
  PROVE  FibersShape'
  <1>1. IsSeq(fibers) /\ DOMAIN fibers = 1 .. Len(fibers) /\ IsFun(fibers)
    BY SeqFacts DEF Shape, FibersShape
  <1>2. CASE id \in 1 .. Len(fibers)
    <2>1. IsSeq(fibers') /\ DOMAIN fibers' = DOMAIN fibers
      BY <1>1, <1>2, SeqExcept
    <2>2. ASSUME NEW i \in DOMAIN fibers'
          PROVE  FiberShape(fibers'[i])
      BY <2>1, <2>2, <1>1 DEF Shape, FibersShape
    <2> QED
      BY <2>1, <2>2 DEF FibersShape, FiberShape
  <1>3. CASE id \notin 1 .. Len(fibers)
    <2>1. fibers' = fibers
      BY <1>1, <1>3 DEF IsFun
    <2> QED
      BY <2>1 DEF Shape, FibersShape, FiberShape
  <1> QED
    BY <1>2, <1>3

LEMMA FibersKept ==
  ASSUME Shape, UNCHANGED <<chunks, fibers>>
  PROVE  FibersShape'
  BY DEF Shape, FibersShape, FiberShape

(* The frame below goes on, with other registers.                          *)
LEMMA PopLeaves ==
  ASSUME Shape, status = "running", UNCHANGED status, Len(frames) > 1, NEW reg, IsFun(reg),
         frames' = Append(SubSeq(frames, 1, Len(frames) - 2), [Caller EXCEPT !.reg = reg])
  PROVE  Leaves
  <1> DEFINE n == Len(frames)
             c == [Caller EXCEPT !.reg = reg]
             s == SubSeq(frames, 1, n - 2)
  <1>1. n \in Nat /\ DOMAIN frames = 1 .. n /\ n - 2 \in 0 .. n /\ IsSeq(frames)
    BY TopShape DEF Shape, FramesShape
  <1>2. FrameShape(Caller) /\ Caller = frames[n - 1]
    BY <1>1 DEF Shape, FramesShape, Caller
  <1>3. FrameShape(c) /\ SameActivation(c, Caller)
    BY <1>2 DEF FrameShape, SameActivation
  <1>4. IsSeq(s) /\ Len(s) = n - 2 /\ \A i \in 1 .. n - 2 : s[i] = frames[i]
    BY <1>1, SeqPrefix
  <1>0. n = Len(frames) /\ frames' = Append(s, c)
    OBVIOUS
  <1> HIDE DEF n, c, s
  <1>5. /\ IsSeq(frames') /\ Len(frames') = n - 1 /\ frames'[n - 1] = c
        /\ \A i \in 1 .. n - 2 : frames'[i] = frames[i]
    <2>1. /\ IsSeq(Append(s, c)) /\ Len(Append(s, c)) = Len(s) + 1 /\ Append(s, c)[Len(s) + 1] = c
          /\ \A i \in 1 .. Len(s) : Append(s, c)[i] = s[i]
      BY ONLY <1>4, SeqAppend
    <2>2. Len(s) + 1 = n - 1 /\ 1 .. Len(s) = 1 .. n - 2
      BY ONLY <1>4, <1>1
    <2>3. /\ IsSeq(Append(s, c)) /\ Len(Append(s, c)) = n - 1 /\ Append(s, c)[n - 1] = c
          /\ \A i \in 1 .. n - 2 : Append(s, c)[i] = frames[i]
      BY ONLY <2>1, <2>2, <1>4
    <2> QED
      BY ONLY <2>3, <1>0
  <1>6. DOMAIN frames' = 1 .. n - 1
    BY <1>5, <1>1, SeqFacts
  <1>7. ASSUME NEW i \in DOMAIN frames'
        PROVE  FrameShape(frames'[i]) /\ SameActivation(frames'[i], frames[i])
    <2>1. CASE i = n - 1
      BY <2>1, <1>2, <1>3, <1>5
    <2>2. CASE i # n - 1
      <3>1. i \in 1 .. n - 2 /\ i \in DOMAIN frames
        BY <2>2, <1>6, <1>1
      <3> QED
        BY <3>1, <1>5 DEF Shape, FramesShape, SameActivation
    <2> QED
      BY <2>1, <2>2
  <1>8. Len(frames') \in 1 .. Len(frames) - 1
    BY <1>0, <1>1, <1>5
  <1>9. \A i \in 1 .. Len(frames') - 1 : frames'[i] = frames[i]
    BY <1>1, <1>5
  <1> QED
    BY <1>5, <1>7, <1>8, <1>9 DEF Leaves

LEMMA PrefixLeaves ==
  ASSUME Shape, status = "running", UNCHANGED status, NEW k \in 1 .. Len(frames) - 1,
         frames' = SubSeq(frames, 1, k)
  PROVE  Leaves
  <1>1. Len(frames) \in Nat /\ DOMAIN frames = 1 .. Len(frames) /\ k \in 0 .. Len(frames) /\ IsSeq(frames)
    BY TopShape DEF Shape, FramesShape
  <1>2. IsSeq(frames') /\ Len(frames') = k /\ \A i \in 1 .. k : frames'[i] = frames[i]
    BY <1>1, SeqPrefix
  <1>3. DOMAIN frames' = 1 .. k
    BY <1>2, SeqFacts
  <1> QED
    BY <1>1, <1>2, <1>3 DEF Leaves, Shape, FramesShape, SameActivation

(* The frame of a fiber has one below it.                                  *)
LEMMA FiberAbove ==
  ASSUME Shape, NEW i \in DOMAIN frames, frames[i].fiber # NoFiber
  PROVE  i > 1 /\ i \in Nat /\ i <= Len(frames)
  BY TopShape DEF Shape, FramesShape

LEMMA SuspendLeaves ==
  ASSUME Shape, status = "running", UNCHANGED chunks, Top.fiber # NoFiber,
         NEW ip \in Nat, NEW done, NEW value, Suspend(ip, done, value)
  PROVE  Leaves /\ FibersShape'
  <1>1. Len(frames) > 1 /\ Len(frames) \in Nat /\ DOMAIN frames = 1 .. Len(frames)
    BY TopShape, FiberAbove
  <1>2. FrameShape(Caller)
    BY <1>1 DEF Shape, FramesShape, Caller
  <1>3. Leaves
    <2> DEFINE reg == IF /\ value # <<>> /\ Top.dst \in DOMAIN Caller.reg
                         /\ Counts(value[1], Resumed.done \/ done)
                      THEN [Caller.reg EXCEPT ![Top.dst] = value[1]] ELSE Caller.reg
    <2>1. IsFun(reg)
      BY <1>2 DEF FrameShape, IsFun
    <2>2. frames' = Append(SubSeq(frames, 1, Len(frames) - 2), [Caller EXCEPT !.reg = reg])
      BY DEF Suspend
    <2> HIDE DEF reg
    <2>3. UNCHANGED status
      BY DEF Suspend
    <2> QED
      BY <1>1, <2>1, <2>2, <2>3, PopLeaves
  <1>4. FibersShape'
    <2> DEFINE fb == Saved(Resumed, ip, Top.reg, Resumed.done \/ done)
    <2>1. fibers' = [fibers EXCEPT ![Top.fiber] = fb]
      BY DEF Suspend, Resumed
    <2>2. CASE Top.fiber \in DOMAIN fibers
      <3>1. FiberShape(Resumed)
        BY <2>2 DEF Shape, FibersShape, Resumed
      <3>2. IsFun(Top.reg)
        BY TopShape DEF FrameShape
      <3>3. FiberShape(fb)
        BY <3>1, <3>2 DEF FiberShape, Saved
      <3> HIDE DEF fb
      <3> QED
        BY <2>1, <3>3, OneFiberKept
    <2>3. CASE Top.fiber \notin DOMAIN fibers
      <3>1. IsFun(fibers)
        BY SeqFacts DEF Shape, FibersShape
      <3>2. fibers' = fibers
        BY <2>1, <2>3, <3>1 DEF IsFun
      <3> QED
        BY <3>2, FibersKept
    <2> QED
      BY <2>2, <2>3
  <1> QED
    BY <1>3, <1>4

LEMMA UnwindForms ==
  ASSUME Shape, status = "running", UNCHANGED chunks, Len(frames) > 1, Unwind(Len(frames) - 1)
  PROVE  (Leaves \/ Stops) /\ FibersShape'
  <1> DEFINE in == {i \in 1 .. Len(frames) - 1 : frames[i].fiber # NoFiber}
  <1>1. Len(frames) \in Nat /\ DOMAIN frames = 1 .. Len(frames)
    BY TopShape
  <1>2. CASE in = {}
    <2>1. status' = "halted" /\ UNCHANGED <<frames, fibers>>
      BY <1>2 DEF Unwind
    <2> QED
      BY <2>1, FibersKept DEF Stops
  <1>3. CASE in # {}
    <2>1. PICK k \in in :
            /\ frames' = SubSeq(frames, 1, k - 1) /\ UNCHANGED status
            /\ fibers' = [fibers EXCEPT ![frames[k].fiber] =
                            Saved(fibers[frames[k].fiber], frames[k].ip, frames[k].reg,
                                  fibers[frames[k].fiber].done)]
      BY <1>3 DEF Unwind
    <2> DEFINE fb == Saved(fibers[frames[k].fiber], frames[k].ip, frames[k].reg,
                           fibers[frames[k].fiber].done)
    <2>2. /\ frames' = SubSeq(frames, 1, k - 1) /\ UNCHANGED status
          /\ fibers' = [fibers EXCEPT ![frames[k].fiber] = fb]
      BY <2>1
    <2>3. k \in DOMAIN frames /\ frames[k].fiber # NoFiber /\ k <= Len(frames) - 1
      BY <1>1, <2>1
    <2>4. k > 1 /\ FrameShape(frames[k])
      BY <2>3, FiberAbove DEF Shape, FramesShape
    <2>5. k - 1 \in 1 .. Len(frames) - 1
      BY <1>1, <2>3, <2>4
    <2>6. Leaves
      BY <2>2, <2>5, PrefixLeaves
    <2>7. FibersShape'
      <3>1. CASE frames[k].fiber \in DOMAIN fibers
        <4>1. FiberShape(fibers[frames[k].fiber])
          BY <3>1 DEF Shape, FibersShape
        <4>2. FiberShape(fb)
          BY <4>1, <2>4 DEF FiberShape, FrameShape, Saved
        <4> HIDE DEF fb
        <4> QED
          BY <2>2, <4>2, OneFiberKept
      <3>2. CASE frames[k].fiber \notin DOMAIN fibers
        <4>1. IsFun(fibers)
          BY SeqFacts DEF Shape, FibersShape
        <4>2. fibers' = fibers
          BY <2>2, <3>2, <4>1 DEF IsFun
        <4> QED
          BY <4>2, FibersKept
      <3> QED
        BY <3>1, <3>2
    <2> QED
      BY <2>6, <2>7
  <1> QED
    BY <1>2, <1>3

LEMMA LeaveCallForms ==
  ASSUME Shape, status = "running", UNCHANGED chunks, NEW v, NEW error, NEW last \in {"ended", "halted"},
         LeaveCall(v, error, last)
  PROVE  (Leaves \/ Stops) /\ FibersShape'
  <1>0. Len(frames) \in Nat /\ Len(frames) > 0
    BY TopShape DEF Shape, FramesShape
  <1>a. Len(frames) # 1 => Len(frames) > 1
    <2> DEFINE n == Len(frames)
    <2>1. n \in Nat /\ n > 0
      BY <1>0
    <2> HIDE DEF n
    <2>2. n # 1 => n > 1
      BY <2>1
    <2> QED
      BY <2>2 DEF n
  <1>1. CASE status' = last /\ UNCHANGED <<frames, fibers>>
    BY <1>1, FibersKept DEF Stops
  <1>2. CASE Len(frames) # 1 /\ Unwind(Len(frames) - 1)
    <2>1. Len(frames) > 1
      BY <1>a, <1>2
    <2> QED
      BY <1>2, <2>1, UnwindForms
  <1>3. CASE /\ Len(frames) # 1
             /\ frames' = Append(SubSeq(frames, 1, Len(frames) - 2),
                                 [Caller EXCEPT !.reg = [@ EXCEPT ![Top.dst] = v]])
             /\ UNCHANGED <<fibers, status>>
    <2>0. Len(frames) > 1
      BY <1>a, <1>3
    <2>1. DOMAIN frames = 1 .. Len(frames)
      BY TopShape
    <2>2. FrameShape(Caller)
      BY <1>0, <2>0, <2>1 DEF Shape, FramesShape, Caller
    <2> DEFINE reg == [Caller.reg EXCEPT ![Top.dst] = v]
    <2>3. IsFun(reg)
      BY DEF IsFun
    <2>4. frames' = Append(SubSeq(frames, 1, Len(frames) - 2), [Caller EXCEPT !.reg = reg])
      BY <1>3
    <2> HIDE DEF reg
    <2>5. Leaves
      BY <1>3, <2>0, <2>3, <2>4, PopLeaves
    <2> QED
      BY <1>3, <2>5, FibersKept
  <1>4. CASE status' = "panicked" /\ UNCHANGED <<frames, fibers>>
    BY <1>4, FibersKept DEF Stops
  <1> QED
    BY <1>1, <1>2, <1>3, <1>4 DEF LeaveCall

LEMMA LeaveForms ==
  ASSUME Shape, status = "running",
         \/ \E value : LeaveWith(value)
         \/ \E counted : Running /\ Halt(counted)
         \/ RunOff
         \/ Yield
  PROVE  UNCHANGED chunks /\ (Leaves \/ Stops) /\ FibersShape'
  <1>0. Top.ip \in Nat /\ Len(Code) \in Nat /\ Next1 \in Nat
    BY TopShape DEF FrameShape, Next1
  <1>1. CASE \E value : LeaveWith(value)
    <2>1. PICK value : LeaveWith(value)
      BY <1>1
    <2>2. UNCHANGED chunks
      BY <2>1 DEF LeaveWith, Loaded
    <2>3. CASE Top.fiber # NoFiber /\ Suspend(Len(Code), TRUE, value)
      BY <2>2, <2>3, <1>0, SuspendLeaves
    <2>4. CASE LeaveCall(IF value = <<>> THEN Unset ELSE value[1], errors, "ended")
      BY <2>2, <2>4, LeaveCallForms
    <2> QED
      BY <2>1, <2>2, <2>3, <2>4 DEF LeaveWith
  <1>2. CASE \E counted : Running /\ Halt(counted)
    <2>1. PICK counted : Halt(counted)
      BY <1>2
    <2>2. UNCHANGED chunks
      BY <2>1 DEF Halt, Loaded
    <2>3. CASE Top.fiber # NoFiber /\ Suspend(Next1, FALSE, <<>>)
      BY <2>2, <2>3, <1>0, SuspendLeaves
    <2>4. CASE LeaveCall(Unset, errors \/ counted, "halted")
      BY <2>2, <2>4, LeaveCallForms
    <2> QED
      BY <2>1, <2>2, <2>3, <2>4 DEF Halt
  <1>3. CASE RunOff
    <2>2. UNCHANGED chunks
      BY <1>3 DEF RunOff, Loaded
    <2>3. CASE Top.fiber # NoFiber /\ Suspend(Top.ip, FALSE, <<>>)
      BY <2>2, <2>3, <1>0, SuspendLeaves
    <2>4. CASE LeaveCall(Unset, errors, "ended")
      BY <2>2, <2>4, LeaveCallForms
    <2> QED
      BY <1>3, <2>2, <2>3, <2>4 DEF RunOff
  <1>4. CASE Yield
    <2>1. UNCHANGED chunks /\ Top.fiber # NoFiber /\ Suspend(Next1, FALSE, <<R(Op.src)>>)
      BY <1>4 DEF Yield, Loaded
    <2> QED
      BY <2>1, <1>0, SuspendLeaves
  <1> QED
    BY <1>1, <1>2, <1>3, <1>4

-----------------------------------------------------------------------------
(* Every instruction takes one of the forms.                               *)

Forms == /\ UNCHANGED chunks /\ FibersShape'
         /\ Ahead \/ Pushes \/ Leaves \/ Stops

LEMMA AheadForms ==
  ASSUME Shape, Ahead, UNCHANGED <<chunks, fibers>>
  PROVE  Forms
  BY FibersKept DEF Forms

LEMMA HaltForms ==
  ASSUME Shape, Running, NEW counted, Halt(counted)
  PROVE  Forms
  BY LeaveForms DEF Forms, Running

LEMMA RestKept ==
  ASSUME UNCHANGED Rest
  PROVE  UNCHANGED <<chunks, fibers, status>>
  BY DEF Rest, Machine, Loaded

LEMMA WriteForms ==
  ASSUME Shape, Running, NEW v, Write(v), UNCHANGED <<chunks, fibers, status>>, Op.op \notin JumpOps
  PROVE  Forms
  BY Writes, AheadForms

LEMMA GoForms ==
  ASSUME Shape, Running, NEW ip \in Nat, NEW reg, IsFun(reg), Go(ip, reg),
         DOMAIN reg = DOMAIN Top.reg, ip <= Len(Code),
         UNCHANGED <<chunks, fibers, status>>,
         Op.op \notin JumpOps => ip = Next1,
         Op.op \in {"JumpIfFalse", "JumpIfTrue"} =>
           ip = IF Taken(R(Op.src)) = (Op.op = "JumpIfTrue") THEN Op.target ELSE Next1
  PROVE  Forms
  <1>1. Ahead
    BY Goes
  <1> QED
    BY <1>1, AheadForms

LEMMA GoOnForms ==
  ASSUME Shape, Running, NEW reg, IsFun(reg), Go(Next1, reg), DOMAIN reg = DOMAIN Top.reg,
         UNCHANGED <<chunks, fibers, status>>, Op.op \notin JumpOps
  PROVE  Forms
  <1>1. Ahead
    BY GoesOn
  <1> QED
    BY <1>1, AheadForms

LEMMA RegisterForms ==
  ASSUME Shape, LoadConst \/ Move \/ GetVar \/ SetVar \/ IncLocal \/ IncVar
  PROVE  Forms
  <1>0. IsFun(Top.reg)
    BY TopShape DEF FrameShape
  <1>1. CASE LoadConst
    <2>1. Running /\ Op.op \in {"LoadConst"} /\ Write(Op.v) /\ UNCHANGED Rest
      BY <1>1, Runnings DEF LoadConst
    <2> QED
      BY <2>1, RestKept, WriteForms DEF JumpOps, LoopOps
  <1>2. CASE Move
    <2>1. Running /\ Op.op \in {"Move"} /\ Write(R(Op.src)) /\ UNCHANGED Rest
      BY <1>2, Runnings DEF Move
    <2> QED
      BY <2>1, RestKept, WriteForms DEF JumpOps, LoopOps
  <1>3. CASE GetVar
    <2>1. Running /\ Op.op \in {"GetVar"} /\ Write(Global(Op.x)) /\ UNCHANGED Rest
      BY <1>3, Runnings DEF GetVar
    <2> QED
      BY <2>1, RestKept, WriteForms DEF JumpOps, LoopOps
  <1>4. CASE SetVar
    <2>1. Running /\ Op.op \in {"SetVar"} /\ Go(Next1, Top.reg)
      BY <1>4, Runnings DEF SetVar
    <2>2. UNCHANGED <<chunks, fibers, status>>
      BY <1>4 DEF SetVar, Machine, Loaded
    <2> QED
      BY <2>1, <2>2, <1>0, GoOnForms DEF JumpOps, LoopOps
  <1>5. CASE IncLocal
    <2> DEFINE reg == IF IsInt(R(Op.reg))
                      THEN [Top.reg EXCEPT ![Op.reg] = Incremented(@)] ELSE Top.reg
    <2>1. Running /\ Op.op \in {"IncLocal"} /\ Go(Next1, reg) /\ UNCHANGED Rest
      BY <1>5, Runnings DEF IncLocal
    <2>2. IsFun(reg) /\ DOMAIN reg = DOMAIN Top.reg
      BY <1>0 DEF IsFun
    <2> HIDE DEF reg
    <2> QED
      BY <2>1, <2>2, RestKept, GoOnForms DEF JumpOps, LoopOps
  <1>6. CASE IncVar
    <2>1. Running /\ Op.op \in {"IncVar"} /\ Go(Next1, Top.reg)
      BY <1>6, Runnings DEF IncVar
    <2>2. UNCHANGED <<chunks, fibers, status>>
      BY <1>6 DEF IncVar, Machine, Loaded
    <2> QED
      BY <2>1, <2>2, <1>0, GoOnForms DEF JumpOps, LoopOps
  <1> QED
    BY <1>1, <1>2, <1>3, <1>4, <1>5, <1>6

LEMMA ComputeForms ==
  ASSUME Shape, Arithmetically \/ Comparison \/ AndOr \/ Not \/ IntConcat \/ CastFloat \/ PrintValue
  PROVE  Forms
  <1>0. IsFun(Top.reg)
    BY TopShape DEF FrameShape
  <1>1. CASE Arithmetically
    <2> DEFINE result == Arithmetic(Op.op, R(Op.src1), R(Op.src2))
    <2>1. Running /\ Op.op \in Arithmetics
      BY <1>1, Runnings DEF Arithmetically
    <2>2. Halt(FALSE) \/ (Write(result[1]) /\ UNCHANGED Rest)
      BY <1>1 DEF Arithmetically
    <2> HIDE DEF result
    <2>3. Op.op \notin JumpOps
      BY <2>1 DEF JumpOps, LoopOps, Arithmetics
    <2> QED
      BY <2>1, <2>2, <2>3, RestKept, WriteForms, HaltForms
  <1>2. CASE Comparison
    <2>1. /\ Running /\ Op.op \in Comparisons /\ UNCHANGED Rest
          /\ \E v : Write(v)
      BY <1>2, Runnings DEF Comparison
    <2> QED
      BY <2>1, RestKept, WriteForms DEF JumpOps, LoopOps, Comparisons
  <1>3. CASE AndOr
    <2>1. /\ Running /\ Op.op \in {"And", "Or"} /\ UNCHANGED Rest
          /\ \E v : Write(v)
      BY <1>3, Runnings DEF AndOr
    <2> QED
      BY <2>1, RestKept, WriteForms DEF JumpOps, LoopOps
  <1>4. CASE Not
    <2>1. /\ Running /\ Op.op \in {"Not"} /\ UNCHANGED Rest
          /\ \E v : Write(v)
      BY <1>4, Runnings DEF Not
    <2> QED
      BY <2>1, RestKept, WriteForms DEF JumpOps, LoopOps
  <1>5. CASE IntConcat
    <2>1. /\ Running /\ Op.op \in {"IntConcat"} /\ UNCHANGED Rest
          /\ \E v : Write(v)
      BY <1>5, Runnings DEF IntConcat
    <2> QED
      BY <2>1, RestKept, WriteForms DEF JumpOps, LoopOps
  <1>6. CASE CastFloat
    <2>1. /\ Running /\ Op.op \in {"CastFloat"} /\ UNCHANGED Rest
          /\ \E v : Write(v)
      BY <1>6, Runnings DEF CastFloat
    <2> QED
      BY <2>1, RestKept, WriteForms DEF JumpOps, LoopOps
  <1>7. CASE PrintValue
    <2>1. Running /\ Op.op \in {"Print"} /\ Go(Next1, Top.reg)
      BY <1>7, Runnings DEF PrintValue
    <2>2. UNCHANGED <<chunks, fibers, status>>
      BY <1>7 DEF PrintValue, Machine, Loaded
    <2> QED
      BY <2>1, <2>2, <1>0, GoOnForms DEF JumpOps, LoopOps
  <1> QED
    BY <1>1, <1>2, <1>3, <1>4, <1>5, <1>6, <1>7

LEMMA JumpForms ==
  ASSUME Shape, Jump \/ JumpIf \/ LoopNext \/ IncLocalLoopNext \/ IncVarLoopNext \/ ArrayLoopNext
  PROVE  Forms
  <1>0. IsFun(Top.reg) /\ Next1 \in Nat /\ Len(Code) \in Nat
    BY TopShape DEF FrameShape, Next1
  <1>01. Running => Next1 <= Len(Code)
    BY TopShape DEF FrameShape, Next1, Running
  <1>00. Running /\ Op.op \in JumpOps => Op.target \in Nat /\ Op.target <= Len(Code)
    BY OpShape DEF Running, Operated
  <1>1. CASE Jump
    <2>1. Running /\ Op.op \in {"Jump"} /\ Go(Op.target, Top.reg) /\ UNCHANGED Rest
      BY <1>1, Runnings DEF Jump
    <2>2. Op.target \in Nat /\ Op.target <= Len(Code)
      BY <2>1, <1>00 DEF JumpOps, LoopOps
    <2> QED
      BY <2>1, <2>2, <1>0, RestKept, GoForms DEF JumpOps, LoopOps
  <1>2. CASE JumpIf
    <2> DEFINE ip == IF Taken(R(Op.src)) = (Op.op = "JumpIfTrue") THEN Op.target ELSE Next1
    <2>1. Running /\ Op.op \in {"JumpIfFalse", "JumpIfTrue"} /\ Go(ip, Top.reg) /\ UNCHANGED Rest
      BY <1>2, Runnings DEF JumpIf
    <2>2. Op.target \in Nat /\ Op.target <= Len(Code)
      BY <2>1, <1>00 DEF JumpOps, LoopOps
    <2>3. ip \in Nat /\ ip <= Len(Code)
      BY <2>1, <2>2, <1>0, <1>01
    <2>4. Op.op \in JumpOps
      BY <2>1 DEF JumpOps, LoopOps
    <2> QED
      BY <2>1, <2>3, <2>4, <1>0, RestKept, GoForms
  <1>3. ASSUME Running, Op.op \in JumpOps \ {"JumpIfFalse", "JumpIfTrue"},
               NEW n, NEW limit, NEW reg, IsFun(reg), Go(Around(n, limit), reg),
               DOMAIN reg = DOMAIN Top.reg,
               UNCHANGED <<chunks, fibers, status>>
        PROVE  Forms
    <2>1. Around(n, limit) \in Nat /\ Around(n, limit) <= Len(Code)
      BY <1>0, <1>00, <1>01, <1>3 DEF Around
    <2> QED
      BY <2>1, <1>3, GoForms
  <1>4. CASE LoopNext
    <2> DEFINE reg == [Top.reg EXCEPT ![Op.reg] = Incremented(@)]
    <2>1. Running /\ Op.op \in {"LoopNext"}
      BY <1>4, Runnings DEF LoopNext
    <2>2. \/ Go(Around(R(Op.reg).n + 1, R(Op.limit).n), reg) /\ UNCHANGED Rest
          \/ Halt(FALSE)
      BY <1>4 DEF LoopNext
    <2>3. IsFun(reg) /\ DOMAIN reg = DOMAIN Top.reg
      BY DEF IsFun
    <2> HIDE DEF reg
    <2>4. Op.op \in JumpOps \ {"JumpIfFalse", "JumpIfTrue"}
      BY <2>1 DEF JumpOps, LoopOps
    <2> QED
      BY <2>1, <2>2, <2>3, <2>4, <1>3, RestKept, HaltForms
  <1>5. CASE IncLocalLoopNext
    <2> DEFINE reg == [[Top.reg EXCEPT ![Op.reg] = Incremented(@)] EXCEPT ![Op.inc] = Incremented(@)]
    <2>1. Running /\ Op.op \in {"IncLocalLoopNext"} /\ UNCHANGED Rest
      BY <1>5, Runnings DEF IncLocalLoopNext
    <2>2. Go(Around(R(Op.reg).n + 1, AsInt(R(Op.limit))), reg) \/ Go(Next1, Top.reg)
      BY <1>5 DEF IncLocalLoopNext
    <2>3. IsFun(reg) /\ DOMAIN reg = DOMAIN Top.reg
      BY DEF IsFun
    <2> HIDE DEF reg
    <2>4. Op.op \in JumpOps \ {"JumpIfFalse", "JumpIfTrue"}
      BY <2>1 DEF JumpOps, LoopOps
    <2>5. CASE Go(Next1, Top.reg)
      BY <2>1, <2>4, <2>5, <1>0, <1>01, RestKept, GoForms
    <2>6. CASE Go(Around(R(Op.reg).n + 1, AsInt(R(Op.limit))), reg)
      BY <2>1, <2>3, <2>4, <2>6, <1>3, RestKept
    <2> QED
      BY <2>2, <2>5, <2>6
  <1>6. CASE IncVarLoopNext
    <2> DEFINE reg == [Top.reg EXCEPT ![Op.reg] = Incremented(@)]
    <2>1. Running /\ Op.op \in {"IncVarLoopNext"}
      BY <1>6, Runnings DEF IncVarLoopNext
    <2>2. Go(Around(R(Op.reg).n + 1, AsInt(R(Op.limit))), reg) \/ Go(Next1, Top.reg)
      BY <1>6 DEF IncVarLoopNext
    <2>3. IsFun(reg) /\ DOMAIN reg = DOMAIN Top.reg
      BY DEF IsFun
    <2> HIDE DEF reg
    <2>4. Op.op \in JumpOps \ {"JumpIfFalse", "JumpIfTrue"}
      BY <2>1 DEF JumpOps, LoopOps
    <2>7. UNCHANGED <<chunks, fibers, status>>
      BY <1>6 DEF IncVarLoopNext, Machine, Loaded
    <2>5. CASE Go(Next1, Top.reg)
      BY <2>1, <2>4, <2>5, <2>7, <1>0, <1>01, GoForms
    <2>6. CASE Go(Around(R(Op.reg).n + 1, AsInt(R(Op.limit))), reg)
      BY <2>1, <2>3, <2>4, <2>6, <2>7, <1>3
    <2> QED
      BY <2>2, <2>5, <2>6
  <1>7. CASE ArrayLoopNext
    <2> DEFINE n   == R(Op.idx).n + 1
               ip  == IF n < R(Op.size).n THEN Op.target ELSE Next1
               reg == [Top.reg EXCEPT ![Op.idx] = IntValue(n)]
    <2>1. Running /\ Op.op \in {"ArrayLoopNext"} /\ UNCHANGED Rest
      BY <1>7, Runnings DEF ArrayLoopNext
    <2>2. Go(ip, reg) \/ Go(Next1, Top.reg)
      BY <1>7 DEF ArrayLoopNext
    <2>3. IsFun(reg) /\ DOMAIN reg = DOMAIN Top.reg
      BY DEF IsFun
    <2>4. Op.op \in JumpOps \ {"JumpIfFalse", "JumpIfTrue"}
      BY <2>1 DEF JumpOps, LoopOps
    <2>7. ip \in Nat /\ ip <= Len(Code)
      BY <2>1, <2>4, <1>0, <1>00, <1>01
    <2> HIDE DEF reg, ip, n
    <2>5. CASE Go(Next1, Top.reg)
      BY <2>1, <2>4, <2>5, <1>0, <1>01, RestKept, GoForms
    <2>6. CASE Go(ip, reg)
      BY <2>1, <2>3, <2>4, <2>6, <2>7, RestKept, GoForms
    <2> QED
      BY <2>2, <2>5, <2>6
  <1> QED
    BY <1>1, <1>2, <1>4, <1>5, <1>6, <1>7

LEMMA OnFacts ==
  ASSUME NEW types, NEW methods, On(types, methods)
  PROVE  Running /\ Op.op = "MethodCall" /\ Op.op \notin JumpOps /\ Op.m \in methods
         /\ Receiver.t \in types
  BY Runnings DEF On, JumpOps, LoopOps

LEMMA CollectionForms ==
  ASSUME Shape, Collect \/ Values \/ Size \/ HasMember \/ Get \/ Push \/ Update
  PROVE  Forms
  <1>1. ASSUME Running, Op.op \notin JumpOps, NEW type, NEW elements, Make(type, elements)
        PROVE  Forms
    <2>1. UNCHANGED <<chunks, fibers, status>> /\ \E v : Write(v)
      BY <1>1 DEF Make, Machine, Loaded
    <2> QED
      BY <1>1, <2>1, WriteForms
  <1>2. ASSUME Running, Op.op \notin JumpOps, NEW elements, Store(elements)
        PROVE  Forms
    <2>1. UNCHANGED <<chunks, fibers, status>> /\ \E v : Write(v)
      BY <1>2 DEF Store, Machine, Loaded
    <2> QED
      BY <1>2, <2>1, WriteForms
  <1>3. CASE Collect
    <2>1. Running /\ Op.op \in {"ArrayInit", "SetInit"}
      BY <1>3, Runnings DEF Collect
    <2>2. \E type, elements : Make(type, elements)
      BY <1>3 DEF Collect
    <2>3. Op.op \notin JumpOps
      BY <2>1 DEF JumpOps, LoopOps
    <2> QED
      BY <2>1, <2>2, <2>3, <1>1
  <1>4. CASE Values
    BY <1>4, <1>1, OnFacts DEF Values
  <1>5. CASE Size
    <2>1. Running /\ Op.op \notin JumpOps /\ UNCHANGED Rest /\ \E v : Write(v)
      BY <1>5, OnFacts DEF Size
    <2> QED
      BY <2>1, RestKept, WriteForms
  <1>6. CASE HasMember
    <2>1. Running /\ Op.op \notin JumpOps /\ UNCHANGED Rest /\ \E v : Write(v)
      BY <1>6, OnFacts DEF HasMember
    <2> QED
      BY <2>1, RestKept, WriteForms
  <1>7. CASE Get
    <2>1. Running /\ Op.op \notin JumpOps
      BY <1>7, OnFacts DEF Get
    <2>2. Halt(TRUE) \/ (UNCHANGED Rest /\ \E v : Write(v))
      BY <1>7 DEF Get
    <2> QED
      BY <2>1, <2>2, RestKept, WriteForms, HaltForms
  <1>8. CASE Push
    BY <1>8, <1>2, OnFacts DEF Push
  <1>9. CASE Update
    <2>1. Running /\ Op.op \notin JumpOps
      BY <1>9, OnFacts DEF Update
    <2>2. \/ Halt(TRUE) \/ (UNCHANGED Rest /\ \E v : Write(v))
          \/ \E elements : Store(elements)
      BY <1>9 DEF Update
    <2> QED
      BY <2>1, <2>2, <1>2, RestKept, WriteForms, HaltForms
  <1> QED
    BY <1>3, <1>4, <1>5, <1>6, <1>7, <1>8, <1>9

(* Records with fields replaced.                                           *)
LEMMA FrameExcept ==
  ASSUME NEW fr, FrameShape(fr), NEW ip, NEW reg
  PROVE  [fr EXCEPT !.ip = ip, !.reg = reg] =
           [f |-> fr.f, ip |-> ip, dst |-> fr.dst, fiber |-> fr.fiber, reg |-> reg]
  <1>1. PICK a, b, c, d, e : fr = [f |-> a, ip |-> b, dst |-> c, fiber |-> d, reg |-> e]
    BY DEF FrameShape
  <1> DEFINE old == [f |-> a, ip |-> b, dst |-> c, fiber |-> d, reg |-> e]
             new == [f |-> a, ip |-> ip, dst |-> c, fiber |-> d, reg |-> reg]
             got == [old EXCEPT !.ip = ip, !.reg = reg]
  <1>2. DOMAIN got = DOMAIN new /\ DOMAIN new = {"f", "ip", "dst", "fiber", "reg"}
    OBVIOUS
  <1>3. got["f"] = a /\ got["ip"] = ip /\ got["dst"] = c /\ got["fiber"] = d /\ got["reg"] = reg
    OBVIOUS
  <1>4. got = [x \in DOMAIN got |-> got[x]] /\ new = [x \in DOMAIN new |-> new[x]]
    OBVIOUS
  <1>5. new["f"] = a /\ new["ip"] = ip /\ new["dst"] = c /\ new["fiber"] = d /\ new["reg"] = reg
    OBVIOUS
  <1>6. got = new
    <2> HIDE DEF got, new
    <2> QED
      BY <1>2, <1>3, <1>4, <1>5
  <1> QED
    BY <1>1, <1>6

(* A call or a resumption puts a frame on top.                             *)
LEMMA PushForms ==
  ASSUME Shape, Running,
         Op.op = "Call" \/ (Op.op = "MethodCall" /\ Op.m = "next" /\ Receiver.t = "fiber"),
         NEW fr, FrameShape(fr), UNCHANGED <<chunks, status>>, FibersShape',
         frames' = Append([frames EXCEPT ![Len(frames)].ip = Next1], fr)
  PROVE  Forms
  BY DEF Forms, Pushes, Running

LEMMA LocalsFacts ==
  ASSUME NEW args, NEW size
  PROVE  IsFun(Locals(args, size))
  BY DEF IsFun, Locals

LEMMA CallForms ==
  ASSUME Shape, Call
  PROVE  Forms
  <1>1. Running /\ Op.op \in {"Call"} /\ UNCHANGED Rest
    BY Runnings DEF Call
  <1>2. Op.f \in DOMAIN chunks
    BY <1>1, OpShape DEF Running
  <1> DEFINE fr == Frame(Op.f, chunks[Op.f], Operands, Op.dst)
  <1>3. FrameShape(fr)
    BY <1>2, LocalsFacts DEF FrameShape, Frame
  <1>4. frames' = Append([frames EXCEPT ![Len(frames)].ip = Next1], fr)
    BY DEF Call
  <1> HIDE DEF fr
  <1> QED
    BY <1>1, <1>3, <1>4, RestKept, FibersKept, PushForms

LEMMA FiberForms ==
  ASSUME Shape, FiberCreate \/ IsDone \/ Close \/ NextValue
  PROVE  Forms
  <1>0. IsSeq(fibers) /\ DOMAIN fibers = 1 .. Len(fibers) /\ IsFun(fibers)
        /\ \A i \in DOMAIN fibers : FiberShape(fibers[i])
    BY SeqFacts DEF Shape, FibersShape
  <1>1. CASE FiberCreate
    <2> DEFINE fb == [f |-> Op.f, ip |-> 0, done |-> FALSE,
                      reg |-> Locals(Operands, chunks[Op.f].max)]
    <2>1. Running /\ Op.op \in {"FiberCreate"}
      BY <1>1, Runnings DEF FiberCreate
    <2>2. Op.f \in DOMAIN chunks
      BY <2>1, OpShape DEF Running
    <2>3. FiberShape(fb)
      BY <2>2, LocalsFacts DEF FiberShape
    <2>4. fibers' = Append(fibers, fb) /\ UNCHANGED <<chunks, status>> /\ \E v : Write(v)
      BY <1>1 DEF FiberCreate, Machine, Loaded
    <2> HIDE DEF fb
    <2>5. IsSeq(Append(fibers, fb)) /\ Len(Append(fibers, fb)) = Len(fibers) + 1
          /\ Append(fibers, fb)[Len(fibers) + 1] = fb
          /\ \A i \in 1 .. Len(fibers) : Append(fibers, fb)[i] = fibers[i]
      BY <1>0, SeqAppend
    <2>6. IsSeq(fibers') /\ DOMAIN fibers' = 1 .. Len(fibers) + 1
      BY <2>4, <2>5, SeqFacts
    <2>7. Len(fibers) \in Nat
      BY <1>0, SeqFacts
    <2>8. ASSUME NEW i \in DOMAIN fibers'
          PROVE  FiberShape(fibers'[i])
      BY <1>0, <2>3, <2>4, <2>5, <2>6, <2>7, <2>8
    <2>9. FibersShape'
      BY <2>4, <2>6, <2>8 DEF FibersShape, FiberShape
    <2>10. Ahead
      BY <2>1, <2>4, Writes DEF JumpOps, LoopOps
    <2> QED
      BY <2>4, <2>9, <2>10 DEF Forms
  <1>2. CASE IsDone
    <2>1. Running /\ Op.op \notin JumpOps /\ UNCHANGED Rest /\ \E v : Write(v)
      BY <1>2, OnFacts DEF IsDone
    <2> QED
      BY <2>1, RestKept, WriteForms
  <1>3. CASE Close
    <2>1. Running /\ Op.op \notin JumpOps
      BY <1>3, OnFacts DEF Close
    <2>2. UNCHANGED <<chunks, status>> /\ \E v : Write(v)
      BY <1>3 DEF Close, Machine, Loaded
    <2> DEFINE fb == Saved(fibers[Receiver.n], fibers[Receiver.n].ip, fibers[Receiver.n].reg, TRUE)
    <2>3. fibers' = [fibers EXCEPT ![Receiver.n] = fb]
      BY <1>3 DEF Close
    <2>4. FibersShape'
      <3>1. CASE Receiver.n \in DOMAIN fibers
        <4>1. FiberShape(fibers[Receiver.n])
          BY <1>0, <3>1
        <4>2. FiberShape(fb)
          BY <4>1 DEF FiberShape, Saved
        <4> HIDE DEF fb
        <4> QED
          BY <2>2, <2>3, <4>2, OneFiberKept
      <3>2. CASE Receiver.n \notin DOMAIN fibers
        <4>1. fibers' = fibers
          BY <1>0, <2>3, <3>2 DEF IsFun
        <4> QED
          BY <2>2, <4>1, FibersKept
      <3> QED
        BY <3>1, <3>2
    <2>5. Ahead
      BY <2>1, <2>2, Writes
    <2> QED
      BY <2>2, <2>4, <2>5 DEF Forms
  <1>4. CASE NextValue
    <2>1. Running /\ Op.op \notin JumpOps /\ Op.op = "MethodCall" /\ Op.m = "next" /\ Receiver.t = "fiber"
      BY <1>4, OnFacts DEF NextValue
    <2>2. UNCHANGED <<chunks, status>>
      BY <1>4 DEF NextValue, Machine, Loaded
    <2>3. PICK id \in DOMAIN fibers :
            \/ Write(Unset) /\ UNCHANGED fibers
            \/ /\ frames' = Append([frames EXCEPT ![Len(frames)].ip = Next1],
                                   [f |-> fibers[id].f, ip |-> fibers[id].ip, dst |-> Op.dst,
                                    fiber |-> id, reg |-> fibers[id].reg])
               /\ fibers' = [fibers EXCEPT ![id].reg = <<>>]
      BY <1>4 DEF NextValue
    <2>4. CASE Write(Unset) /\ UNCHANGED fibers
      BY <2>1, <2>2, <2>4, WriteForms
    <2>5. CASE /\ frames' = Append([frames EXCEPT ![Len(frames)].ip = Next1],
                                   [f |-> fibers[id].f, ip |-> fibers[id].ip, dst |-> Op.dst,
                                    fiber |-> id, reg |-> fibers[id].reg])
               /\ fibers' = [fibers EXCEPT ![id].reg = <<>>]
      <3> DEFINE fr == [f |-> fibers[id].f, ip |-> fibers[id].ip, dst |-> Op.dst,
                        fiber |-> id, reg |-> fibers[id].reg]
                 fb == [fibers[id] EXCEPT !.reg = <<>>]
      <3>1. FiberShape(fibers[id])
        BY <1>0
      <3>2. FrameShape(fr)
        BY <3>1 DEF FrameShape, FiberShape
      <3>3. IsFun(<<>>)
        BY DEF IsFun
      <3>4. FiberShape(fb)
        BY <3>1, <3>3 DEF FiberShape
      <3>5. fibers' = [fibers EXCEPT ![id] = fb]
        BY <2>5
      <3>6. frames' = Append([frames EXCEPT ![Len(frames)].ip = Next1], fr)
        BY <2>5
      <3> HIDE DEF fr, fb
      <3>7. FibersShape'
        BY <2>2, <3>4, <3>5, OneFiberKept
      <3> QED
        BY <2>1, <2>2, <3>2, <3>6, <3>7, PushForms
    <2> QED
      BY <2>3, <2>4, <2>5
  <1> QED
    BY <1>1, <1>2, <1>3, <1>4

LEMMA NextForms ==
  ASSUME Shape, Next
  PROVE  Forms
  <1>1. CASE ReturnOp \/ ReturnVoid
    BY <1>1, LeaveForms DEF ReturnOp, ReturnVoid, Runs, Forms
  <1>2. CASE RunOff
    BY <1>2, LeaveForms DEF RunOff, Forms
  <1>3. CASE Yield
    BY <1>3, LeaveForms DEF Yield, Runs, Forms
  <1>4. CASE NoMethod
    <2>1. Running /\ Halt(FALSE)
      BY <1>4, Runnings DEF NoMethod
    <2> QED
      BY <2>1, HaltForms
  <1>5. CASE Panic
    <2>1. Stops /\ UNCHANGED <<chunks, fibers>>
      BY <1>5 DEF Panic, Stops, Loaded
    <2> QED
      BY <2>1, FibersKept DEF Forms
  <1> QED
    BY <1>1, <1>2, <1>3, <1>4, <1>5, RegisterForms, ComputeForms, JumpForms, CollectionForms,
       CallForms, FiberForms DEF Next

-----------------------------------------------------------------------------
(* The shape is an invariant.                                              *)

LEMMA InitShape ==
  ASSUME Init
  PROVE  Shape
  <1>1. PICK p \in Programs : /\ chunks = Compiled(p) /\ fibers = <<>>
                              /\ frames = <<Frame("main", chunks["main"], <<>>, 0)>>
    BY DEF Init
  <1>2. WellFormed(chunks) /\ "main" \in DOMAIN chunks
    BY <1>1, CompiledAssumption DEF WellFormed
  <1> DEFINE fr == Frame("main", chunks["main"], <<>>, 0)
  <1>3. FrameShape(fr) /\ fr.fiber = NoFiber
    BY <1>2, LocalsFacts DEF FrameShape, Frame
  <1> HIDE DEF fr
  <1>4. frames = <<fr>>
    BY <1>1 DEF fr
  <1>5. frames \in Seq({fr}) /\ Len(frames) = 1 /\ frames[1] = fr /\ DOMAIN frames = {1}
    BY <1>4
  <1>6. FramesShape
    BY <1>3, <1>5 DEF FramesShape, IsSeq
  <1>7. fibers \in Seq({}) /\ DOMAIN fibers = {}
    BY <1>1
  <1> QED
    BY <1>2, <1>6, <1>7 DEF Shape, FibersShape, IsSeq

LEMMA AheadFrames ==
  ASSUME Shape, UNCHANGED chunks, NEW ip \in Nat, NEW reg, IsFun(reg), Go(ip, reg)
  PROVE  /\ FramesShape' /\ Len(frames') = Len(frames) /\ DOMAIN frames' = DOMAIN frames
         /\ \A i \in DOMAIN frames : i # Len(frames) => frames'[i] = frames[i]
         /\ Top' = [f |-> Top.f, ip |-> ip, dst |-> Top.dst, fiber |-> Top.fiber, reg |-> reg]
  <1>0. /\ Len(frames) \in Nat /\ DOMAIN frames = 1 .. Len(frames) /\ Len(frames) \in DOMAIN frames
        /\ FrameShape(Top) /\ Top = frames[Len(frames)] /\ IsSeq(frames) /\ frames[1].fiber = NoFiber
        /\ \A i \in DOMAIN frames : FrameShape(frames[i])
    BY TopShape DEF Shape, FramesShape
  <1> DEFINE fr == [f |-> Top.f, ip |-> ip, dst |-> Top.dst, fiber |-> Top.fiber, reg |-> reg]
  <1>1. FrameShape(fr) /\ fr.fiber = Top.fiber
    BY <1>0 DEF FrameShape
  <1>2. frames' = [frames EXCEPT ![Len(frames)] = fr]
    <2>1. [Top EXCEPT !.ip = ip, !.reg = reg] = fr
      BY <1>0, FrameExcept
    <2>2. frames' = [frames EXCEPT ![Len(frames)] = [Top EXCEPT !.ip = ip, !.reg = reg]]
      BY <1>0 DEF Go
    <2> QED
      BY <2>1, <2>2
  <1> HIDE DEF fr
  <1>3. /\ IsSeq(frames') /\ Len(frames') = Len(frames) /\ frames'[Len(frames)] = fr
        /\ \A i \in DOMAIN frames : i # Len(frames) => frames'[i] = frames[i]
    BY <1>0, <1>2, SeqExcept
  <1>4. DOMAIN frames' = DOMAIN frames
    BY <1>0, <1>3, SeqFacts
  <1>5. \A i \in DOMAIN frames' : FrameShape(frames'[i])
    BY <1>0, <1>1, <1>3, <1>4
  <1>6. frames'[1].fiber = NoFiber
    BY <1>0, <1>1, <1>3
  <1>7. FramesShape'
    BY <1>0, <1>3, <1>5, <1>6 DEF FramesShape, FrameShape
  <1>8. Top' = fr
    BY <1>0, <1>3 DEF Top
  <1> QED
    BY <1>3, <1>4, <1>7, <1>8 DEF fr

LEMMA PushFrames ==
  ASSUME Shape, UNCHANGED chunks, NEW fr, FrameShape(fr),
         frames' = Append([frames EXCEPT ![Len(frames)].ip = Next1], fr)
  PROVE  /\ FramesShape' /\ Len(frames') = Len(frames) + 1 /\ Top' = fr
         /\ DOMAIN frames' = 1 .. Len(frames) + 1
         /\ \A i \in DOMAIN frames : /\ SameActivation(frames'[i], frames[i])
                                    /\ frames'[i].reg = frames[i].reg
                                    /\ frames'[i].ip = IF i = Len(frames) THEN Next1 ELSE frames[i].ip
  <1>0. /\ Len(frames) \in Nat /\ DOMAIN frames = 1 .. Len(frames) /\ Len(frames) \in DOMAIN frames
        /\ FrameShape(Top) /\ Top = frames[Len(frames)] /\ IsSeq(frames) /\ frames[1].fiber = NoFiber
        /\ \A i \in DOMAIN frames : FrameShape(frames[i])
    BY TopShape DEF Shape, FramesShape
  <1> DEFINE c == [frames[Len(frames)] EXCEPT !.ip = Next1]
             s == [frames EXCEPT ![Len(frames)] = c]
  <1>1. FrameShape(c) /\ SameActivation(c, Top) /\ c.reg = Top.reg /\ c.ip = Next1
    BY <1>0 DEF FrameShape, Next1, SameActivation
  <1>2. frames' = Append(s, fr)
    OBVIOUS
  <1> HIDE DEF c
  <1>3. /\ IsSeq(s) /\ Len(s) = Len(frames) /\ s[Len(frames)] = c
        /\ \A i \in DOMAIN frames : i # Len(frames) => s[i] = frames[i]
    BY <1>0, SeqExcept
  <1> HIDE DEF s
  <1>4. /\ IsSeq(frames') /\ Len(frames') = Len(frames) + 1 /\ frames'[Len(frames) + 1] = fr
        /\ \A i \in DOMAIN frames : frames'[i] = s[i]
    <2>1. /\ IsSeq(Append(s, fr)) /\ Len(Append(s, fr)) = Len(s) + 1 /\ Append(s, fr)[Len(s) + 1] = fr
          /\ \A i \in 1 .. Len(s) : Append(s, fr)[i] = s[i]
      BY ONLY <1>3, SeqAppend
    <2> QED
      BY ONLY <1>0, <1>2, <1>3, <2>1
  <1>5. DOMAIN frames' = 1 .. Len(frames) + 1
    BY <1>4, SeqFacts
  <1>6. \A i \in DOMAIN frames : /\ FrameShape(frames'[i]) /\ SameActivation(frames'[i], frames[i])
                                 /\ frames'[i].reg = frames[i].reg
                                 /\ frames'[i].ip = IF i = Len(frames) THEN Next1 ELSE frames[i].ip
    BY <1>0, <1>1, <1>3, <1>4 DEF SameActivation
  <1>7. \A i \in DOMAIN frames' : FrameShape(frames'[i])
    <2>1. ASSUME NEW i \in DOMAIN frames'
          PROVE  FrameShape(frames'[i])
      <3>1. i \in DOMAIN frames \/ i = Len(frames) + 1
        BY <1>0, <1>5
      <3> QED
        BY <3>1, <1>4, <1>6
    <2> QED
      BY <2>1
  <1>8. FramesShape'
    <2>1. frames'[1].fiber = NoFiber /\ Len(frames') > 0
      <3>1. 1 \in DOMAIN frames
        BY <1>0
      <3>2. frames'[1].fiber = frames[1].fiber
        BY <3>1, <1>6 DEF SameActivation
      <3>3. Len(frames') > 0
        <4> DEFINE n == Len(frames)
        <4>1. n \in Nat /\ Len(frames') = n + 1
          BY <1>0, <1>4
        <4> HIDE DEF n
        <4> QED
          BY <4>1
      <3> QED
        BY <3>2, <3>3, <1>0
    <2> QED
      BY <2>1, <1>4, <1>7 DEF FramesShape, FrameShape
  <1> QED
    BY <1>4, <1>5, <1>6, <1>8 DEF Top

LEMMA ShapeKept ==
  ASSUME Shape, Forms
  PROVE  Shape'
  <1>1. CASE Ahead
    BY <1>1, AheadFrames DEF Ahead, Forms, Shape, WellFormed
  <1>2. CASE Pushes
    BY <1>2, PushFrames DEF Pushes, Forms, Shape, WellFormed
  <1>3. CASE Leaves
    <2>1. IsSeq(frames') /\ Len(frames') > 0 /\ DOMAIN frames' = 1 .. Len(frames')
      BY <1>3, SeqFacts DEF Leaves
    <2>2. frames'[1].fiber = NoFiber
      BY <1>3, <2>1 DEF Leaves, Shape, FramesShape, SameActivation
    <2> QED
      BY <1>3, <2>1, <2>2 DEF Leaves, Forms, Shape, FramesShape, FrameShape, WellFormed
  <1>4. CASE Stops
    BY <1>4 DEF Stops, Forms, Shape, FramesShape, FrameShape, WellFormed
  <1> QED
    BY <1>1, <1>2, <1>3, <1>4 DEF Forms

(* vm.rs trusts that every frame it goes on in is one of a function it was *)
(* given, at an address, with its registers: neither calls, nor fibers     *)
(* that give control back, nor frames that halt together leave it another. *)
THEOREM ShapeHolds == Spec => []Shape
  <1>1. Init => Shape
    BY InitShape
  <1>2. Shape /\ [Next]_vars => Shape'
    <2>1. CASE Next
      BY <2>1, NextForms, ShapeKept
    <2>2. CASE UNCHANGED vars
      BY <2>2 DEF vars, Shape, FramesShape, FrameShape, FibersShape, FiberShape, WellFormed
    <2> QED
      BY <2>1, <2>2
  <1> QED
    BY <1>1, <1>2, PTL DEF Spec

-----------------------------------------------------------------------------
(* Where the registers of an activation are.                               *)

(* Nothing that is known of a fiber changes but whether it is done; a new  *)
(* one has its registers.                                                  *)
SameFibers ==
  /\ DOMAIN fibers \subseteq DOMAIN fibers'
  /\ \A id \in DOMAIN fibers : /\ fibers'[id].f = fibers[id].f /\ fibers'[id].ip = fibers[id].ip
                               /\ DOMAIN fibers'[id].reg = DOMAIN fibers[id].reg
  /\ \A id \in DOMAIN fibers' \ DOMAIN fibers : InCode(fibers'[id]) /\ HasOwn(fibers'[id])

SameFrame(fr, old) == fr.f = old.f /\ fr.fiber = old.fiber /\ DOMAIN fr.reg = DOMAIN old.reg

LEMMA FiberIds ==
  ASSUME Shape
  PROVE  /\ IsFun(fibers) /\ DOMAIN fibers = 1 .. Len(fibers) /\ Len(fibers) \in Nat
         /\ \A id \in DOMAIN fibers : id # NoFiber /\ FiberShape(fibers[id])
  BY SeqFacts DEF Shape, FibersShape, NoFiber

(* Frames that run no fiber may come and go.                               *)
LEMMA FunctionsComeAndGo ==
  ASSUME Shape, ActivationsWhole, Shape', UNCHANGED chunks, SameFibers,
         \A i \in DOMAIN frames' :
           /\ frames'[i].ip <= Len(chunks[frames'[i].f].code)
           /\ i \in DOMAIN frames => SameFrame(frames'[i], frames[i])
           /\ i \notin DOMAIN frames => /\ frames'[i].fiber = NoFiber
                                        /\ Own(frames'[i].f) \subseteq DOMAIN frames'[i].reg,
         \A i \in DOMAIN frames : i \notin DOMAIN frames' => frames[i].fiber = NoFiber
  PROVE  ActivationsWhole'
  <1>1. ASSUME NEW i \in DOMAIN frames'
        PROVE  /\ InCode(frames[i])'
               /\ IF frames'[i].fiber = NoFiber THEN Own(frames[i].f)' \subseteq DOMAIN frames'[i].reg
                  ELSE frames'[i].fiber \in DOMAIN fibers' /\ fibers'[frames'[i].fiber].f = frames'[i].f
    <2>1. InCode(frames[i])'
      <3>1. frames'[i].f \in DOMAIN chunks /\ frames'[i].ip \in Nat
        BY DEF Shape, FramesShape, FrameShape
      <3>2. Len(chunks[frames'[i].f].code) \in Nat
        BY <3>1 DEF Shape, WellFormed
      <3> QED
        BY <3>1, <3>2 DEF InCode
    <2>2. CASE i \in DOMAIN frames
      BY <2>1, <2>2 DEF ActivationsWhole, SameFrame, SameFibers, Own
    <2>3. CASE i \notin DOMAIN frames
      BY <2>1, <2>3 DEF Own
    <2> QED
      BY <2>1, <2>2, <2>3
  <1>2. ASSUME NEW id, id # NoFiber
        PROVE  RunBy(id)' = RunBy(id)
    BY <1>2 DEF RunBy, SameFrame
  <1>3. ASSUME NEW id \in DOMAIN fibers'
        PROVE  InCode(fibers[id])' /\ InOnePlace(id)'
    <2>1. id # NoFiber /\ RunBy(id)' = RunBy(id)
      <3>1. IsSeq(fibers') /\ DOMAIN fibers' = 1 .. Len(fibers')
        BY SeqFacts DEF Shape, FibersShape
      <3>2. id # NoFiber
        BY <3>1 DEF NoFiber
      <3> QED
        BY <3>2, <1>2
    <2>2. CASE id \in DOMAIN fibers
      <3>1. /\ fibers'[id].f = fibers[id].f /\ fibers'[id].ip = fibers[id].ip
            /\ DOMAIN fibers'[id].reg = DOMAIN fibers[id].reg
        BY <2>2 DEF SameFibers
      <3>2. InCode(fibers[id]) /\ InOnePlace(id)
        BY <2>2 DEF ActivationsWhole
      <3>3. \A i \in RunBy(id) : SameFrame(frames'[i], frames[i])
        BY <2>1 DEF RunBy
      <3>4. InCode(fibers[id])'
        BY <3>1, <3>2 DEF InCode
      <3>5. InOnePlace(id)'
        BY <2>1, <3>1, <3>2, <3>3 DEF InOnePlace, HasOwn, Own, Empty, SameFrame
      <3> QED
        BY <3>4, <3>5
    <2>3. CASE id \notin DOMAIN fibers
      <3>1. RunBy(id) = {}
        BY <2>1, <2>3 DEF RunBy, ActivationsWhole
      <3>2. InCode(fibers'[id]) /\ HasOwn(fibers'[id])
        BY <2>3 DEF SameFibers
      <3> QED
        BY <2>1, <3>1, <3>2 DEF InCode, HasOwn, Own, InOnePlace
    <2> QED
      BY <2>2, <2>3
  <1> QED
    BY <1>1, <1>3 DEF ActivationsWhole

LEMMA GoIsAhead ==
  ASSUME Shape, Forms, status = "running", UNCHANGED status, NEW ip, NEW reg, Go(ip, reg)
  PROVE  Ahead
  <1>1. Len(frames) \in Nat /\ Len(frames) \in 1 .. Len(frames) /\ IsSeq(frames)
    BY TopShape DEF Shape, FramesShape
  <1>2. Len(frames') = Len(frames)
    <2> DEFINE fr == [frames[Len(frames)] EXCEPT !.ip = ip, !.reg = reg]
    <2>1. frames' = [frames EXCEPT ![Len(frames)] = fr]
      BY DEF Go
    <2> HIDE DEF fr
    <2> QED
      BY <1>1, <2>1, SeqExcept
  <1>3. ~Pushes
    <2>1. SUFFICES ASSUME Pushes PROVE FALSE
      OBVIOUS
    <2>2. Len(frames') = Len(frames) + 1
      BY <2>1, PushFrames DEF Pushes, Forms
    <2> QED
      BY <1>1, <1>2, <2>2
  <1>4. ~Leaves
    BY <1>1, <1>2 DEF Leaves
  <1>5. ~Stops
    BY DEF Stops
  <1> QED
    BY <1>3, <1>4, <1>5 DEF Forms

LEMMA AheadWhole ==
  ASSUME Shape, ActivationsWhole, Shape', UNCHANGED chunks, Ahead, SameFibers
  PROVE  ActivationsWhole'
  <1>1. PICK ip, reg : /\ ip \in Nat /\ IsFun(reg) /\ Go(ip, reg)
                       /\ DOMAIN reg = DOMAIN Top.reg /\ ip <= Len(Code)
    BY DEF Ahead
  <1>2. /\ DOMAIN frames' = DOMAIN frames
        /\ \A i \in DOMAIN frames : i # Len(frames) => frames'[i] = frames[i]
        /\ Top' = [f |-> Top.f, ip |-> ip, dst |-> Top.dst, fiber |-> Top.fiber, reg |-> reg]
        /\ Len(frames') = Len(frames)
    BY <1>1, AheadFrames
  <1>3. Top' = frames'[Len(frames)] /\ Top = frames[Len(frames)]
    BY <1>2 DEF Top
  <1>4. ASSUME NEW i \in DOMAIN frames'
        PROVE  SameFrame(frames'[i], frames[i]) /\ frames'[i].ip <= Len(chunks[frames'[i].f].code)
    <2>1. CASE i = Len(frames)
      BY <1>1, <1>2, <1>3, <2>1 DEF SameFrame, Code
    <2>2. CASE i # Len(frames)
      BY <1>2, <2>2 DEF SameFrame, ActivationsWhole, InCode
    <2> QED
      BY <2>1, <2>2
  <1> QED
    BY <1>2, <1>4, FunctionsComeAndGo

LEMMA StopWhole ==
  ASSUME ActivationsWhole, UNCHANGED <<chunks, frames, fibers>>
  PROVE  ActivationsWhole'
  BY DEF ActivationsWhole, InCode, InOnePlace, HasOwn, Own, Empty, RunBy

LEMMA Grown ==
  ASSUME Shape, ActivationsWhole, UNCHANGED chunks, Running, NEW fr, FrameShape(fr),
         frames' = Append([frames EXCEPT ![Len(frames)].ip = Next1], fr)
  PROVE  /\ Len(frames) \in Nat /\ DOMAIN frames = 1 .. Len(frames)
         /\ DOMAIN frames' = 1 .. Len(frames) + 1 /\ frames'[Len(frames) + 1] = fr
         /\ \A i \in DOMAIN frames : /\ SameFrame(frames'[i], frames[i])
                                     /\ frames'[i].ip <= Len(chunks[frames'[i].f].code)
  <1> DEFINE n == Len(frames)
  <1>1. /\ DOMAIN frames' = 1 .. n + 1 /\ frames'[n + 1] = fr
        /\ n \in Nat /\ DOMAIN frames = 1 .. n
        /\ \A i \in DOMAIN frames : /\ SameActivation(frames'[i], frames[i])
                                    /\ frames'[i].reg = frames[i].reg
                                    /\ frames'[i].ip = IF i = n THEN Next1 ELSE frames[i].ip
    BY PushFrames, TopShape DEF Top
  <1> HIDE DEF n
  <1>2. Next1 <= Len(Code)
    BY TopShape DEF Running, FrameShape, Next1
  <1>3. ASSUME NEW i \in DOMAIN frames
        PROVE  SameFrame(frames'[i], frames[i]) /\ frames'[i].ip <= Len(chunks[frames'[i].f].code)
    <2>1. CASE i = n
      BY <1>1, <1>2, <2>1 DEF SameActivation, SameFrame, Code, Top, n
    <2>2. CASE i # n
      BY <1>1, <2>2 DEF SameActivation, SameFrame, ActivationsWhole, InCode
    <2> QED
      BY <2>1, <2>2
  <1> QED
    BY <1>1, <1>3 DEF n

(* A function's frame is entered with as many registers as it needs.       *)
LEMMA CallWhole ==
  ASSUME Shape, ActivationsWhole, Shape', Call
  PROVE  ActivationsWhole'
  <1>1. Running /\ Op.op \in {"Call"} /\ UNCHANGED Rest
    BY Runnings DEF Call
  <1>2. Op.f \in DOMAIN chunks /\ Op.count \in Nat
    BY <1>1, OpShape DEF Running, Operated
  <1> DEFINE n  == Len(frames)
             fr == Frame(Op.f, chunks[Op.f], Operands, Op.dst)
  <1>3. FrameShape(fr)
    BY <1>2, LocalsFacts DEF FrameShape, Frame
  <1>4. fr.fiber = NoFiber /\ fr.ip = 0 /\ fr.f = Op.f
    BY DEF Frame
  <1>5. Own(Op.f) \subseteq DOMAIN fr.reg
    <2>1. Len(Operands) \in Nat
      <3> DEFINE S == {R(Op.base + i - 1) : i \in 1 .. Op.count}
      <3>1. Operands \in [1 .. Op.count -> S]
        BY DEF Operands
      <3> HIDE DEF S
      <3>2. Operands \in Seq(S)
        BY <3>1, <1>2, SeqDef
      <3> QED
        BY <3>2, LenProperties
    <2>2. chunks[Op.f].max \in Nat
      BY <1>2 DEF Shape, WellFormed
    <2> DEFINE size == Larger(chunks[Op.f].max, Len(Operands))
    <2>3. size \in Nat /\ chunks[Op.f].max <= size
      BY <2>1, <2>2 DEF Larger
    <2>4. DOMAIN fr.reg = 0 .. size - 1
      BY DEF Frame, Locals
    <2> HIDE DEF size, fr
    <2> QED
      BY <2>2, <2>3, <2>4 DEF Own
  <1>6. frames' = Append([frames EXCEPT ![Len(frames)].ip = Next1], fr)
    BY DEF Call
  <1>7. UNCHANGED <<chunks, fibers>>
    BY <1>1, RestKept
  <1> HIDE DEF fr
  <1>8. /\ DOMAIN frames' = 1 .. n + 1 /\ frames'[n + 1] = fr
        /\ n \in Nat /\ DOMAIN frames = 1 .. n
        /\ \A i \in DOMAIN frames : /\ SameFrame(frames'[i], frames[i])
                                    /\ frames'[i].ip <= Len(chunks[frames'[i].f].code)
    BY <1>1, <1>3, <1>6, <1>7, Grown
  <1> HIDE DEF n
  <1>9. SameFibers
    BY <1>7 DEF SameFibers
  <1>10. fr.ip <= Len(chunks[fr.f].code)
    BY <1>2, <1>4 DEF Shape, WellFormed
  <1>11. \A i \in DOMAIN frames' : i \in DOMAIN frames \/ i = n + 1
    BY <1>8
  <1>12. DOMAIN frames \subseteq DOMAIN frames' /\ n + 1 \notin DOMAIN frames
    BY <1>8
  <1> QED
    BY <1>4, <1>5, <1>7, <1>8, <1>9, <1>10, <1>11, <1>12, FunctionsComeAndGo

(* A fiber's registers go to the frame that runs it; if it runs already,   *)
(* its state has none to give.                                             *)
LEMMA ResumeWhole ==
  ASSUME Shape, ActivationsWhole, Shape', UNCHANGED chunks, Running, NEW id \in DOMAIN fibers,
         frames' = Append([frames EXCEPT ![Len(frames)].ip = Next1],
                          [f |-> fibers[id].f, ip |-> fibers[id].ip, dst |-> Op.dst,
                           fiber |-> id, reg |-> fibers[id].reg]),
         fibers' = [fibers EXCEPT ![id].reg = <<>>]
  PROVE  ActivationsWhole'
  <1>0. PICK m : m = Len(frames) + 1
    OBVIOUS
  <1> DEFINE fr == [f |-> fibers[id].f, ip |-> fibers[id].ip, dst |-> Op.dst,
                    fiber |-> id, reg |-> fibers[id].reg]
  <1>1. id # NoFiber /\ FiberShape(fibers[id]) /\ InCode(fibers[id]) /\ InOnePlace(id)
    BY FiberIds DEF ActivationsWhole
  <1>2. FrameShape(fr)
    BY <1>1 DEF FrameShape, FiberShape
  <1>3. /\ fr.f = fibers[id].f /\ fr.ip = fibers[id].ip /\ fr.fiber = id /\ fr.reg = fibers[id].reg
        /\ frames' = Append([frames EXCEPT ![Len(frames)].ip = Next1], fr)
    OBVIOUS
  <1> HIDE DEF fr
  <1>4. /\ DOMAIN frames' = 1 .. m /\ frames'[m] = fr
        /\ m \in Nat \ {0} /\ DOMAIN frames = 1 .. m - 1
        /\ \A i \in DOMAIN frames : /\ SameFrame(frames'[i], frames[i])
                                    /\ frames'[i].ip <= Len(chunks[frames'[i].f].code)
    BY <1>0, <1>2, <1>3, Grown
  <1>5. /\ DOMAIN fibers' = DOMAIN fibers /\ fibers'[id].f = fibers[id].f
        /\ fibers'[id].ip = fibers[id].ip /\ fibers'[id].reg = <<>>
        /\ \A x \in DOMAIN fibers : x # id => fibers'[x] = fibers[x]
    BY <1>1 DEF FiberShape
  <1>6. DOMAIN frames' = DOMAIN frames \cup {m} /\ m \notin DOMAIN frames
        /\ \A i \in DOMAIN frames : i < m
    BY <1>4
  <1>7. ASSUME NEW i \in DOMAIN frames'
        PROVE  /\ InCode(frames[i])'
               /\ IF frames'[i].fiber = NoFiber THEN Own(frames[i].f)' \subseteq DOMAIN frames'[i].reg
                  ELSE frames'[i].fiber \in DOMAIN fibers' /\ fibers'[frames'[i].fiber].f = frames'[i].f
    <2>1. CASE i \in DOMAIN frames
      <3>1. SameFrame(frames'[i], frames[i]) /\ frames'[i].ip <= Len(chunks[frames'[i].f].code)
        BY <1>4, <2>1
      <3>2. InCode(frames[i])'
        <4>1. frames'[i].ip \in Nat /\ frames[i].f \in DOMAIN chunks
          BY <2>1 DEF Shape, FramesShape, FrameShape
        <4>2. Len(chunks[frames'[i].f].code) \in Nat
          BY <4>1, <3>1 DEF Shape, WellFormed, SameFrame
        <4> QED
          BY <3>1, <4>1, <4>2 DEF InCode, SameFrame
      <3> QED
        BY <2>1, <3>1, <3>2, <1>5 DEF ActivationsWhole, SameFrame, Own
    <2>2. CASE i = m
      BY <1>1, <1>3, <1>4, <1>5, <2>2 DEF InCode
    <2> QED
      BY <1>6, <2>1, <2>2
  <1>8. ASSUME NEW x \in DOMAIN fibers, x # id
        PROVE  InCode(fibers[x])' /\ InOnePlace(x)'
    <2>1. x # NoFiber /\ InCode(fibers[x]) /\ InOnePlace(x)
      BY FiberIds DEF ActivationsWhole
    <2>2. RunBy(x)' = RunBy(x)
      BY <1>3, <1>4, <1>6, <1>8 DEF RunBy, SameFrame
    <2>3. \A i \in RunBy(x) : SameFrame(frames'[i], frames[i])
      BY <1>4 DEF RunBy
    <2>4. InCode(fibers[x])'
      BY <1>5, <1>8, <2>1 DEF InCode
    <2>5. fibers'[x] = fibers[x]
      BY <1>5, <1>8
    <2>6. CASE RunBy(x) = {}
      <3>1. HasOwn(fibers[x])
        BY <2>1, <2>6 DEF InOnePlace
      <3>2. HasOwn(fibers[x])'
        BY <2>5, <3>1 DEF HasOwn, Own
      <3> QED
        BY <2>2, <2>4, <2>6, <3>2 DEF InOnePlace
    <2>7. CASE RunBy(x) # {}
      <3>1. PICK i \in RunBy(x) : /\ HasOwn(frames[i])
                                  /\ \A j \in RunBy(x) \ {i} : j > i /\ Empty(frames[j])
        BY <2>1, <2>7 DEF InOnePlace
      <3>2. HasOwn(frames[i])' /\ \A j \in RunBy(x)' \ {i} : j > i /\ Empty(frames[j])'
        BY <2>2, <2>3, <3>1 DEF HasOwn, Own, Empty, SameFrame
      <3>3. Empty(fibers[x])'
        BY <2>1, <2>5, <2>7 DEF InOnePlace, Empty
      <3> QED
        BY <2>2, <2>4, <3>1, <3>2, <3>3 DEF InOnePlace
    <2> QED
      BY <2>4, <2>6, <2>7
  <1>9. InCode(fibers[id])' /\ InOnePlace(id)'
    <2>1. RunBy(id)' = RunBy(id) \cup {m} /\ m \notin RunBy(id)
      BY <1>3, <1>4, <1>6 DEF RunBy, SameFrame
    <2>2. Empty(fibers[id])'
      BY <1>5 DEF Empty
    <2>3. \A i \in RunBy(id) : SameFrame(frames'[i], frames[i]) /\ m > i
      BY <1>4, <1>6 DEF RunBy
    <2>6. InCode(fibers[id])'
      BY <1>1, <1>5 DEF InCode
    <2>4. CASE RunBy(id) = {}
      <3>1. HasOwn(frames[m])'
        BY <1>1, <1>3, <1>4, <2>4 DEF InOnePlace, HasOwn, Own
      <3> QED
        BY <2>1, <2>2, <2>4, <2>6, <3>1 DEF InOnePlace
    <2>5. CASE RunBy(id) # {}
      <3>1. PICK i \in RunBy(id) : /\ HasOwn(frames[i])
                                   /\ \A j \in RunBy(id) \ {i} : j > i /\ Empty(frames[j])
        BY <1>1, <2>5 DEF InOnePlace
      <3>2. HasOwn(frames[i])'
        BY <2>3, <3>1 DEF HasOwn, Own, SameFrame
      <3>3. ASSUME NEW j \in RunBy(id)', j # i
            PROVE  j > i /\ Empty(frames[j])'
        <4>1. CASE j \in RunBy(id)
          BY <2>3, <3>1, <3>3, <4>1 DEF Empty, SameFrame
        <4>2. CASE j = m
          BY <1>1, <1>3, <1>4, <2>3, <2>5, <4>2 DEF InOnePlace, Empty
        <4> QED
          BY <2>1, <4>1, <4>2
      <3> QED
        BY <2>1, <2>2, <2>6, <3>1, <3>2, <3>3 DEF InOnePlace
    <2> QED
      BY <2>4, <2>5
  <1> QED
    BY <1>5, <1>7, <1>8, <1>9 DEF ActivationsWhole

(* The innermost frame that runs a fiber gives back what registers it has. *)
LEMMA ReleaseWhole ==
  ASSUME Shape, ActivationsWhole, Shape', UNCHANGED chunks,
         NEW k \in DOMAIN frames, frames[k].fiber # NoFiber,
         \A j \in DOMAIN frames : j > k => frames[j].fiber = NoFiber,
         DOMAIN frames' = 1 .. k - 1,
         \A i \in DOMAIN frames' : SameFrame(frames'[i], frames[i]) /\ frames'[i].ip = frames[i].ip,
         NEW ip, ip \in 0 .. Len(chunks[frames[k].f].code), NEW done,
         fibers' = [fibers EXCEPT ![frames[k].fiber] =
                      Saved(fibers[frames[k].fiber], ip, frames[k].reg, done)]
  PROVE  ActivationsWhole'
  <1>1. PICK id : id = frames[k].fiber
    OBVIOUS
  <1>2. id \in DOMAIN fibers /\ fibers[id].f = frames[k].f /\ id # NoFiber
    BY <1>1 DEF ActivationsWhole
  <1>3. PICK reg : reg = frames[k].reg
    OBVIOUS
  <1>4. /\ DOMAIN fibers' = DOMAIN fibers /\ fibers'[id].f = fibers[id].f
        /\ fibers'[id].ip = ip /\ fibers'[id].reg = reg
        /\ \A x \in DOMAIN fibers : x # id => fibers'[x] = fibers[x]
    BY <1>1, <1>2, <1>3 DEF Saved
  <1>5. k \in Nat /\ DOMAIN frames = 1 .. Len(frames) /\ Len(frames) \in Nat
    BY TopShape
  <1>6. DOMAIN frames' \subseteq DOMAIN frames /\ k \notin DOMAIN frames'
        /\ \A i \in DOMAIN frames : i \in DOMAIN frames' \/ i = k \/ (i > k /\ i \notin DOMAIN frames')
    BY <1>5
  <1>7. ASSUME NEW i \in DOMAIN frames'
        PROVE  /\ InCode(frames[i])'
               /\ IF frames'[i].fiber = NoFiber THEN Own(frames[i].f)' \subseteq DOMAIN frames'[i].reg
                  ELSE frames'[i].fiber \in DOMAIN fibers' /\ fibers'[frames'[i].fiber].f = frames'[i].f
    BY <1>4, <1>6 DEF ActivationsWhole, InCode, Own, SameFrame
  <1>8. ASSUME NEW x \in DOMAIN fibers, x # id
        PROVE  InCode(fibers[x])' /\ InOnePlace(x)'
    <2>1. x # NoFiber /\ InCode(fibers[x]) /\ InOnePlace(x)
      BY FiberIds DEF ActivationsWhole
    <2>2. RunBy(x)' = RunBy(x)
      BY <1>1, <1>6, <1>8, <2>1 DEF RunBy, SameFrame
    <2>3. \A i \in RunBy(x) : SameFrame(frames'[i], frames[i])
      BY <2>2 DEF RunBy
    <2>4. fibers'[x] = fibers[x]
      BY <1>4, <1>8
    <2>5. InCode(fibers[x])'
      BY <2>1, <2>4 DEF InCode
    <2>6. CASE RunBy(x) = {}
      <3>1. HasOwn(fibers[x])
        BY <2>1, <2>6 DEF InOnePlace
      <3>2. HasOwn(fibers[x])'
        BY <2>4, <3>1 DEF HasOwn, Own
      <3> QED
        BY <2>2, <2>5, <2>6, <3>2 DEF InOnePlace
    <2>7. CASE RunBy(x) # {}
      <3>1. PICK i \in RunBy(x) : /\ HasOwn(frames[i])
                                  /\ \A j \in RunBy(x) \ {i} : j > i /\ Empty(frames[j])
        BY <2>1, <2>7 DEF InOnePlace
      <3>2. HasOwn(frames[i])' /\ \A j \in RunBy(x)' \ {i} : j > i /\ Empty(frames[j])'
        BY <2>2, <2>3, <3>1 DEF HasOwn, Own, Empty, SameFrame
      <3>3. Empty(fibers[x])'
        BY <2>1, <2>4, <2>7 DEF InOnePlace, Empty
      <3> QED
        BY <2>2, <2>5, <3>1, <3>2, <3>3 DEF InOnePlace
    <2> QED
      BY <2>6, <2>7
  <1>9. InCode(fibers[id])' /\ InOnePlace(id)'
    <2>1. RunBy(id)' = RunBy(id) \ {k} /\ k \in RunBy(id)
      BY <1>1, <1>2, <1>6 DEF RunBy, SameFrame
    <2>2. \A i \in RunBy(id)' : SameFrame(frames'[i], frames[i]) /\ i < k
      BY <1>5 DEF RunBy
    <2>3. PICK i \in RunBy(id) : /\ HasOwn(frames[i])
                                 /\ \A j \in RunBy(id) \ {i} : j > i /\ Empty(frames[j])
      BY <1>2, <2>1 DEF ActivationsWhole, InOnePlace
    <2>4. InCode(fibers[id])'
      <3>1. frames[k].f \in DOMAIN chunks
        BY DEF ActivationsWhole, InCode
      <3> QED
        BY <1>2, <1>4, <3>1 DEF InCode
    <2>5. CASE i = k
      <3>1. RunBy(id)' = {}
        <4>1. ASSUME NEW j \in RunBy(id)' PROVE FALSE
          <5>1. j > k /\ j < k
            BY <2>1, <2>2, <2>3, <2>5, <4>1
          <5>2. j \in Nat
            BY <4>1, <1>5 DEF RunBy
          <5> QED
            BY <1>5, <5>1, <5>2
        <4> QED
          BY <4>1
      <3>2. HasOwn(fibers[id])'
        BY <1>2, <1>3, <1>4, <2>3, <2>5 DEF HasOwn, Own
      <3> QED
        BY <2>4, <3>1, <3>2 DEF InOnePlace
    <2>6. CASE i # k
      <3>1. i \in RunBy(id)'
        BY <2>1, <2>6
      <3>2. HasOwn(frames[i])' /\ \A j \in RunBy(id)' \ {i} : j > i /\ Empty(frames[j])'
        BY <2>1, <2>2, <2>3, <3>1 DEF HasOwn, Own, Empty, SameFrame
      <3>3. Empty(fibers[id])'
        BY <1>3, <1>4, <2>1, <2>3, <2>6 DEF Empty
      <3> QED
        BY <2>4, <3>1, <3>2, <3>3 DEF InOnePlace
    <2> QED
      BY <2>5, <2>6
  <1> QED
    BY <1>4, <1>7, <1>8, <1>9 DEF ActivationsWhole

(* The frames below the top one, if only registers of the caller change.   *)
LEMMA Shrunk ==
  ASSUME Shape, Len(frames) > 1, NEW reg, DOMAIN reg = DOMAIN Caller.reg,
         frames' = Append(SubSeq(frames, 1, Len(frames) - 2), [Caller EXCEPT !.reg = reg])
  PROVE  /\ Len(frames) \in Nat /\ DOMAIN frames = 1 .. Len(frames)
         /\ DOMAIN frames' = 1 .. Len(frames) - 1
         /\ \A i \in DOMAIN frames' : SameFrame(frames'[i], frames[i]) /\ frames'[i].ip = frames[i].ip
  <1> DEFINE n == Len(frames)
             c == [Caller EXCEPT !.reg = reg]
             s == SubSeq(frames, 1, n - 2)
  <1>1. n \in Nat /\ DOMAIN frames = 1 .. n /\ n - 2 \in 0 .. n /\ IsSeq(frames) /\ n > 1
    BY TopShape DEF Shape, FramesShape
  <1>2. FrameShape(Caller) /\ Caller = frames[n - 1]
    BY <1>1 DEF Shape, FramesShape, Caller
  <1>3. SameFrame(c, Caller) /\ c.ip = Caller.ip
    BY <1>2 DEF FrameShape, SameFrame
  <1>4. IsSeq(s) /\ Len(s) = n - 2 /\ \A i \in 1 .. n - 2 : s[i] = frames[i]
    BY <1>1, SeqPrefix
  <1>5. frames' = Append(s, c)
    OBVIOUS
  <1> HIDE DEF n, c, s
  <1>6. /\ IsSeq(frames') /\ Len(frames') = Len(s) + 1 /\ frames'[Len(s) + 1] = c
        /\ \A i \in 1 .. Len(s) : frames'[i] = s[i]
    <2>1. /\ IsSeq(Append(s, c)) /\ Len(Append(s, c)) = Len(s) + 1 /\ Append(s, c)[Len(s) + 1] = c
          /\ \A i \in 1 .. Len(s) : Append(s, c)[i] = s[i]
      BY ONLY <1>4, SeqAppend
    <2> QED
      BY ONLY <1>5, <2>1
  <1>7. /\ IsSeq(frames') /\ Len(frames') = n - 1 /\ frames'[n - 1] = c
        /\ \A i \in 1 .. n - 2 : frames'[i] = frames[i]
    <2>1. Len(s) + 1 = n - 1 /\ 1 .. Len(s) = 1 .. n - 2
      BY <1>1, <1>4
    <2> QED
      BY <1>4, <1>6, <2>1
  <1>8. DOMAIN frames' = 1 .. n - 1
    BY <1>1, <1>7, SeqFacts
  <1>9. ASSUME NEW i \in DOMAIN frames'
        PROVE  SameFrame(frames'[i], frames[i]) /\ frames'[i].ip = frames[i].ip
    <2>1. CASE i = n - 1
      BY <1>2, <1>3, <1>7, <2>1
    <2>2. CASE i # n - 1
      <3>1. i \in 1 .. n - 2
        BY <1>1, <1>8, <2>2
      <3> QED
        BY <1>7, <3>1 DEF SameFrame
    <2> QED
      BY <2>1, <2>2
  <1> QED
    BY <1>1, <1>8, <1>9 DEF n

LEMMA SuspendWhole ==
  ASSUME Shape, ActivationsWhole, Shape', UNCHANGED chunks, Top.fiber # NoFiber,
         NEW ip \in 0 .. Len(Code), NEW done, NEW value, Suspend(ip, done, value)
  PROVE  ActivationsWhole'
  <1>1. Len(frames) > 1 /\ Len(frames) \in Nat /\ DOMAIN frames = 1 .. Len(frames)
    BY TopShape, FiberAbove
  <1>2. PICK k : k = Len(frames)
    OBVIOUS
  <1>3. k \in DOMAIN frames /\ Top = frames[k]
    BY <1>1, <1>2, TopShape
  <1>4. /\ DOMAIN frames' = 1 .. k - 1
        /\ \A i \in DOMAIN frames' : SameFrame(frames'[i], frames[i]) /\ frames'[i].ip = frames[i].ip
    <2> DEFINE reg == IF /\ value # <<>> /\ Top.dst \in DOMAIN Caller.reg
                         /\ Counts(value[1], Resumed.done \/ done)
                      THEN [Caller.reg EXCEPT ![Top.dst] = value[1]] ELSE Caller.reg
    <2>1. DOMAIN reg = DOMAIN Caller.reg
      OBVIOUS
    <2>2. frames' = Append(SubSeq(frames, 1, Len(frames) - 2), [Caller EXCEPT !.reg = reg])
      BY DEF Suspend
    <2> HIDE DEF reg
    <2> QED
      BY <1>1, <1>2, <2>1, <2>2, Shrunk
  <1>5. fibers' = [fibers EXCEPT ![frames[k].fiber] =
                     Saved(fibers[frames[k].fiber], ip, frames[k].reg, Resumed.done \/ done)]
    BY <1>3 DEF Suspend, Resumed
  <1>6. ip \in 0 .. Len(chunks[frames[k].f].code)
    BY <1>3 DEF Code
  <1>7. \A j \in DOMAIN frames : ~(j > k)
    BY <1>1, <1>2
  <1>8. frames[k].fiber # NoFiber
    BY <1>3
  <1> HIDE DEF Suspend
  <1> QED
    BY <1>3, <1>4, <1>5, <1>6, <1>7, <1>8, ReleaseWhole

LEMMA UnwindWhole ==
  ASSUME Shape, ActivationsWhole, Shape', UNCHANGED chunks, Len(frames) > 1, Top.fiber = NoFiber,
         Unwind(Len(frames) - 1)
  PROVE  ActivationsWhole'
  <1> DEFINE in == {i \in 1 .. Len(frames) - 1 : frames[i].fiber # NoFiber}
  <1>1. /\ Len(frames) \in Nat /\ DOMAIN frames = 1 .. Len(frames) /\ IsSeq(frames)
        /\ frames[Len(frames)].fiber = NoFiber
    BY TopShape DEF Shape, FramesShape
  <1>2. CASE in = {}
    <2>1. UNCHANGED <<frames, fibers>>
      BY <1>2 DEF Unwind
    <2> QED
      BY <2>1, StopWhole
  <1>3. CASE in # {}
    <2>1. PICK k \in in :
            /\ \A j \in in : j <= k
            /\ frames' = SubSeq(frames, 1, k - 1)
            /\ fibers' = [fibers EXCEPT ![frames[k].fiber] =
                            Saved(fibers[frames[k].fiber], frames[k].ip, frames[k].reg,
                                  fibers[frames[k].fiber].done)]
      BY <1>3 DEF Unwind
    <2>2. k \in DOMAIN frames /\ frames[k].fiber # NoFiber /\ k \in 1 .. Len(frames) - 1
      BY <1>1, <2>1
    <2>3. ASSUME NEW j \in DOMAIN frames, j > k
          PROVE  frames[j].fiber = NoFiber
      <3>1. CASE j = Len(frames)
        BY <1>1, <3>1
      <3>2. CASE j # Len(frames)
        <4>1. j \in 1 .. Len(frames) - 1 /\ ~(j <= k)
          BY <1>1, <2>2, <2>3, <3>2
        <4>2. j \notin in
          BY <2>1, <4>1
        <4> QED
          BY <4>1, <4>2
      <3> QED
        BY <3>1, <3>2
    <2>4. k - 1 \in 0 .. Len(frames)
      BY <1>1, <2>2
    <2>5. /\ IsSeq(frames') /\ Len(frames') = k - 1 /\ \A i \in 1 .. k - 1 : frames'[i] = frames[i]
      BY <1>1, <2>1, <2>4, SeqPrefix
    <2>6. DOMAIN frames' = 1 .. k - 1
      BY <2>5, SeqFacts
    <2>7. frames[k].ip \in 0 .. Len(chunks[frames[k].f].code)
      BY <2>2 DEF ActivationsWhole, InCode
    <2>8. \A i \in DOMAIN frames' : SameFrame(frames'[i], frames[i]) /\ frames'[i].ip = frames[i].ip
      BY <2>5, <2>6 DEF SameFrame
    <2> QED
      BY <2>1, <2>2, <2>3, <2>6, <2>7, <2>8, ReleaseWhole
  <1> QED
    BY <1>2, <1>3

LEMMA LeaveCallWhole ==
  ASSUME Shape, ActivationsWhole, Shape', UNCHANGED chunks, Top.fiber = NoFiber,
         NEW v, NEW error, NEW last, LeaveCall(v, error, last)
  PROVE  ActivationsWhole'
  <1>0. Len(frames) \in Nat /\ Len(frames) > 0 /\ DOMAIN frames = 1 .. Len(frames)
        /\ frames[Len(frames)].fiber = NoFiber
    BY TopShape DEF Shape, FramesShape
  <1>a. Len(frames) # 1 => Len(frames) > 1
    <2> DEFINE n == Len(frames)
    <2>1. n \in Nat /\ n > 0
      BY <1>0
    <2> HIDE DEF n
    <2>2. n # 1 => n > 1
      BY <2>1
    <2> QED
      BY <2>2 DEF n
  <1>1. CASE UNCHANGED <<frames, fibers>>
    BY <1>1, StopWhole
  <1>2. CASE Len(frames) # 1 /\ Unwind(Len(frames) - 1)
    BY <1>a, <1>2, UnwindWhole
  <1>3. CASE /\ Len(frames) # 1
             /\ frames' = Append(SubSeq(frames, 1, Len(frames) - 2),
                                 [Caller EXCEPT !.reg = [@ EXCEPT ![Top.dst] = v]])
             /\ UNCHANGED <<fibers, status>>
    <2>1. Len(frames) > 1
      BY <1>a, <1>3
    <2> DEFINE reg == [Caller.reg EXCEPT ![Top.dst] = v]
    <2>2. DOMAIN reg = DOMAIN Caller.reg
      OBVIOUS
    <2>3. frames' = Append(SubSeq(frames, 1, Len(frames) - 2), [Caller EXCEPT !.reg = reg])
      BY <1>3
    <2> HIDE DEF reg
    <2>4. /\ DOMAIN frames' = 1 .. Len(frames) - 1
          /\ \A i \in DOMAIN frames' : SameFrame(frames'[i], frames[i]) /\ frames'[i].ip = frames[i].ip
      BY <2>1, <2>2, <2>3, Shrunk
    <2>5. SameFibers
      BY <1>3 DEF SameFibers
    <2>6. \A i \in DOMAIN frames' : i \in DOMAIN frames
      BY <1>0, <2>4
    <2>7. \A i \in DOMAIN frames : i \notin DOMAIN frames' => frames[i].fiber = NoFiber
      BY <1>0, <2>4
    <2>8. \A i \in DOMAIN frames' : frames'[i].ip <= Len(chunks[frames'[i].f].code)
      BY <2>4, <2>6 DEF SameFrame, ActivationsWhole, InCode
    <2> QED
      BY <2>4, <2>5, <2>6, <2>7, <2>8, FunctionsComeAndGo
  <1> QED
    BY <1>1, <1>2, <1>3 DEF LeaveCall

LEMMA LeaveWhole ==
  ASSUME Shape, ActivationsWhole, Shape', status = "running",
         \/ \E value : LeaveWith(value)
         \/ \E counted : Running /\ Halt(counted)
         \/ RunOff
         \/ Yield
  PROVE  ActivationsWhole'
  <1>0. /\ Top.ip \in Nat /\ Len(Code) \in Nat /\ Top.ip <= Len(Code)
        /\ Len(Code) \in 0 .. Len(Code) /\ Top.ip \in 0 .. Len(Code)
    BY TopShape DEF FrameShape, ActivationsWhole, InCode, Code
  <1>1. Running => Next1 \in 0 .. Len(Code)
    BY <1>0 DEF Running, Next1
  <1>2. ASSUME NEW value, LeaveWith(value)
        PROVE  ActivationsWhole'
    <2>1. UNCHANGED chunks
      BY <1>2 DEF LeaveWith, Loaded
    <2>2. CASE Top.fiber # NoFiber
      BY <1>0, <1>2, <2>1, <2>2, SuspendWhole DEF LeaveWith
    <2>3. CASE Top.fiber = NoFiber
      BY <1>2, <2>1, <2>3, LeaveCallWhole DEF LeaveWith
    <2> QED
      BY <2>2, <2>3
  <1>3. ASSUME NEW counted, Running, Halt(counted)
        PROVE  ActivationsWhole'
    <2>1. UNCHANGED chunks
      BY <1>3 DEF Halt, Loaded
    <2>2. CASE Top.fiber # NoFiber
      BY <1>1, <1>3, <2>1, <2>2, SuspendWhole DEF Halt
    <2>3. CASE Top.fiber = NoFiber
      BY <1>3, <2>1, <2>3, LeaveCallWhole DEF Halt
    <2> QED
      BY <2>2, <2>3
  <1>4. CASE RunOff
    <2>1. UNCHANGED chunks
      BY <1>4 DEF RunOff, Loaded
    <2>2. CASE Top.fiber # NoFiber
      BY <1>0, <1>4, <2>1, <2>2, SuspendWhole DEF RunOff
    <2>3. CASE Top.fiber = NoFiber
      BY <1>4, <2>1, <2>3, LeaveCallWhole DEF RunOff
    <2> QED
      BY <2>2, <2>3
  <1>5. CASE Yield
    <2>1. UNCHANGED chunks /\ Top.fiber # NoFiber /\ Suspend(Next1, FALSE, <<R(Op.src)>>)
      BY <1>5 DEF Yield, Loaded
    <2>2. Running
      BY <1>5, Runnings DEF Yield
    <2> QED
      BY <1>1, <2>1, <2>2, SuspendWhole
  <1> QED
    BY <1>2, <1>3, <1>4, <1>5

(* What an instruction that goes on in its frame does to the fibers.       *)
LEMMA NewFiber ==
  ASSUME Shape, FiberCreate
  PROVE  SameFibers
  <1> DEFINE fb == [f |-> Op.f, ip |-> 0, done |-> FALSE,
                    reg |-> Locals(Operands, chunks[Op.f].max)]
  <1>1. Running /\ Op.op \in {"FiberCreate"}
    BY Runnings DEF FiberCreate
  <1>2. Op.f \in DOMAIN chunks
    BY <1>1, OpShape DEF Running
  <1>3. fibers' = Append(fibers, fb)
    BY DEF FiberCreate
  <1>4. InCode(fb) /\ HasOwn(fb)
    <2>1. Len(chunks[Op.f].code) \in Nat
      BY <1>2 DEF Shape, WellFormed
    <2> QED
      BY <1>2, <2>1 DEF InCode, HasOwn, Own, Locals
  <1> HIDE DEF fb
  <1>5. IsSeq(fibers) /\ DOMAIN fibers = 1 .. Len(fibers) /\ Len(fibers) \in Nat
    BY SeqFacts DEF Shape, FibersShape
  <1>6. /\ IsSeq(fibers') /\ Len(fibers') = Len(fibers) + 1 /\ fibers'[Len(fibers) + 1] = fb
        /\ \A i \in 1 .. Len(fibers) : fibers'[i] = fibers[i]
    <2>1. /\ IsSeq(Append(fibers, fb)) /\ Len(Append(fibers, fb)) = Len(fibers) + 1
          /\ Append(fibers, fb)[Len(fibers) + 1] = fb
          /\ \A i \in 1 .. Len(fibers) : Append(fibers, fb)[i] = fibers[i]
      BY ONLY <1>5, SeqAppend
    <2> QED
      BY ONLY <1>3, <2>1
  <1>7. DOMAIN fibers' = 1 .. Len(fibers) + 1
    BY <1>6, SeqFacts
  <1> QED
    BY <1>4, <1>5, <1>6, <1>7 DEF SameFibers

LEMMA ClosedFiber ==
  ASSUME Shape, Close
  PROVE  SameFibers
  <1>1. \A id \in DOMAIN fibers : FiberShape(fibers[id])
    BY DEF Shape, FibersShape
  <1>2. PICK n : n = Receiver.n
    OBVIOUS
  <1>3. fibers' = [fibers EXCEPT ![n] = Saved(fibers[n], fibers[n].ip, fibers[n].reg, TRUE)]
    BY <1>2 DEF Close
  <1>4. DOMAIN fibers' = DOMAIN fibers
    BY <1>3
  <1>5. ASSUME NEW id \in DOMAIN fibers
        PROVE  /\ fibers'[id].f = fibers[id].f /\ fibers'[id].ip = fibers[id].ip
               /\ DOMAIN fibers'[id].reg = DOMAIN fibers[id].reg
    BY <1>3 DEF Saved
  <1> QED
    BY <1>4, <1>5 DEF SameFibers

Goings == status = "running" /\ UNCHANGED <<chunks, status>> /\ \E ip, reg : Go(ip, reg)

LEMMA GoingWhole ==
  ASSUME Shape, ActivationsWhole, Shape', Forms, Goings, SameFibers
  PROVE  ActivationsWhole'
  BY GoIsAhead, AheadWhole DEF Goings

LEMMA NextWhole ==
  ASSUME Shape, ActivationsWhole, Next
  PROVE  ActivationsWhole'
  <1>0. Forms /\ Shape' /\ (UNCHANGED fibers => SameFibers)
    BY NextForms, ShapeKept DEF SameFibers
  <1>1. ASSUME LoadConst \/ Move \/ GetVar \/ SetVar \/ IncLocal \/ IncVar
        PROVE  Goings /\ UNCHANGED fibers
    BY <1>1 DEF LoadConst, Move, GetVar, SetVar, IncLocal, IncVar, Runs, Write, Goings,
       Rest, Machine, Loaded
  <1>2. ASSUME Comparison \/ AndOr \/ Not \/ IntConcat \/ CastFloat \/ PrintValue
        PROVE  Goings /\ UNCHANGED fibers
    BY <1>2 DEF Comparison, AndOr, Not, IntConcat, CastFloat, PrintValue, Runs, Write, Goings,
       Rest, Machine, Loaded
  <1>3. ASSUME Jump \/ JumpIf \/ IncLocalLoopNext \/ IncVarLoopNext \/ ArrayLoopNext
        PROVE  Goings /\ UNCHANGED fibers
    <2>1. CASE Jump \/ JumpIf
      BY <2>1 DEF Jump, JumpIf, Runs, Goings, Rest, Machine, Loaded
    <2>2. CASE IncLocalLoopNext
      BY <2>2 DEF IncLocalLoopNext, Runs, Goings, Rest, Machine, Loaded
    <2>3. CASE IncVarLoopNext
      BY <2>3 DEF IncVarLoopNext, Runs, Goings, Rest, Machine, Loaded
    <2>4. CASE ArrayLoopNext
      BY <2>4 DEF ArrayLoopNext, Runs, Goings, Rest, Machine, Loaded
    <2> QED
      BY <1>3, <2>1, <2>2, <2>3, <2>4
  <1>4. ASSUME Collect \/ Values \/ Size \/ HasMember \/ Push
        PROVE  Goings /\ UNCHANGED fibers
    BY <1>4 DEF Collect, Values, Size, HasMember, Push, On, Make, Store, Runs, Write, Goings,
       Rest, Machine, Loaded
  <1>5. ASSUME Arithmetically \/ LoopNext \/ Get \/ Update \/ NoMethod
        PROVE  (Goings /\ UNCHANGED fibers) \/ \E counted : Running /\ Halt(counted)
    <2>1. CASE Arithmetically
      <3> DEFINE result == Arithmetic(Op.op, R(Op.src1), R(Op.src2))
      <3>1. Halt(FALSE) \/ (Write(result[1]) /\ UNCHANGED Rest)
        BY <2>1 DEF Arithmetically
      <3> HIDE DEF result
      <3> QED
        BY <2>1, <3>1 DEF Arithmetically, Runs, Running, Write, Goings, Rest, Machine, Loaded
    <2>2. CASE LoopNext
      BY <2>2 DEF LoopNext, Runs, Running, Goings, Rest, Machine, Loaded
    <2>3. CASE Get
      BY <2>3 DEF Get, On, Runs, Running, Write, Goings, Rest, Machine, Loaded
    <2>4. CASE Update
      BY <2>4 DEF Update, On, Runs, Running, Store, Write, Goings, Rest, Machine, Loaded
    <2>5. CASE NoMethod
      BY <2>5 DEF NoMethod, Runs, Running
    <2> QED
      BY <1>5, <2>1, <2>2, <2>3, <2>4, <2>5
  <1>6. ASSUME FiberCreate \/ IsDone \/ Close
        PROVE  Goings
    BY <1>6 DEF FiberCreate, IsDone, Close, On, Runs, Write, Goings, Rest, Machine, Loaded
  <1>7. IsDone => UNCHANGED fibers
    BY DEF IsDone, Rest
  <1>8. CASE NextValue
    <2>1. Running
      BY <1>8, OnFacts DEF NextValue
    <2>2. UNCHANGED <<chunks, status>> /\ status = "running"
      BY <1>8, <2>1 DEF NextValue, Machine, Loaded, Running
    <2>3. PICK id \in DOMAIN fibers :
            \/ Write(Unset) /\ UNCHANGED fibers
            \/ /\ frames' = Append([frames EXCEPT ![Len(frames)].ip = Next1],
                                   [f |-> fibers[id].f, ip |-> fibers[id].ip, dst |-> Op.dst,
                                    fiber |-> id, reg |-> fibers[id].reg])
               /\ fibers' = [fibers EXCEPT ![id].reg = <<>>]
      BY <1>8 DEF NextValue
    <2>4. CASE Write(Unset) /\ UNCHANGED fibers
      BY <1>0, <2>2, <2>4, GoingWhole DEF Goings, Write
    <2> QED
      BY <1>0, <2>1, <2>2, <2>3, <2>4, ResumeWhole
  <1>9. CASE ReturnOp \/ ReturnVoid \/ RunOff \/ Yield \/ \E counted : Running /\ Halt(counted)
    BY <1>0, <1>9, LeaveWhole DEF ReturnOp, ReturnVoid, RunOff, Yield, Runs, Running
  <1>10. CASE Panic
    BY <1>10, StopWhole DEF Panic, Loaded
  <1> QED
    BY <1>0, <1>1, <1>2, <1>3, <1>4, <1>5, <1>6, <1>7, <1>8, <1>9, <1>10, CallWhole, GoingWhole,
       NewFiber, ClosedFiber DEF Next

LEMMA InitWhole ==
  ASSUME Init
  PROVE  ActivationsWhole
  <1>1. Shape
    BY InitShape
  <1>2. /\ fibers = <<>> /\ frames = <<Frame("main", chunks["main"], <<>>, 0)>>
    BY DEF Init
  <1> DEFINE fr == Frame("main", chunks["main"], <<>>, 0)
  <1>3. "main" \in DOMAIN chunks /\ chunks["main"].max \in Nat /\ Len(chunks["main"].code) \in Nat
    BY <1>1 DEF Shape, WellFormed
  <1>4. fr.f = "main" /\ fr.ip = 0 /\ fr.fiber = NoFiber /\ Own("main") \subseteq DOMAIN fr.reg
    BY <1>3 DEF Frame, Locals, Larger, Own
  <1> HIDE DEF fr
  <1>5. DOMAIN frames = {1} /\ frames[1] = fr /\ DOMAIN fibers = {}
    BY <1>2 DEF fr
  <1> QED
    BY <1>3, <1>4, <1>5 DEF ActivationsWhole, InCode

(* Whatever a program does, no frame or fiber of it runs at an address     *)
(* that its code does not have, and no register of an activation is lost   *)
(* or is in two places when frames are entered, suspended or left.         *)
THEOREM RegistersKept == Spec => []ActivationsWhole
  <1>1. Init => Shape /\ ActivationsWhole
    BY InitShape, InitWhole
  <1>2. Shape /\ ActivationsWhole /\ [Next]_vars => (Shape /\ ActivationsWhole)'
    <2>1. CASE Next
      BY <2>1, NextForms, ShapeKept, NextWhole
    <2>2. CASE UNCHANGED vars
      <3>1. Shape => Shape'
        BY <2>2 DEF vars, Shape, FramesShape, FrameShape, FibersShape, FiberShape, WellFormed
      <3>2. ActivationsWhole => ActivationsWhole'
        BY <2>2, StopWhole DEF vars
      <3> QED
        BY <3>1, <3>2
    <2> QED
      BY <2>1, <2>2
  <1> QED
    BY <1>1, <1>2, PTL DEF Spec
=============================================================================
