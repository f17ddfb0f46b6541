--------------------------- MODULE MethodJitProofs ---------------------------
(***************************************************************************)
(* Proofs about MethodJit, for every set of programs whose compiled form   *)
(* is WellFormed and every threshold: which frames run machine code and    *)
(* who holds the globals, and that the whole runs the bytecode except      *)
(* where machine code is known to differ.                                  *)
(***************************************************************************)
EXTENDS MethodJit, BytecodeProofs

Modes == {"holding", "native", "without"}
ModesShape == /\ IsSeq(modes) /\ Len(modes) = Len(frames) /\ modes[1] = "holding"
              /\ \A k \in 1 .. Len(frames) : modes[k] \in Modes

(* The register machine code stores a result in is one of its own.         *)
ResultsFit == \A k \in 2 .. Len(frames) :
                modes[k - 1] = "native" => frames[k].dst \in DOMAIN frames[k - 1].reg

Counters == /\ DOMAIN calls = DOMAIN chunks
            /\ \A f \in DOMAIN calls : calls[f] \in 0 .. CompileThreshold + 1
            /\ compiled \subseteq DOMAIN chunks
            /\ \A f \in compiled : Eligible(f) /\ Accepted(f) /\ calls[f] = CompileThreshold + 1

Statuses == status \in {"running", "ended", "halted", "panicked", "deadlocked", "undefined"}

MInv == Shape /\ ModesShape /\ OneHolder /\ ResultsFit /\ Counters /\ Statuses /\ SelfCallsAreSafe

-----------------------------------------------------------------------------
(* Counting calls.                                                         *)

LEMMA CountedKeeps ==
  ASSUME Counters, NEW f \in DOMAIN chunks, UNCHANGED chunks, Counted(f) \/ UNCHANGED compiling
  PROVE  Counters' /\ compiled \subseteq compiled'
  <1>0. CompileThreshold \in Nat
    BY ThresholdAssumption
  <1>1. CASE UNCHANGED compiling
    BY <1>1 DEF Counters, compiling, Eligible, Accepted, HasLoops, Blocks
  <1>2. CASE /\ Eligible(f) /\ f \notin compiled /\ calls[f] <= CompileThreshold
             /\ calls' = [calls EXCEPT ![f] = @ + 1]
             /\ compiled' = compiled \cup {g \in {f} : calls[f] = CompileThreshold /\ Accepted(f)}
    <2>1. DOMAIN calls' = DOMAIN chunks /\ \A g \in DOMAIN chunks : g # f => calls'[g] = calls[g]
      BY <1>2 DEF Counters
    <2>2. calls'[f] = calls[f] + 1 /\ calls[f] \in 0 .. CompileThreshold
      BY <1>0, <1>2 DEF Counters
    <2>3. \A g : (Eligible(g) => Eligible(g)') /\ (Accepted(g) => Accepted(g)')
      BY DEF Eligible, Accepted, HasLoops, Blocks
    <2>4. \A g \in compiled' : Eligible(g)' /\ Accepted(g)' /\ calls'[g] = CompileThreshold + 1
      BY <1>2, <2>1, <2>2, <2>3 DEF Counters
    <2>5. \A g \in DOMAIN calls' : calls'[g] \in 0 .. CompileThreshold + 1
      BY <1>0, <2>1, <2>2 DEF Counters
    <2> QED
      BY <1>2, <2>1, <2>4, <2>5 DEF Counters
  <1> QED
    BY <1>1, <1>2 DEF Counted

-----------------------------------------------------------------------------
(* What happens to the frames and their modes.                             *)

LEMMA ModesFacts ==
  ASSUME MInv
  PROVE  /\ Len(frames) \in Nat /\ Len(frames) > 0 /\ DOMAIN frames = 1 .. Len(frames)
         /\ DOMAIN modes = 1 .. Len(frames) /\ IsSeq(modes) /\ Len(modes) = Len(frames)
         /\ Mode = modes[Len(frames)] /\ Mode \in Modes
  <1>1. Len(frames) \in Nat /\ Len(frames) > 0 /\ DOMAIN frames = 1 .. Len(frames)
    BY TopShape DEF MInv, Shape, FramesShape
  <1>2. DOMAIN modes = 1 .. Len(frames)
    BY SeqFacts DEF MInv, ModesShape
  <1>3. Len(frames) \in 1 .. Len(frames)
    BY <1>1
  <1> QED
    BY <1>1, <1>2, <1>3 DEF MInv, ModesShape, Mode

(* Frames that stay: the top one may have other registers.                 *)
Moves == \E ip \in Nat : \E reg : IsFun(reg) /\ Go(ip, reg)
Stays == Moves \/ Leaves \/ Stops

LEMMA StayingFrames ==
  ASSUME MInv, Stays, UNCHANGED chunks
  PROVE  /\ Len(frames') \in 1 .. Len(frames)
         /\ \A k \in 1 .. Len(frames') : SameActivation(frames'[k], frames[k])
         /\ \A k \in 1 .. Len(frames') - 1 : frames'[k].reg = frames[k].reg
  <1>0. Len(frames) \in Nat /\ Len(frames) > 0 /\ DOMAIN frames = 1 .. Len(frames)
    BY ModesFacts
  <1>1. CASE Moves
    <2>1. /\ Len(frames') = Len(frames)
          /\ \A i \in DOMAIN frames : i # Len(frames) => frames'[i] = frames[i]
          /\ Top'.f = Top.f /\ Top'.dst = Top.dst /\ Top'.fiber = Top.fiber
      BY <1>1, AheadFrames DEF Moves, MInv
    <2>2. Top = frames[Len(frames)] /\ Top' = frames'[Len(frames)]
      BY <2>1 DEF Top
    <2> DEFINE n == Len(frames)
    <2>3. /\ n \in Nat /\ n > 0 /\ DOMAIN frames = 1 .. n /\ Len(frames') = n
          /\ \A i \in DOMAIN frames : i # n => frames'[i] = frames[i]
          /\ SameActivation(frames'[n], frames[n])
      BY <1>0, <2>1, <2>2 DEF SameActivation
    <2> HIDE DEF n
    <2>4. \A k \in 1 .. n : SameActivation(frames'[k], frames[k])
      BY <2>3 DEF SameActivation
    <2>5. \A k \in 1 .. n - 1 : frames'[k].reg = frames[k].reg
      BY <2>3
    <2> QED
      BY <2>3, <2>4, <2>5 DEF n
  <1>2. CASE Leaves
    <2> DEFINE n == Len(frames)
               m == Len(frames')
    <2>1. /\ n \in Nat /\ m \in 1 .. n - 1 /\ DOMAIN frames' = 1 .. m
          /\ \A i \in DOMAIN frames' : SameActivation(frames'[i], frames[i])
          /\ \A i \in 1 .. m - 1 : frames'[i] = frames[i]
      BY <1>0, <1>2, SeqFacts DEF Leaves
    <2> HIDE DEF n, m
    <2>2. m \in 1 .. n
      BY <2>1
    <2> QED
      BY <2>1, <2>2 DEF n, m
  <1>3. CASE Stops
    BY <1>0, <1>3 DEF Stops, SameActivation
  <1> QED
    BY <1>1, <1>2, <1>3 DEF Stays

LEMMA StayingModes ==
  ASSUME MInv, Stays, UNCHANGED chunks, compiled \subseteq compiled',
         modes' = SubSeq(modes, 1, Len(frames')) \/ (UNCHANGED modes /\ Len(frames') = Len(frames))
  PROVE  /\ ModesShape' /\ OneHolder' /\ ResultsFit'
         /\ {modes'[k] : k \in DOMAIN modes'} \subseteq {modes[k] : k \in DOMAIN modes}
  <1> DEFINE n == Len(frames)
             m == Len(frames')
  <1>1. /\ n \in Nat /\ n > 0 /\ DOMAIN modes = 1 .. n /\ IsSeq(modes) /\ Len(modes) = n
        /\ m \in 1 .. n
        /\ \A k \in 1 .. m : SameActivation(frames'[k], frames[k])
        /\ \A k \in 1 .. m - 1 : frames'[k].reg = frames[k].reg
    BY ModesFacts, StayingFrames
  <1>2. IsSeq(modes') /\ Len(modes') = m /\ \A k \in 1 .. m : modes'[k] = modes[k]
    <2>1. CASE modes' = SubSeq(modes, 1, m)
      <3>1. m \in 0 .. Len(modes)
        BY ONLY <1>1
      <3> QED
        BY <3>1, <2>1, <1>1, SeqPrefix
    <2>2. CASE UNCHANGED modes /\ m = n
      BY <2>2, <1>1
    <2> QED
      BY <2>1, <2>2
  <1>3. DOMAIN modes' = 1 .. m
    BY <1>2, SeqFacts
  <1>4. /\ modes[1] = "holding" /\ \A k \in 1 .. n : modes[k] \in Modes
        /\ OneHolder /\ \A k \in 2 .. n : modes[k - 1] = "native" => frames[k].dst \in DOMAIN frames[k - 1].reg
    BY DEF MInv, ModesShape, ResultsFit
  <1> HIDE DEF n, m
  <1>5. ModesShape'
    BY <1>1, <1>2, <1>4 DEF ModesShape, m
  <1>6. OneHolder'
    <2> SUFFICES ASSUME NEW k \in 1 .. m
                 PROVE  /\ modes'[k] = "holding" => \A j \in 1 .. k : modes'[j] = "holding"
                        /\ modes'[k] = "native" => frames'[k].fiber = NoFiber /\ frames'[k].f \in compiled'
                        /\ modes'[k] = "without" => modes'[k - 1] # "holding"
      BY <1>3 DEF OneHolder
    <2>1. k \in 1 .. n /\ \A j \in 1 .. k : j \in 1 .. m /\ modes'[j] = modes[j]
      BY <1>1, <1>2
    <2>2. /\ modes[k] = "holding" => \A j \in 1 .. k : modes[j] = "holding"
          /\ modes[k] = "native" => frames[k].fiber = NoFiber /\ frames[k].f \in compiled
          /\ modes[k] = "without" => modes[k - 1] # "holding"
      BY <1>1, <1>4, <2>1 DEF OneHolder
    <2>3. modes[k] = "without" => k - 1 \in 1 .. k
      BY <1>4
    <2>4. modes'[k] = modes[k] /\ SameActivation(frames'[k], frames[k])
      BY <1>1, <1>2
    <2> QED
      BY <2>1, <2>2, <2>3, <2>4 DEF SameActivation
  <1>7. ResultsFit'
    <2> SUFFICES ASSUME NEW k \in 2 .. m, modes'[k - 1] = "native"
                 PROVE  frames'[k].dst \in DOMAIN frames'[k - 1].reg
      BY DEF ResultsFit, m
    <2>1. k \in 2 .. n /\ k \in 1 .. m /\ k - 1 \in 1 .. m - 1 /\ k - 1 \in 1 .. m
      BY <1>1
    <2>2. frames[k].dst \in DOMAIN frames[k - 1].reg
      BY <1>2, <1>4, <2>1
    <2> QED
      BY <1>1, <2>1, <2>2 DEF SameActivation
  <1> QED
    BY <1>1, <1>2, <1>3, <1>5, <1>6, <1>7

LEMMA EnteredModes ==
  ASSUME MInv, UNCHANGED chunks, compiled \subseteq compiled', NEW fr, FrameShape(fr),
         frames' = Append([frames EXCEPT ![Len(frames)].ip = Next1], fr),
         NEW mode \in Modes, modes' = Append(modes, mode),
         mode = "holding" => Mode = "holding",
         mode = "native" => fr.fiber = NoFiber /\ fr.f \in compiled',
         mode = "without" => Mode # "holding",
         Mode = "native" => fr.dst \in DOMAIN Top.reg
  PROVE  /\ ModesShape' /\ OneHolder' /\ ResultsFit'
         /\ {modes'[k] : k \in DOMAIN modes'} \subseteq {modes[k] : k \in DOMAIN modes} \cup {mode}
  <1> DEFINE n == Len(frames)
  <1>1. /\ n \in Nat /\ n > 0 /\ DOMAIN frames = 1 .. n
        /\ DOMAIN modes = 1 .. n /\ IsSeq(modes) /\ Len(modes) = n /\ Mode = modes[n] /\ Top = frames[n]
    BY ModesFacts DEF Top
  <1>2. /\ Len(frames') = n + 1 /\ Top' = fr
        /\ \A i \in DOMAIN frames : SameActivation(frames'[i], frames[i]) /\ frames'[i].reg = frames[i].reg
    BY PushFrames DEF MInv
  <1>3. frames'[n + 1] = fr
    BY <1>2 DEF Top
  <1>4. /\ IsSeq(modes') /\ Len(modes') = n + 1 /\ modes'[n + 1] = mode
        /\ \A k \in 1 .. n : modes'[k] = modes[k]
    BY <1>1, SeqAppend
  <1>5. DOMAIN modes' = 1 .. n + 1
    BY <1>4, SeqFacts
  <1>6. /\ modes[1] = "holding" /\ \A k \in 1 .. n : modes[k] \in Modes
        /\ OneHolder /\ \A k \in 2 .. n : modes[k - 1] = "native" => frames[k].dst \in DOMAIN frames[k - 1].reg
    BY DEF MInv, ModesShape, ResultsFit
  <1> HIDE DEF n
  <1>7. ModesShape'
    BY <1>1, <1>2, <1>4, <1>6 DEF ModesShape
  <1>8. OneHolder'
    <2> SUFFICES ASSUME NEW k \in 1 .. n + 1
                 PROVE  /\ modes'[k] = "holding" => \A j \in 1 .. k : modes'[j] = "holding"
                        /\ modes'[k] = "native" => frames'[k].fiber = NoFiber /\ frames'[k].f \in compiled'
                        /\ modes'[k] = "without" => modes'[k - 1] # "holding"
      BY <1>5 DEF OneHolder
    <2>1. CASE k \in 1 .. n
      <3>1. /\ modes[k] = "holding" => \A j \in 1 .. k : modes[j] = "holding"
            /\ modes[k] = "native" => frames[k].fiber = NoFiber /\ frames[k].f \in compiled
            /\ modes[k] = "without" => modes[k - 1] # "holding"
        BY <1>1, <1>6, <2>1 DEF OneHolder
      <3>2. \A j \in 1 .. k : j \in 1 .. n /\ modes'[j] = modes[j]
        BY <1>1, <1>4, <2>1
      <3>3. modes[k] = "without" => k - 1 \in 1 .. k
        BY <1>6
      <3>4. modes'[k] = modes[k] /\ SameActivation(frames'[k], frames[k])
        BY <1>1, <1>2, <1>4, <2>1
      <3> QED
        BY <3>1, <3>2, <3>3, <3>4 DEF SameActivation
    <2>2. CASE k = n + 1
      <3>1. n \in 1 .. n /\ k - 1 = n /\ modes'[n] = Mode /\ modes'[k] = mode /\ frames'[k] = fr
        BY <1>1, <1>3, <1>4, <2>2
      <3>2. Mode = "holding" => \A j \in 1 .. n : modes'[j] = "holding"
        BY <1>1, <1>4, <1>6, <3>1 DEF OneHolder
      <3>3. \A j \in 1 .. k : j \in 1 .. n \/ j = k
        BY <1>1, <2>2
      <3> QED
        BY <3>1, <3>2, <3>3
    <2>3. k \in 1 .. n \/ k = n + 1
      BY <1>1
    <2> QED
      BY <2>1, <2>2, <2>3
  <1>9. ResultsFit'
    <2> SUFFICES ASSUME NEW k \in 2 .. n + 1, modes'[k - 1] = "native"
                 PROVE  frames'[k].dst \in DOMAIN frames'[k - 1].reg
      BY <1>2 DEF ResultsFit
    <2>1. k - 1 \in 1 .. n /\ modes[k - 1] = "native"
      BY <1>1, <1>4
    <2>2. CASE k \in 2 .. n
      <3>1. k \in 1 .. n
        BY <1>1, <2>2
      <3> QED
        BY <1>1, <1>2, <1>6, <2>1, <2>2, <3>1 DEF SameActivation
    <2>3. CASE k = n + 1
      <3>1. k - 1 = n
        BY <1>1, <2>3
      <3> QED
        BY <1>1, <1>2, <1>3, <2>1, <2>3, <3>1
    <2> QED
      BY <2>2, <2>3, <1>1
  <1> QED
    BY <1>1, <1>4, <1>5, <1>7, <1>8, <1>9

(* Machine code gets a result: the frames above it are gone.               *)
LEMMA GivenLeaves ==
  ASSUME MInv, status = "running", UNCHANGED status,
         NEW n \in 1 .. Len(frames) - 1, NEW v, frames' = Given(n, v)
  PROVE  Leaves /\ Len(frames') = n
  <1> DEFINE m == Len(frames)
             d == frames[n + 1].dst
             c == [frames[n] EXCEPT !.reg = [@ EXCEPT ![d] = v]]
             s == SubSeq(frames, 1, n - 1)
  <1>1. m \in Nat /\ DOMAIN frames = 1 .. m /\ IsSeq(frames)
    BY ModesFacts DEF MInv, Shape, FramesShape
  <1>2. n \in 1 .. m /\ n \in Nat /\ n - 1 \in 0 .. m /\ n \in 1 .. m - 1
    BY <1>1
  <1>3. FrameShape(frames[n])
    BY <1>1, <1>2 DEF MInv, Shape, FramesShape
  <1>4. FrameShape(c) /\ SameActivation(c, frames[n])
    BY <1>3 DEF FrameShape, SameActivation, IsFun
  <1>5. IsSeq(s) /\ Len(s) = n - 1 /\ \A i \in 1 .. n - 1 : s[i] = frames[i]
    BY <1>1, <1>2, SeqPrefix
  <1>6. frames' = Append(s, c)
    BY DEF Given
  <1> HIDE DEF m, d, c, s
  <1>7. /\ IsSeq(frames') /\ Len(frames') = Len(s) + 1 /\ frames'[Len(s) + 1] = c
        /\ \A i \in 1 .. Len(s) : frames'[i] = s[i]
    BY <1>5, <1>6, SeqAppend
  <1>8. Len(s) + 1 = n /\ Len(s) = n - 1
    BY <1>2, <1>5
  <1>9. /\ IsSeq(frames') /\ Len(frames') = n /\ frames'[n] = c
        /\ \A i \in 1 .. n - 1 : frames'[i] = frames[i]
    BY <1>5, <1>7, <1>8
  <1>10. DOMAIN frames' = 1 .. n
    BY <1>9, SeqFacts
  <1>11. \A i \in DOMAIN frames' : FrameShape(frames'[i]) /\ SameActivation(frames'[i], frames[i])
    <2>1. ASSUME NEW i \in 1 .. n - 1
          PROVE  FrameShape(frames'[i]) /\ SameActivation(frames'[i], frames[i])
      <3>1. i \in DOMAIN frames
        BY <1>1, <1>2
      <3> QED
        BY <1>9, <3>1 DEF MInv, Shape, FramesShape, SameActivation
    <2>2. \A i \in DOMAIN frames' : i \in 1 .. n - 1 \/ i = n
      BY <1>2, <1>10
    <2> QED
      BY <2>1, <2>2, <1>4, <1>9
  <1>12. Len(frames') \in 1 .. Len(frames) - 1 /\ \A i \in 1 .. Len(frames') - 1 : frames'[i] = frames[i]
    BY <1>9
  <1> QED
    BY <1>9, <1>11, <1>12 DEF Leaves

(* Code without a guard is called by compiled functions that call others.  *)
LEMMA SafeKept ==
  ASSUME MInv, UNCHANGED chunks, compiled \subseteq compiled',
         \/ {modes'[k] : k \in DOMAIN modes'} \subseteq {modes[k] : k \in DOMAIN modes}
         \/ "without" \notin {modes'[k] : k \in DOMAIN modes'}
         \/ \E f \in compiled : CallsAnother(f),
         status' = "deadlocked" => "without" \in {modes[k] : k \in DOMAIN modes}
  PROVE  SelfCallsAreSafe'
  <1>1. \A f : CallsAnother(f) => CallsAnother(f)'
    BY DEF CallsAnother
  <1> QED
    BY <1>1 DEF MInv, SelfCallsAreSafe

-----------------------------------------------------------------------------
(* The bytecode loop.                                                      *)

LEMMA StayKeeps ==
  ASSUME MInv, Shape', UNCHANGED chunks, Stays, UNCHANGED compiling,
         status' \in {"running", "ended", "halted", "panicked"},
         modes' = SubSeq(modes, 1, Len(frames')) \/ (UNCHANGED modes /\ Len(frames') = Len(frames))
  PROVE  MInv'
  <1>1. compiled \subseteq compiled' /\ Counters'
    BY DEF compiling, MInv, Counters, Eligible, Accepted, HasLoops, Blocks
  <1>2. Statuses' /\ status' # "deadlocked"
    BY DEF Statuses
  <1>3. /\ ModesShape' /\ OneHolder' /\ ResultsFit'
        /\ {modes'[k] : k \in DOMAIN modes'} \subseteq {modes[k] : k \in DOMAIN modes}
    BY <1>1, StayingModes
  <1>4. SelfCallsAreSafe'
    BY <1>1, <1>2, <1>3, SafeKept
  <1> QED
    BY <1>1, <1>2, <1>3, <1>4 DEF MInv

(* What Bytecode's forms are here.                                         *)
LEMMA FormsStay ==
  ASSUME MInv, Forms, ~Pushes
  PROVE  Stays /\ Shape' /\ UNCHANGED chunks /\ status' \in {"running", "ended", "halted", "panicked"}
  BY ShapeKept DEF Forms, Stays, Moves, Ahead, Leaves, Stops, MInv

LEMMA StepKeeps ==
  ASSUME MInv, Step
  PROVE  MInv'
  <1>1. Forms /\ Shape' /\ UNCHANGED chunks
    BY NextForms, ShapeKept DEF Step, MInv, Forms
  <1>2. UNCHANGED <<chunks, calls, compiled>> /\ compiled \subseteq compiled' /\ Counters'
    BY <1>1 DEF Step, compiling, MInv, Counters, Eligible, Accepted, HasLoops, Blocks
  <1>3. Statuses' /\ status' # "deadlocked"
    BY <1>1 DEF Forms, Ahead, Pushes, Leaves, Stops, Statuses
  <1>4. CASE Pushes
    <2>1. PICK fr : FrameShape(fr) /\ frames' = Append([frames EXCEPT ![Len(frames)].ip = Next1], fr)
      BY <1>4 DEF Pushes
    <2>2. Len(frames') = Len(frames) + 1
      BY <1>1, <2>1, PushFrames DEF MInv
    <2>3. Len(frames') > Len(frames)
      BY <2>2, ModesFacts
    <2>4. modes' = Append(modes, Mode) /\ Mode # "native" /\ Mode \in Modes
      BY <2>3, ModesFacts DEF Step
    <2>5. /\ ModesShape' /\ OneHolder' /\ ResultsFit'
          /\ {modes'[k] : k \in DOMAIN modes'} \subseteq {modes[k] : k \in DOMAIN modes} \cup {Mode}
      BY <1>1, <1>2, <2>1, <2>4, EnteredModes DEF Modes
    <2>6. Mode \in {modes[k] : k \in DOMAIN modes}
      BY ModesFacts
    <2>7. SelfCallsAreSafe'
      BY <1>2, <1>3, <2>5, <2>6, SafeKept
    <2> QED
      BY <1>1, <1>2, <1>3, <2>5, <2>7 DEF MInv
  <1>5. CASE ~Pushes
    <2>1. Stays /\ status' \in {"running", "ended", "halted", "panicked"}
      BY <1>1, <1>5, FormsStay
    <2>2. Len(frames') \in 1 .. Len(frames)
      BY <1>1, <2>1, StayingFrames
    <2>3. ~(Len(frames') > Len(frames))
      BY <2>2, ModesFacts
    <2>4. modes' = SubSeq(modes, 1, Len(frames'))
      BY <2>3 DEF Step
    <2> QED
      BY <1>1, <2>1, <2>4, StayKeeps DEF Step
  <1> QED
    BY <1>4, <1>5

(* A call, in whatever mode, of whatever mode.                             *)
LEMMA CallKeeps ==
  ASSUME MInv, Call, Counted(Op.f) \/ UNCHANGED compiling,
         NEW mode \in Modes, modes' = Append(modes, mode),
         mode = "holding" => Mode = "holding",
         mode = "native" => Op.f \in compiled,
         mode = "without" => Mode = "without" \/ (Mode = "native" /\ Op.f \notin compiled),
         Mode = "native" => Op.dst \in DOMAIN Top.reg
  PROVE  MInv'
  <1> DEFINE fr == Frame(Op.f, chunks[Op.f], Operands, Op.dst)
  <1>1. Runs({"Call"}) /\ UNCHANGED Rest /\ frames' = Append([frames EXCEPT ![Len(frames)].ip = Next1], fr)
    BY DEF Call
  <1>2. UNCHANGED <<chunks, fibers, status>> /\ status = "running" /\ Op.op = "Call"
    BY <1>1, RestKept DEF Runs
  <1>3. Op.f \in DOMAIN chunks /\ Top.ip < Len(Code)
    BY <1>1, OpShape DEF Runs, MInv
  <1>4. fr.f = Op.f /\ fr.fiber = NoFiber /\ fr.dst = Op.dst /\ FrameShape(fr)
    BY <1>3, LocalsFacts DEF FrameShape, Frame
  <1>5. Counters' /\ compiled \subseteq compiled'
    BY <1>2, <1>3, CountedKeeps DEF MInv
  <1>6. Shape'
    BY CallForms, ShapeKept DEF MInv
  <1> HIDE DEF fr
  <1>7. /\ ModesShape' /\ OneHolder' /\ ResultsFit'
        /\ {modes'[k] : k \in DOMAIN modes'} \subseteq {modes[k] : k \in DOMAIN modes} \cup {mode}
    BY <1>1, <1>2, <1>4, <1>5, EnteredModes DEF Modes
  <1>8. Mode = "native" /\ Op.f \notin compiled => \E f \in compiled : CallsAnother(f)
    <2> SUFFICES ASSUME Mode = "native", Op.f \notin compiled
                 PROVE  \E f \in compiled : CallsAnother(f)
      OBVIOUS
    <2>1. Top.f \in compiled
      BY ModesFacts DEF MInv, OneHolder, Top
    <2>2. Top.ip + 1 \in DOMAIN chunks[Top.f].code /\ Op = chunks[Top.f].code[Top.ip + 1]
      BY <1>3, TopShape DEF MInv, Op, Code
    <2>3. CallsAnother(Top.f)
      BY <1>2, <2>1, <2>2 DEF CallsAnother
    <2> QED
      BY <2>1, <2>3
  <1>9. SelfCallsAreSafe'
    <2>1. Mode \in {modes[k] : k \in DOMAIN modes}
      BY ModesFacts
    <2>2. CASE mode # "without"
      <3>1. "without" \in {modes'[k] : k \in DOMAIN modes'} => "without" \in {modes[k] : k \in DOMAIN modes}
        BY <1>7, <2>2
      <3>2. CASE "without" \in {modes[k] : k \in DOMAIN modes}
        BY <1>2, <1>5, <3>2 DEF MInv, SelfCallsAreSafe, CallsAnother
      <3>3. CASE "without" \notin {modes[k] : k \in DOMAIN modes}
        BY <1>2, <1>5, <3>1, <3>3, SafeKept
      <3> QED
        BY <3>2, <3>3
    <2>3. CASE mode = "without" /\ Mode = "without"
      BY <1>2, <1>5, <1>7, <2>1, <2>3, SafeKept
    <2>4. CASE mode = "without" /\ Mode = "native" /\ Op.f \notin compiled
      BY <1>2, <1>5, <1>8, <2>4, SafeKept
    <2> QED
      BY <2>2, <2>3, <2>4
  <1> QED
    BY <1>2, <1>5, <1>6, <1>7, <1>9 DEF MInv, Statuses

LEMMA EnterKeeps ==
  ASSUME MInv, Enter
  PROVE  MInv'
  <1>1. Mode \in Modes /\ Mode # "native" /\ Runs({"Call"})
    BY ModesFacts DEF Enter, Call
  <1>2. CalleeMode \in Modes /\ modes' = Append(modes, CalleeMode)
    BY <1>1 DEF Enter, CalleeMode, Modes
  <1>3. /\ CalleeMode = "holding" => Mode = "holding"
        /\ CalleeMode = "native" => Op.f \in compiled
        /\ CalleeMode = "without" => Mode = "without"
    BY <1>1 DEF CalleeMode, Modes
  <1> QED
    BY <1>1, <1>2, <1>3, CallKeeps DEF Enter

LEMMA GiveBackKeeps ==
  ASSUME MInv, GiveBack
  PROVE  MInv'
  <1>1. PICK n \in NativeFrames : \E v : frames' = Given(n, v) /\ modes' = SubSeq(modes, 1, n)
    BY DEF GiveBack
  <1>2. PICK v : frames' = Given(n, v) /\ modes' = SubSeq(modes, 1, n)
    BY <1>1
  <1>3. status = "running" /\ UNCHANGED <<chunks, fibers, status, compiling>>
    BY DEF GiveBack, Loaded
  <1>4. Leaves /\ Len(frames') = n
    BY <1>2, <1>3, GivenLeaves DEF NativeFrames
  <1>5. Shape'
    BY <1>3, <1>4, FibersKept, ShapeKept DEF Forms, MInv
  <1> QED
    BY <1>2, <1>3, <1>4, <1>5, StayKeeps DEF Stays

(* The program stops where it is.                                          *)
LEMMA StopKeeps ==
  ASSUME MInv, NEW st \in {"panicked", "deadlocked", "undefined"}, Stop(st),
         st = "deadlocked" => Mode = "without"
  PROVE  MInv'
  <1>1. UNCHANGED <<chunks, frames, fibers, modes, calls, compiled>> /\ status' = st
    BY DEF Stop, Loaded, compiling
  <1>2. Shape' /\ ModesShape' /\ OneHolder' /\ ResultsFit' /\ Statuses'
    BY <1>1 DEF MInv, Shape, WellFormed, FramesShape, FrameShape, FibersShape, FiberShape,
                ModesShape, OneHolder, ResultsFit, Statuses
  <1>3. Counters'
    BY <1>1 DEF MInv, Counters, Eligible, Accepted, HasLoops, Blocks
  <1>4. st = "deadlocked" => "without" \in {modes[k] : k \in DOMAIN modes}
    BY ModesFacts
  <1>5. SelfCallsAreSafe'
    BY <1>1, <1>4, SafeKept
  <1> QED
    BY <1>2, <1>3, <1>5 DEF MInv

-----------------------------------------------------------------------------
(* Machine code.                                                           *)

LEMMA ExecutesFacts ==
  ASSUME NEW ops, Executes(ops)
  PROVE  Running /\ Mode = "native" /\ Op.op \in ops /\ Defined(Op)
  BY DEF Executes, Runs, Running

(* What goes on in its frame keeps the invariant.                          *)
LEMMA MoveKeeps ==
  ASSUME MInv, NEW ip \in Nat, NEW reg, IsFun(reg), Go(ip, reg), status = "running",
         UNCHANGED <<chunks, fibers, status>>, KeepMode
  PROVE  MInv'
  <1>1. FramesShape' /\ Len(frames') = Len(frames)
    BY AheadFrames DEF MInv
  <1>2. Shape'
    BY <1>1, FibersKept DEF MInv, Shape, WellFormed
  <1> QED
    BY <1>1, <1>2, StayKeeps DEF KeepMode, Stays, Moves

LEMMA NativeCopyKeeps ==
  ASSUME MInv, NativeCopy
  PROVE  MInv'
  <1>1. Running /\ Op.op \in {"LoadConst", "Move", "GetVar", "SetVar", "IncVar", "Jump"} /\ KeepMode
    BY ExecutesFacts DEF NativeCopy
  <1>2. UNCHANGED <<chunks, fibers, status>> /\ status = "running"
    BY <1>1 DEF Running, NativeCopy, LoadConst, Move, GetVar, SetVar, IncVar, Jump, Rest, Machine, Loaded
  <1>3. IsFun(Top.reg) /\ Next1 \in Nat
    BY TopShape DEF MInv, FrameShape, Next1
  <1>4. \E ip \in Nat : \E reg : IsFun(reg) /\ Go(ip, reg)
    <2>1. CASE LoadConst \/ Move \/ GetVar
      <3>1. PICK v : Write(v)
        BY <2>1 DEF LoadConst, Move, GetVar
      <3> QED
        BY <1>3, <3>1 DEF Write, IsFun
    <2>2. CASE SetVar \/ IncVar
      BY <1>3, <2>2 DEF SetVar, IncVar
    <2>3. CASE Jump
      <3>1. Op.op = "Jump" /\ Top.ip < Len(Code)
        BY <2>3 DEF Jump, Runs
      <3>2. Op.target \in Nat
        BY <3>1, OpShape DEF MInv, Operated, JumpOps
      <3> QED
        BY <1>3, <2>3, <3>2 DEF Jump
    <2> QED
      BY <2>1, <2>2, <2>3 DEF NativeCopy
  <1> QED
    BY <1>1, <1>2, <1>4, MoveKeeps

LEMMA NativeBinaryKeeps ==
  ASSUME MInv, NativeBinary
  PROVE  MInv'
  <1>1. Running /\ KeepMode /\ UNCHANGED Rest
    BY ExecutesFacts DEF NativeBinary
  <1>2. PICK v : Write(v)
    BY DEF NativeBinary
  <1>3. Next1 \in Nat /\ Go(Next1, [Top.reg EXCEPT ![Op.dst] = v])
    BY <1>2, TopShape DEF MInv, FrameShape, Next1, Write
  <1>4. IsFun([Top.reg EXCEPT ![Op.dst] = v])
    BY DEF IsFun
  <1> QED
    BY <1>1, <1>3, <1>4, RestKept, MoveKeeps DEF Running

LEMMA NativeBranchKeeps ==
  ASSUME MInv, NativeBranch
  PROVE  MInv'
  <1>1. Running /\ Op.op \in {"JumpIfFalse", "JumpIfTrue"} /\ KeepMode /\ UNCHANGED Rest
    BY ExecutesFacts DEF NativeBranch
  <1>2. PICK ip \in {Op.target, Next1} : Go(ip, Top.reg)
    BY DEF NativeBranch
  <1>3. ip \in Nat
    BY <1>1, OpShape, TopShape DEF Running, MInv, Operated, JumpOps, FrameShape, Next1
  <1>4. IsFun(Top.reg)
    BY TopShape DEF MInv, FrameShape
  <1> QED
    BY <1>1, <1>2, <1>3, <1>4, RestKept, MoveKeeps DEF Running

LEMMA NativeLoopKeeps ==
  ASSUME MInv, NativeLoop
  PROVE  MInv'
  <1>1. Running /\ Op.op \in LoopOps /\ KeepMode /\ UNCHANGED <<chunks, fibers, status>>
    BY ExecutesFacts DEF NativeLoop, LoopOps, Machine, Loaded
  <1>2. PICK reg : IsFun(reg) /\ Loops(reg)
    <2>1. IsFun(Top.reg) /\ \A v : IsFun([Top.reg EXCEPT ![Op.inc] = v])
      BY TopShape DEF MInv, FrameShape, IsFun
    <2> QED
      BY <2>1 DEF NativeLoop
  <1>3. PICK ip \in {Op.target, Next1} : \E n : Go(ip, [reg EXCEPT ![Op.reg] = IntValue(n)])
    BY <1>2 DEF Loops
  <1>4. ip \in Nat
    BY <1>1, OpShape, TopShape DEF Running, MInv, Operated, JumpOps, FrameShape, Next1
  <1>5. \A n : IsFun([reg EXCEPT ![Op.reg] = IntValue(n)])
    BY DEF IsFun
  <1> QED
    BY <1>1, <1>3, <1>4, <1>5, MoveKeeps DEF Running

LEMMA NativeCallKeeps ==
  ASSUME MInv, NativeCall
  PROVE  MInv'
  <1>1. Running /\ Mode = "native" /\ Op.op = "Call" /\ Defined(Op) /\ Call
    BY ExecutesFacts DEF NativeCall
  <1>2. Op.dst \in DOMAIN Top.reg
    BY <1>1 DEF Defined
  <1>3. CASE Op.f \in compiled
    BY <1>1, <1>2, <1>3, CallKeeps DEF NativeCall, Modes
  <1>4. CASE Op.f \notin compiled
    BY <1>1, <1>2, <1>4, CallKeeps DEF NativeCall, Modes
  <1> QED
    BY <1>3, <1>4

(* Machine code has a caller, which has the guard or is machine code.      *)
LEMMA CallerFacts ==
  ASSUME MInv, Mode = "native"
  PROVE  Len(frames) > 1 /\ Len(frames) - 1 \in 1 .. Len(frames) - 1 /\ Top.fiber = NoFiber
  <1> DEFINE n == Len(frames)
  <1>1. n \in Nat /\ n > 0 /\ modes[n] = "native" /\ modes[1] = "holding" /\ DOMAIN modes = 1 .. n
    BY ModesFacts DEF MInv, ModesShape
  <1>2. Top.fiber = NoFiber
    <2>1. n \in DOMAIN modes
      BY <1>1
    <2> QED
      BY <1>1, <2>1 DEF MInv, OneHolder, Top
  <1> HIDE DEF n
  <1>3. n > 1 /\ n - 1 \in 1 .. n - 1
    BY <1>1
  <1> QED
    BY <1>2, <1>3 DEF n

LEMMA LeaveKeeps ==
  ASSUME MInv, status = "running", Mode = "native", NEW v, Leave(v)
  PROVE  MInv'
  <1>1. UNCHANGED <<chunks, compiling>> /\ modes' = SubSeq(modes, 1, Len(frames'))
    BY DEF Leave, Loaded
  <1>2. Len(frames) - 1 \in 1 .. Len(frames) - 1
    BY CallerFacts
  <1>3. CASE frames' = Given(Len(frames) - 1, v) /\ UNCHANGED <<fibers, status>>
    <2>1. Leaves
      BY <1>2, <1>3, GivenLeaves
    <2>2. Shape'
      BY <1>1, <1>3, <2>1, FibersKept, ShapeKept DEF Forms, MInv
    <2> QED
      BY <1>1, <1>3, <2>1, <2>2, StayKeeps DEF Stays
  <1>4. CASE LeaveCall(v, errors, "ended")
    <2>1. (Leaves \/ Stops) /\ FibersShape'
      BY <1>1, <1>4, LeaveCallForms DEF MInv
    <2>2. Shape'
      BY <1>1, <2>1, ShapeKept DEF Forms, MInv
    <2>3. status' \in {"running", "ended", "halted", "panicked"}
      BY <2>1 DEF Leaves, Stops
    <2> QED
      BY <1>1, <2>1, <2>2, <2>3, StayKeeps DEF Stays
  <1> QED
    BY <1>3, <1>4 DEF Leave

LEMMA NextKeeps ==
  ASSUME MInv, MNext
  PROVE  MInv'
  <1>1. CASE GiveBack
    BY <1>1, GiveBackKeeps
  <1>2. CASE LoseGuard
    BY <1>2, StopKeeps DEF LoseGuard
  <1>3. CASE WaitForItself
    BY <1>3, StopKeeps DEF WaitForItself
  <1>4. CASE NativeReturn
    <2>1. PICK v : Leave(v)
      BY <1>4 DEF NativeReturn
    <2>2. status = "running" /\ Mode = "native"
      BY <1>4 DEF NativeReturn, Executes, Runs
    <2> QED
      BY <2>1, <2>2, LeaveKeeps
  <1>5. CASE Quit
    BY <1>5, LeaveKeeps DEF Quit, AtNative
  <1>6. CASE Stray
    BY <1>6, StopKeeps DEF Stray
  <1> QED
    BY <1>1, <1>2, <1>3, <1>4, <1>5, <1>6, StepKeeps, EnterKeeps, NativeCopyKeeps, NativeBinaryKeeps,
       NativeBranchKeeps, NativeLoopKeeps, NativeCallKeeps DEF MNext, Interpret, Native

LEMMA InitKeeps ==
  ASSUME MInit
  PROVE  MInv
  <1>1. Shape /\ status = "running" /\ frames = <<Frame("main", chunks["main"], <<>>, 0)>>
    BY InitShape DEF MInit, Init
  <1>2. Len(frames) = 1 /\ modes = <<"holding">> /\ calls = [f \in DOMAIN chunks |-> 0] /\ compiled = {}
    BY <1>1 DEF MInit
  <1>3. DOMAIN modes = {1} /\ modes[1] = "holding" /\ Len(modes) = 1 /\ IsSeq(modes)
    <2>1. modes \in Seq({"holding"}) /\ DOMAIN modes = {1} /\ modes[1] = "holding" /\ Len(modes) = 1
      BY <1>2
    <2> QED
      BY <2>1 DEF IsSeq
  <1>4. ModesShape /\ ResultsFit
    BY <1>2, <1>3 DEF ModesShape, ResultsFit, Modes
  <1>5. OneHolder
    BY <1>3 DEF OneHolder
  <1>6. Counters
    BY <1>2, ThresholdAssumption DEF Counters
  <1>7. SelfCallsAreSafe
    BY <1>1, <1>3 DEF SelfCallsAreSafe
  <1> QED
    BY <1>1, <1>4, <1>5, <1>6, <1>7 DEF MInv, Statuses

LEMMA StutterKeeps ==
  ASSUME MInv, UNCHANGED mvars
  PROVE  MInv'
  <1>1. UNCHANGED <<vars, modes, calls, compiled>>
    BY DEF mvars, compiling
  <1>2. Shape' /\ ModesShape' /\ OneHolder' /\ ResultsFit' /\ Statuses' /\ SelfCallsAreSafe'
    BY <1>1 DEF MInv, vars, Shape, WellFormed, FramesShape, FrameShape, FibersShape, FiberShape,
                ModesShape, OneHolder, ResultsFit, Statuses, SelfCallsAreSafe, CallsAnother
  <1>3. Counters'
    BY <1>1 DEF vars, MInv, Counters, Eligible, Accepted, HasLoops, Blocks
  <1> QED
    BY <1>2, <1>3 DEF MInv

LEMMA MInvariant == MSpec => []MInv
  <1>1. MInit => MInv
    BY InitKeeps
  <1>2. MInv /\ [MNext]_mvars => MInv'
    BY NextKeeps, StutterKeeps
  <1> QED
    BY <1>1, <1>2, PTL DEF MSpec

-----------------------------------------------------------------------------
(* What runs is the bytecode.                                              *)

LEMMA ArithmeticOfInts ==
  ASSUME NEW op, NEW a, NEW b, IsInt(a), IsInt(b), ~Divides(op)
  PROVE  Arithmetic(op, a, b) = <<IntValue(IntArithmetic(op, a.n, b.n))>>
  <1>1. a.t # "string" /\ b.t # "string" /\ IsNumeric(a) /\ IsNumeric(b)
    BY DEF IsInt, IsNumeric
  <1> QED
    BY <1>1 DEF Arithmetic, Divides

LEMMA BinaryIsNext ==
  ASSUME MInv, NativeBinary, ~TakesForInts
  PROVE  Next
  <1> DEFINE a == R(Op.src1)
             b == R(Op.src2)
             x == AsInt(a)
             y == AsInt(b)
  <1>1. /\ Runs({"Add", "Sub", "Mul"} \cup Comparisons) /\ UNCHANGED Rest
        /\ Write(IF Op.op \in Comparisons THEN BoolValue(Comparing(Op.op, x, y))
                 ELSE IntValue(IntArithmetic(Op.op, x, y)))
    BY DEF NativeBinary, Executes
  <1>2. CASE Op.op \in {"Add", "Sub", "Mul"}
    <2> DEFINE value  == IntValue(IntArithmetic(Op.op, x, y))
               result == Arithmetic(Op.op, a, b)
    <2>1. IsInt(a) /\ IsInt(b) /\ Op.op \notin Comparisons /\ ~Divides(Op.op) /\ Op.op \in Arithmetics
      BY <1>2 DEF TakesForInts, Comparisons, Divides, Arithmetics
    <2>2. x = a.n /\ y = b.n
      BY <2>1 DEF IsInt, AsInt
    <2>3. Arithmetic(Op.op, a, b) = <<IntValue(IntArithmetic(Op.op, a.n, b.n))>>
      <3> HIDE DEF a, b
      <3> QED
        BY <2>1, ArithmeticOfInts
    <2>4. result = <<value>> /\ Write(value) /\ Runs(Arithmetics)
      BY <1>1, <2>1, <2>2, <2>3 DEF Runs
    <2> HIDE DEF value
    <2>5. result # <<>> /\ result[1] = value
      BY <2>4
    <2> HIDE DEF result
    <2>6. IF result = <<>> THEN Halt(FALSE) ELSE Write(result[1]) /\ UNCHANGED Rest
      BY <1>1, <2>4, <2>5
    <2>7. Arithmetically
      BY <2>4, <2>6 DEF Arithmetically, result
    <2> QED
      BY <2>7 DEF Next
  <1>3. CASE Op.op \in Comparisons
    <2>1. PICK t \in {"int", "bool"} : a = [t |-> t, n |-> x] /\ b = [t |-> t, n |-> y]
      BY <1>3 DEF TakesForInts
    <2>2. a.t = b.t /\ a.n = x /\ b.n = y /\ ~IsPointer(a) /\ ~IsPointer(b) /\ (a = b <=> x = y)
      BY <2>1 DEF IsPointer
    <2>3. Rank(a) = Rank(b) /\ Rank(a) \in Nat
      BY <2>1, <2>2 DEF Rank
    <2>4. Below(a, b) = (x < y) /\ Below(b, a) = (y < x)
      <3>1. (Below(a, b) <=> x < y) /\ (Below(b, a) <=> y < x)
        BY <2>2, <2>3 DEF Below
      <3>2. Below(a, b) \in BOOLEAN /\ Below(b, a) \in BOOLEAN
        BY Zenon DEF Below
      <3>3. (x < y) \in BOOLEAN /\ (y < x) \in BOOLEAN
        BY SMT
      <3> HIDE DEF a, b, x, y
      <3> QED
        BY <3>1, <3>2, <3>3, Zenon
    <2>5. Compare(Op.op, a, b) = Comparing(Op.op, x, y)
      <3> HIDE DEF a, b, x, y
      <3>1. CASE Op.op = "Equal" \/ Op.op = "NotEqual"
        BY <2>2, <3>1 DEF Compare, Comparing
      <3>2. CASE Op.op = "Less" \/ Op.op = "GreaterEqual"
        BY <2>4, <3>2 DEF Compare, Comparing
      <3>3. CASE Op.op = "Greater" \/ Op.op = "LessEqual"
        BY <2>4, <3>3 DEF Compare, Comparing
      <3> QED
        BY <1>3, <3>1, <3>2, <3>3 DEF Comparisons
    <2>6. Comparison
      BY <1>1, <1>3, <2>5 DEF Comparison, Runs
    <2> QED
      BY <2>6 DEF Next
  <1> QED
    BY <1>1, <1>2, <1>3 DEF Runs

LEMMA BranchIsNext ==
  ASSUME MInv, NativeBranch, ~TakesForBool
  PROVE  Next
  <1>1. Runs({"JumpIfFalse", "JumpIfTrue"}) /\ UNCHANGED Rest
    BY DEF NativeBranch, Executes
  <1>2. Taken(R(Op.src)) = LowBit(R(Op.src))
    BY <1>1 DEF TakesForBool, Taken, Runs
  <1>3. JumpIf
    BY <1>1, <1>2 DEF NativeBranch, JumpIf
  <1> QED
    BY <1>3 DEF Next

(* A loop's own count, whatever comes before it.                           *)
LEMMA LoopsIsAround ==
  ASSUME NEW reg, Loops(reg), reg[Op.reg] = R(Op.reg), reg[Op.limit] = R(Op.limit),
         IsInt(R(Op.reg)), IsInt(R(Op.limit))
  PROVE  /\ AsInt(R(Op.limit)) = R(Op.limit).n
         /\ Incremented(R(Op.reg)) = IntValue(R(Op.reg).n + 1)
         /\ Go(Around(R(Op.reg).n + 1, R(Op.limit).n), [reg EXCEPT ![Op.reg] = Incremented(R(Op.reg))])
  <1>1. AsInt(R(Op.limit)) = R(Op.limit).n /\ AsInt(R(Op.reg)) = R(Op.reg).n
    BY DEF IsInt, AsInt
  <1> QED
    BY <1>1 DEF Loops, Around, Incremented

LEMMA LoopIsNext ==
  ASSUME MInv, NativeLoop, ~CountsOther
  PROVE  Next
  <1>1. /\ UNCHANGED <<Machine, heap, fibers, out>>
        /\ Op.op \in LoopOps /\ IsInt(R(Op.reg)) /\ IsInt(R(Op.limit))
    BY DEF NativeLoop, Executes, Runs, CountsOther, LoopOps
  <1>2. AsInt(R(Op.limit)) = R(Op.limit).n /\ Incremented(R(Op.reg)) = IntValue(R(Op.reg).n + 1)
    BY <1>1 DEF IsInt, AsInt, Incremented
  <1>3. IsFun(Top.reg)
    BY TopShape DEF MInv, FrameShape
  <1>4. CASE Executes({"LoopNext"}) /\ Loops(Top.reg) /\ UNCHANGED globals
    <2>1. Go(Around(R(Op.reg).n + 1, R(Op.limit).n), [Top.reg EXCEPT ![Op.reg] = Incremented(@)])
      BY <1>1, <1>4, LoopsIsAround DEF R
    <2>2. LoopNext
      BY <1>1, <1>4, <2>1 DEF LoopNext, Executes, Rest
    <2> QED
      BY <2>2 DEF Next
  <1>5. CASE /\ Executes({"IncVarLoopNext"}) /\ Loops(Top.reg)
             /\ globals' = [globals EXCEPT ![Op.x] = Incremented(@)]
    <2>1. Go(Around(R(Op.reg).n + 1, R(Op.limit).n), [Top.reg EXCEPT ![Op.reg] = Incremented(@)])
      BY <1>1, <1>5, LoopsIsAround DEF R
    <2>2. IncVarLoopNext
      BY <1>1, <1>2, <1>5, <2>1 DEF IncVarLoopNext, Executes
    <2> QED
      BY <2>2 DEF Next
  <1>6. CASE /\ Executes({"IncLocalLoopNext"}) /\ UNCHANGED globals
             /\ Loops([Top.reg EXCEPT ![Op.inc] = Incremented(@)])
    <2> DEFINE reg == [Top.reg EXCEPT ![Op.inc] = Incremented(@)]
    <2>1. Op.inc # Op.reg /\ Op.inc # Op.limit
      BY <1>6 DEF CountsOther, Executes, Runs
    <2>2. reg[Op.reg] = R(Op.reg) /\ reg[Op.limit] = R(Op.limit)
      BY <1>3, <2>1 DEF R, IsFun
    <2>3. Go(Around(R(Op.reg).n + 1, R(Op.limit).n), [reg EXCEPT ![Op.reg] = Incremented(R(Op.reg))])
      <3> HIDE DEF reg
      <3> QED
        BY <1>1, <1>6, <2>2, LoopsIsAround DEF reg
    <2>4. [reg EXCEPT ![Op.reg] = Incremented(R(Op.reg))] =
            [[Top.reg EXCEPT ![Op.reg] = Incremented(@)] EXCEPT ![Op.inc] = Incremented(@)]
      BY <1>3, <2>1 DEF R, IsFun
    <2>5. IncLocalLoopNext
      BY <1>1, <1>2, <1>6, <2>3, <2>4 DEF IncLocalLoopNext, Executes, Rest
    <2> QED
      BY <2>5 DEF Next
  <1> QED
    BY <1>4, <1>5, <1>6 DEF NativeLoop

(* Where the caller is machine code, the register for the result is there. *)
LEMMA GivenIsLeaveCall ==
  ASSUME MInv, Len(frames) > 1, modes[Len(frames) - 1] = "native", ~errors,
         NEW v, frames' = Given(Len(frames) - 1, v), UNCHANGED <<fibers, status>>
  PROVE  LeaveCall(v, errors, "ended")
  <1> DEFINE n == Len(frames)
  <1>1. n \in Nat /\ n > 1 /\ n \in 2 .. n /\ n # 1 /\ (n - 1) + 1 = n /\ (n - 1) - 1 = n - 2
    BY ModesFacts
  <1>2. Top = frames[n] /\ Caller = frames[n - 1]
    BY DEF Top, Caller
  <1>3. Top.dst \in DOMAIN Caller.reg
    BY <1>1, <1>2 DEF MInv, ResultsFit
  <1>4. frames' = Append(SubSeq(frames, 1, n - 2), [Caller EXCEPT !.reg = [@ EXCEPT ![Top.dst] = v]])
    BY <1>1, <1>2 DEF Given
  <1> QED
    BY <1>1, <1>3, <1>4 DEF LeaveCall

LEMMA ReturnIsNext ==
  ASSUME MInv, NativeReturn, ~IgnoresErrors
  PROVE  Next
  <1>1. /\ Runs({"Return", "ReturnVoid"}) /\ Mode = "native" /\ ~errors
        /\ UNCHANGED <<Loaded, globals, heap, out, errors>>
    BY DEF NativeReturn, Executes, Runs, IgnoresErrors, Leave
  <1>2. Len(frames) > 1 /\ Top.fiber = NoFiber
    BY <1>1, CallerFacts
  <1>3. \A v : Leave(v) => LeaveCall(v, errors, "ended")
    BY <1>1, <1>2, GivenIsLeaveCall DEF Leave
  <1>4. CASE Executes({"Return"}) /\ Leave(R(Op.src))
    <2>1. LeaveWith(<<R(Op.src)>>)
      BY <1>1, <1>2, <1>3, <1>4 DEF LeaveWith
    <2> QED
      BY <1>4, <2>1 DEF Executes, ReturnOp, Next
  <1>5. CASE Executes({"ReturnVoid"}) /\ Leave(Unset)
    <2>1. LeaveWith(<<>>)
      BY <1>1, <1>2, <1>3, <1>5 DEF LeaveWith
    <2> QED
      BY <1>5, <2>1 DEF Executes, ReturnVoid, Next
  <1> QED
    BY <1>4, <1>5 DEF NativeReturn

LEMMA GiveBackIsNext ==
  ASSUME MInv, GiveBack, ~CalledDiffers
  PROVE  Next
  <1>1. Runs({"Return"}) /\ ~errors /\ Ends
    BY DEF GiveBack, CalledDiffers
  <1>2. ~HaltsCounted
    BY <1>1 DEF HaltsCounted, On, Runs
  <1>3. PICK n \in NativeFrames :
          /\ ReachesNative(n)
          /\ frames' = Given(n, IF n = Len(frames) - 1 /\ Runs({"Return"}) THEN R(Op.src) ELSE Zero)
    BY DEF GiveBack
  <1>4. n = Len(frames) - 1 /\ frames' = Given(Len(frames) - 1, R(Op.src))
    BY <1>1, <1>2, <1>3 DEF ReachesNative
  <1>5. Len(frames) > 1 /\ modes[Len(frames) - 1] = "native" /\ Top.fiber = NoFiber
    <2> DEFINE m == Len(frames)
    <2>1. m \in Nat /\ n \in 1 .. m - 1 /\ modes[n] = "native" /\ n = m - 1
          /\ \A k \in n + 1 .. m : frames[k].fiber = NoFiber
      BY <1>3, <1>4, ModesFacts DEF NativeFrames, ReachesNative
    <2>2. Top = frames[m]
      BY DEF Top
    <2> HIDE DEF m
    <2>3. m > 1 /\ m \in n + 1 .. m
      BY <2>1
    <2> QED
      BY <2>1, <2>2, <2>3 DEF m
  <1>6. UNCHANGED <<Loaded, globals, heap, fibers, out, status>> /\ UNCHANGED errors
    BY <1>1, <1>2 DEF GiveBack
  <1>7. LeaveCall(R(Op.src), errors, "ended")
    BY <1>1, <1>4, <1>5, <1>6, GivenIsLeaveCall
  <1>8. LeaveWith(<<R(Op.src)>>)
    BY <1>5, <1>6, <1>7 DEF LeaveWith
  <1> QED
    BY <1>1, <1>8 DEF ReturnOp, Next

LEMMA NativeIsNext ==
  ASSUME MInv, Native, ~Differs
  PROVE  Next
  <1>1. Mode = "native" /\ ~NativeDiffers
    BY DEF Native, NativeCopy, NativeBinary, NativeBranch, NativeLoop, NativeCall, NativeReturn,
           Executes, Quit, Stray, AtNative, Differs
  <1>2. CASE NativeCopy
    BY <1>2 DEF NativeCopy, Next
  <1>3. CASE NativeCall
    BY <1>3 DEF NativeCall, Next
  <1>4. ~Quit /\ ~Stray
    BY <1>1 DEF Quit, Stray, NativeDiffers
  <1> QED
    BY <1>1, <1>2, <1>3, <1>4, BinaryIsNext, BranchIsNext, LoopIsNext, ReturnIsNext
    DEF Native, NativeDiffers

LEMMA InterpretIsNext ==
  ASSUME MInv, Interpret, ~Differs
  PROVE  Next
  <1>1. CASE Step
    BY <1>1 DEF Step
  <1>2. CASE Enter
    BY <1>2 DEF Enter, Next
  <1>3. CASE GiveBack
    BY <1>3, GiveBackIsNext DEF GiveBack, Differs
  <1>4. ~LoseGuard /\ ~WaitForItself
    BY DEF LoseGuard, WaitForItself, Differs, CalledDiffers
  <1> QED
    BY <1>1, <1>2, <1>3, <1>4 DEF Interpret

-----------------------------------------------------------------------------
(* jit.md:25, transparency: whatever functions are compiled, and however   *)
(* calls alternate between machine code and the bytecode loop, every step  *)
(* is one of the bytecode loop's, except the named ones.                   *)
THEOREM ImplementsBytecode == MSpec => Implements
  <1>1. MInv /\ [MNext]_mvars => [Next \/ Differs]_vars
    <2>1. CASE MNext
      BY <2>1, NativeIsNext, InterpretIsNext DEF MNext
    <2>2. CASE UNCHANGED mvars
      BY <2>2 DEF mvars
    <2> QED
      BY <2>1, <2>2
  <1> QED
    BY <1>1, MInvariant, PTL DEF MSpec, Implements

(* vm.rs:2070, one holder of the globals: no frame above machine code has  *)
(* the guard, and none below code without it lacks one for another reason. *)
THEOREM OneHolderHolds == MSpec => []OneHolder
  <1>1. MInv => OneHolder
    BY DEF MInv
  <1> QED
    BY <1>1, MInvariant, PTL

(* vm.rs:2072, a thread that waits for its own lock, or that lost its      *)
(* globals, runs a program in which a compiled function calls another.     *)
THEOREM SelfCallsAreSafeHolds == MSpec => []SelfCallsAreSafe
  <1>1. MInv => SelfCallsAreSafe
    BY DEF MInv
  <1> QED
    BY <1>1, MInvariant, PTL

(* Modes are kept per frame; a function is compiled by the call after      *)
(* CompileThreshold others, once, and only if it is eligible.              *)
THEOREM MTypesHold == MSpec => []MTypeOK
  <1>1. MInv => MTypeOK
    BY SeqFacts DEF MInv, ModesShape, Modes, Counters, Statuses, MTypeOK
  <1> QED
    BY <1>1, MInvariant, PTL
=============================================================================
