---------------------------- MODULE FibersProofs ----------------------------
(***************************************************************************)
(* Machine-checked theorems about Fibers, for any set of fibers, any       *)
(* program and any bounds.  The inductive invariant is built in layers:    *)
(* types, the shape of the native stack, who the value in flight is for,   *)
(* who owns a fiber's registers, and what has been delivered.              *)
(***************************************************************************)
EXTENDS Fibers, SequenceTheorems, TLAPS

-----------------------------------------------------------------------------
(* The three ways a step changes the stack.                                *)

\* Popping the top frame leaves the frames below as they are.
LEMMA BelowFacts ==
    ASSUME TypeOK, Depth > 0
    PROVE  /\ Below \in Seq(Frame)
           /\ Len(Below) = Depth - 1
           /\ \A i \in 1..(Depth - 1) : Below[i] = stack[i]
<1>1. stack \in Seq(Frame) /\ Depth \in Nat /\ Depth - 1 \in Int
  BY DEF TypeOK, Depth
<1>2. \A i \in 1..(Depth - 1) : stack[i] \in Frame
  BY <1>1 DEF Depth
<1>3. /\ Below \in Seq(Frame)
      /\ Len(Below) = IF 1 <= Depth - 1 THEN (Depth - 1) - 1 + 1 ELSE 0
      /\ \A i \in 1..((Depth - 1) - 1 + 1) : Below[i] = stack[1 + i - 1]
  BY <1>1, <1>2, SubSeqProperties, 1 \in Int DEF Below
<1>4. \A i \in 1..(Depth - 1) : 1 + i - 1 = i
  BY <1>1
<1>5. (Depth - 1) - 1 + 1 = Depth - 1 /\ (~(1 <= Depth - 1) => Depth - 1 = 0)
  BY <1>1
<1> QED
  BY <1>3, <1>4, <1>5

\* Changing what the top frame waits for touches nothing else.
LEMMA TopWaitsFacts ==
    ASSUME TypeOK, Depth > 0, NEW w \in Fiber \cup {Func, None}
    PROVE  /\ TopWaits(w) \in Seq(Frame)
           /\ Len(TopWaits(w)) = Depth
           /\ \A i \in 1..(Depth - 1) : TopWaits(w)[i] = stack[i]
           /\ TopWaits(w)[Depth] = [code |-> Top.code, waits |-> w]
<1>1. Depth \in Nat /\ Top \in Frame
  BY DEF TypeOK, Depth, Top
<1>2. [code |-> Top.code, waits |-> w] \in Frame
  BY <1>1 DEF Frame
<1> QED
  BY <1>1, <1>2, BelowFacts, AppendProperties DEF TopWaits

\* A frame pushed on a stack of frames executes code c on top of it.
LEMMA PushFacts ==
    ASSUME NEW s \in Seq(Frame), NEW c \in Fiber \cup {Main, Func}
    PROVE  /\ Append(s, Exec(c)) \in Seq(Frame)
           /\ Len(Append(s, Exec(c))) = Len(s) + 1
           /\ \A i \in 1..Len(s) : Append(s, Exec(c))[i] = s[i]
           /\ Append(s, Exec(c))[Len(s) + 1] = Exec(c)
<1>1. Exec(c) \in Frame
  BY DEF Exec, Frame
<1> QED
  BY <1>1, AppendProperties

-----------------------------------------------------------------------------
(* The shape of the stack.                                                 *)

BottomIsMain == Depth > 0 => stack[1].code = Main

CodeCreated ==
    \A i \in 1..Depth : stack[i].code \in Fiber => stack[i].code \in created

StackOK == stack \in Seq(Frame) /\ BottomIsMain /\ CodeCreated /\ StackShape

StackInv == TypeOK /\ StackOK

\* What a step that pops, pushes or retags leaves behind.
Popped ==
    /\ stack' \in Seq(Frame) /\ Depth' = Depth - 1
    /\ \A i \in 1..(Depth - 1) : stack'[i] = stack[i]

Pushed(c) ==
    /\ stack' \in Seq(Frame) /\ Depth' = Depth + 1
    /\ \A i \in 1..(Depth - 1) : stack'[i] = stack[i]
    /\ stack'[Depth] = [code |-> Top.code, waits |-> c]
    /\ stack'[Depth + 1] = Exec(c)

Retagged(w) ==
    /\ stack' \in Seq(Frame) /\ Depth' = Depth
    /\ \A i \in 1..(Depth - 1) : stack'[i] = stack[i]
    /\ stack'[Depth] = [code |-> Top.code, waits |-> w]

LEMMA IsPopped ==
    ASSUME TypeOK, Depth > 0, stack' = Below
    PROVE  Popped
BY BelowFacts DEF Popped, Depth

LEMMA IsPushed ==
    ASSUME TypeOK, Depth > 0, NEW c \in created \cup {Func},
           stack' = Append(TopWaits(c), Exec(c))
    PROVE  Pushed(c)
<1>1. c \in Fiber \cup {Func, None} /\ c \in Fiber \cup {Main, Func}
  BY DEF TypeOK
<1>2. /\ TopWaits(c) \in Seq(Frame) /\ Len(TopWaits(c)) = Depth
      /\ \A i \in 1..(Depth - 1) : TopWaits(c)[i] = stack[i]
      /\ TopWaits(c)[Depth] = [code |-> Top.code, waits |-> c]
  BY <1>1, TopWaitsFacts
<1>3. /\ stack' \in Seq(Frame) /\ Len(stack') = Len(TopWaits(c)) + 1
      /\ \A i \in 1..Len(TopWaits(c)) : stack'[i] = TopWaits(c)[i]
      /\ stack'[Len(TopWaits(c)) + 1] = Exec(c)
  BY <1>1, <1>2, PushFacts
<1>4. Depth \in 1..Depth /\ \A i \in 1..(Depth - 1) : i \in 1..Depth
  BY DEF TypeOK, Depth
<1>5. \A i \in 1..Depth : stack'[i] = TopWaits(c)[i]
  BY <1>2, <1>3
<1> QED
  BY <1>2, <1>3, <1>4, <1>5 DEF Pushed, Depth

LEMMA IsRetagged ==
    ASSUME TypeOK, Depth > 0, NEW w \in Fiber \cup {Func, None},
           stack' = TopWaits(w)
    PROVE  Retagged(w)
BY TopWaitsFacts DEF Retagged, Depth

\* A frame keeps its code for as long as it is on the stack.
LEMMA SameCode ==
    ASSUME TypeOK, Depth > 0,
           NEW w, Pushed(w) \/ Retagged(w)
    PROVE  \A i \in 1..Depth : stack'[i].code = stack[i].code
<1>1. Depth \in Nat
  BY DEF TypeOK, Depth
<1> SUFFICES ASSUME NEW i \in 1..Depth PROVE stack'[i].code = stack[i].code
  OBVIOUS
<1>2. CASE i = Depth
  BY <1>2 DEF Top, Pushed, Retagged
<1>3. CASE i \in 1..(Depth - 1)
  BY <1>3 DEF Pushed, Retagged
<1> QED
  BY <1>1, <1>2, <1>3

-----------------------------------------------------------------------------
(* Each of those steps keeps the shape of the stack.                       *)

LEMMA StackSame ==
    ASSUME StackInv, stack' = stack, created \subseteq created'
    PROVE  StackOK'
BY DEF StackInv, StackOK, BottomIsMain, CodeCreated, StackShape, Depth

LEMMA StackPop ==
    ASSUME StackInv, Depth > 0, Popped, created' = created
    PROVE  StackOK'
<1>1. Depth \in Nat /\ \A i \in 1..(Depth - 1) : i \in 1..Depth
  BY DEF StackInv, TypeOK, Depth
<1>2. BottomIsMain'
  BY <1>1 DEF StackInv, StackOK, BottomIsMain, Popped
<1>3. CodeCreated'
  BY <1>1 DEF StackInv, StackOK, CodeCreated, Popped
<1>4. StackShape'
  BY <1>1 DEF StackInv, StackOK, StackShape, Popped
<1> QED
  BY <1>2, <1>3, <1>4 DEF StackOK, Popped

LEMMA StackPush ==
    ASSUME StackInv, Depth > 0, NEW c \in created \cup {Func}, Pushed(c),
           created' = created
    PROVE  StackOK'
<1>1. Depth \in Nat /\ 1 \in 1..Depth
  BY DEF StackInv, TypeOK, Depth
<1>2. \A i \in 1..Depth : stack'[i].code = stack[i].code
  BY SameCode DEF StackInv
<1>3. BottomIsMain'
  BY <1>1, <1>2 DEF StackInv, StackOK, BottomIsMain
<1>4. CodeCreated'
  <2> SUFFICES ASSUME NEW i \in 1..(Depth + 1), stack'[i].code \in Fiber
               PROVE  stack'[i].code \in created
    BY DEF CodeCreated, Pushed
  <2>1. CASE i = Depth + 1
    BY <2>1, FibersAssumption DEF Exec, Pushed
  <2>2. CASE i \in 1..Depth
    BY <2>2, <1>2 DEF StackInv, StackOK, CodeCreated
  <2> QED
    BY <2>1, <2>2, <1>1
<1>5. StackShape'
  <2>1. Depth' - 1 = Depth
    BY <1>1 DEF Pushed
  <2> SUFFICES ASSUME NEW i \in 1..Depth PROVE stack'[i].waits = stack'[i + 1].code
    BY <2>1 DEF StackShape
  <2>2. CASE i = Depth
    BY <2>2 DEF Exec, Pushed
  <2>3. CASE i \in 1..(Depth - 1)
    <3>1. i + 1 \in 1..Depth
      BY <2>3, <1>1
    <3> QED
      BY <2>3, <3>1, <1>2 DEF StackInv, StackOK, StackShape, Pushed
  <2> QED
    BY <2>2, <2>3, <1>1
<1> QED
  BY <1>3, <1>4, <1>5 DEF StackOK, Pushed

LEMMA StackRetag ==
    ASSUME StackInv, Depth > 0, NEW w, Retagged(w), created' = created
    PROVE  StackOK'
<1>1. Depth \in Nat /\ 1 \in 1..Depth /\ \A i \in 1..(Depth - 1) : i + 1 \in 1..Depth
  BY DEF StackInv, TypeOK, Depth
<1>2. \A i \in 1..Depth : stack'[i].code = stack[i].code
  BY SameCode DEF StackInv
<1>3. BottomIsMain' /\ CodeCreated'
  BY <1>1, <1>2 DEF StackInv, StackOK, BottomIsMain, CodeCreated, Retagged
<1>4. StackShape'
  BY <1>1, <1>2 DEF StackInv, StackOK, StackShape, Retagged
<1> QED
  BY <1>3, <1>4 DEF StackOK, Retagged

-----------------------------------------------------------------------------
(* The stack invariant: types and shape.                                   *)

LEMMA TopFacts ==
    ASSUME StackInv, Depth > 0
    PROVE  /\ Depth \in Nat /\ Depth \in 1..Depth
           /\ Top \in Frame
           /\ IsFiber => Top.code \in created
<1>1. Depth \in Nat /\ Depth \in 1..Depth /\ Top \in Frame
  BY DEF StackInv, TypeOK, Depth, Top
<1> QED
  BY <1>1 DEF StackInv, StackOK, CodeCreated, Top, IsFiber

\* A step that ends the top activation keeps types and shape.
LEMMA LeaveInv ==
    ASSUME StackInv, Depth > 0, NEW r \in Value \cup {None}, Leave(r),
           done' \in {done, done \cup {Top.code}}, done' # done => IsFiber,
           produced' \in [Fiber -> Nat], delivered' \in [Fiber -> Seq(Nat)],
           errors' \in Nat, ops' \in Nat,
           halted' \in {halted, halted \cup {Top.code}}, halted' # halted => IsFiber
    PROVE  StackInv'
<1>1. StackOK'
  BY IsPopped, StackPop DEF StackInv, Leave
<1>2. /\ created' = created /\ crashed' = crashed /\ result' = r
      /\ alerts' = alerts /\ exhausted' = exhausted
      /\ parked' = IF IsFiber THEN parked \cup {Top.code} ELSE parked
  BY DEF Leave
<1>3. done' \subseteq created /\ halted' \subseteq created /\ parked' \subseteq created
  BY <1>2, TopFacts DEF StackInv, TypeOK
<1>4. stack' \in Seq(Frame)
  BY <1>1 DEF StackOK
<1> QED
  BY <1>1, <1>2, <1>3, <1>4 DEF StackInv, TypeOK

\* The value written to a register is one its fiber produced.
LEMMA WrittenType ==
    ASSUME TypeOK
    PROVE  Written \in [Fiber -> Seq(Nat)]
<1>1. CASE result = None
  BY <1>1 DEF TypeOK, Written
<1>2. CASE result \in Value
  <2>1. result.from \in Fiber /\ result.n \in Nat
    BY <1>2 DEF Value
  <2>2. Append(delivered[result.from], result.n) \in Seq(Nat)
    BY <2>1, AppendProperties DEF TypeOK
  <2> QED
    BY <2>1, <2>2 DEF TypeOK, Written
<1> QED
  BY <1>1, <1>2 DEF TypeOK

\* Resuming pushes the fiber, or panics and leaves the stack.
LEMMA ResumeEffect ==
    ASSUME StackInv, NEW f \in Fiber, Resume(f)
    PROVE  LET saved == IF IsFiber THEN parked \cup {Top.code} ELSE parked
           IN  \/ f \in saved /\ Pushed(f) /\ parked' = saved \ {f} /\ crashed' = crashed
               \/ f \notin saved /\ stack' = stack /\ parked' = parked /\ crashed' = TRUE
<1>1. f \in created /\ Depth > 0 /\ TypeOK
  BY DEF Resume, Executing, StackInv
<1>2. stack' = Append(TopWaits(f), Exec(f)) => Pushed(f)
  BY <1>1, IsPushed
<1> QED
  BY <1>2 DEF Resume, Enter

\* Handing over a result retags the frame that waited for it, and takes the
\* registers of the fiber that runs there, or panics.
LEMMA DeliverEffect ==
    ASSUME StackInv, Deliver
    PROVE  \/ ~IsFiber /\ Retagged(None) /\ parked' = parked /\ crashed' = crashed
           \/ /\ IsFiber /\ Top.code \in parked \ done
              /\ Retagged(None) /\ parked' = parked \ {Top.code} /\ crashed' = crashed
           \/ /\ IsFiber /\ Top.code \notin parked
              /\ stack' = stack /\ parked' = parked /\ crashed' = TRUE
<1>1. Depth > 0 /\ TypeOK
  BY DEF Deliver, Awaiting, StackInv
<1>2. stack' = TopWaits(None) => Retagged(None)
  BY <1>1, IsRetagged
<1>3. Append(Below, Exec(Top.code)) = TopWaits(None)
  BY DEF TopWaits, Exec
<1> QED
  BY <1>2, <1>3 DEF Deliver, Enter

THEOREM StackStep ==
    ASSUME StackInv, [Next]_vars
    PROVE  StackInv'
<1> USE DEF values, report
<1>0. CASE UNCHANGED vars
  BY <1>0, StackSame DEF vars, StackInv, TypeOK, StackOK
<1>1. ASSUME NEW f \in Fiber, Create(f) PROVE StackInv'
  BY <1>1, StackSame DEF Create, Executing, StackInv, TypeOK, StackOK
<1>2. ASSUME NEW f \in Fiber, Close(f) PROVE StackInv'
  BY <1>2, StackSame DEF Close, Executing, StackInv, TypeOK, StackOK
<1>3. ASSUME NEW f \in Fiber, ResumeDone(f) PROVE StackInv'
  BY <1>3, StackSame DEF ResumeDone, Executing, StackInv, TypeOK, StackOK
<1>4. ASSUME NEW f \in Fiber, Resume(f) PROVE StackInv'
  <2>1. Depth > 0 /\ f \in created /\ created' = created /\ ops' = ops + 1
    BY <1>4 DEF Resume, Executing
  <2>2. StackOK' /\ parked' \subseteq created /\ crashed' \in BOOLEAN
    BY <1>4, <2>1, ResumeEffect, StackPush, StackSame, TopFacts DEF StackInv, TypeOK
  <2> QED
    BY <1>4, <2>1, <2>2 DEF Resume, StackInv, TypeOK, StackOK
<1>5. CASE HaltAlert
  BY <1>5, StackSame DEF HaltAlert, Executing, StackInv, TypeOK, StackOK
<1>6. CASE CallFunction
  <2>1. Depth > 0 /\ created' = created /\ ops' = ops + 1
    BY <1>6 DEF CallFunction, Executing
  <2>2. StackOK'
    BY <1>6, <2>1, IsPushed, StackPush DEF CallFunction, StackInv
  <2> QED
    BY <1>6, <2>1, <2>2 DEF CallFunction, StackInv, TypeOK, StackOK
<1>7. ASSUME NEW w \in BOOLEAN, Yield(w) \/ Return(w) PROVE StackInv'
  <2>1. Depth > 0 /\ IsFiber /\ Produce(w) /\ ops' = ops + 1
        /\ done' \in {done, done \cup {Top.code}}
    BY <1>7 DEF Yield, Return, Executing
  <2>2. produced[Top.code] \in Nat
    BY <2>1 DEF IsFiber, StackInv, TypeOK
  <2>3. [from |-> Top.code, n |-> produced[Top.code] + 1, weak |-> w] \in Value
    BY <2>1, <2>2 DEF IsFiber, Value
  <2>4. /\ produced' = [produced EXCEPT ![Top.code] = @ + 1]
        /\ Leave([from |-> Top.code, n |-> produced[Top.code] + 1, weak |-> w])
        /\ UNCHANGED <<delivered, errors, halted>>
    BY <2>1 DEF Produce
  <2>5. produced' \in [Fiber -> Nat]
    <3>1. produced \in [Fiber -> Nat] /\ produced[Top.code] + 1 \in Nat
      BY <2>2 DEF StackInv, TypeOK
    <3>2. produced' = [produced EXCEPT ![Top.code] = produced[Top.code] + 1]
      BY <2>4
    <3> QED
      BY <3>1, <3>2
  <2>6. delivered' \in [Fiber -> Seq(Nat)] /\ errors' \in Nat /\ ops' \in Nat
    BY <2>1, <2>4 DEF StackInv, TypeOK
  <2> QED
    BY <2>1, <2>3, <2>4, <2>5, <2>6, LeaveInv
<1>8. CASE YieldVoid \/ ReturnVoid \/ HaltError \/ RuntimeHalt
  BY <1>8, LeaveInv DEF YieldVoid, ReturnVoid, HaltError, RuntimeHalt, Executing,
     StackInv, TypeOK
<1>9. CASE Deliver
  <2>1. Depth > 0 /\ created' = created
    BY <1>9 DEF Deliver, Awaiting
  <2>2. StackOK' /\ parked' \subseteq created /\ crashed' \in BOOLEAN
    BY <1>9, <2>1, DeliverEffect, StackRetag, StackSame DEF StackInv, TypeOK
  <2> QED
    BY <1>9, <2>1, <2>2, WrittenType DEF Deliver, StackInv, TypeOK, StackOK
<1>10. CASE DeliverToDone
  BY <1>10, LeaveInv, WrittenType DEF DeliverToDone, Awaiting, StackInv, TypeOK
<1>11. CASE AfterCall
  <2>1. CASE errors > 0
    BY <1>11, <2>1, LeaveInv DEF AfterCall, StackInv, TypeOK
  <2>2. CASE ~(errors > 0)
    <3>1. StackOK'
      BY <1>11, <2>2, IsRetagged, StackRetag DEF AfterCall, StackInv
    <3> QED
      BY <1>11, <2>2, <3>1 DEF AfterCall, StackInv, TypeOK, StackOK
  <2> QED
    BY <2>1, <2>2
<1> QED
  BY <1>0, <1>1, <1>2, <1>3, <1>4, <1>5, <1>6, <1>7, <1>8, <1>9, <1>10, <1>11
  DEF Next

LEMMA StackInit == Init => StackInv
<1> SUFFICES ASSUME Init PROVE StackInv
  OBVIOUS
<1>1. stack = <<Exec(Main)>> /\ Exec(Main) \in Frame
  BY DEF Init, Exec, Frame
<1>2. stack \in Seq(Frame) /\ Depth = 1 /\ stack[1] = Exec(Main)
  BY <1>1 DEF Depth
<1>3. StackOK
  BY <1>2, FibersAssumption DEF StackOK, BottomIsMain, CodeCreated, StackShape, Exec
<1>4. <<>> \in Seq(Nat)
  OBVIOUS
<1>5. delivered \in [Fiber -> Seq(Nat)] /\ produced \in [Fiber -> Nat]
  BY <1>4 DEF Init
<1> QED
  BY <1>2, <1>3, <1>5 DEF Init, StackInv, TypeOK

\* Every reachable state is well typed, whatever program the machine runs.
THEOREM TypeCorrect == Spec => []TypeOK
<1>1. Init => StackInv
  BY StackInit
<1>2. StackInv /\ [Next]_vars => StackInv'
  BY StackStep
<1>3. StackInv => TypeOK
  BY DEF StackInv
<1> QED
  BY <1>1, <1>2, <1>3, PTL DEF Spec

\* The native stack always has the shape the frame loops rely on: every frame
\* but the innermost waits for the frame above it.
THEOREM StackAlwaysShaped == Spec => []StackShape
<1>1. Init => StackInv
  BY StackInit
<1>2. StackInv /\ [Next]_vars => StackInv'
  BY StackStep
<1>3. StackInv => StackShape
  BY DEF StackInv, StackOK
<1> QED
  BY <1>1, <1>2, <1>3, PTL DEF Spec

-----------------------------------------------------------------------------
(* The value in flight and the values delivered.                           *)

\* The value in flight is the last one its fiber produced, and newer than all
\* that fiber's values delivered so far.
ResultIsNewest ==
    result # None =>
        /\ result.n = produced[result.from]
        /\ \A i \in 1..Len(delivered[result.from]) :
              delivered[result.from][i] < result.n

ResultInv == ResultForAsker /\ ResultIsNewest /\ DeliveredInOrder

\* While a frame executes, or waits for a function, no value is in flight.
LEMMA NothingInFlight ==
    ASSUME StackInv, ResultInv, Top.waits \in {None, Func}
    PROVE  result = None
<1>1. result \in Value => result.from \in Fiber
  BY DEF Value
<1> QED
  BY <1>1, FibersAssumption DEF ResultInv, ResultForAsker, StackInv, TypeOK

LEMMA NoResult ==
    ASSUME ResultInv, result' = None, UNCHANGED <<produced, delivered>>
    PROVE  ResultInv'
BY DEF ResultInv, ResultForAsker, ResultIsNewest, DeliveredInOrder

LEMMA WrittenInOrder ==
    ASSUME StackInv, ResultInv, delivered' = Written, result' = None,
           produced' = produced
    PROVE  ResultInv'
<1>1. CASE delivered' = delivered
  BY <1>1, NoResult
<1>2. CASE result # None /\ delivered' = [delivered EXCEPT ![result.from] =
                                             Append(@, result.n)]
  <2> DEFINE d == delivered[result.from]
  <2>1. result.from \in Fiber /\ result.n \in Nat
    BY <1>2 DEF StackInv, TypeOK, Value
  <2>2. d \in Seq(Nat) /\ Len(d) \in Nat
    BY <2>1 DEF StackInv, TypeOK
  <2>3. delivered'[result.from] = Append(d, result.n)
    BY <1>2, <2>1 DEF StackInv, TypeOK
  <2>4. /\ Len(Append(d, result.n)) = Len(d) + 1
        /\ \A i \in 1..Len(d) : Append(d, result.n)[i] = d[i]
        /\ Append(d, result.n)[Len(d) + 1] = result.n
    BY <2>1, <2>2, AppendProperties
  <2>5. \A f \in Fiber \ {result.from} : delivered'[f] = delivered[f]
    BY <1>2 DEF StackInv, TypeOK
  <2>6. /\ result.n = produced[result.from]
        /\ \A i \in 1..Len(d) : d[i] < result.n /\ d[i] \in Nat
        /\ \A i, j \in 1..Len(d) : i < j => d[i] < d[j]
    <3>1. \A i \in 1..Len(d) : d[i] \in Nat
      BY <2>2
    <3>2. /\ result.n = produced[result.from]
          /\ \A i \in 1..Len(d) : d[i] < result.n
      BY <1>2 DEF ResultInv, ResultIsNewest
    <3>3. \A i, j \in 1..Len(d) : i < j => d[i] < d[j]
      BY <2>1 DEF ResultInv, DeliveredInOrder
    <3> QED
      BY <3>1, <3>2, <3>3
  <2> HIDE DEF d
  <2>7. \A i \in 1..(Len(d) + 1) : i \in 1..Len(d) \/ i = Len(d) + 1
    BY <2>2
  <2>8. ASSUME NEW e, e = Append(d, result.n)
        PROVE  /\ \A i \in 1..Len(e) : e[i] <= result.n
               /\ \A i, j \in 1..Len(e) : i < j => e[i] < e[j]
    <3>1. /\ Len(e) = Len(d) + 1
          /\ \A i \in 1..Len(d) : e[i] = d[i]
          /\ e[Len(d) + 1] = result.n
      BY <2>4, <2>8
    <3>2. ASSUME NEW i \in 1..Len(e) PROVE e[i] <= result.n
      <4>1. i \in 1..Len(d) \/ i = Len(d) + 1
        BY <2>7, <3>1
      <4>2. CASE i \in 1..Len(d)
        <5>1. e[i] = d[i] /\ d[i] < result.n /\ d[i] \in Nat
          BY <4>2, <3>1, <2>6
        <5> QED
          BY <5>1, <2>1
      <4>3. CASE i = Len(d) + 1
        BY <4>3, <3>1, <2>1
      <4> QED
        BY <4>1, <4>2, <4>3
    <3>3. ASSUME NEW i \in 1..Len(e), NEW j \in 1..Len(e), i < j PROVE e[i] < e[j]
      <4>1. i \in 1..Len(d)
        BY <2>2, <3>1, <3>3
      <4>2. j \in 1..Len(d) \/ j = Len(d) + 1
        BY <2>7, <3>1
      <4> QED
        BY <4>1, <4>2, <3>1, <3>3, <2>6
    <3> QED
      BY <3>2, <3>3
  <2>9. DeliveredInOrder'
    <3> SUFFICES ASSUME NEW f \in Fiber
                 PROVE  /\ \A i \in 1..Len(delivered'[f]) : delivered'[f][i] <= produced[f]
                        /\ \A i, j \in 1..Len(delivered'[f]) :
                              i < j => delivered'[f][i] < delivered'[f][j]
      BY DEF DeliveredInOrder
    <3>1. CASE f = result.from
      BY <3>1, <2>3, <2>6, <2>8 DEF d
    <3>2. CASE f # result.from
      BY <3>2, <2>5 DEF ResultInv, DeliveredInOrder
    <3> QED
      BY <3>1, <3>2
  <2> QED
    BY <2>9 DEF ResultInv, ResultForAsker, ResultIsNewest
<1> QED
  BY <1>1, <1>2 DEF Written

LEMMA ProducedInOrder ==
    ASSUME StackInv, ResultInv, Executing, IsFiber, NEW w \in BOOLEAN, Produce(w)
    PROVE  ResultInv'
<1> DEFINE f == Top.code
           v == [from |-> f, n |-> produced[f] + 1, weak |-> w]
<1>1. /\ f \in Fiber /\ produced[f] \in Nat /\ Depth > 0 /\ Depth \in Nat
      /\ produced' = [produced EXCEPT ![f] = @ + 1] /\ delivered' = delivered
      /\ result' = v /\ stack' = Below
  BY TopFacts DEF IsFiber, StackInv, TypeOK, Produce, Leave, Executing
<1>2. Popped
  BY <1>1, IsPopped DEF StackInv
<1>3. v.from = f /\ v.n = produced[f] + 1
  OBVIOUS
<1>4. produced'[f] = produced[f] + 1 /\ \A g \in Fiber \ {f} : produced'[g] = produced[g]
  BY <1>1 DEF StackInv, TypeOK
<1>5. \A g \in Fiber : \A i \in 1..Len(delivered[g]) :
         delivered[g][i] \in Nat /\ delivered[g][i] <= produced[g]
  <2>1. \A g \in Fiber : delivered[g] \in Seq(Nat)
    BY DEF StackInv, TypeOK
  <2>2. \A g \in Fiber : \A i \in 1..Len(delivered[g]) : delivered[g][i] \in Nat
    BY <2>1
  <2> QED
    BY <2>2 DEF ResultInv, DeliveredInOrder
<1>6. ResultForAsker'
  <2>1. Depth # 1
    BY <1>1, FibersAssumption DEF StackInv, StackOK, BottomIsMain, Top
  <2>2. Depth - 1 \in 1..(Depth - 1) /\ Depth - 1 > 0 /\ (Depth - 1) + 1 = Depth
    BY <1>1, <2>1
  <2>3. stack[Depth - 1].waits = f
    BY <2>2 DEF StackInv, StackOK, StackShape, Top
  <2>4. Top' = stack[Depth - 1] /\ Depth' > 0
    BY <2>2, <1>2 DEF Top, Popped
  <2> QED
    BY <1>1, <1>3, <2>3, <2>4 DEF ResultForAsker
<1>7. ResultIsNewest'
  <2>1. \A i \in 1..Len(delivered[f]) : delivered[f][i] < produced[f] + 1
    BY <1>1, <1>5
  <2> QED
    BY <1>1, <1>3, <1>4, <2>1 DEF ResultIsNewest
<1>8. DeliveredInOrder'
  <2>1. \A g \in Fiber : produced[g] \in Nat /\ produced'[g] \in {produced[g], produced[g] + 1}
    BY <1>1, <1>4 DEF StackInv, TypeOK
  <2>2. \A g \in Fiber : \A i \in 1..Len(delivered[g]) : delivered[g][i] <= produced'[g]
    BY <2>1, <1>5
  <2> QED
    BY <1>1, <2>2 DEF ResultInv, DeliveredInOrder
<1> QED
  BY <1>6, <1>7, <1>8 DEF ResultInv

LEMMA ResultStep ==
    ASSUME StackInv, ResultInv, [Next]_vars
    PROVE  ResultInv'
<1> USE DEF values, report
<1>0. CASE UNCHANGED vars
  BY <1>0 DEF vars, ResultInv, ResultForAsker, ResultIsNewest, DeliveredInOrder,
     Top, Depth
<1>1. ASSUME NEW f \in Fiber, Create(f) \/ Close(f) \/ ResumeDone(f) \/ Resume(f)
      PROVE  ResultInv'
  BY <1>1, NothingInFlight, NoResult DEF Create, Close, ResumeDone, Resume, Executing
<1>2. CASE HaltAlert \/ CallFunction
  BY <1>2, NothingInFlight, NoResult DEF HaltAlert, CallFunction, Executing
<1>3. ASSUME NEW w \in BOOLEAN, Yield(w) \/ Return(w) PROVE ResultInv'
  BY <1>3, ProducedInOrder DEF Yield, Return
<1>4. CASE YieldVoid \/ ReturnVoid \/ HaltError \/ RuntimeHalt
  BY <1>4, NoResult DEF YieldVoid, ReturnVoid, HaltError, RuntimeHalt, Leave
<1>5. CASE Deliver
  BY <1>5, WrittenInOrder DEF Deliver
<1>6. CASE DeliverToDone
  BY <1>6, WrittenInOrder DEF DeliverToDone, Leave
<1>7. CASE AfterCall
  BY <1>7, NoResult DEF AfterCall, Leave
<1> QED
  BY <1>0, <1>1, <1>2, <1>3, <1>4, <1>5, <1>6, <1>7 DEF Next

-----------------------------------------------------------------------------
(* Who owns a fiber's registers.                                           *)

\* A fiber's owning frame is the innermost of its frames on the stack: this is
\* what makes OneOwner inductive, since only a fiber whose registers are parked
\* can be pushed above its older frames.
OwnerIsInnermost ==
    \A i, j \in 1..Depth : Owns(i) /\ stack[j].code = stack[i].code => j <= i

OwnerNotParked == \A i \in 1..Depth : Owns(i) => stack[i].code \notin parked

UnparkedOwned ==
    \A f \in created \ parked : \E i \in 1..Depth : Owns(i) /\ stack[i].code = f

OwnInv == OwnerIsInnermost /\ OwnerNotParked /\ UnparkedOwned /\ PanicNeedsCall

LEMMA OwnedOnce ==
    ASSUME StackInv, OwnInv
    PROVE  OneOwner
<1>1. Depth \in Nat
  BY DEF StackInv, TypeOK, Depth
<1>2. \A i, j \in 1..Depth : j <= i /\ i <= j => i = j
  BY <1>1
<1> QED
  BY <1>2 DEF OwnInv, OwnerIsInnermost, OwnerNotParked, UnparkedOwned, OneOwner

\* The registers of a fiber that awaits another one are in its FiberState.
LEMMA AwaitingIsParked ==
    ASSUME StackInv, OwnInv, Depth > 0, IsFiber, Top.waits \in Fiber
    PROVE  Top.code \in parked
<1> SUFFICES ASSUME Top.code \notin parked PROVE FALSE
  OBVIOUS
<1>1. Top.code \in created \ parked /\ Depth \in 1..Depth /\ Depth \in Nat
  BY TopFacts
<1>2. PICK i \in 1..Depth : Owns(i) /\ stack[i].code = Top.code
  BY <1>1 DEF OwnInv, UnparkedOwned
<1>3. Depth <= i
  BY <1>1, <1>2 DEF OwnInv, OwnerIsInnermost, Top
<1>4. i = Depth
  BY <1>1, <1>3
<1> QED
  BY <1>2, <1>4, FibersAssumption DEF Owns, Top

LEMMA LeaveOwn ==
    ASSUME StackInv, OwnInv, ~crashed, Depth > 0, NEW r, Leave(r)
    PROVE  OwnInv'
<1>1. /\ Depth \in Nat /\ Depth \in 1..Depth
      /\ \A i \in 1..(Depth - 1) : i \in 1..Depth /\ ~(Depth <= i)
  BY TopFacts
<1>2. Popped /\ created' = created /\ crashed' = crashed
      /\ parked' = IF IsFiber THEN parked \cup {Top.code} ELSE parked
  BY IsPopped DEF StackInv, Leave
<1>3. \A i \in 1..(Depth - 1) : Owns(i)' <=> Owns(i)
  BY <1>2 DEF Owns, Popped
<1>4. OwnerIsInnermost'
  BY <1>1, <1>2, <1>3 DEF OwnInv, OwnerIsInnermost, Popped
<1>5. OwnerNotParked'
  <2> SUFFICES ASSUME NEW i \in 1..(Depth - 1), Owns(i)
               PROVE  stack[i].code \notin parked'
    BY <1>2, <1>3 DEF OwnerNotParked, Popped
  <2>1. stack[i].code # Top.code
    BY <1>1 DEF OwnInv, OwnerIsInnermost, Top
  <2>2. stack[i].code \notin parked
    BY <1>1 DEF OwnInv, OwnerNotParked
  <2> QED
    BY <1>2, <2>1, <2>2
<1>6. UnparkedOwned'
  <2> SUFFICES ASSUME NEW g \in created \ parked'
               PROVE  \E i \in 1..(Depth - 1) : Owns(i) /\ stack[i].code = g
    BY <1>2, <1>3 DEF UnparkedOwned, Popped
  <2>1. g \in created \ parked
    BY <1>2
  <2>2. PICK i \in 1..Depth : Owns(i) /\ stack[i].code = g
    BY <2>1 DEF OwnInv, UnparkedOwned
  <2>3. i # Depth
    BY <1>2, <2>2 DEF Owns, Top, IsFiber
  <2>4. i \in 1..(Depth - 1)
    BY <1>1, <2>3
  <2> QED
    BY <2>2, <2>4
<1> QED
  BY <1>2, <1>4, <1>5, <1>6 DEF OwnInv, PanicNeedsCall

LEMMA SameOwn ==
    ASSUME StackInv, OwnInv, stack' = stack, created' = created, parked' = parked,
           crashed' = crashed
    PROVE  OwnInv'
BY DEF OwnInv, OwnerIsInnermost, OwnerNotParked, UnparkedOwned, PanicNeedsCall,
   Owns, Depth

LEMMA CreateOwn ==
    ASSUME StackInv, OwnInv, NEW f \in Fiber, Create(f)
    PROVE  OwnInv'
<1>1. /\ f \notin created /\ stack' = stack /\ created' = created \cup {f}
      /\ parked' = parked \cup {f} /\ crashed' = crashed /\ Depth' = Depth
      /\ \A i : Owns(i)' <=> Owns(i)
  BY DEF Create, Owns, Depth
<1>2. \A i \in 1..Depth : Owns(i) => stack[i].code \in created
  BY DEF StackInv, StackOK, CodeCreated, Owns
<1> QED
  BY <1>1, <1>2 DEF OwnInv, OwnerIsInnermost, OwnerNotParked, UnparkedOwned,
     PanicNeedsCall, Owns

\* Owns, of the next state's stack.
OwnsThen(i) == stack'[i].code \in Fiber /\ stack'[i].waits \in {None, Func}

\* The top frame is tagged Func, pushed or not, and keeps its registers; or it
\* goes back to executing after a call.
LEMMA CallOwn ==
    ASSUME StackInv, OwnInv, ~crashed, Depth > 0, Owns(Depth) \/ ~IsFiber,
           Pushed(Func) \/ Retagged(None),
           UNCHANGED <<created, parked, crashed>>
    PROVE  OwnInv'
<1>1. /\ Depth \in Nat /\ Depth \in 1..Depth
      /\ \A i \in 1..Depth : i \in 1..(Depth - 1) \/ i = Depth
      /\ \A i \in 1..(Depth + 1) : i \in 1..Depth \/ i = Depth + 1
      /\ \A i \in 1..Depth : i \in 1..(Depth + 1) /\ i <= Depth
  BY TopFacts
<1>2. \A i \in 1..Depth : stack'[i].code = stack[i].code
  BY SameCode DEF StackInv
<1>3. \A i \in 1..Depth : OwnsThen(i) <=> Owns(i)
  <2>1. \A i \in 1..(Depth - 1) : OwnsThen(i) <=> Owns(i)
    BY DEF Owns, OwnsThen, Pushed, Retagged
  <2>2. stack'[Depth].code = Top.code /\ stack'[Depth].waits \in {None, Func}
    BY DEF Pushed, Retagged
  <2>3. OwnsThen(Depth) <=> Owns(Depth)
    BY <2>2 DEF Owns, OwnsThen, IsFiber, Top
  <2> QED
    BY <1>1, <2>1, <2>3
<1>4. CASE Retagged(None)
  <2>1. Depth' = Depth
    BY <1>4 DEF Retagged
  <2> QED
    BY <1>2, <1>3, <2>1 DEF OwnInv, OwnerIsInnermost, OwnerNotParked,
       UnparkedOwned, PanicNeedsCall, Owns, OwnsThen
<1>5. CASE Pushed(Func)
  <2>1. Depth' = Depth + 1 /\ stack'[Depth + 1].code \notin Fiber
    BY <1>5, FibersAssumption DEF Pushed, Exec
  <2>2. ~OwnsThen(Depth + 1)
    BY <2>1 DEF OwnsThen
  <2>3. OwnerIsInnermost'
    <3> SUFFICES ASSUME NEW i \in 1..(Depth + 1), NEW j \in 1..(Depth + 1),
                        OwnsThen(i), stack'[j].code = stack'[i].code
                 PROVE  j <= i
      BY <2>1 DEF OwnerIsInnermost, Owns, OwnsThen
    <3>1. i \in 1..Depth
      BY <1>1, <2>2
    <3>2. j \in 1..Depth
      BY <1>1, <2>1 DEF OwnsThen
    <3> QED
      BY <1>2, <1>3, <3>1, <3>2 DEF OwnInv, OwnerIsInnermost
  <2>4. OwnerNotParked'
    <3> SUFFICES ASSUME NEW i \in 1..(Depth + 1), OwnsThen(i)
                 PROVE  stack'[i].code \notin parked
      BY <2>1 DEF OwnerNotParked, Owns, OwnsThen
    <3>1. i \in 1..Depth
      BY <1>1, <2>2
    <3> QED
      BY <1>2, <1>3, <3>1 DEF OwnInv, OwnerNotParked
  <2>5. UnparkedOwned'
    <3> SUFFICES ASSUME NEW f \in created \ parked
                 PROVE  \E i \in 1..(Depth + 1) : OwnsThen(i) /\ stack'[i].code = f
      BY <2>1 DEF UnparkedOwned, Owns, OwnsThen
    <3>1. PICK i \in 1..Depth : Owns(i) /\ stack[i].code = f
      BY DEF OwnInv, UnparkedOwned
    <3> QED
      BY <1>1, <1>2, <1>3, <3>1
  <2> QED
    BY <2>3, <2>4, <2>5 DEF OwnInv, PanicNeedsCall
<1> QED
  BY <1>4, <1>5

\* Resuming f takes its registers from the FiberState and gives them to the new
\* frame; if they are not there, a call on the stack still holds them.
LEMMA ResumeOwn ==
    ASSUME StackInv, OwnInv, NEW f \in Fiber, Resume(f)
    PROVE  OwnInv'
<1> DEFINE saved == IF IsFiber THEN parked \cup {Top.code} ELSE parked
<1>1. /\ Depth > 0 /\ ~crashed /\ Top.waits = None /\ f \in created
      /\ created' = created
  BY DEF Resume, Executing
<1>2. /\ Depth \in Nat /\ Depth \in 1..Depth
      /\ \A i \in 1..Depth : i \in 1..(Depth - 1) \/ i = Depth
      /\ \A i \in 1..(Depth + 1) : i \in 1..Depth \/ i = Depth + 1
      /\ \A i \in 1..(Depth - 1) : i \in 1..Depth /\ i \in 1..(Depth + 1) /\ ~(Depth <= i)
      /\ \A i \in 1..Depth : i <= Depth + 1
      /\ Depth + 1 \in 1..(Depth + 1) /\ Depth + 1 <= Depth + 1
  BY <1>1, TopFacts
<1>3. \A i \in 1..(Depth - 1) : Owns(i) => stack[i].code \notin saved
  <2> SUFFICES ASSUME NEW i \in 1..(Depth - 1), Owns(i) PROVE stack[i].code \notin saved
    OBVIOUS
  <2>1. stack[i].code # Top.code
    BY <1>2 DEF OwnInv, OwnerIsInnermost, Top
  <2>2. stack[i].code \notin parked
    BY <1>2 DEF OwnInv, OwnerNotParked
  <2> QED
    BY <2>1, <2>2
<1>4. \A g \in created \ saved :
         \E i \in 1..(Depth - 1) : Owns(i) /\ stack[i].code = g
  <2> SUFFICES ASSUME NEW g \in created \ saved
               PROVE  \E i \in 1..(Depth - 1) : Owns(i) /\ stack[i].code = g
    OBVIOUS
  <2>1. PICK i \in 1..Depth : Owns(i) /\ stack[i].code = g
    BY DEF OwnInv, UnparkedOwned
  <2>2. i # Depth
    BY <2>1 DEF Owns, Top, IsFiber
  <2> QED
    BY <1>2, <2>1, <2>2
<1> HIDE DEF saved
<1>5. CASE f \in saved /\ Pushed(f) /\ parked' = saved \ {f} /\ crashed' = crashed
  <2>1. /\ Depth' = Depth + 1
        /\ \A i \in 1..(Depth - 1) : stack'[i] = stack[i] /\ (OwnsThen(i) <=> Owns(i))
        /\ stack'[Depth].waits = f
        /\ stack'[Depth + 1].code = f /\ stack'[Depth + 1].waits = None
    BY <1>5 DEF Pushed, Exec, Owns, OwnsThen
  <2>2. ~OwnsThen(Depth) /\ OwnsThen(Depth + 1)
    BY <2>1, FibersAssumption DEF OwnsThen
  <2>3. ASSUME NEW i \in 1..(Depth + 1), OwnsThen(i)
        PROVE  i \in 1..(Depth - 1) \/ i = Depth + 1
    BY <1>2, <2>2, <2>3
  <2>4. \A i \in 1..(Depth - 1) : Owns(i) => stack[i].code # f
    BY <1>3, <1>5
  <2>5. OwnerIsInnermost'
    <3> SUFFICES ASSUME NEW i \in 1..(Depth + 1), NEW j \in 1..(Depth + 1),
                        OwnsThen(i), stack'[j].code = stack'[i].code
                 PROVE  j <= i
      BY <2>1 DEF OwnerIsInnermost, Owns, OwnsThen
    <3>1. CASE i = Depth + 1
      BY <1>2, <3>1
    <3>2. CASE i \in 1..(Depth - 1)
      <4>1. j # Depth + 1
        BY <2>1, <2>4, <3>2
      <4>2. j \in 1..Depth
        BY <1>2, <4>1
      <4>3. stack'[j].code = stack[j].code
        BY <1>5, <4>2, <1>1, SameCode DEF StackInv
      <4> QED
        BY <1>2, <2>1, <3>2, <4>2, <4>3 DEF OwnInv, OwnerIsInnermost
    <3> QED
      BY <2>3, <3>1, <3>2
  <2>6. OwnerNotParked'
    <3> SUFFICES ASSUME NEW i \in 1..(Depth + 1), OwnsThen(i)
                 PROVE  stack'[i].code \notin parked'
      BY <2>1 DEF OwnerNotParked, Owns, OwnsThen
    <3> QED
      BY <1>3, <1>5, <2>1, <2>3
  <2>7. UnparkedOwned'
    <3> SUFFICES ASSUME NEW g \in created \ parked'
                 PROVE  \E i \in 1..(Depth + 1) : OwnsThen(i) /\ stack'[i].code = g
      BY <1>1, <2>1 DEF UnparkedOwned, Owns, OwnsThen
    <3>1. CASE g = f
      BY <1>2, <2>1, <2>2, <3>1
    <3>2. CASE g \in created \ saved
      BY <1>2, <1>4, <2>1, <3>2
    <3> QED
      BY <1>5, <3>1, <3>2
  <2> QED
    BY <1>1, <1>5, <2>5, <2>6, <2>7 DEF OwnInv, PanicNeedsCall
<1>6. CASE f \notin saved /\ stack' = stack /\ parked' = parked /\ crashed' = TRUE
  <2>1. PICK i \in 1..(Depth - 1) : Owns(i) /\ stack[i].code = f
    BY <1>1, <1>4, <1>6
  <2>2. i + 1 \in 1..Depth /\ i \in 1..Depth
    BY <1>2
  <2>3. stack[i].waits = stack[i + 1].code /\ stack[i + 1] \in Frame
    BY <2>2 DEF StackInv, StackOK, StackShape, TypeOK, Depth
  <2>4. stack[i].waits = Func
    BY <2>1, <2>3, FibersAssumption DEF Owns, Frame
  <2>5. PanicNeedsCall'
    BY <1>6, <2>1, <2>2, <2>4 DEF PanicNeedsCall, Depth
  <2> QED
    BY <1>1, <1>6, <2>5 DEF OwnInv, OwnerIsInnermost, OwnerNotParked, UnparkedOwned,
       Owns, Depth
<1> QED
  BY <1>5, <1>6, ResumeEffect DEF saved

\* A resumed fiber that gets its value takes its own registers back.
LEMMA DeliverOwn ==
    ASSUME StackInv, OwnInv, Deliver
    PROVE  OwnInv'
<1>1. Depth > 0 /\ ~crashed /\ Top.waits \in Fiber /\ created' = created
  BY DEF Deliver, Awaiting
<1>2. CASE ~IsFiber /\ Retagged(None) /\ parked' = parked /\ crashed' = crashed
  BY <1>1, <1>2, CallOwn
<1>3. CASE /\ IsFiber /\ Top.code \in parked \ done
           /\ Retagged(None) /\ parked' = parked \ {Top.code} /\ crashed' = crashed
  <2>1. /\ Depth \in Nat /\ Depth \in 1..Depth
        /\ \A i \in 1..Depth : i <= Depth /\ (i \in 1..(Depth - 1) \/ i = Depth)
        /\ \A i \in 1..(Depth - 1) : i \in 1..Depth
    BY <1>1, TopFacts
  <2>2. /\ Depth' = Depth
        /\ \A i \in 1..(Depth - 1) : stack'[i] = stack[i] /\ (OwnsThen(i) <=> Owns(i))
        /\ stack'[Depth].code = Top.code /\ OwnsThen(Depth)
    BY <1>3 DEF Retagged, Owns, OwnsThen, IsFiber
  <2>3. \A i \in 1..Depth : Owns(i) => i \in 1..(Depth - 1)
    BY <1>1, <2>1, FibersAssumption DEF Owns, Top
  <2>4. \A i \in 1..Depth : Owns(i) => stack[i].code # Top.code
    BY <1>3 DEF OwnInv, OwnerNotParked
  <2>5. \A i \in 1..Depth : stack'[i].code = stack[i].code
    BY <1>1, <1>3, SameCode DEF StackInv
  <2>6. OwnerIsInnermost'
    <3> SUFFICES ASSUME NEW i \in 1..Depth, NEW j \in 1..Depth,
                        OwnsThen(i), stack'[j].code = stack'[i].code
                 PROVE  j <= i
      BY <2>2 DEF OwnerIsInnermost, Owns, OwnsThen
    <3>1. CASE i = Depth
      BY <2>1, <3>1
    <3>2. CASE i \in 1..(Depth - 1)
      BY <2>1, <2>2, <2>5, <3>2 DEF OwnInv, OwnerIsInnermost
    <3> QED
      BY <2>1, <3>1, <3>2
  <2>7. OwnerNotParked'
    <3> SUFFICES ASSUME NEW i \in 1..Depth, OwnsThen(i)
                 PROVE  stack'[i].code \notin parked'
      BY <2>2 DEF OwnerNotParked, Owns, OwnsThen
    <3>1. CASE i = Depth
      BY <1>3, <2>2, <3>1
    <3>2. CASE i \in 1..(Depth - 1)
      BY <1>3, <2>1, <2>2, <3>2 DEF OwnInv, OwnerNotParked
    <3> QED
      BY <2>1, <3>1, <3>2
  <2>8. UnparkedOwned'
    <3> SUFFICES ASSUME NEW g \in created \ parked'
                 PROVE  \E i \in 1..Depth : OwnsThen(i) /\ stack'[i].code = g
      BY <1>1, <2>2 DEF UnparkedOwned, Owns, OwnsThen
    <3>1. CASE g = Top.code
      BY <2>1, <2>2, <3>1
    <3>2. CASE g \in created \ parked
      <4>1. PICK i \in 1..Depth : Owns(i) /\ stack[i].code = g
        BY <3>2 DEF OwnInv, UnparkedOwned
      <4> QED
        BY <2>2, <2>3, <2>5, <4>1
    <3> QED
      BY <1>3, <3>1, <3>2
  <2> QED
    BY <1>1, <1>3, <2>6, <2>7, <2>8 DEF OwnInv, PanicNeedsCall
<1>4. CASE /\ IsFiber /\ Top.code \notin parked
           /\ stack' = stack /\ parked' = parked /\ crashed' = TRUE
  BY <1>1, <1>4, AwaitingIsParked
<1> QED
  BY <1>2, <1>3, <1>4, DeliverEffect

LEMMA OwnStep ==
    ASSUME StackInv, OwnInv, [Next]_vars
    PROVE  OwnInv'
<1> USE DEF values, report
<1>0. CASE UNCHANGED vars
  BY <1>0, SameOwn DEF vars
<1>1. ASSUME NEW f \in Fiber, Create(f) PROVE OwnInv'
  BY <1>1, CreateOwn
<1>2. ASSUME NEW f \in Fiber, Close(f) \/ ResumeDone(f) PROVE OwnInv'
  BY <1>2, SameOwn DEF Close, ResumeDone
<1>3. ASSUME NEW f \in Fiber, Resume(f) PROVE OwnInv'
  BY <1>3, ResumeOwn
<1>4. CASE HaltAlert
  BY <1>4, SameOwn DEF HaltAlert
<1>5. CASE CallFunction
  <2>1. /\ Depth > 0 /\ ~crashed /\ (Owns(Depth) \/ ~IsFiber)
        /\ stack' = Append(TopWaits(Func), Exec(Func))
        /\ UNCHANGED <<created, parked, crashed>>
    BY <1>5 DEF CallFunction, Executing, Owns, IsFiber, Top
  <2>2. Pushed(Func)
    BY <2>1, IsPushed DEF StackInv
  <2> QED
    BY <2>1, <2>2, CallOwn
<1>6. ASSUME NEW w \in BOOLEAN, Yield(w) \/ Return(w) PROVE OwnInv'
  BY <1>6, LeaveOwn DEF Yield, Return, Produce, Executing
<1>7. CASE YieldVoid \/ ReturnVoid \/ HaltError \/ RuntimeHalt
  BY <1>7, LeaveOwn DEF YieldVoid, ReturnVoid, HaltError, RuntimeHalt, Executing
<1>8. CASE Deliver
  BY <1>8, DeliverOwn
<1>9. CASE DeliverToDone
  BY <1>9, LeaveOwn DEF DeliverToDone, Awaiting
<1>10. CASE AfterCall
  <2>1. CASE errors > 0
    BY <1>10, <2>1, LeaveOwn DEF AfterCall
  <2>2. CASE ~(errors > 0)
    <3>1. /\ Depth > 0 /\ ~crashed /\ (Owns(Depth) \/ ~IsFiber)
          /\ stack' = TopWaits(None) /\ UNCHANGED <<created, parked, crashed>>
      BY <1>10, <2>2 DEF AfterCall, Owns, IsFiber, Top
    <3>2. Retagged(None)
      BY <3>1, IsRetagged DEF StackInv
    <3> QED
      BY <3>1, <3>2, CallOwn
  <2> QED
    BY <2>1, <2>2
<1> QED
  BY <1>0, <1>1, <1>2, <1>3, <1>4, <1>5, <1>6, <1>7, <1>8, <1>9, <1>10 DEF Next

-----------------------------------------------------------------------------
(* The theorems.                                                           *)

IInv == StackInv /\ ResultInv /\ OwnInv

LEMMA InitIInv == Init => IInv
<1> SUFFICES ASSUME Init PROVE IInv
  OBVIOUS
<1>1. StackInv
  BY StackInit
<1>2. ResultInv
  <2>1. \A f \in Fiber : Len(delivered[f]) = 0
    BY DEF Init
  <2>2. \A i : i \notin 1..0
    OBVIOUS
  <2> QED
    BY <2>1, <2>2 DEF Init, ResultInv, ResultForAsker, ResultIsNewest, DeliveredInOrder
<1>3. OwnInv
  <2>1. Depth = 1 /\ stack[1] = Exec(Main)
    BY DEF Init, Depth
  <2>2. \A i \in 1..1 : ~Owns(i)
    BY <2>1, FibersAssumption DEF Owns, Exec
  <2> QED
    BY <2>1, <2>2 DEF Init, OwnInv, OwnerIsInnermost, OwnerNotParked, UnparkedOwned,
       PanicNeedsCall
<1> QED
  BY <1>1, <1>2, <1>3 DEF IInv

LEMMA NextIInv == IInv /\ [Next]_vars => IInv'
BY StackStep, ResultStep, OwnStep DEF IInv

LEMMA AlwaysIInv == Spec => []IInv
BY InitIInv, NextIInv, PTL DEF Spec

\* A fiber's registers are always in exactly one place: its FiberState or the
\* one frame that took them.
THEOREM RegistersOwnedOnce == Spec => []OneOwner
<1>1. IInv => OneOwner
  BY OwnedOnce DEF IInv
<1> QED
  BY <1>1, AlwaysIInv, PTL

\* A resumption can only panic when a function call on the stack holds a
\* fiber's registers.
THEOREM PanicOnlyThroughCall == Spec => []PanicNeedsCall
<1>1. IInv => PanicNeedsCall
  BY DEF IInv, OwnInv
<1> QED
  BY <1>1, AlwaysIInv, PTL

\* No value is ever handed to a resumption that did not ask for it.
THEOREM ResultsReachTheirAsker == Spec => []ResultForAsker
<1>1. IInv => ResultForAsker
  BY DEF IInv, ResultInv
<1> QED
  BY <1>1, AlwaysIInv, PTL

\* The values of a fiber are stored in order and at most once.
THEOREM ValuesInOrder == Spec => []DeliveredInOrder
<1>1. IInv => DeliveredInOrder
  BY DEF IInv, ResultInv
<1> QED
  BY <1>1, AlwaysIInv, PTL

\* A finished fiber whose registers are at rest is never entered again.
THEOREM FinishedStaysFinished == Spec => FinishedNeverRuns
<1>1. ASSUME IInv, [Next]_vars
      PROVE  [\A f \in done \cap parked : f \in parked']_vars
  <2> USE DEF values, report
  <2>1. CASE UNCHANGED vars
    BY <2>1
  <2>2. ASSUME NEW f \in Fiber, Resume(f)
        PROVE  \A g \in done \cap parked : g \in parked'
    BY <2>2 DEF Resume, Enter
  <2>3. CASE Deliver
    BY <2>3, <1>1, DeliverEffect DEF IInv
  <2>4. CASE Next /\ (\A f \in Fiber : ~Resume(f)) /\ ~Deliver
    BY <2>4 DEF Next, Create, Close, ResumeDone, HaltAlert, CallFunction, Yield, Return,
       Produce, YieldVoid, ReturnVoid, HaltError, RuntimeHalt, DeliverToDone, AfterCall,
       Leave
  <2> QED
    BY <1>1, <2>1, <2>2, <2>3, <2>4
<1> QED
  BY <1>1, AlwaysIInv, PTL DEF Spec, FinishedNeverRuns
=============================================================================
