------------------------------- MODULE Fibers -------------------------------
(***************************************************************************)
(* Fibers of the XCX virtual machine: the asymmetric coroutines that       *)
(* vm.rs runs on one native thread.  A FiberState keeps a saved ip, its    *)
(* registers (locals) and is_done.  Resuming a fiber MOVES the registers   *)
(* out of the FiberState (std::mem::take); stopping moves them back.       *)
(*                                                                         *)
(* The native call stack is the sequence "stack": each frame is one        *)
(* activation of execute_bytecode_inner with the loop around it            *)
(* (run_frame_owned_with_guard for Main, run_frame_with_guard for a        *)
(* function, _resume_fiber for a fiber).  The program is any program: the  *)
(* executing frame picks any operation, MaxOps of them in a behaviour.     *)
(* Register contents are abstracted to what the frame loops tell apart:    *)
(* a produced value is its producer, its number and whether it is "weak"   *)
(* (a float or false, which the loops do not store once the fiber is done).*)
(***************************************************************************)
EXTENDS Naturals, Sequences

CONSTANTS Fiber,     \* fiber handles
          Main,      \* the code of the main script's frame
          Func,      \* the code of a function's frame
          None,      \* Rust's None: no value came back, nothing is awaited
          MaxOps,    \* bound: operations executed in one behaviour
          MaxDepth   \* bound: frames on the native stack

ASSUME FibersAssumption ==
    /\ Main \notin Fiber /\ Func \notin Fiber /\ Main # Func
    /\ None \notin Fiber \cup {Main, Func}
    /\ None \notin [from : Fiber, n : Nat, weak : BOOLEAN]
    /\ MaxOps \in Nat /\ MaxDepth \in Nat

VARIABLES stack,      \* frames, innermost last
          created,    \* fibers FiberCreate has made
          done,       \* fibers with is_done = true
          parked,     \* fibers whose registers are in their FiberState
          produced,   \* values each fiber has yielded or returned
          delivered,  \* numbers of the values written to a dst register
          result,     \* what the activation that ended last handed back
          errors,     \* VM::error_count
          alerts,     \* ALERT lines printed
          exhausted,  \* history: .next() calls on finished fibers
          halted,     \* history: fibers a halt.error or halt.fatal stopped
          crashed,    \* a Rust panic ended the thread
          ops         \* operations executed so far (bounded by MaxOps)

values == <<produced, delivered, result>>
report == <<errors, alerts, exhausted, halted>>
vars   == <<stack, created, done, parked, values, report, crashed, ops>>

Value == [from : Fiber, n : Nat, weak : BOOLEAN]

(***************************************************************************)
(* A frame that waits for None executes its bytecode; one that waits for   *)
(* Func is inside OpCode::Call; one that waits for a fiber is in the       *)
(* OpResult::Call arm of its frame loop, having resumed that fiber.        *)
(***************************************************************************)
Frame == [code : Fiber \cup {Main, Func}, waits : Fiber \cup {Func, None}]

Depth == Len(stack)
Top   == stack[Depth]
Below == SubSeq(stack, 1, Depth - 1)
Exec(code) == [code |-> code, waits |-> None]
TopWaits(w) == Append(Below, [code |-> Top.code, waits |-> w])

IsFiber == Top.code \in Fiber

Init ==
    /\ stack = <<Exec(Main)>>
    /\ created = {} /\ done = {} /\ parked = {} /\ halted = {}
    /\ produced = [f \in Fiber |-> 0]
    /\ delivered = [f \in Fiber |-> <<>>]
    /\ result = None
    /\ errors = 0 /\ alerts = 0 /\ exhausted = 0 /\ ops = 0
    /\ crashed = FALSE

\* The frame on top executes its next operation.
Executing ==
    /\ ~crashed /\ Depth > 0
    /\ Top.waits = None
    /\ ops < MaxOps
    /\ ops' = ops + 1

-----------------------------------------------------------------------------
(* Operations that keep the frame running.                                 *)

\* OpCode::FiberCreate: a fresh FiberState, registers and all, at ip 0.
Create(f) ==
    /\ Executing
    /\ f \notin created
    /\ created' = created \cup {f}
    /\ parked' = parked \cup {f}
    /\ UNCHANGED <<stack, done, values, report, crashed>>

\* .close(): sets is_done whatever the fiber is doing.
Close(f) ==
    /\ Executing
    /\ f \in created
    /\ done' = done \cup {f}
    /\ UNCHANGED <<stack, created, parked, values, report, crashed>>

\* halt.alert prints and continues.
HaltAlert ==
    /\ Executing
    /\ alerts' = alerts + 1
    /\ UNCHANGED <<stack, created, done, parked, values, errors, exhausted,
                   halted, crashed>>

\* .next() or .run() of a finished fiber: dst gets a constant, nothing runs.
ResumeDone(f) ==
    /\ Executing
    /\ f \in created \cap done
    /\ exhausted' = exhausted + 1
    /\ UNCHANGED <<stack, created, done, parked, values, errors, alerts, halted,
                   crashed>>

-----------------------------------------------------------------------------
(* Operations that push a frame.                                           *)

\* Mutant: the registers are cloned out of the FiberState, not taken.
EnterCloning(f, saved, waiting) ==
    IF f \in saved
    THEN stack' = Append(waiting, Exec(f)) /\ parked' = saved /\ UNCHANGED crashed
    ELSE crashed' = TRUE /\ UNCHANGED <<stack, parked>>

\* resume_fiber_with_guard takes the registers of f out of its FiberState;
\* "saved" has theirs there and "waiting" is the stack below the new frame.
\* With the registers already taken the bytecode runs on an empty Vec, and
\* the first instruction that reads a register panics.
Enter(f, saved, waiting) ==
    IF f \in saved
    THEN /\ stack' = Append(waiting, Exec(f))
         /\ parked' = saved \ {f}
         /\ UNCHANGED crashed
    ELSE /\ crashed' = TRUE
         /\ UNCHANGED <<stack, parked>>

\* Mutant: the resumer's registers are not put back before its callee runs.
ResumeUnsaved(f) ==
    /\ Executing /\ Depth < MaxDepth /\ f \in created \ done
    /\ Enter(f, parked, TopWaits(f))
    /\ UNCHANGED <<created, done, values, report>>

\* .next() or .run() of an unfinished fiber: OpResult::Call leaves the
\* bytecode loop, so a fiber that resumes another is saved first.
Resume(f) ==
    /\ Executing
    /\ Depth < MaxDepth
    /\ f \in created \ done
    /\ Enter(f, IF IsFiber THEN parked \cup {Top.code} ELSE parked, TopWaits(f))
    /\ UNCHANGED <<created, done, values, report>>

\* OpCode::Call: the callee's frame is pushed from inside the bytecode loop;
\* a calling fiber's registers stay taken.
CallFunction ==
    /\ Executing
    /\ Depth < MaxDepth
    /\ stack' = Append(TopWaits(Func), Exec(Func))
    /\ UNCHANGED <<created, done, parked, values, report, crashed>>

-----------------------------------------------------------------------------
(* Operations that end the activation on top.                              *)

\* The activation ends with r; a fiber's ip and registers are saved.
Leave(r) ==
    /\ stack' = Below
    /\ parked' = IF IsFiber THEN parked \cup {Top.code} ELSE parked
    /\ result' = r
    /\ UNCHANGED <<created, alerts, exhausted, crashed>>

\* Mutant: the ip is not saved, so the next resumption produces n again.
ProduceAgain(w) ==
    /\ UNCHANGED <<produced, delivered, errors, halted>>
    /\ Leave([from |-> Top.code, n |-> produced[Top.code] + 1, weak |-> w])

\* The fiber on top stops with its next value; w says the value is weak.
Produce(w) ==
    /\ produced' = [produced EXCEPT ![Top.code] = @ + 1]
    /\ Leave([from |-> Top.code, n |-> produced[Top.code] + 1, weak |-> w])
    /\ UNCHANGED <<delivered, errors, halted>>

\* "yield expr;" in a fiber.
Yield(w) ==
    /\ Executing /\ IsFiber
    /\ Produce(w)
    /\ UNCHANGED done

\* "return expr;" in a fiber: resume_fiber_with_guard sets is_done.
Return(w) ==
    /\ Executing /\ IsFiber
    /\ done' = done \cup {Top.code}
    /\ Produce(w)

\* "yield;": the fiber stops and brings no value back.
YieldVoid ==
    /\ Executing /\ IsFiber
    /\ Leave(None)
    /\ UNCHANGED <<done, produced, delivered, errors, halted>>

\* "return;", or the ReturnVoid the compiler appends to every body; a
\* function's "return expr;" too, whose value only its caller sees.
ReturnVoid ==
    /\ Executing
    /\ done' = IF IsFiber THEN done \cup {Top.code} ELSE done
    /\ Leave(None)
    /\ UNCHANGED <<produced, delivered, errors, halted>>

\* halt.error and halt.fatal, which do the same: count the error and halt.
HaltError ==
    /\ Executing
    /\ errors' = errors + 1
    /\ halted' = IF IsFiber THEN halted \cup {Top.code} ELSE halted
    /\ Leave(None)
    /\ UNCHANGED <<done, produced, delivered>>

\* A runtime error such as R300 halts the frame and counts nothing.
RuntimeHalt ==
    /\ Executing
    /\ Leave(None)
    /\ UNCHANGED <<done, produced, delivered, errors, halted>>

-----------------------------------------------------------------------------
(* What the frame below does with an ended activation.  These steps follow *)
(* from the code alone and consume no operation of the program.            *)

\* The should_write rule: a value of a finished fiber is stored unless it is
\* a float or false.
ShouldWrite(v) == v.from \notin done \/ ~v.weak

Written ==
    IF result # None /\ ShouldWrite(result)
    THEN [delivered EXCEPT ![result.from] = Append(@, result.n)]
    ELSE delivered

Awaiting == ~crashed /\ Depth > 0 /\ Top.waits \in Fiber

\* Mutant: the frame loop does not see that its fiber was finished meanwhile.
DeliverUnchecked ==
    /\ Awaiting
    /\ delivered' = Written /\ result' = None
    /\ IF IsFiber THEN Enter(Top.code, parked, Below)
       ELSE stack' = TopWaits(None) /\ UNCHANGED <<parked, crashed>>
    /\ UNCHANGED <<created, done, produced, report, ops>>

\* The frame loop stores the value and goes round: Main and functions go on
\* with their bytecode, a fiber is resumed with its saved registers.
Deliver ==
    /\ Awaiting
    /\ ~(IsFiber /\ Top.code \in done)
    /\ delivered' = Written
    /\ result' = None
    /\ IF IsFiber THEN Enter(Top.code, parked, Below)
       ELSE stack' = TopWaits(None) /\ UNCHANGED <<parked, crashed>>
    /\ UNCHANGED <<created, done, produced, report, ops>>

\* Mutant: the finished fiber's resumer is handed the value it was waiting for.
DeliverToDonePassing ==
    /\ Awaiting /\ IsFiber /\ Top.code \in done
    /\ delivered' = Written
    /\ Leave(result)
    /\ UNCHANGED <<done, produced, errors, halted, ops>>

\* The awaiting fiber was finished meanwhile: resume_fiber_with_guard returns
\* Return(None) at once and its own resumer gets no value.
DeliverToDone ==
    /\ Awaiting
    /\ IsFiber /\ Top.code \in done
    /\ delivered' = Written
    /\ Leave(None)
    /\ UNCHANGED <<done, produced, errors, halted, ops>>

\* After OpCode::Call: with any error counted so far the caller halts too.
AfterCall ==
    /\ ~crashed /\ Depth > 0
    /\ Top.waits = Func
    /\ IF errors > 0
       THEN Leave(None)
       ELSE /\ stack' = TopWaits(None)
            /\ result' = None
            /\ UNCHANGED <<created, parked, alerts, exhausted, crashed>>
    /\ UNCHANGED <<done, produced, delivered, errors, halted, ops>>

Next ==
    \/ \E f \in Fiber : Create(f) \/ Close(f) \/ ResumeDone(f) \/ Resume(f)
    \/ HaltAlert \/ CallFunction
    \/ \E w \in BOOLEAN : Yield(w) \/ Return(w)
    \/ YieldVoid \/ ReturnVoid \/ HaltError \/ RuntimeHalt
    \/ Deliver \/ DeliverToDone \/ AfterCall

Spec == Init /\ [][Next]_vars

-----------------------------------------------------------------------------
(* Properties.                                                             *)

\* Every variable keeps its type; only fibers that FiberCreate made are ever
\* finished, parked or halted.
TypeOK ==
    /\ stack \in Seq(Frame)
    /\ created \subseteq Fiber
    /\ done \subseteq created /\ parked \subseteq created
    /\ halted \subseteq created
    /\ produced \in [Fiber -> Nat]
    /\ delivered \in [Fiber -> Seq(Nat)]
    /\ result \in Value \cup {None}
    /\ errors \in Nat /\ alerts \in Nat /\ exhausted \in Nat /\ ops \in Nat
    /\ crashed \in BOOLEAN

\* Frame i runs fiber code with the registers it took from the FiberState.
Owns(i) == stack[i].code \in Fiber /\ stack[i].waits \in {None, Func}

\* The registers of a fiber are in one place: in its FiberState, or in the one
\* frame that took them (std::mem::take in resume_fiber_with_guard).
OneOwner ==
    /\ \A i, j \in 1..Depth :
          Owns(i) /\ Owns(j) /\ stack[i].code = stack[j].code => i = j
    /\ \A i \in 1..Depth : Owns(i) => stack[i].code \notin parked
    /\ \A f \in created \ parked :
          \E i \in 1..Depth : Owns(i) /\ stack[i].code = f

\* Every frame but the innermost waits for exactly the frame above it, and the
\* innermost one executes or has just been handed a result.
StackShape ==
    \A i \in 1..(Depth - 1) : stack[i].waits = stack[i + 1].code

\* A value in flight came from the fiber the innermost frame resumed: nested
\* and mutual resumption never hand a value to the wrong .next().
ResultForAsker ==
    result # None => Depth > 0 /\ Top.waits = result.from

\* A fiber's values are stored at most once and in the order it produced them,
\* across suspensions, nested resumption and closing.
DeliveredInOrder ==
    \A f \in Fiber :
        /\ \A i \in 1..Len(delivered[f]) : delivered[f][i] <= produced[f]
        /\ \A i, j \in 1..Len(delivered[f]) :
              i < j => delivered[f][i] < delivered[f][j]

\* Re-entry is only fatal through a function call: a fiber that resumes itself,
\* its resumer or a cycle of fibers with .next() never finds registers taken.
PanicNeedsCall ==
    crashed => \E i \in 1..Depth : stack[i].code \in Fiber /\ stack[i].waits = Func

\* A finished fiber whose registers are at rest never executes again.
FinishedNeverRuns ==
    [][\A f \in done \cap parked : f \in parked']_vars

-----------------------------------------------------------------------------
(* What the documentation and the tests say, and the code does not do.     *)

\* fiber_halt.xcx: "a fiber halt correctly halts the entire VM execution".
HaltStopsProgram == [][errors > 0 => ops' = ops]_vars

\* errors_halt.md: halt.error "aborts the current frame"; an aborted fiber is
\* not entered again.
AbortedNeverRuns == [][\A f \in halted \cap parked : f \in parked']_vars

\* functions_fibers.md: .next() of a finished fiber triggers halt.alert (R306).
ExhaustedAlerts ==
    [][exhausted' > exhausted => alerts' > alerts]_vars

\* functions_fibers.md: "return 99;" terminates the fiber and returns 99 - the
\* value of every resumption is stored in the caller's register.
ValueStored ==
    [][(Deliver \/ DeliverToDone) /\ result # None
          => delivered'[result.from] = Append(delivered[result.from], result.n)]_vars
=============================================================================
