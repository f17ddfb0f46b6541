-------------------------- MODULE HttpServerProofs --------------------------
(***************************************************************************)
(* Machine-checked theorems about HttpServer, for any number of workers    *)
(* and requests and any handlers: types, the guard of the globals, where a *)
(* request is, and that the server implements RequestService.              *)
(***************************************************************************)
EXTENDS HttpServer, SequenceTheorems, TLAPS

-----------------------------------------------------------------------------
(* Types, and the request a busy worker has.                               *)

Busy == {"lock", "run", "sleep", "net", "enter", "native", "leave", "stuck",
         "returned", "check", "fallback"}

\* A worker has a request exactly while it is busy, and never keeps the Mutex
\* of a request it is done with.
BusyHasRequest ==
    \A w \in Worker : IF pc[w] \in Busy THEN req[w] \in Request
                      ELSE req[w] = Nobody /\ ~slot[w]

TypeInv == TypeOK /\ BusyHasRequest

LEMMA ReplyType ==
    ASSUME TypeOK, NEW r \in Request, NEW s \in Status, Reply(r, s)
    PROVE  sent' \in [Request -> Seq(Status)]
<1>1. Append(sent[r], s) \in Seq(Status)
  BY AppendProperties DEF TypeOK
<1> QED
  BY <1>1 DEF TypeOK, Reply

LEMMA HeadType ==
    ASSUME TypeOK, queue # <<>>
    PROVE  Head(queue) \in Request /\ Tail(queue) \in Seq(Request)
BY HeadTailProperties DEF TypeOK

LEMMA RunningFacts ==
    ASSUME TypeInv, NEW w \in Worker, Operates(w)
    PROVE  /\ pc[w] = "run" /\ req[w] \in Request
           /\ steps' \in [Worker -> Nat]
BY DEF TypeInv, TypeOK, BusyHasRequest, Busy, Operates, OneMore, At

LEMMA NativeHasRequest ==
    ASSUME TypeInv, NEW w \in Worker, At(w, "native") PROVE req[w] \in Request
BY DEF TypeInv, BusyHasRequest, Busy, At

LEMMA OneMoreType ==
    ASSUME TypeOK, NEW w \in Worker, OneMore(w) PROVE steps' \in [Worker -> Nat]
<1>1. steps \in [Worker -> Nat] /\ steps[w] + 1 \in Nat
  BY DEF TypeOK
<1> QED
  BY <1>1 DEF OneMore

LEMMA CountErrorType ==
    ASSUME TypeInv, NEW w \in Worker, req[w] \in Request, NEW counted \in BOOLEAN,
           CountError(w, counted)
    PROVE  errors' \in Nat /\ failed' \subseteq Request
BY DEF CountError, TypeInv, TypeOK

LEMMA GiveUpEffect ==
    ASSUME TypeOK, NEW w \in Worker, GiveUpGuard(w)
    PROVE  /\ lock' = Nobody /\ read' \in [Worker -> Read] /\ read'[w] # "held"
           /\ \A v \in Worker \ {w} : read'[v] = read[v]
BY DEF GiveUpGuard, TypeOK, Read

\* Where bytecode that stops leaves its worker.
LEMMA StopEffect ==
    ASSUME TypeInv, NEW w \in Worker, pc[w] \in {"run", "returned"},
           NEW o \in Outcome, Stop(w, o)
    PROVE  /\ pc' \in [Worker -> PC] /\ outcome' \in [Worker -> Outcome]
           /\ frames' \in [Worker -> Seq(Frame)]
           /\ pc'[w] \in {"run", "returned", "check"}
           /\ \A v \in Worker \ {w} : pc'[v] = pc[v]
<1> DEFINE n == Len(frames[w])
           next == IF frames[w][n] = "function" THEN "returned"
                   ELSE IF n = 1 THEN "check" ELSE "run"
<1>t. /\ pc \in [Worker -> PC] /\ outcome \in [Worker -> Outcome]
      /\ frames \in [Worker -> Seq(Frame)] /\ n \in Nat
  BY DEF TypeInv, TypeOK
<1>1. CASE n = 0
  BY <1>1, <1>t DEF Stop, Goto, PC
<1>2. CASE n # 0
  <2>1. SubSeq(frames[w], 1, n - 1) \in Seq(Frame)
    BY <1>2, <1>t, SubSeqProperties
  <2>2. frames' = [frames EXCEPT ![w] = SubSeq(@, 1, n - 1)]
    BY <1>2 DEF Stop
  <2>3. frames' \in [Worker -> Seq(Frame)]
    BY <2>1, <2>2, <1>t
  <2>4. outcome' \in [Worker -> Outcome]
    BY <1>2, <1>t DEF Stop, Outcome
  <2>5. pc' = [pc EXCEPT ![w] = next] /\ next \in {"run", "returned", "check"}
    BY <1>2 DEF Stop, Goto
  <2> HIDE DEF next
  <2>6. next \in PC
    BY <2>5 DEF PC
  <2> QED
    BY <2>3, <2>4, <2>5, <2>6, <1>t
<1> QED
  BY <1>1, <1>2

LEMMA TakeType ==
    ASSUME TypeInv, NEW w \in Worker, req[w] \in Request,
           TakeAndRespond(w) \/ UNCHANGED <<sent, slot>>
    PROVE  /\ sent' \in [Request -> Seq(Status)] /\ slot' \in [Worker -> BOOLEAN]
           /\ \A v \in Worker : ~slot[v] => ~slot'[v]
<1>1. "handler" \in Status
  BY DEF Status
<1> QED
  BY <1>1, ReplyType DEF TakeAndRespond, TypeInv, TypeOK

LEMMA TypeInit == Init => TypeInv
<1>1. <<>> \in Seq(Request) /\ <<>> \in Seq(Status)
  OBVIOUS
<1> SUFFICES ASSUME Init PROVE TypeInv
  OBVIOUS
<1>2. queue \in Seq(Request) /\ sent \in [Request -> Seq(Status)]
  BY <1>1 DEF Init
<1>3. BusyHasRequest
  BY DEF Init, BusyHasRequest, Busy
<1>4. /\ steps \in [Worker -> Nat] /\ seen \in [Worker -> Nat]
      /\ frames \in [Worker -> Seq(Frame)] /\ read \in [Worker -> Read]
  BY DEF Init, Read
<1> QED
  BY <1>2, <1>3, <1>4 DEF Init, TypeInv, TypeOK, PC, Outcome

LEMMA TypeStep ==
    ASSUME TypeInv, [Next]_vars
    PROVE  TypeInv'
<1> USE DEF handler, global, fault, life, PC, Outcome, Status, Goto, At
<1>0. CASE UNCHANGED vars
  BY <1>0 DEF vars, TypeInv, TypeOK, BusyHasRequest
<1>1. ASSUME NEW r \in Request, Arrive(r) PROVE TypeInv'
  BY <1>1, AppendProperties DEF Arrive, TypeInv, TypeOK, BusyHasRequest
<1>2. CASE CtrlC \/ MainExits
  BY <1>2 DEF CtrlC, MainExits, TypeInv, TypeOK, BusyHasRequest
<1>3. ASSUME NEW w \in Worker,
             \/ WorkerExits(w) \/ Lock(w) \/ Wake(w)
             \/ EnterNative(w) \/ LeaveNative(w) \/ LockAgain(w)
      PROVE  TypeInv'
  <2>1. UNCHANGED <<queue, kind, sent, req, slot, handler, global, fault, life>>
    BY <1>3 DEF WorkerExits, Lock, Wake, EnterNative, LeaveNative, LockAgain
  <2>2. \/ pc[w] = "poll" /\ pc' = [pc EXCEPT ![w] = "exited"]
        \/ /\ pc[w] \in Busy
           /\ \E p \in Busy : pc' = [pc EXCEPT ![w] = p]
    BY <1>3 DEF WorkerExits, Lock, Wake, EnterNative, LeaveNative, LockAgain, Busy
  <2>3. lock' \in Worker \cup {Nobody}
    BY <1>3 DEF WorkerExits, Lock, Wake, EnterNative, LeaveNative, LockAgain, TypeInv,
                TypeOK
  <2>4. pc' \in [Worker -> PC]
    BY <2>2 DEF TypeInv, TypeOK, Busy
  <2>5. TypeOK'
    BY <2>1, <2>3, <2>4 DEF TypeInv, TypeOK
  <2>6. BusyHasRequest'
    BY <2>1, <2>2 DEF TypeInv, TypeOK, BusyHasRequest, Busy
  <2> QED
    BY <2>5, <2>6 DEF TypeInv
<1>4. ASSUME NEW w \in Worker, AnswerAtOnce(w) PROVE TypeInv'
  BY <1>4, HeadType, ReplyType DEF AnswerAtOnce, TypeInv, TypeOK, BusyHasRequest
<1>5. ASSUME NEW w \in Worker, StartHandler(w) PROVE TypeInv'
  BY <1>5, HeadType, ServerAssumption
  DEF StartHandler, TypeInv, TypeOK, BusyHasRequest, Busy, Read
<1>6. ASSUME NEW w \in Worker, Check(w) \/ ReturnNative(w) PROVE TypeInv'
  <2>1. GiveUpGuard(w)
    BY <1>6 DEF Check, ReturnNative
  <2>2. read' \in [Worker -> Read] /\ lock' = Nobody
    BY <2>1, GiveUpEffect DEF TypeInv
  <2>3. \E p \in {"lock", "fallback", "leave"} : pc' = [pc EXCEPT ![w] = p]
    BY <1>6 DEF Check, ReturnNative
  <2>4. pc[w] \in {"check", "native"}
    BY <1>6 DEF Check, ReturnNative
  <2>5. UNCHANGED <<queue, kind, sent, req, slot, outcome, steps, frames, calls, counter,
                    seen, stores, crossed, fault, life>>
    BY <1>6 DEF Check, ReturnNative
  <2>6. TypeOK'
    BY <2>2, <2>3, <2>5 DEF TypeInv, TypeOK
  <2>7. BusyHasRequest'
    BY <2>3, <2>4, <2>5 DEF TypeInv, TypeOK, BusyHasRequest, Busy
  <2> QED
    BY <2>6, <2>7 DEF TypeInv
<1>7. ASSUME NEW w \in Worker, Fallback(w) PROVE TypeInv'
  <2>1. req[w] \in Request
    BY <1>7 DEF Fallback, TypeInv, BusyHasRequest, Busy
  <2>2. sent' \in [Request -> Seq(Status)]
    BY <1>7, <2>1, ReplyType DEF Fallback, TypeInv, TypeOK
  <2> QED
    BY <1>7, <2>1, <2>2 DEF Fallback, TypeInv, TypeOK, BusyHasRequest, Busy
<1>8. ASSUME NEW w \in Worker, NEW o \in Outcome, pc[w] \in {"run", "returned"},
             Stop(w, o) \/ (Goto(w, "run") /\ UNCHANGED <<outcome, frames>>),
             TakeAndRespond(w) \/ UNCHANGED <<sent, slot>>,
             steps' \in [Worker -> Nat], errors' \in Nat, failed' \subseteq Request,
             UNCHANGED <<queue, kind, req, lock, calls, global, life>>
      PROVE  TypeInv'
  <2>1. req[w] \in Request
    BY <1>8 DEF TypeInv, BusyHasRequest, Busy
  <2>2. /\ pc' \in [Worker -> PC] /\ outcome' \in [Worker -> Outcome]
        /\ frames' \in [Worker -> Seq(Frame)]
        /\ pc'[w] \in {"run", "returned", "check"}
        /\ \A v \in Worker \ {w} : pc'[v] = pc[v]
    BY <1>8, StopEffect DEF TypeInv, TypeOK
  <2>3. BusyHasRequest'
    BY <1>8, <2>1, <2>2, TakeType DEF TypeInv, BusyHasRequest, Busy
  <2> QED
    BY <1>8, <2>1, <2>2, <2>3, TakeType DEF TypeInv, TypeOK
<1>9. ASSUME NEW w \in Worker, Respond(w) \/ YieldPlain(w) PROVE TypeInv'
  <2>1. /\ Operates(w) /\ Stop(w, "yield")
        /\ TakeAndRespond(w) \/ UNCHANGED <<sent, slot>>
        /\ UNCHANGED <<queue, kind, req, lock, calls, global, fault, life>>
    BY <1>9 DEF Respond, YieldPlain
  <2>2. errors' \in Nat /\ failed' \subseteq Request
    BY <2>1 DEF TypeInv, TypeOK
  <2> QED
    BY <1>8, <2>1, <2>2, RunningFacts
<1>10. ASSUME NEW w \in Worker, NEW counted \in BOOLEAN, HaltError(w, counted)
       PROVE  TypeInv'
  <2>1. /\ Operates(w) /\ CountError(w, counted) /\ Stop(w, "halt")
        /\ UNCHANGED <<queue, kind, sent, req, slot, lock, calls, global, life>>
    BY <1>10 DEF HaltError
  <2>2. errors' \in Nat /\ failed' \subseteq Request
    BY <2>1, RunningFacts, CountErrorType
  <2> QED
    BY <1>8, <2>1, <2>2, RunningFacts
<1>11. ASSUME NEW w \in Worker, Finish(w) \/ AfterCall(w) PROVE TypeInv'
  <2>1. PICK o \in Outcome : Stop(w, o) \/ (Goto(w, "run") /\ UNCHANGED <<outcome, frames>>)
    BY <1>11 DEF Finish, AfterCall
  <2>2. /\ pc[w] \in {"run", "returned"}
        /\ UNCHANGED <<queue, kind, sent, req, slot, lock, steps, calls, global, fault,
                       life>>
    BY <1>11 DEF Finish, AfterCall
  <2>3. steps' \in [Worker -> Nat] /\ errors' \in Nat /\ failed' \subseteq Request
    BY <2>2 DEF TypeInv, TypeOK
  <2> QED
    BY <1>8, <2>1, <2>2, <2>3
<1>12. ASSUME NEW w \in Worker, Load(w) \/ Store(w) PROVE TypeInv'
  <2>1. counter' \in Nat /\ seen' \in [Worker -> Nat] /\ read' \in [Worker -> Read]
        /\ stores' \in Nat /\ crossed' \in BOOLEAN
    <3>1. /\ counter \in Nat /\ seen \in [Worker -> Nat] /\ seen[w] + 1 \in Nat
          /\ read \in [Worker -> Read] /\ stores \in Nat /\ stores + 1 \in Nat
          /\ crossed \in BOOLEAN
      BY DEF TypeInv, TypeOK
    <3>2. CASE Load(w)
      BY <3>1, <3>2 DEF Load, Read
    <3>3. CASE Store(w)
      BY <3>1, <3>3 DEF Store, Read
    <3> QED
      BY <1>12, <3>2, <3>3
  <2>2. steps' \in [Worker -> Nat]
    BY <1>12, OneMoreType DEF Load, Store, Executes, TypeInv
  <2> QED
    BY <1>12, <2>1, <2>2 DEF Load, Store, TypeInv, TypeOK, BusyHasRequest
<1>13. ASSUME NEW w \in Worker, Wait(w) \/ CallCompiled(w) PROVE TypeInv'
  <2>1. Operates(w) /\ GiveUpGuard(w)
    BY <1>13 DEF Wait, CallCompiled
  <2>2. read' \in [Worker -> Read] /\ lock' = Nobody
    BY <2>1, GiveUpEffect DEF TypeInv
  <2>3. \E p \in {"sleep", "enter"} : pc' = [pc EXCEPT ![w] = p]
    BY <1>13 DEF Wait, CallCompiled
  <2>4. UNCHANGED <<queue, kind, sent, req, slot, outcome, frames, calls, counter, seen,
                    stores, crossed, fault, life>>
    BY <1>13 DEF Wait, CallCompiled
  <2>5. pc[w] = "run" /\ steps' \in [Worker -> Nat]
    BY <2>1, RunningFacts
  <2>6. TypeOK'
    BY <2>2, <2>3, <2>4, <2>5 DEF TypeInv, TypeOK
  <2>7. BusyHasRequest'
    BY <2>3, <2>4, <2>5 DEF TypeInv, TypeOK, BusyHasRequest, Busy
  <2> QED
    BY <2>6, <2>7 DEF TypeInv
<1>14. ASSUME NEW w \in Worker, NEW r \in Request, NetCall(w, r) PROVE TypeInv'
  BY <1>14, RunningFacts, AppendProperties
  DEF NetCall, TypeInv, TypeOK, BusyHasRequest, Busy
<1>15. ASSUME NEW w \in Worker, NetReturns(w) PROVE TypeInv'
  BY <1>15 DEF NetReturns, TypeInv, TypeOK, BusyHasRequest, Busy
<1>16. ASSUME NEW w \in Worker, Panic(w) PROVE TypeInv'
  <2>1. /\ Operates(w) /\ req[w] \in Request /\ pc[w] = "run"
        /\ steps' \in [Worker -> Nat]
    BY <1>16, RunningFacts DEF Panic
  <2>2. sent' \in [Request -> Seq(Status)]
    BY <1>16, <2>1, ReplyType DEF Panic, TypeInv, TypeOK
  <2>3. read' \in [Worker -> Read] /\ lock' = Nobody
    BY <1>16, GiveUpEffect DEF Panic, TypeInv
  <2>4. frames' \in [Worker -> Seq(Frame)]
    BY <1>16 DEF Panic, TypeInv, TypeOK
  <2> QED
    BY <1>16, <2>1, <2>2, <2>3, <2>4 DEF Panic, TypeInv, TypeOK, BusyHasRequest, Busy
<1>17. ASSUME NEW w \in Worker, NEW f \in Frame, CallFrame(w, f) PROVE TypeInv'
  <2>1. Append(frames[w], f) \in Seq(Frame)
    BY AppendProperties DEF TypeInv, TypeOK
  <2>2. frames' \in [Worker -> Seq(Frame)]
    BY <1>17, <2>1 DEF CallFrame, TypeInv, TypeOK
  <2> QED
    BY <1>17, <2>2, RunningFacts DEF CallFrame, TypeInv, TypeOK, BusyHasRequest
<1>18. ASSUME NEW w \in Worker, NEW responds \in BOOLEAN, NEW counted \in BOOLEAN,
              CallSlowly(w, responds, counted)
       PROVE  TypeInv'
  <2>1. /\ At(w, "native") /\ OneMore(w) /\ CountError(w, counted)
        /\ TakeAndRespond(w) \/ UNCHANGED <<sent, slot>>
    BY <1>18 DEF CallSlowly
  <2>2. req[w] \in Request /\ steps' \in [Worker -> Nat]
    BY <2>1, NativeHasRequest, OneMoreType DEF TypeInv
  <2>3. errors' \in Nat /\ failed' \subseteq Request
    BY <2>1, <2>2, CountErrorType
  <2> QED
    BY <1>18, <2>1, <2>2, <2>3, TakeType DEF CallSlowly, TypeInv, TypeOK, BusyHasRequest
<1>19. ASSUME NEW w \in Worker, Abort(w) PROVE TypeInv'
  BY <1>19 DEF Abort, TypeInv, TypeOK, BusyHasRequest
<1> QED
  BY <1>0, <1>1, <1>2, <1>3, <1>4, <1>5, <1>6, <1>7, <1>9, <1>10, <1>11, <1>12, <1>13,
     <1>14, <1>15, <1>16, <1>17, <1>18, <1>19 DEF Next, Work, Handler, SlowPath

\* Every reachable state is well typed: no client is ever sent a status the
\* server does not know.
THEOREM TypeCorrect == Spec => []TypeOK
<1>1. TypeInv => TypeOK
  BY DEF TypeInv
<1>2. TypeInv /\ [Next]_vars => TypeInv'
  BY TypeStep
<1> QED
  BY <1>1, <1>2, TypeInit, PTL DEF Spec

-----------------------------------------------------------------------------
(* The guard of the globals.                                               *)

\* What a worker loaded without giving the guard up since is still the counter's
\* value, and nobody has ever loaded more than there were increments.
CountInv ==
    /\ \A w \in Worker : read[w] = "held" => lock = w /\ seen[w] = counter
    /\ \A w \in Worker : seen[w] <= stores
    /\ counter <= stores
    /\ ~crossed => counter = stores

GuardInv == GuardDiscipline /\ CountInv

LEMMA CountInvCounts == ASSUME TypeOK, CountInv PROVE IncrementsCounted
BY DEF TypeOK, CountInv, IncrementsCounted

\* A worker that has the guard gives it up.
LEMMA GuardReleased ==
    ASSUME TypeOK, GuardInv, NEW w \in Worker, lock = w, GiveUpGuard(w),
           NEW p \in {"sleep", "enter", "leave", "lock", "fallback", "dead"},
           Goto(w, p), UNCHANGED <<counter, seen, stores, crossed>>
    PROVE  GuardInv'
<1>1. /\ lock' = Nobody /\ read'[w] # "held"
      /\ \A v \in Worker \ {w} : read'[v] = read[v] /\ pc'[v] = pc[v]
      /\ pc'[w] = p
  BY GiveUpEffect DEF Goto, TypeOK
<1>2. \A v \in Worker : v # w => read[v] # "held"
  BY DEF GuardInv, CountInv
<1>3. GuardDiscipline'
  BY <1>1, ServerAssumption DEF GuardInv, GuardDiscipline
<1>4. CountInv'
  BY <1>1, <1>2 DEF GuardInv, CountInv
<1> QED
  BY <1>3, <1>4 DEF GuardInv

\* A worker moves, and neither gets the guard nor gives it up.
LEMMA GuardKept ==
    ASSUME TypeOK, GuardInv, NEW w \in Worker, UNCHANGED <<lock, global>>,
           \A v \in Worker \ {w} : pc'[v] = pc[v],
           \/ /\ pc[w] \in {"run", "net", "native", "stuck", "returned", "check"}
              /\ pc'[w] \in {"run", "net", "native", "stuck", "returned", "check"}
           \/ /\ pc[w] \in {"poll", "fallback"}
              /\ pc'[w] \in {"poll", "exited"}
    PROVE  GuardInv'
<1>1. GuardDiscipline'
  BY DEF GuardInv, GuardDiscipline
<1>2. CountInv'
  BY DEF GuardInv, CountInv, global
<1> QED
  BY <1>1, <1>2 DEF GuardInv

LEMMA GuardStep ==
    ASSUME TypeInv, GuardInv, [Next]_vars
    PROVE  GuardInv'
<1> USE DEF handler, fault, life, At
<1>t. TypeOK
  BY DEF TypeInv
<1>0. CASE UNCHANGED <<pc, lock, global>>
  BY <1>0 DEF GuardInv, GuardDiscipline, CountInv, global
<1>1. ASSUME NEW w \in Worker, Lock(w) \/ Wake(w) \/ EnterNative(w) \/ LeaveNative(w)
      PROVE  GuardInv'
  <2>1. /\ lock = Nobody /\ lock' = w /\ UNCHANGED global
        /\ pc'[w] \in {"run", "native", "returned"}
        /\ \A v \in Worker \ {w} : pc'[v] = pc[v]
    BY <1>1, <1>t DEF Lock, Wake, EnterNative, LeaveNative, Goto, TypeOK
  <2>2. \A v \in Worker : read[v] # "held"
    BY <2>1, ServerAssumption DEF GuardInv, CountInv
  <2>3. GuardDiscipline'
    BY <2>1, ServerAssumption DEF GuardInv, GuardDiscipline
  <2>4. CountInv'
    BY <2>1, <2>2 DEF GuardInv, CountInv, global
  <2> QED
    BY <2>3, <2>4 DEF GuardInv
<1>2. ASSUME NEW w \in Worker, StartHandler(w) PROVE GuardInv'
  <2>1. /\ pc[w] = "poll" /\ pc'[w] = "lock" /\ read'[w] = "no" /\ lock' = lock
        /\ \A v \in Worker \ {w} : pc'[v] = pc[v] /\ read'[v] = read[v]
        /\ UNCHANGED <<counter, seen, stores, crossed>>
    BY <1>2, <1>t DEF StartHandler, Goto, TypeOK
  <2> QED
    BY <2>1 DEF GuardInv, GuardDiscipline, CountInv
<1>3. ASSUME NEW w \in Worker, Check(w) \/ Wait(w) \/ CallCompiled(w)
                               \/ ReturnNative(w) \/ Panic(w)
      PROVE  GuardInv'
  <2>1. lock = w /\ GiveUpGuard(w) /\ UNCHANGED <<counter, seen, stores, crossed>>
    BY <1>3 DEF Check, Wait, CallCompiled, ReturnNative, Panic, Operates, GuardInv,
                GuardDiscipline
  <2>2. \E p \in {"sleep", "enter", "leave", "lock", "fallback", "dead"} : Goto(w, p)
    BY <1>3 DEF Check, Wait, CallCompiled, ReturnNative, Panic
  <2> QED
    BY <2>1, <2>2, <1>t, GuardReleased
<1>4. ASSUME NEW w \in Worker, WorkerExits(w) \/ Fallback(w) \/ NetReturns(w)
                               \/ LockAgain(w)
      PROVE  GuardInv'
  <2>1. UNCHANGED <<lock, global>> /\ \A v \in Worker \ {w} : pc'[v] = pc[v]
    BY <1>4, <1>t DEF WorkerExits, Fallback, NetReturns, LockAgain, Goto, TypeOK
  <2>2. \/ pc[w] \in {"net", "native"} /\ pc'[w] \in {"run", "stuck"}
        \/ pc[w] \in {"poll", "fallback"} /\ pc'[w] \in {"poll", "exited"}
    BY <1>4, <1>t DEF WorkerExits, Fallback, NetReturns, LockAgain, Goto, TypeOK
  <2> QED
    BY <2>1, <2>2, <1>t, GuardKept
<1>5. ASSUME NEW w \in Worker, NEW o \in Outcome, pc[w] \in {"run", "returned"},
             Stop(w, o) \/ Goto(w, "run") \/ Goto(w, "net"), UNCHANGED <<lock, global>>
      PROVE  GuardInv'
  <2>1. CASE Stop(w, o)
    <3>1. /\ pc'[w] \in {"run", "returned", "check"}
          /\ \A v \in Worker \ {w} : pc'[v] = pc[v]
      BY <1>5, <2>1, StopEffect
    <3> QED
      BY <1>5, <3>1, <1>t, GuardKept
  <2>2. CASE Goto(w, "run") \/ Goto(w, "net")
    <3>1. pc'[w] \in {"run", "net"} /\ \A v \in Worker \ {w} : pc'[v] = pc[v]
      BY <2>2, <1>t DEF Goto, TypeOK
    <3> QED
      BY <1>5, <3>1, <1>t, GuardKept
  <2> QED
    BY <1>5, <2>1, <2>2
<1>6. ASSUME NEW w \in Worker,
             \/ Respond(w) \/ YieldPlain(w) \/ Finish(w) \/ AfterCall(w)
             \/ \E counted \in BOOLEAN : HaltError(w, counted)
             \/ \E r \in Request : NetCall(w, r)
      PROVE  GuardInv'
  <2>1. UNCHANGED <<lock, global>> /\ pc[w] \in {"run", "returned"}
    BY <1>6 DEF Respond, YieldPlain, Finish, AfterCall, HaltError, NetCall, Operates
  <2>2. \E o \in Outcome : Stop(w, o) \/ Goto(w, "run") \/ Goto(w, "net")
    BY <1>6 DEF Respond, YieldPlain, Finish, AfterCall, HaltError, NetCall, Outcome
  <2> QED
    BY <2>1, <2>2, <1>5
<1>7. ASSUME NEW w \in Worker, Load(w) \/ Store(w) PROVE GuardInv'
  <2>1. lock = w /\ lock' = lock /\ pc' = pc
    BY <1>7 DEF Load, Store, Executes, GuardInv, GuardDiscipline
  <2>2. GuardDiscipline'
    BY <2>1 DEF GuardInv, GuardDiscipline
  <2>3. \A v \in Worker \ {w} : read[v] # "held" /\ read'[v] = read[v]
    BY <1>7, <2>1, <1>t DEF Load, Store, TypeOK, GuardInv, CountInv
  <2>4. /\ counter \in Nat /\ stores \in Nat /\ crossed \in BOOLEAN
        /\ seen \in [Worker -> Nat] /\ read \in [Worker -> Read]
    BY <1>t DEF TypeOK
  <2>5. CASE Load(w)
    <3>1. /\ seen'[w] = counter /\ UNCHANGED <<counter, stores, crossed>>
          /\ \A v \in Worker \ {w} : seen'[v] = seen[v]
      BY <2>4, <2>5 DEF Load
    <3> QED
      BY <2>1, <2>2, <2>3, <3>1 DEF GuardInv, CountInv
  <2>6. CASE Store(w)
    <3>1. /\ counter' = seen[w] + 1 /\ stores' = stores + 1 /\ seen' = seen
          /\ crossed' = (crossed \/ read[w] = "released") /\ read'[w] = "no"
      BY <2>4, <2>6 DEF Store
    <3>2. seen[w] <= stores /\ (~crossed' => seen[w] = counter /\ counter = stores)
      BY <2>4, <2>6, <3>1 DEF Store, Read, GuardInv, CountInv
    <3>3. \A v \in Worker : seen'[v] <= stores'
      BY <2>4, <3>1 DEF GuardInv, CountInv
    <3>4. \A v \in Worker : read'[v] # "held"
      BY <2>3, <3>1
    <3>5. counter' <= stores' /\ (~crossed' => counter' = stores')
      BY <2>4, <3>1, <3>2
    <3> QED
      BY <2>2, <3>3, <3>4, <3>5 DEF GuardInv, CountInv
  <2> QED
    BY <1>7, <2>5, <2>6
<1>8. CASE \/ UNCHANGED vars \/ CtrlC \/ MainExits \/ \E r \in Request : Arrive(r)
           \/ \E w \in Worker, f \in Frame : CallFrame(w, f)
           \/ \E w \in Worker, responds, counted \in BOOLEAN :
                 CallSlowly(w, responds, counted)
           \/ \E w \in Worker : AnswerAtOnce(w) \/ Abort(w)
  BY <1>0, <1>8 DEF vars, CtrlC, MainExits, Arrive, AnswerAtOnce, CallFrame, CallSlowly,
                    Abort
<1> QED
  BY <1>1, <1>2, <1>3, <1>4, <1>6, <1>7, <1>8 DEF Next, Work, Handler, SlowPath

LEMMA AlwaysGuard == Spec => [](TypeInv /\ GuardInv)
<1>1. Init => GuardInv
  BY ServerAssumption DEF Init, GuardInv, GuardDiscipline, CountInv
<1> QED
  BY <1>1, TypeInit, TypeStep, GuardStep, PTL DEF Spec

\* Bytecode and machine code run, and only run, under the globals guard.
THEOREM GuardHeldToRun == Spec => []GuardDiscipline
<1>1. GuardInv => GuardDiscipline
  BY DEF GuardInv
<1> QED
  BY <1>1, AlwaysGuard, PTL

\* However many workers interleave, no increment of a global is lost or counted
\* twice unless one was of a value loaded before the guard was given up.
THEOREM IncrementsKept == Spec => []IncrementsCounted
<1>1. TypeInv /\ GuardInv => IncrementsCounted
  BY CountInvCounts DEF TypeInv, GuardInv
<1> QED
  BY <1>1, AlwaysGuard, PTL

-----------------------------------------------------------------------------
(* What a step does to requests: one of six things.                        *)

Untouched == UNCHANGED <<queue, sent, req, slot>>

Arrives(r) ==
    /\ IsNew(r) /\ queue' = Append(queue, r)
    /\ UNCHANGED <<sent, req, slot>>

AnswersHead ==
    /\ queue # <<>> /\ queue' = Tail(queue)
    /\ \E s \in Status : Reply(Head(queue), s)
    /\ UNCHANGED <<req, slot>>

Takes(w) ==
    /\ queue # <<>> /\ queue' = Tail(queue)
    /\ req[w] = Nobody
    /\ req' = [req EXCEPT ![w] = Head(queue)]
    /\ slot' = [slot EXCEPT ![w] = TRUE]
    /\ UNCHANGED sent

Answers(w) ==
    /\ slot[w] /\ req[w] \in Request
    /\ \E s \in Status : Reply(req[w], s)
    /\ slot' = [slot EXCEPT ![w] = FALSE]
    /\ req' \in {req, [req EXCEPT ![w] = Nobody]}
    /\ UNCHANGED queue

LetsGo(w) ==
    /\ ~slot[w] /\ req[w] \in Request
    /\ req' = [req EXCEPT ![w] = Nobody]
    /\ UNCHANGED <<queue, sent, slot>>

LEMMA TakeAndRespondEffect ==
    ASSUME TypeInv, NEW w \in Worker, req[w] \in Request,
           TakeAndRespond(w) \/ UNCHANGED <<sent, slot>>, UNCHANGED <<queue, req>>
    PROVE  Untouched \/ Answers(w)
<1>1. CASE TakeAndRespond(w) /\ slot[w]
  BY <1>1 DEF TakeAndRespond, Answers, Status
<1>2. CASE TakeAndRespond(w) /\ ~slot[w]
  <2>1. slot' = slot
    BY <1>2 DEF TakeAndRespond, TypeInv, TypeOK
  <2> QED
    BY <1>2, <2>1 DEF TakeAndRespond, Untouched
<1> QED
  BY <1>1, <1>2 DEF Untouched

LEMMA RequestEffect ==
    ASSUME TypeInv, [Next]_vars
    PROVE  \/ Untouched \/ AnswersHead
           \/ \E r \in Request : Arrives(r)
           \/ \E w \in Worker : Takes(w) \/ Answers(w) \/ LetsGo(w)
<1> DEFINE Goal == \/ Untouched \/ AnswersHead
                   \/ \E r \in Request : Arrives(r)
                   \/ \E w \in Worker : Takes(w) \/ Answers(w) \/ LetsGo(w)
<1> USE DEF handler, global, fault, life, At
<1>1. ASSUME NEW r \in Request, Arrive(r) PROVE Goal
  BY <1>1 DEF Arrive, Arrives
<1>2. ASSUME NEW w \in Worker, NEW r \in Request, NetCall(w, r) PROVE Goal
  BY <1>2 DEF NetCall, Arrives
<1>3. ASSUME NEW w \in Worker, AnswerAtOnce(w) PROVE Goal
  BY <1>3 DEF AnswerAtOnce, AnswersHead, Status
<1>4. ASSUME NEW w \in Worker, StartHandler(w) PROVE Goal
  <2>1. req[w] = Nobody
    BY <1>4 DEF StartHandler, TypeInv, BusyHasRequest, Busy
  <2> QED
    BY <1>4, <2>1 DEF StartHandler, Takes
<1>5. ASSUME NEW w \in Worker, Fallback(w) PROVE Goal
  <2>1. req[w] \in Request
    BY <1>5 DEF Fallback, TypeInv, BusyHasRequest, Busy
  <2>2. ~slot[w] => slot' = slot
    BY <1>5 DEF Fallback, TypeInv, TypeOK
  <2> QED
    BY <1>5, <2>1, <2>2 DEF Fallback, Answers, LetsGo, Status
<1>6. ASSUME NEW w \in Worker, Panic(w) PROVE Goal
  <2>1. req[w] \in Request
    BY <1>6, RunningFacts DEF Panic
  <2>2. ~slot[w] => slot' = slot
    BY <1>6 DEF Panic, TypeInv, TypeOK
  <2> QED
    BY <1>6, <2>1, <2>2 DEF Panic, Answers, LetsGo, Status
<1>7. ASSUME NEW w \in Worker, NEW responds \in BOOLEAN, NEW counted \in BOOLEAN,
             Respond(w) \/ CallSlowly(w, responds, counted)
      PROVE  Goal
  <2>1. /\ Operates(w) \/ At(w, "native")
        /\ UNCHANGED <<queue, req>> /\ (TakeAndRespond(w) \/ UNCHANGED <<sent, slot>>)
    BY <1>7 DEF Respond, CallSlowly
  <2>2. req[w] \in Request
    BY <2>1, RunningFacts, NativeHasRequest
  <2> QED
    BY <2>1, <2>2, TakeAndRespondEffect
<1>8. ASSUME NEW w \in Worker,
             \/ WorkerExits(w) \/ Lock(w) \/ YieldPlain(w) \/ Finish(w)
             \/ AfterCall(w) \/ Load(w) \/ Store(w) \/ Wait(w) \/ Wake(w)
             \/ NetReturns(w) \/ Check(w) \/ CallCompiled(w) \/ EnterNative(w)
             \/ ReturnNative(w) \/ LeaveNative(w) \/ LockAgain(w) \/ Abort(w)
             \/ \E f \in Frame : CallFrame(w, f)
             \/ \E counted \in BOOLEAN : HaltError(w, counted)
      PROVE  Goal
  BY <1>8 DEF WorkerExits, Lock, YieldPlain, HaltError, Finish, AfterCall, Load, Store,
     Wait, Wake, NetReturns, Check, CallCompiled, EnterNative, ReturnNative,
     LeaveNative, LockAgain, Abort, CallFrame, Untouched
<1>9. CASE UNCHANGED vars \/ CtrlC \/ MainExits
  BY <1>9 DEF vars, CtrlC, MainExits, Untouched
<1> QED
  BY <1>1, <1>2, <1>3, <1>4, <1>5, <1>6, <1>7, <1>8, <1>9
  DEF Next, Work, Handler, SlowPath

-----------------------------------------------------------------------------
(* Where a request is.                                                     *)

NoDuplicates == \A i, j \in 1..Len(queue) : queue[i] = queue[j] => i = j

\* A received request goes to the end of the queue.
LEMMA QueueGrows ==
    ASSUME TypeOK, NoDuplicates, NEW r \in Request, ~InQueue(r),
           queue' = Append(queue, r)
    PROVE  NoDuplicates' /\ \A q : InQueue(q)' <=> InQueue(q) \/ q = r
<1>1. /\ Len(queue) \in Nat /\ Len(queue') = Len(queue) + 1
      /\ \A i \in 1..Len(queue) : queue'[i] = queue[i]
      /\ queue'[Len(queue) + 1] = r
  BY AppendProperties DEF TypeOK
<1>2. \A i : i \in 1..(Len(queue) + 1) <=> i \in 1..Len(queue) \/ i = Len(queue) + 1
  BY <1>1
<1>3. \A i \in 1..Len(queue) : queue[i] # r
  BY DEF InQueue
<1>4. NoDuplicates'
  BY <1>1, <1>2, <1>3 DEF NoDuplicates
<1>5. \A q : InQueue(q)' <=> InQueue(q) \/ q = r
  BY <1>1, <1>2 DEF InQueue
<1> QED
  BY <1>4, <1>5

\* A request taken from the head of the queue is no longer in it.
LEMMA QueueShrinks ==
    ASSUME TypeOK, NoDuplicates, queue # <<>>, queue' = Tail(queue)
    PROVE  /\ NoDuplicates' /\ InQueue(Head(queue))
           /\ \A q : InQueue(q)' <=> InQueue(q) /\ q # Head(queue)
<1> DEFINE n == Len(queue)
<1>1. /\ n \in Nat /\ n # 0 /\ Len(queue') = n - 1 /\ Head(queue) = queue[1]
      /\ \A i \in 1..Len(queue') : queue'[i] = queue[i + 1]
  BY HeadTailProperties DEF TypeOK
<1>2. /\ 1 \in 1..n
      /\ \A i \in 1..(n - 1) : i + 1 \in 1..n /\ i + 1 # 1
      /\ \A i \in 1..n : i = 1 \/ (i - 1 \in 1..(n - 1) /\ (i - 1) + 1 = i)
      /\ \A i, j \in 1..(n - 1) : i + 1 = j + 1 => i = j
  BY <1>1
<1>3. NoDuplicates'
  BY <1>1, <1>2 DEF NoDuplicates
<1>4. InQueue(Head(queue))
  BY <1>1, <1>2 DEF InQueue
<1>5. ASSUME NEW q PROVE InQueue(q)' <=> InQueue(q) /\ q # Head(queue)
  <2>1. ASSUME InQueue(q)' PROVE InQueue(q) /\ q # Head(queue)
    <3>1. PICK i \in 1..(n - 1) : queue'[i] = q
      BY <1>1, <2>1 DEF InQueue
    <3>2. queue[i + 1] = q /\ i + 1 \in 1..n /\ i + 1 # 1
      BY <1>1, <1>2, <3>1
    <3> QED
      BY <1>1, <1>2, <3>2 DEF InQueue, NoDuplicates
  <2>2. ASSUME InQueue(q), q # Head(queue) PROVE InQueue(q)'
    <3>1. PICK i \in 1..n : queue[i] = q
      BY <2>2 DEF InQueue
    <3>2. i - 1 \in 1..(n - 1) /\ (i - 1) + 1 = i
      BY <1>1, <1>2, <2>2, <3>1
    <3>3. queue'[i - 1] = q
      BY <1>1, <3>1, <3>2
    <3> QED
      BY <1>1, <3>2, <3>3 DEF InQueue
  <2> QED
    BY <2>1, <2>2
<1> QED
  BY <1>3, <1>4, <1>5

\* Sending a response makes exactly one request answered.
LEMMA Answered ==
    ASSUME TypeOK, NEW r \in Request, NEW s \in Status, Reply(r, s)
    PROVE  /\ sent'[r] # <<>> /\ (sent[r] = <<>> => sent'[r] = <<s>>)
           /\ \A q \in Request \ {r} : sent'[q] = sent[q]
<1>1. sent[r] \in Seq(Status) /\ sent'[r] = Append(sent[r], s)
  BY DEF TypeOK, Reply
<1>2. Append(sent[r], s) # <<>>
  BY <1>1, AppendProperties
<1>3. sent[r] = <<>> => Append(sent[r], s) = <<s>>
  OBVIOUS
<1>4. \A q \in Request \ {r} : sent'[q] = sent[q]
  BY DEF TypeOK, Reply
<1> QED
  BY <1>1, <1>2, <1>3, <1>4

LEMMA PlaceStep ==
    ASSUME TypeInv, RequestInOnePlace, [Next]_vars
    PROVE  RequestInOnePlace'
<1>t. TypeOK /\ NoDuplicates
  BY DEF TypeInv, RequestInOnePlace, NoDuplicates
<1>0. CASE Untouched
  BY <1>0 DEF Untouched, RequestInOnePlace, Holds, InQueue
<1>1. ASSUME NEW r \in Request, Arrives(r) PROVE RequestInOnePlace'
  <2>1. /\ ~InQueue(r) /\ sent[r] = <<>> /\ (\A w \in Worker : req[w] # r)
        /\ UNCHANGED <<sent, req, slot>> /\ queue' = Append(queue, r)
    BY <1>1 DEF Arrives, IsNew
  <2>2. NoDuplicates' /\ \A q : InQueue(q)' <=> InQueue(q) \/ q = r
    BY <1>t, <2>1, QueueGrows
  <2> QED
    BY <2>1, <2>2 DEF RequestInOnePlace, Holds, NoDuplicates
<1>2. CASE AnswersHead
  <2>1. PICK s \in Status : Reply(Head(queue), s)
    BY <1>2 DEF AnswersHead
  <2>2. /\ NoDuplicates' /\ InQueue(Head(queue)) /\ Head(queue) \in Request
        /\ \A q : InQueue(q)' <=> InQueue(q) /\ q # Head(queue)
    BY <1>2, <1>t, QueueShrinks, HeadType DEF AnswersHead
  <2>3. /\ sent'[Head(queue)] # <<>>
        /\ \A q \in Request \ {Head(queue)} : sent'[q] = sent[q]
    BY <1>t, <2>1, <2>2, Answered
  <2>4. \A w \in Worker : req[w] \in Request \cup {Nobody}
    BY <1>t DEF TypeOK
  <2> QED
    BY <1>2, <2>2, <2>3, <2>4 DEF AnswersHead, RequestInOnePlace, Holds, NoDuplicates
<1>3. ASSUME NEW w \in Worker, Takes(w) PROVE RequestInOnePlace'
  <2> DEFINE r == Head(queue)
  <2>1. /\ NoDuplicates' /\ InQueue(r) /\ r \in Request
        /\ \A q : InQueue(q)' <=> InQueue(q) /\ q # r
    BY <1>3, <1>t, QueueShrinks, HeadType DEF Takes
  <2>2. /\ sent' = sent /\ sent[r] = <<>> /\ \A v \in Worker : ~Holds(v, r)
    BY <1>3, <2>1 DEF Takes, RequestInOnePlace
  <2>3. /\ req'[w] = r /\ slot'[w]
        /\ \A v \in Worker \ {w} : req'[v] = req[v] /\ slot'[v] = slot[v]
    BY <1>3, <1>t DEF Takes, TypeOK
  <2> HIDE DEF r
  <2> QED
    BY <2>1, <2>2, <2>3 DEF RequestInOnePlace, Holds, NoDuplicates
<1>4. ASSUME NEW w \in Worker, Answers(w) PROVE RequestInOnePlace'
  <2> DEFINE r == req[w]
  <2>1. PICK s \in Status : Reply(r, s)
    BY <1>4 DEF Answers
  <2>2. r \in Request /\ slot[w] /\ queue' = queue /\ Holds(w, r)
    BY <1>4 DEF Answers, Holds
  <2>3. /\ sent'[r] # <<>> /\ \A q \in Request \ {r} : sent'[q] = sent[q]
    BY <1>t, <2>1, <2>2, Answered
  <2>4. /\ req'[w] \in {r, Nobody} /\ ~slot'[w]
        /\ \A v \in Worker \ {w} : req'[v] = req[v] /\ slot'[v] = slot[v]
    BY <1>4, <1>t DEF Answers, TypeOK
  <2>5. ~InQueue(r) /\ \A v \in Worker : Holds(v, r) => v = w
    BY <2>2 DEF RequestInOnePlace
  <2>6. /\ NoDuplicates' /\ \A q : InQueue(q)' <=> InQueue(q)
    BY <1>t, <2>2 DEF NoDuplicates, InQueue
  <2>7. \A v \in Worker : req[v] \in Request \cup {Nobody}
    BY <1>t DEF TypeOK
  <2> HIDE DEF r
  <2> QED
    BY <2>2, <2>3, <2>4, <2>5, <2>6, <2>7 DEF RequestInOnePlace, Holds, NoDuplicates
<1>5. ASSUME NEW w \in Worker, LetsGo(w) PROVE RequestInOnePlace'
  <2>1. /\ queue' = queue /\ sent' = sent /\ slot' = slot /\ ~slot[w] /\ req'[w] = Nobody
        /\ \A v \in Worker \ {w} : req'[v] = req[v]
    BY <1>5, <1>t DEF LetsGo, TypeOK
  <2>2. \A q : InQueue(q)' <=> InQueue(q)
    BY <2>1 DEF InQueue
  <2> QED
    BY <2>1, <2>2 DEF RequestInOnePlace, Holds
<1> QED
  BY <1>0, <1>1, <1>2, <1>3, <1>4, <1>5, RequestEffect

LEMMA PlaceInit == Init => RequestInOnePlace
<1>1. \A i : i \notin 1..Len(<<>>)
  OBVIOUS
<1> QED
  BY <1>1 DEF Init, RequestInOnePlace, Holds, InQueue

LEMMA AlwaysPlaced == Spec => [](TypeInv /\ RequestInOnePlace)
BY TypeInit, TypeStep, PlaceInit, PlaceStep, PTL DEF Spec

\* A request is in the queue, in one worker's Mutex, or answered: no handler
\* that halts, panics or never responds loses it.
THEOREM RequestNeverLost == Spec => []RequestInOnePlace
BY AlwaysPlaced, PTL

-----------------------------------------------------------------------------
(* The server implements RequestService.                                   *)

LEMMA ServiceInit == Init => Service!Init
<1> SUFFICES ASSUME Init PROVE Service!Init
  OBVIOUS
<1>1. \A r : ~InQueue(r)
  BY DEF Init, InQueue
<1>2. \A r \in Request : IsNew(r)
  BY <1>1, ServerAssumption DEF Init, IsNew
<1> QED
  BY <1>2 DEF Init, Service!Init

LEMMA ServiceStep ==
    ASSUME TypeInv, RequestInOnePlace, [Next]_vars
    PROVE  [Service!Next]_<<{r \in Request : ~IsNew(r)}, sent>>
<1> DEFINE arrived == {r \in Request : ~IsNew(r)}
           Goal == Service!Next \/ (arrived' = arrived /\ sent' = sent)
<1>t. TypeOK /\ NoDuplicates
  BY DEF TypeInv, RequestInOnePlace, NoDuplicates
<1>0. CASE Untouched
  BY <1>0 DEF Untouched, IsNew, InQueue
<1>1. ASSUME NEW r \in Request, Arrives(r) PROVE Goal
  <2>1. /\ IsNew(r) /\ ~InQueue(r) /\ UNCHANGED <<sent, req, slot>>
        /\ queue' = Append(queue, r)
    BY <1>1 DEF Arrives, IsNew
  <2>2. \A q : InQueue(q)' <=> InQueue(q) \/ q = r
    BY <1>t, <2>1, QueueGrows
  <2>3. \A q \in Request : IsNew(q)' <=> IsNew(q) /\ q # r
    BY <2>1, <2>2 DEF IsNew
  <2>4. Service!Arrive(r)
    BY <2>1, <2>3 DEF Service!Arrive
  <2> QED
    BY <2>4 DEF Service!Next
<1>2. CASE AnswersHead
  <2>1. PICK s \in Status : Reply(Head(queue), s)
    BY <1>2 DEF AnswersHead
  <2>2. /\ InQueue(Head(queue)) /\ Head(queue) \in Request /\ req' = req
        /\ \A q : InQueue(q)' <=> InQueue(q) /\ q # Head(queue)
    BY <1>2, <1>t, QueueShrinks, HeadType DEF AnswersHead
  <2>3. sent[Head(queue)] = <<>>
    BY <2>2 DEF RequestInOnePlace
  <2>4. /\ sent'[Head(queue)] # <<>>
        /\ \A q \in Request \ {Head(queue)} : sent'[q] = sent[q]
    BY <1>t, <2>1, <2>2, Answered
  <2>5. \A q \in Request : IsNew(q)' <=> IsNew(q)
    BY <2>2, <2>4 DEF IsNew
  <2>6. sent' = [sent EXCEPT ![Head(queue)] = <<s>>]
    BY <2>1, <2>3 DEF Reply
  <2>7. Service!Respond(Head(queue))
    BY <2>1, <2>2, <2>3, <2>5, <2>6 DEF Service!Respond, IsNew
  <2> QED
    BY <2>2, <2>7 DEF Service!Next
<1>3. ASSUME NEW w \in Worker, Takes(w) PROVE Goal
  <2>1. /\ InQueue(Head(queue)) /\ sent' = sent
        /\ \A q : InQueue(q)' <=> InQueue(q) /\ q # Head(queue)
    BY <1>3, <1>t, QueueShrinks DEF Takes
  <2>2. /\ req[w] = Nobody /\ req'[w] = Head(queue)
        /\ \A v \in Worker \ {w} : req'[v] = req[v]
    BY <1>3, <1>t DEF Takes, TypeOK
  <2>3. \A q \in Request : IsNew(q)' <=> IsNew(q)
    BY <2>1, <2>2, ServerAssumption DEF IsNew
  <2> QED
    BY <2>1, <2>3
<1>4. ASSUME NEW w \in Worker, Answers(w) PROVE Goal
  <2>1. PICK s \in Status : Reply(req[w], s)
    BY <1>4 DEF Answers
  <2>2. /\ req[w] \in Request /\ queue' = queue /\ Holds(w, req[w])
    BY <1>4 DEF Answers, Holds
  <2>3. sent[req[w]] = <<>>
    BY <2>2 DEF RequestInOnePlace
  <2>4. /\ sent'[req[w]] # <<>>
        /\ \A q \in Request \ {req[w]} : sent'[q] = sent[q]
    BY <1>t, <2>1, <2>2, Answered
  <2>5. \A v \in Worker : req'[v] = req[v] \/ (v = w /\ req'[v] = Nobody)
    BY <1>4, <1>t DEF Answers, TypeOK
  <2>6. \A q \in Request : IsNew(q)' <=> IsNew(q)
    BY <2>2, <2>4, <2>5, ServerAssumption DEF IsNew, InQueue
  <2>7. sent' = [sent EXCEPT ![req[w]] = <<s>>]
    BY <2>1, <2>3 DEF Reply
  <2>8. Service!Respond(req[w])
    <3>1. ~IsNew(req[w])
      BY DEF IsNew
    <3>2. {r \in Request : ~IsNew(r)}' = arrived
      BY <2>6
    <3> QED
      BY <2>2, <2>3, <2>7, <3>1, <3>2 DEF Service!Respond
  <2> QED
    BY <2>2, <2>8 DEF Service!Next
<1>5. ASSUME NEW w \in Worker, LetsGo(w) PROVE Goal
  <2>1. /\ queue' = queue /\ sent' = sent /\ ~slot[w] /\ req[w] \in Request
        /\ req'[w] = Nobody /\ \A v \in Worker \ {w} : req'[v] = req[v]
    BY <1>5, <1>t DEF LetsGo, TypeOK
  <2>2. sent[req[w]] # <<>>
    BY <2>1, ServerAssumption DEF RequestInOnePlace
  <2>3. \A q \in Request : IsNew(q)' <=> IsNew(q)
    BY <2>1, <2>2, ServerAssumption DEF IsNew, InQueue
  <2> QED
    BY <2>1, <2>3
<1> QED
  BY <1>0, <1>1, <1>2, <1>3, <1>4, <1>5, RequestEffect

\* Whatever handlers do, clients see RequestService: at most one response per
\* request, never before it arrived, never taken back.
THEOREM ServerImplementsService == Spec => ImplementsService
<1>1. Init => Service!Init
  BY ServiceInit
<1>2. TypeInv /\ RequestInOnePlace /\ [Next]_vars =>
         [Service!Next]_<<{r \in Request : ~IsNew(r)}, sent>>
  BY ServiceStep
<1> QED
  BY <1>1, <1>2, AlwaysPlaced, PTL DEF Spec, ImplementsService, Service!Spec
=============================================================================
