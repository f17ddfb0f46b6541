----------------------------- MODULE HttpServer -----------------------------
(***************************************************************************)
(* "serve:" in vm.rs (OpCode::HttpServe): worker threads take requests     *)
(* from tiny_http's queue, route them and run the handler's bytecode in an *)
(* Executor of their own.  A handler runs while its worker holds the write *)
(* guard of VM::globals; it lets go of it when it yields, waits, calls a   *)
(* compiled function or ends.                                              *)
(* The request sits in a Mutex<Option<Request>> ("slot") from which        *)
(* net.respond, or the worker's 500 fallback, takes it.                    *)
(*                                                                         *)
(* A handler is any program, and so is what it calls and resumes: it picks *)
(* any operation, MaxOps of them, and then ends.  Of the globals one cell, *)
(* a counter, is kept.  A program only increments it: it loads it into a   *)
(* register, and stores that incremented, perhaps in another function that *)
(* it was passed to.                                                       *)
(***************************************************************************)
EXTENDS Naturals, Sequences

CONSTANTS Worker,    \* the threads xcx-worker-i
          Request,   \* requests clients may send
          Kind,      \* which kinds of request clients send
          Nobody,    \* no worker, no request
          MaxOps,    \* bound: operations of one handler run
          NetCalls,  \* whether handlers call their own server
          SlowPaths  \* whether compiled functions call some that are not

Kinds == {"options", "routed", "unrouted"}

ASSUME ServerAssumption ==
    /\ Nobody \notin Worker \cup Request
    /\ Kind \subseteq Kinds
    /\ MaxOps \in Nat /\ NetCalls \in BOOLEAN /\ SlowPaths \in BOOLEAN

VARIABLES queue,     \* tiny_http's queue of received requests
          kind,      \* method and route of each request: fixed by its client
          sent,      \* the responses sent to each request
          pc,        \* where each worker is
          req,       \* the request each worker works on
          slot,      \* TRUE: the request is still in the worker's Mutex
          lock,      \* the worker that holds the write guard of globals
          outcome,   \* how the handler's last run of bytecode ended
          steps,     \* operations of the current handler run
          frames,    \* the functions and fibers that run on top of the handler
          calls,     \* the request a handler's own net call waits for
          counter,   \* a global
          seen,      \* the register that loaded the counter
          read,      \* whether it did, and if the guard was held ever since
          stores,    \* history: the increments of the counter
          crossed,   \* history: one was of a value loaded before the guard was
                     \* given up
          errors,    \* VM::error_count
          failed,    \* history: requests whose handler ran halt.error
          shutdown,  \* SHUTDOWN
          process    \* "up", or "down" once the main thread has ended

handler == <<outcome, steps, frames, calls>>
global  == <<counter, seen, read, stores, crossed>>
fault   == <<errors, failed>>
life    == <<shutdown, process>>
vars == <<queue, kind, sent, pc, req, slot, lock, handler, global, fault, life>>

PC == {"poll", "lock", "run", "sleep", "net", "enter", "native", "leave",
       "stuck", "returned", "check", "fallback", "exited", "dead"}
Status == {"handler", "204", "404", "500"}
Frame == {"function", "fiber"}
Read == {"no", "held", "released"}
Outcome == {"none", "yield", "call", "return", "halt", "aborted"}

Up == process = "up"
At(w, p) == Up /\ pc[w] = p
Goto(w, p) == pc' = [pc EXCEPT ![w] = p]
Reply(r, status) == sent' = [sent EXCEPT ![r] = Append(@, status)]
InQueue(r) == \E i \in 1..Len(queue) : queue[i] = r
IsNew(r) == sent[r] = <<>> /\ ~InQueue(r) /\ \A w \in Worker : req[w] # r

Init ==
    /\ queue = <<>>
    /\ kind \in [Request -> Kind]
    /\ sent = [r \in Request |-> <<>>]
    /\ pc = [w \in Worker |-> "poll"]
    /\ req = [w \in Worker |-> Nobody]
    /\ slot = [w \in Worker |-> FALSE]
    /\ lock = Nobody
    /\ outcome = [w \in Worker |-> "none"]
    /\ steps = [w \in Worker |-> 0]
    /\ frames = [w \in Worker |-> <<>>]
    /\ calls = [w \in Worker |-> Nobody]
    /\ counter = 0
    /\ seen = [w \in Worker |-> 0]
    /\ read = [w \in Worker |-> "no"]
    /\ stores = 0 /\ crossed = FALSE
    /\ errors = 0 /\ failed = {}
    /\ shutdown = FALSE /\ process = "up"

-----------------------------------------------------------------------------
(* Clients, Ctrl+C and the main thread.                                    *)

\* A client's request reaches tiny_http.
Arrive(r) ==
    /\ Up /\ IsNew(r)
    /\ queue' = Append(queue, r)
    /\ UNCHANGED <<kind, sent, pc, req, slot, lock, handler, global, fault, life>>

\* The Ctrl+C handler installed by main.
CtrlC ==
    /\ Up /\ ~shutdown
    /\ shutdown' = TRUE
    /\ UNCHANGED <<queue, kind, sent, pc, req, slot, lock, handler, global,
                   fault, process>>

\* The main thread's sleep(500ms) loop sees SHUTDOWN; OpResult::Halt ends the
\* main script, and with it the process and every worker where it stands.
MainExits ==
    /\ Up /\ shutdown
    /\ process' = "down"
    /\ UNCHANGED <<queue, kind, sent, pc, req, slot, lock, handler, global,
                   fault, shutdown>>

-----------------------------------------------------------------------------
(* The worker's loop around a request.                                     *)

\* Mutant: the worker leaves only once the queue is empty.
WorkerExitsWhenDrained(w) ==
    /\ At(w, "poll") /\ shutdown /\ queue = <<>>
    /\ Goto(w, "exited")
    /\ UNCHANGED <<queue, kind, sent, req, slot, lock, handler, global, fault,
                   life>>

\* "while !SHUTDOWN" fails.
WorkerExits(w) ==
    /\ At(w, "poll") /\ shutdown
    /\ Goto(w, "exited")
    /\ UNCHANGED <<queue, kind, sent, req, slot, lock, handler, global, fault,
                   life>>

\* Mutant: the preflight answer carries tiny_http's default status.
AnswerAtOnceOk(w) ==
    /\ At(w, "poll") /\ ~shutdown /\ queue # <<>>
    /\ kind[Head(queue)] # "routed"
    /\ queue' = Tail(queue)
    /\ Reply(Head(queue), IF kind[Head(queue)] = "options" THEN "200" ELSE "404")
    /\ UNCHANGED <<kind, pc, req, slot, lock, handler, global, fault, life>>

\* recv_timeout brings a request that needs no handler: OPTIONS is answered
\* before the route table is looked at, an unknown route gets a 404.
AnswerAtOnce(w) ==
    /\ At(w, "poll") /\ ~shutdown /\ queue # <<>>
    /\ kind[Head(queue)] # "routed"
    /\ queue' = Tail(queue)
    /\ Reply(Head(queue), IF kind[Head(queue)] = "options" THEN "204" ELSE "404")
    /\ UNCHANGED <<kind, pc, req, slot, lock, handler, global, fault, life>>

\* recv_timeout brings a request with a route: a fresh Executor, the request in
\* its Mutex, ip 0.
StartHandler(w) ==
    /\ At(w, "poll") /\ ~shutdown /\ queue # <<>>
    /\ kind[Head(queue)] = "routed"
    /\ queue' = Tail(queue)
    /\ req' = [req EXCEPT ![w] = Head(queue)]
    /\ slot' = [slot EXCEPT ![w] = TRUE]
    /\ steps' = [steps EXCEPT ![w] = 0]
    /\ read' = [read EXCEPT ![w] = "no"]
    /\ Goto(w, "lock")
    /\ UNCHANGED <<kind, sent, lock, outcome, frames, calls, counter, seen, stores,
                   crossed, fault, life>>

\* Mutant: the handler runs under a read guard, which several workers may hold.
LockShared(w) ==
    /\ At(w, "lock")
    /\ lock' = w
    /\ Goto(w, "run")
    /\ UNCHANGED <<queue, kind, sent, req, slot, handler, global, fault, life>>

\* The head of the handler loop: globals.write() blocks until the guard is free.
Lock(w) ==
    /\ At(w, "lock") /\ lock = Nobody
    /\ lock' = w
    /\ Goto(w, "run")
    /\ UNCHANGED <<queue, kind, sent, req, slot, handler, global, fault, life>>

\* The guard is dropped: another worker may change what w has loaded.
GiveUpGuard(w) ==
    /\ lock' = Nobody
    /\ read' = [read EXCEPT ![w] = IF @ = "held" THEN "released" ELSE @]

\* Mutant: the guard lives until the worker has finished with the request.
CheckKeepingGuard(w) ==
    /\ At(w, "check")
    /\ IF slot[w] THEN GiveUpGuard(w) ELSE UNCHANGED <<lock, read>>
    /\ Goto(w, IF slot[w] /\ outcome[w] \in {"yield", "call"}
               THEN "lock" ELSE "fallback")
    /\ UNCHANGED <<queue, kind, sent, req, slot, handler, counter, seen, stores,
                   crossed, fault, life>>

\* execute_bytecode_inner has returned: the guard is dropped; the loop goes
\* round only for a handler that yielded or called, its request still unanswered.
Check(w) ==
    /\ At(w, "check")
    /\ GiveUpGuard(w)
    /\ Goto(w, IF slot[w] /\ outcome[w] \in {"yield", "call"}
               THEN "lock" ELSE "fallback")
    /\ UNCHANGED <<queue, kind, sent, req, slot, handler, counter, seen, stores,
                   crossed, fault, life>>

\* Mutant: the 500 is sent only for a handler that halted.
FallbackOnHalt(w) ==
    /\ At(w, "fallback")
    /\ IF slot[w] /\ outcome[w] = "halt" THEN Reply(req[w], "500") ELSE UNCHANGED sent
    /\ slot' = [slot EXCEPT ![w] = FALSE]
    /\ req' = [req EXCEPT ![w] = Nobody]
    /\ outcome' = [outcome EXCEPT ![w] = "none"]
    /\ Goto(w, "poll")
    /\ UNCHANGED <<queue, kind, lock, steps, frames, calls, global, fault, life>>

\* After the loop: a request still in its Mutex gets the 500.
Fallback(w) ==
    /\ At(w, "fallback")
    /\ IF slot[w] THEN Reply(req[w], "500") ELSE UNCHANGED sent
    /\ slot' = [slot EXCEPT ![w] = FALSE]
    /\ req' = [req EXCEPT ![w] = Nobody]
    /\ outcome' = [outcome EXCEPT ![w] = "none"]
    /\ Goto(w, "poll")
    /\ UNCHANGED <<queue, kind, lock, steps, frames, calls, global, fault, life>>

-----------------------------------------------------------------------------
(* Bytecode: the handler's, or that of the function or fiber that runs on  *)
(* top of it.  Every instruction looks at SHUTDOWN first.                  *)

\* One more of the operations of a handler run.
OneMore(w) == steps[w] < MaxOps /\ steps' = [steps EXCEPT ![w] = @ + 1]

Operates(w) == At(w, "run") /\ ~shutdown /\ OneMore(w)

\* An operation of bytecode, or of machine code, which does not look at SHUTDOWN.
Executes(w) ==
    /\ OneMore(w)
    /\ \/ At(w, "run") /\ ~shutdown
       \/ At(w, "native")

\* Bytecode stops with result o.  A handler's worker looks at its request, with
\* the guard; below a function OpCode::Call goes on; below a fiber the frame that
\* resumed it, but a handler starts its loop again.
Stop(w, o) ==
    LET n == Len(frames[w]) IN
    IF n = 0
    THEN /\ outcome' = [outcome EXCEPT ![w] = o]
         /\ Goto(w, "check")
         /\ UNCHANGED frames
    ELSE /\ frames' = [frames EXCEPT ![w] = SubSeq(@, 1, n - 1)]
         /\ outcome' = [outcome EXCEPT ![w] = IF n = 1 /\ frames[w][n] = "fiber"
                                              THEN "call" ELSE @]
         /\ Goto(w, IF frames[w][n] = "function" THEN "returned"
                    ELSE IF n = 1 THEN "check" ELSE "run")

\* Mutant: HttpRespond borrows the request and leaves it in its Mutex.
RespondLeavingRequest(w) ==
    /\ IF slot[w] THEN Reply(req[w], "handler") ELSE UNCHANGED sent
    /\ UNCHANGED slot

\* HttpRespond answers only if the request is still in its Mutex.
TakeAndRespond(w) ==
    /\ IF slot[w] THEN Reply(req[w], "handler") ELSE UNCHANGED sent
    /\ slot' = [slot EXCEPT ![w] = FALSE]

\* "yield net.respond(..)": HttpRespond is a Yield(None).
Respond(w) ==
    /\ Operates(w)
    /\ TakeAndRespond(w)
    /\ Stop(w, "yield")
    /\ UNCHANGED <<queue, kind, req, lock, calls, global, fault, life>>

\* A yield of anything else; it ends a function.
YieldPlain(w) ==
    /\ Operates(w)
    /\ Stop(w, "yield")
    /\ UNCHANGED <<queue, kind, sent, req, slot, lock, calls, global, fault, life>>

\* OpCode::Call of a function that is not compiled, or OpResult::Call, which
\* resumes a fiber: it runs under the guard of its caller.
CallFrame(w, f) ==
    /\ Operates(w)
    /\ frames' = [frames EXCEPT ![w] = Append(@, f)]
    /\ UNCHANGED <<queue, kind, sent, pc, req, slot, lock, outcome, calls, global,
                   fault, life>>

\* The rest of OpCode::Call: with any error counted in the VM the caller halts.
AfterCall(w) ==
    /\ At(w, "returned")
    /\ IF errors > 0 THEN Stop(w, "aborted")
       ELSE Goto(w, "run") /\ UNCHANGED <<outcome, frames>>
    /\ UNCHANGED <<queue, kind, sent, req, slot, lock, steps, calls, global, fault,
                   life>>

\* halt.error and halt.fatal count an error, in the handler's program.
CountError(w, counted) ==
    /\ errors' = IF counted THEN errors + 1 ELSE errors
    /\ failed' = IF counted THEN failed \cup {req[w]} ELSE failed

\* halt.error, halt.fatal, or an error that only ends the frame it happens in.
HaltError(w, counted) ==
    /\ Operates(w)
    /\ CountError(w, counted)
    /\ Stop(w, "halt")
    /\ UNCHANGED <<queue, kind, sent, req, slot, lock, calls, global, life>>

\* The frame returns, or SHUTDOWN halts it between two instructions.
Finish(w) ==
    /\ At(w, "run")
    /\ Stop(w, IF shutdown THEN "halt" ELSE "return")
    /\ UNCHANGED <<queue, kind, sent, req, slot, lock, steps, calls, global,
                   fault, life>>

\* GetVar: load the counter into a register.
Load(w) ==
    /\ Executes(w)
    /\ seen' = [seen EXCEPT ![w] = counter]
    /\ read' = [read EXCEPT ![w] = "held"]
    /\ UNCHANGED <<queue, kind, sent, pc, req, slot, lock, outcome, frames, calls,
                   counter, stores, crossed, fault, life>>

\* SetVar: store the loaded value plus one.
Store(w) ==
    /\ Executes(w) /\ read[w] # "no"
    /\ counter' = seen[w] + 1
    /\ stores' = stores + 1
    /\ crossed' = (crossed \/ read[w] = "released")
    /\ read' = [read EXCEPT ![w] = "no"]
    /\ UNCHANGED <<queue, kind, sent, pc, req, slot, lock, outcome, frames, calls,
                   seen, fault, life>>

\* "@wait" drops the guard, sleeps and takes the guard again.
Wait(w) ==
    /\ Operates(w)
    /\ GiveUpGuard(w)
    /\ Goto(w, "sleep")
    /\ UNCHANGED <<queue, kind, sent, req, slot, outcome, frames, calls, counter, seen,
                   stores, crossed, fault, life>>

\* The second half of "@wait".
Wake(w) ==
    /\ At(w, "sleep") /\ lock = Nobody
    /\ lock' = w
    /\ Goto(w, "run")
    /\ UNCHANGED <<queue, kind, sent, req, slot, handler, global, fault, life>>

\* A net call to the server's own address: HttpCall (net.get, net.post) and an
\* HttpRequest that names no timeout set none, and keep the guard while they block.
NetCall(w, r) ==
    /\ NetCalls /\ Operates(w) /\ IsNew(r)
    /\ queue' = Append(queue, r)
    /\ calls' = [calls EXCEPT ![w] = r]
    /\ Goto(w, "net")
    /\ UNCHANGED <<kind, sent, req, slot, lock, outcome, frames, global, fault, life>>

NetReturns(w) ==
    /\ At(w, "net") /\ sent[calls[w]] # <<>>
    /\ calls' = [calls EXCEPT ![w] = Nobody]
    /\ Goto(w, "run")
    /\ UNCHANGED <<queue, kind, sent, req, slot, lock, outcome, steps, frames, global,
                   fault, life>>

\* A Rust panic unwinds the worker: the guard is dropped (parking_lot does not
\* poison), tiny_http answers 500 for a dropped Request, nobody restarts it.
Panic(w) ==
    /\ Operates(w)
    /\ GiveUpGuard(w)
    /\ IF slot[w] THEN Reply(req[w], "500") ELSE UNCHANGED sent
    /\ slot' = [slot EXCEPT ![w] = FALSE]
    /\ req' = [req EXCEPT ![w] = Nobody]
    /\ frames' = [frames EXCEPT ![w] = <<>>]
    /\ Goto(w, "dead")
    /\ UNCHANGED <<queue, kind, outcome, calls, counter, seen, stores, crossed, fault,
                   life>>

-----------------------------------------------------------------------------
(* Calls of compiled functions.  Which ones are is MethodJit's subject:    *)
(* here any call may be of one.                                            *)

\* The guard is dropped,
CallCompiled(w) ==
    /\ Operates(w)
    /\ GiveUpGuard(w)
    /\ Goto(w, "enter")
    /\ UNCHANGED <<queue, kind, sent, req, slot, outcome, frames, calls, counter, seen,
                   stores, crossed, fault, life>>

\* Mutant: machine code is given the globals without the lock.
EnterUnlocked(w) ==
    /\ At(w, "enter")
    /\ Goto(w, "native")
    /\ UNCHANGED <<queue, kind, sent, req, slot, lock, handler, global, fault, life>>

\* another one is taken for the machine code,
EnterNative(w) ==
    /\ At(w, "enter") /\ lock = Nobody
    /\ lock' = w
    /\ Goto(w, "native")
    /\ UNCHANGED <<queue, kind, sent, req, slot, handler, global, fault, life>>

\* which loads and stores as bytecode does; its return drops that one,
ReturnNative(w) ==
    /\ At(w, "native")
    /\ GiveUpGuard(w)
    /\ Goto(w, "leave")
    /\ UNCHANGED <<queue, kind, sent, req, slot, handler, counter, seen, stores,
                   crossed, fault, life>>

\* and a third one is taken for the caller.
LeaveNative(w) ==
    /\ At(w, "leave") /\ lock = Nobody
    /\ lock' = w
    /\ Goto(w, "returned")
    /\ UNCHANGED <<queue, kind, sent, req, slot, handler, global, fault, life>>

\* What machine code calls and is not compiled runs without a guard of its own.
\* It may respond and count errors, which machine code does not look at.
CallSlowly(w, responds, counted) ==
    /\ SlowPaths /\ At(w, "native") /\ ~shutdown /\ OneMore(w)
    /\ IF responds THEN TakeAndRespond(w) ELSE UNCHANGED <<sent, slot>>
    /\ CountError(w, counted)
    /\ UNCHANGED <<queue, kind, pc, req, lock, outcome, frames, calls, global, life>>

\* If it waits or calls a compiled function, it asks for the lock that its own
\* thread holds.
LockAgain(w) ==
    /\ SlowPaths /\ At(w, "native")
    /\ Goto(w, "stuck")
    /\ UNCHANGED <<queue, kind, sent, req, slot, lock, handler, global, fault, life>>

\* If it panics, as it does at any global, the panic cannot leave the extern "C"
\* function that called it: the process ends.
Abort(w) ==
    /\ SlowPaths /\ At(w, "native")
    /\ process' = "down"
    /\ UNCHANGED <<queue, kind, sent, pc, req, slot, lock, handler, global, fault,
                   shutdown>>

-----------------------------------------------------------------------------
Handler(w) ==
    \/ Respond(w) \/ YieldPlain(w) \/ Load(w) \/ Store(w)
    \/ Wait(w) \/ Panic(w) \/ Finish(w) \/ AfterCall(w)
    \/ CallCompiled(w) \/ EnterNative(w) \/ ReturnNative(w) \/ LeaveNative(w)
    \/ \E f \in Frame : CallFrame(w, f)
    \/ \E counted \in BOOLEAN : HaltError(w, counted)
    \/ \E r \in Request : NetCall(w, r)

\* What machine code calls.
SlowPath(w) ==
    \/ \E responds, counted \in BOOLEAN : CallSlowly(w, responds, counted)
    \/ LockAgain(w) \/ Abort(w)

Work(w) ==
    \/ WorkerExits(w) \/ AnswerAtOnce(w) \/ StartHandler(w)
    \/ Lock(w) \/ Handler(w) \/ SlowPath(w) \/ Wake(w) \/ NetReturns(w)
    \/ Check(w) \/ Fallback(w)

Next ==
    \/ \E r \in Request : Arrive(r)
    \/ CtrlC \/ MainExits
    \/ \E w \in Worker : Work(w)

Spec == Init /\ [][Next]_vars

\* Every worker thread keeps running; a thread blocked on the guard only has to
\* get it once it stays free.  Clients, Ctrl+C and the moment at which the main
\* thread wakes are not obliged to anything.
FairSpec == Spec /\ \A w \in Worker : WF_vars(Work(w))

-----------------------------------------------------------------------------
(* Properties.                                                             *)

\* Every variable keeps its type: a client is only ever sent the statuses the
\* server knows.
TypeOK ==
    /\ queue \in Seq(Request)
    /\ kind \in [Request -> Kind]
    /\ sent \in [Request -> Seq(Status)]
    /\ pc \in [Worker -> PC]
    /\ req \in [Worker -> Request \cup {Nobody}]
    /\ slot \in [Worker -> BOOLEAN]
    /\ lock \in Worker \cup {Nobody}
    /\ outcome \in [Worker -> Outcome]
    /\ steps \in [Worker -> Nat]
    /\ calls \in [Worker -> Request \cup {Nobody}]
    /\ frames \in [Worker -> Seq(Frame)]
    /\ counter \in Nat /\ seen \in [Worker -> Nat] /\ read \in [Worker -> Read]
    /\ stores \in Nat /\ crossed \in BOOLEAN
    /\ errors \in Nat /\ failed \subseteq Request
    /\ shutdown \in BOOLEAN /\ process \in {"up", "down"}

\* Bytecode and machine code run, and only run, under the globals guard: across
\* yields, waits, calls of compiled functions, net calls and panics the worker
\* that executes is the one that holds it.
GuardDiscipline ==
    \A w \in Worker :
        lock = w <=> pc[w] \in {"run", "net", "native", "stuck", "returned", "check"}

\* However the workers interleave, no increment of a global is lost or counted
\* twice, unless a handler stored a value that it had loaded before a yield, a
\* wait, a fiber it resumed itself, or a call of a compiled function, its own
\* or one in what it called.
IncrementsCounted == counter <= stores /\ (counter < stores => crossed)

Holds(w, r) == req[w] = r /\ slot[w]

\* A request is in one place: waiting in the queue, in the Mutex of one worker,
\* or answered.  It is not lost by a handler that halts, panics or never
\* responds, and not taken by two workers.
RequestInOnePlace ==
    /\ \A i, j \in 1..Len(queue) : queue[i] = queue[j] => i = j
    /\ \A w \in Worker, r \in Request :
          Holds(w, r) => /\ ~InQueue(r) /\ sent[r] = <<>>
                         /\ \A v \in Worker : Holds(v, r) => v = w
    /\ \A r \in Request : InQueue(r) => sent[r] = <<>>
    /\ \A w \in Worker : req[w] # Nobody => slot[w] \/ sent[req[w]] # <<>>

\* The server implements RequestService.
Service == INSTANCE RequestService WITH
               arrived <- {r \in Request : ~IsNew(r)}, sent <- sent

ImplementsService == Service!Spec

\* Every request that arrives is answered, unless the server is told to stop or
\* has lost its last worker to a panic.
EveryRequestAnswered ==
    \A r \in Request :
        ~IsNew(r) ~> \/ sent[r] # <<>> \/ shutdown
                     \/ \A w \in Worker : pc[w] = "dead"

\* A request a worker has taken is answered even after SHUTDOWN, as long as the
\* main thread leaves the process up.
TakenIsAnswered ==
    \A r \in Request : (\E w \in Worker : req[w] = r) ~> (sent[r] # <<>> \/ ~Up)

\* After SHUTDOWN every worker leaves its loop.
ShutdownStopsWorkers ==
    shutdown ~> (~Up \/ \A w \in Worker : pc[w] \in {"exited", "dead"})

-----------------------------------------------------------------------------
(* What the documentation says, and the code does not do.                  *)

\* json_http.md: OPTIONS requests have a dedicated handler, routed to like any.
PreflightReachesHandler ==
    \A r \in Request : kind[r] = "options" => sent[r] \in {<<>>, <<"handler">>, <<"500">>}

\* errors_halt.md: halt.error aborts the current frame and is recoverable; it
\* does not end the handlers of other requests.
ErrorStaysWithItsRequest ==
    \A w \in Worker : outcome[w] = "aborted" => req[w] \in failed

\* json_http.md: net.request has a timeout of 10000 ms by default, so a call that
\* names none comes back all the same.
NetCallReturns ==
    \A w \in Worker : pc[w] = "net" ~> (pc[w] # "net" \/ ~Up)

\* backend.md: once SHUTDOWN is set all loops exit and the process terminates
\* cleanly - no worker is in the middle of a request.
CleanExit == ~Up => \A w \in Worker : req[w] = Nobody
=============================================================================
