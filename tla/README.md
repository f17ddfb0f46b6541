# TLA+ models and proofs for XCX

XCX is a small statically checked language: a scanner, a Pratt parser and an include
expander produce an AST, a checker types it, a compiler lowers it to register bytecode, and a
virtual machine runs it, with a tracing and a method JIT, fibers (coroutines), an HTTP server,
tables over SQL databases and a handful of I/O operations. This directory holds TLA+ modules that
model the parts of it whose control flow is hard to test, TLC configurations that check them, and
theorems about them that TLAPS checks. Paths below are relative to the repository root; `vm.rs`
is `src/backend/vm.rs`, `mod.rs` is `src/backend/mod.rs`, `jit.rs` is `src/backend/jit.rs`.

## The system

| Part | State it keeps | Operations | Hard behaviour |
|---|---|---|---|
| Frame loops (`run_frame_owned_with_guard`, `run_frame_with_guard`, `execute_bytecode_inner`) | ip, registers, the globals guard, pools of vectors | run, call, return, halt | halts that stop one frame only; a guard threaded through native recursion |
| Fibers (`FiberState`, `_resume_fiber`, `resume_fiber_with_guard`, `handle_fiber_method`) | saved ip and registers, `is_done` | create, next, run, isDone, close, yield, return | registers are moved out while a fiber runs; nested, mutual and self resumption; closing a running fiber |
| Compiled fiber loops (`for x in fiber`, `yield from`; mod.rs) | two registers | isDone, next, body | the generator can end, halt or be closed between the two calls |
| HTTP server (`OpCode::HttpServe`, `HttpRespond`) | tiny_http's queue, `Mutex<Option<Request>>`, one Executor per request | serve, respond, shutdown | worker threads, one write lock over all globals, panics, shutdown in mid-request |
| Globals guard (`Option<RwLockWriteGuard>`) | held / released | input, terminal, wait, native calls release and retake it | paths that release and do not retake; native frames that hold it twice |
| Trace JIT (`check_start_recording`, `record_op`, `process_finished_trace`, `execute_trace`, `compile`) | hot counts, the trace being recorded, trace caches | record, close a loop, run, side exit | a trace must be transparent to the program |
| Method JIT (`compile_method`, `xcx_jit_*`) | `call_count`, `jit_ptr` | compile on the 11th call, run natively | opcodes it does not translate |
| Tables and databases (`handle_table_method`, `handle_database_method`) | rows in memory, rows in SQL, transaction | insert, save, where, update, remove, sync, begin, commit, rollback | memory and database diverge when one of the two steps fails |
| Values and collections (`Value`, array, set, map, string, json methods) | NaN-boxed words, reference counts | arithmetic, container methods | 48-bit integers, aliasing |
| Compiler (`Compiler`, mod.rs) | registers, scopes, jump patches, constants | one method per AST node | register reuse, jump targets |
| Checker, symbol table, interner (`src/sema`) | scopes, types | declare, look up, check | shadowing, function and fiber contexts |
| Parser and expander (`src/parser`) | token window, include stack, visited files | parse, expand, rename | precedence, error recovery, include cycles and aliases |
| Scanner (`src/lexer`) | position | next token | raw blocks, comments |
| REPL, PAX, diagnostics, `main` | session source | read, run | thin I/O around the rest |

How the parts meet: the frame loops execute bytecode; a fiber operation leaves the bytecode loop
with `OpResult::Call` and the frame loop resumes the fiber on the same native stack; a function
call recurses into a new frame loop from inside the bytecode loop. `serve:` gives up the globals
guard for good and starts worker threads, each of which runs handlers in its own Executor under the
same guard. `halt.error` counts in `VM::error_count`, which every thread reads after a call.
`SHUTDOWN`, set by Ctrl+C, is polled by every instruction, every worker and the main thread.

What makes each part correct, in short: a fiber's registers are in one place and its values reach
the `.next()` that asked, in order (Fibers); every request is answered exactly once, a global
changes under a handler only where it gives the guard up, shutdown ends every worker (HTTP server); the
guard is held whenever bytecode needs it and never taken twice (guard); a compiled trace or method
does what the interpreter does (JITs); rows in memory are the rows in the database (tables); the
bytecode of a program computes what its AST says (compiler); a program that is accepted never puts a value
of one type where the checker saw another (checker).

## Modules

### Fibers

`Fibers.tla` models the fibers of one native thread. `stack` is the native call stack: one frame for
each activation of `execute_bytecode_inner` and the loop around it. A frame has the code it runs
(the main script, a function, or a fiber) and what it waits for: nothing (it executes), a function
(inside `OpCode::Call`), or a fiber (in the `OpResult::Call` arm of its loop). `parked` is the set of
fibers whose registers are in their `FiberState`; taking (`std::mem::take`) and saving them are
`Enter` and `Leave`. `done` is `is_done`. The program is arbitrary: the executing frame picks any
operation. Register contents are abstracted to what the frame loops tell apart: a value is its
producer, its number, and whether it is *weak* (a float or `false`, which `should_write` drops once
the fiber is done).

* `Create`, `Close`, `ResumeDone`, `Resume`: `OpCode::FiberCreate` and `handle_fiber_method`
  (`.isDone()` only reads and is left out).
* `Yield`, `YieldVoid`, `Return`, `ReturnVoid`, `HaltError`, `RuntimeHalt`: the instructions that
  end an activation. SHUTDOWN ends activations like `RuntimeHalt` does.
* `Deliver`, `DeliverToDone`, `AfterCall`: what the frame below does next. These consume no operation.
* `CallFunction`: a function is any code that is not a fiber's. A function's returned value only its
  caller sees, so it is not tracked.

Invariants: `OneOwner` (registers are in one place), `ResultForAsker`,
`DeliveredInOrder`, `PanicNeedsCall` (the one way to find registers taken is a function called by
the running fiber that resumes it again) and the action property `FinishedNeverRuns`.

Run `fibers`: three fibers, ten operations, five frames. Three fibers give a chain, a cycle and a
bystander; ten operations are enough to create all three, build the deepest stack, close a fiber in the
middle of it and unwind. Any two fibers are interchangeable, so the run uses symmetry. Deadlock is not
checked: the script ends, or the thread panics.

### HttpServer and RequestService

`HttpServer.tla` models `serve:`. A worker's `pc` follows the code: `poll` (recv_timeout), `lock`
(globals.write), `run` (bytecode), `sleep` (in `@wait`), `net` (in a net call), `enter`, `native` and
`leave` (around and in machine code), `stuck` (waiting for a lock its own thread holds), `returned` (in
the rest of `OpCode::Call`), `check` (after `execute_bytecode_inner`), `fallback` (after the loop), and
`exited` or `dead`. `slot` says whether the request is still in its `Mutex<Option<Request>>`, `lock` who
holds the write guard of the globals. Handlers are arbitrary: respond, yield, resume a fiber, call a
function, halt, return, wait, panic, call the own server, read and write a global. `frames` is what runs on
top of the handler, functions and fibers to any depth `MaxOps` allows: they run under the guard they were passed,
operation by operation, and may do all that the handler may, so a callee that waits gives up its caller's guard
(vm.rs:3330). `Stop` says who goes on after a result: a function's caller, through the check of
`error_count` (`AfterCall`), a fiber's resumer, or the worker.

A call of a compiled function gives the guard up, takes it for the machine code, drops it and takes it a third
time (vm.rs:2070-2077): `CallCompiled`, `EnterNative`, `ReturnNative`, `LeaveNative`, with other workers free to
run at `enter` and `leave`. Machine code loads and stores globals like bytecode. With `SlowPaths` it
also calls functions that are not compiled, through `xcx_jit_call_recursive`, which passes them no
guard: such a function may respond and count errors (`CallSlowly`), waits for ever for the lock its thread holds if
it waits or calls a compiled function (`LockAgain`), and ends the process if it touches a global (`Abort`). When
each of these happens is the subject of `MethodJit`.

Of the globals one counter is kept, and of registers one per worker, which its frames pass to each other as
argument and result. Programs only increment the counter: load it, and store what was loaded plus one.
`IncrementsCounted` is what the guard is for. While no increment was of a value loaded before the guard was
given up (`crossed`), the counter is exactly the number of increments, and it never exceeds that number. Updates
are lost only across a yield, a wait, a fiber the handler resumes itself (its loop drops the guard, vm.rs:3288), or
a call of a compiled function, and the run reaches states in which one was.

The route table is abstracted to the kind of a request: `OPTIONS`, routed, or unrouted. tiny_http's queue and what dropping a `Request` does
(it answers 500) are external.

`RequestService.tla` is what clients may rely on: at most one response to a request, never before it
arrived, never replaced. `ImplementsService` is the refinement, with `arrived` mapped to the requests
that are in the queue, with a worker, or answered.

Run `http_server`: two workers, two requests, three operations a handler: enough for a load, a wait and
a store of two handlers to interleave, and for a handler to call its own server. Symmetric in workers
and requests. Run `http_live`: two operations, no net calls, no slow paths, no unrouted requests (they are
answered where `OPTIONS` is) and no symmetry, under `FairSpec`: weak fairness of each worker's steps.
That is what the OS scheduler and parking_lot's eventually fair lock give a runnable thread; clients, Ctrl+C and the main thread's wake-up are not
assumed to happen. `EveryRequestAnswered` excepts shutdown (workers leave with requests queued) and
the death of all workers. Bound `MaxOps` is on the operations of one handler run, after which it
returns: handlers that never end are outside the liveness claim, as they are outside the code's. So are
handlers that block for ever with the guard held, and every other worker behind them: one that calls its own server
(`NetCallReturns`), and one whose machine code calls a function that is not compiled and waits for its own lock
(`SlowPathWorks` of `MethodJit`). `FALSE` for `NetCalls` and `SlowPaths` leaves these out; that safety holds with
them is what `http_server` shows.

### Syntax, Checker, Compiler, Bytecode and Language

`Syntax.tla` is the part of the AST the others share. `Checker.tla` is `Checker` and `SymbolTable` of `src/sema`
as a fold over the tree: scopes with the types and constness of names, signatures, loop depth, the fiber context
and the errors found; a program is compiled only if there are none (main.rs:113). `Compiler.tla` is `FunctionCompiler` and
`Compiler::compile` of mod.rs as a fold over the tree that threads a record: code, scopes,
`next_local`, `max_locals_used`, the loop stack with the addresses of jumps still to patch, and the
register the last expression was left in. Each statement is one operator, and the code it
emits is the code the compiler emits, register numbers (u8) and jump targets included, with the fused
instructions (`IncLocal`, `LoopNext`, `ArrayLoopNext`) and their patching. `Bytecode.tla` is
the bytecode loop on those instructions, one action per instruction or family; a frame is a chunk, an
ip and its registers, and a register outside the frame is a fault. Fibers are frames too: their registers
move between the frame and `fibers`, as in `Fibers`, which has the general case; `ActivationsWhole` says that
every frame and suspended fiber is at an address of its code, and that all registers of a fiber are in its state or
in the first frame that runs it, and in one of them only, however frames are left. `Language.tla` says what a
program *means*, by structural recursion over the tree, without registers or jumps.

`MCCompiler.tla` puts them together: `prog` is any of 4,270 programs that the checker accepts. Most are loop
programs (all bodies of one or two statements out of seventeen, in every kind of loop, over a fiber that yields from another included, in the main script,
where the variable is a global, and in a function, where it is a parameter). The others are the typed programs
below. `meaning` is the output the language definition gives to the program, `types` what the checker takes its
global variables for. The invariants of run `compiler` are `ActivationsWhole`, that the output is always a prefix of the meaning (`PrintsInOrder`)
and equals it when the program ends (`Computes`); that it does end is a liveness property under the
fairness of a processor that goes on executing. Two statements in a body are what it takes for one of them to
jump over, leave a register to, or redefine a local under the other; every kind of loop occurs inside every
other, with two levels of jumps to patch, which is where the compiler keeps a stack. A few programs fault
(an index out of bounds, a method a value does not have, a register outside the frame): of these only
`PrintsInOrder` is asked. Programs in which the compiler is known to go wrong (`continue` before a trailing
increment in a range loop, `break` from a fiber loop in a function, a second array loop over a variable of the same
name) are left out of `Computes` by name (`Skips`, `Breaks`, `FaultPrograms`).

`TypedPrograms.tla` tries a variable of each of seven types (int, float, bool, an array, a set, a fiber, `var`) with
a value of each of six kinds, as a global or a parameter, followed by each of some 120 statements that use it: operators,
methods, calls, declarations, assignments, branches, loops, a constant assigned to. The checker rejects most of these
10,000; of those it accepts, about 500 run. `TypesHold` says the checker is sound for them:
a global holds values of the type the checker gave its name (an array, elements of that type), and a function is entered with
arguments of its parameters' types; `Computes` that no instruction meets a value it cannot use. What the checker
is known to let through is left out by a condition each, and stands in the table of disagreements:
programs in which a value of one type is taken for one of another because the two are compatible, or the place
is not looked at (`loose`); a variable declared in a block under a name that is visible there; an increment of
a float; a function that may end without a return. A fiber declared in main is among the programs, but not
among the variables `TypesHold` looks at.

Left out: the program's preamble of five built-in globals; of the checker, what deals
with the values the others leave out; strings, maps, JSON, lambdas and what they capture.

### TraceJit

`TraceJit.tla` extends `Bytecode` with the tracing JIT: its actions leave `Bytecode`'s as they are and add what
happens around them. `tables` are, per call on the stack, the hot counters and the trace cache of
`run_frame_with_guard`; `pool` the vectors given back; `recording` the trace being recorded, `traces` and
`symbols` what was compiled. `Interpret` is one instruction interpreted, counted and recorded (`Recorded`: what
`record_op` makes of it and of the kinds of its operands); `EnterTrace` starts a trace, whose entries then run as
machine code (`Native...`, jit.rs `compile`) or, when the compiler refused (the symbol of its address is taken: it is
named after the address alone), in the virtual machine (`Trace...`, `execute_trace`). `known` is what the
generated code takes for constants at the entry that runs.

`Transparent` is the refinement: every step is a step of `Bytecode` (or changes nothing of it), or one of
the deviations `Deviates` names. These are read off the code and each occurs in the run:

* `RunsElsewhere`: a fiber is looked up in the tables of whoever resumed it, by its ip (vm.rs:1361), so it runs
  another function's trace; a recording goes on in the caller's or fiber's frame when its own is left (`torn`).
  A loop in a fiber may so run for ever, which `Terminates` excepts. `LacksRegisters` is the same with a frame
  too small for the trace.
* `CountsNonInt`, `CountsTwice`, `CountsPastLimit`: the loop instructions in traces have no guard on their
  variable, and differ when it is also the register incremented or the limit.
* `CountsPacked`: native loops add 1 to the packed value; -1 becomes `false` (jit.rs:1164).
* `KeepsDestination`: push and update in a trace do not write their result register.
* `DividesByZero`: the native remainder comes before its test for zero (jit.rs:606); the processor faults.
* `BranchesOnOther`: a condition that is not a bool is a pointer-is-true to the interpreter, a low bit to traces.
* `JoinsNegatives`: the native `++` of a negative number.
* `MistakesTypes`: array instructions in traces have no guard on receiver and index.
* `ExitsToZero`: a native side exit to address 0 is taken for "no exit" and goes to the trace's start.

`TracesFollowCode`: a trace, and an untorn recording, is a path of its function's code, entry by entry.
`ConstantsHold`: a register the code generator takes for a constant holds it (jit.rs:281-358). `Terminates`: no
trace gives back control where it is entered again with nothing done.

Run `trace_jit`: 570 programs: one or two statements of 37, of every kind the recorder tells apart, in a `while` loop in
two functions of the same layout, in the main script, in a range and in nested loops, and next to a fiber. Both
thresholds are 2 (the code has 50 and 1000 iterations): what matters is that a loop runs before, while and after it is
recorded, in the frame that recorded it and another. Fused comparisons and jumps (`CmpInt` before `Jump`) are not
modelled: they never arise, because `record_op` puts `GuardInt` in between.
`trace_jit_CompletelyTransparent` checks the sentence of jit.md without the exceptions.

### MethodJit

`MethodJit.tla` extends `Bytecode` with the method JIT, separately from `TraceJit`: nothing is recorded where a method is
entered, and functions with loops the recorder sees are not compiled. `modes` says of each frame whether it is
machine code (`native`), bytecode with the globals guard (`holding`), or bytecode that machine code called, which
runs *without* a guard because the lock is held by the frame that entered machine code (vm.rs:2072). `Enter` is a call
from bytecode; `NativeCall`, `NativeReturn`, `GiveBack` are the calls and returns of machine code
(`xcx_jit_call_recursive`); `Quit` an instruction without code; `LoseGuard` a global read without a guard
(`unwrap` of `None`); `WaitForItself` the second `globals.write()` of a thread. `Eligible`, `Counted` and
`Accepted` say what is compiled and when: an unconditional block at the very end of a function, which an `if` with
`return` in all its arms leaves, makes Cranelift's verifier reject it.

`Implements` is the refinement of `Bytecode`, with `Differs` the named deviations: operands are taken for ints and
conditions for bools (`TakesForInts`, `TakesForBool`), loops do not check (`CountsOther`), errors counted below are
not looked at (`IgnoresErrors`), an instruction without code returns 0.0 and skips the rest (`Untranslated`),
and interpreted callees of machine code have no globals, cannot call machine code, and give 0.0 for no value
(`CalledDiffers`). `OneHolder`: the lock is never taken above machine code. `SelfCallsAreSafe`: a thread can only
wait for itself, or lose its globals, once a compiled function calls *another* one, so that the documented use,
recursion, is safe. `LoopsHaveBlocks`: `blocks[&(ip + 1)]` (jit.rs:1474) is there for each loop instruction that is
translated: a loop's body ends by a conditional jump or the loop is not eligible. `Ending`: programs end.

Run `method_jit`: 305 programs that call a function from a loop, compiled at the third call (the code's threshold is 10):
recursive, arithmetic on every operand type, globals, range loops, calling a helper which is compiled before, after or
never, or which prints, halts, resumes a fiber, or calls back. `ArrayLoopNext` and `MethodCall` have machine code, but
no eligible function contains them. `Stray`, an access outside the frame, fires on address arithmetic of
heap values only: the compiler reserves the result register of every call.

### TableFilter and TableStore

`TableFilter.tla` is the predicate of a statement sent to the database. A predicate is compiled to
bytecode (`Code`), and `translate_filter_to_sql` walks that bytecode to find a column, a comparison and a
value; `Holds` is the machine's own evaluation of the same predicate. `TableStore.tla` is one table of a
program: its rows in memory (`TableData::rows`), the SQL table as the connection sees it (`conn`) and as
committed (`disk`). Every method of `handle_table_method` and `handle_database_method` that it has is one
action, with both halves of its work and what is left when the second fails. `where()` is three
actions, since its predicate may call functions that change the table between two rows (`scan`).
`Restart` ends the process at any time: memory is the declaration again, the database what was committed.

SQLite is external: CREATE IF NOT EXISTS, INSERT with its primary key and AUTOINCREMENT counter,
UPDATE, DELETE, SELECT by row id and one transaction, as the statements of vm.rs use them. Left out:
joins, find, queryRaw, named arguments of insert, fetch of a filtered table, and several tables.
`db.sync()` without arguments is `Sync` of a listed table; `begin` in a transaction changes nothing.

Run `tables`: histories of five operations over three schemas, two declarations, two keys, one value and
seven predicates. Five operations are: connect, synchronise, two changes and a third that must see both (or
a restart between them). `MemoryMirrorsDatabase` holds while `mirrored`, a history variable that says
which operations keep the two halves together; a weaker condition is violated by the code (`update`, `delete`
and `clear` are in memory only, a failed INSERT leaves its row there).

### Expander

`Expander.tla` is the include expander. `stack` holds the activations of `expand()`, `outs` the statements
each has collected; `visiting_files`, `included_files` and `aliases` are sets (`first` is the
alias a `HashMap` happens to iterate over first, chosen anew whenever a key is added). `Enter`,
`Skip`, `Circular`, `FileNotFound`, `Unreadable` are the ways an include goes, `Collect` is any other
statement, rewritten by `expand_stmt_inplace`, `Leave` the return of an activation with `prefix_program`
applied by its caller. A name is a sequence of identifiers; a use and a declaration carry a tag of
what they were in their own file, which only the properties look at. Blocks are flattened, and a file's text
is what the parser makes of it: an error in an included file is printed and ignored (expander.rs:77,
main.rs:84). The search for a file through the include paths and the rule for the built-in module `math` are
left out.

`IncludesFirst` and `RejectedForCycle` say what cycle detection is for: files finish in a topological
order, and nothing is rejected but a cycle. `NamesResolve` says that after expansion every name refers to
the declaration it referred to in its own file. It excepts the files that were skipped where other aliases
apply than where they were expanded (`astray`), and the files those include (`WithAstray`): for them it is false,
and so is what the documentation says of them (`SymbolsAvailable`, below).

Names do not resolve in every text: they are looked at without their scope (hazards at expander.rs:282). `WellNamed`
says when they do. A file has a namespace, a function from names to what they mean: what the file declares,
and the namespaces of the files it includes, under the include's alias if there is one. No name has two meanings in
it, nothing declared begins with an alias, no parameter has a name of it, and every statement uses a name that is given
before it (a function also one that is given later, but not under an alias), outside of the literals the
expander does not look into.

Run `expander`: all 13,104 graphs of four files in which the program has up to two includes, and the others
one, with two aliases, cycles through every file, diamonds, repetitions and a missing file. Each file declares a
function and a variable and uses every name of its namespace, through nested aliases too: calls, reads,
assignments, method calls, fiber declarations and binds, and the function's body names a variable that is declared
after it. A function behind two aliases is not called: `m.k.f()` is not rewritten (see the disagreements).
`TextsAreWellNamed`, which TLC evaluates at the start, says that the texts of all graphs without a cycle are
well named, so the theorem about names (`ReferencesKept`) is about each of them.

## Runs

| Run | Specification | Checks | States |
|---|---|---|---|
| `fibers` | `Fibers`, 3 fibers, 10 operations, 5 frames | ownership, order of values, panics | 103,307 |
| `http_server` | `HttpServer`, 2 workers, 2 requests, 3 operations | types, the guard, lost updates, requests, refinement of `RequestService` | 426,301 |
| `http_live` | the same under `FairSpec`, 2 operations | every request is answered, shutdown ends the workers | 130,223 |
| `compiler` | 4,270 programs the checker accepts | output equals the meaning, values have their checked types, programs end | 313,105 |
| `compiler_ContinueSkips` | programs with `continue` | violation | |
| `trace_jit` | 570 programs with hot loops | types, paths, constants, refinement of `Bytecode`, termination | 199,758 |
| `trace_jit_CompletelyTransparent` | a loop from -6 | violation | |
| `method_jit` | 305 programs with functions called often | the lock, blocks, refinement of `Bytecode`, termination | 33,321 |
| `method_jit_SlowPathWorks` | the same | violation | |
| `tables` | 5 operations on one table | types, ids, memory against database, where, remove | 319,148 |
| `tables_RemoveDeletesMatching` | 4 operations | violation | |
| `expander` | 13,104 graphs of four files | types, cycles, names, termination | 209,128 |

Every run takes less than two minutes with two TLC workers. The violation runs stop at the first
counterexample.

## Disagreements between the documentation and the code

Four have a run with the expectation `violation`, whose one property states what the document or
test says.

| Property | Says | Code |
|---|---|---|
| `ContinueSkips` | documentation/language/control_flow.md:97: `continue` skips to the next iteration | mod.rs:1584: its address is taken before the last statement's increment is fused with the step of the range loop; it then jumps behind the fused instruction and leaves the loop |
| `CompletelyTransparent` | documentation/compiler/jit.md:25: the JIT is completely transparent | jit.rs:1164: a native loop adds 1 to the packed value, and -1 becomes `false`; see `Deviates` for the others |
| `SlowPathWorks` | documentation/compiler/jit.md:430: machine code falls back to `run_frame_with_guard` for uncompiled functions | vm.rs:7020: the fallback has no guard; if it calls a compiled function, the thread waits for its own lock |
| `RemoveDeletesMatching` | documentation/language/database.md:405-409: predicates may use `AND`, `NOT` and local variables | vm.rs:5036: what is not one comparison with a literal deletes every row, or other rows |

The others were found while modelling. Those with a property have it in the module (or in
`MCCompiler`), where a run that checks it finds the violation; none is among the runs.

| Property | Says | Code |
|---|---|---|
| `HaltStopsProgram` (Fibers) | tests/edge_cases_suite/fiber_halt.xcx:1: a fiber halt halts the entire VM | vm.rs:1355: the resumer goes on |
| `ErrorStaysWithItsRequest` (HttpServer) | errors_halt.md:10: recoverable | vm.rs:3431: every later call of every handler halts |
| `NetCallReturns` (HttpServer) | json_http.md:213: default timeout 10000 ms | vm.rs:2736: none is set, and the guard is held: a call of the own server never returns |
| `SymbolsAvailable` (Expander) | library_modules.md:118: without an alias all symbols are available | expander.rs:63: not if an aliased file included the same file first |
| `LoopsAreCounted` (TraceJit) | compiler/jit.md:31: hot loops are traced | vm.rs:2131: the pool hands out the empty vectors of functions without loops, and the loops of that call are never counted; functions with range loops only never have counters |
| | compiler/jit.md: the method JIT translates all arithmetic and logic on ints, and an instruction it does not know returns false, "falling back gracefully" | jit.rs:1721: `Div`, `Mod`, `And`, `Or`, `Not`, `IncLocal` have no code; the result is 0.0 and the rest of the function is skipped |
| | compiler/jit.md: compilation is triggered asynchronously | vm.rs:2103: the call waits for it |
| | compiler/backend.md:375: `SHUTDOWN` is polled by every loop | native traces never look at it |
| `AbortedNeverRuns` (Fibers) | errors_halt.md:10: `halt.error` aborts the current frame | vm.rs:1399: `is_done` is not set, the fiber can be resumed behind its halt |
| `ExhaustedAlerts` (Fibers) | functions_fibers.md:99: `.next()` on a finished fiber triggers R306 | vm.rs:5901: it stores `false` |
| `ValueStored` (Fibers) | functions_fibers.md:121: `return 99;` returns 99 | vm.rs:1335: a returned float or `false` is not stored |
| `PreflightReachesHandler` (HttpServer) | json_http.md:284: use a dedicated OPTIONS handler | vm.rs:3175: answered before routing |
| `CleanExit` (HttpServer) | compiler/backend.md:375: the process terminates cleanly | vm.rs:3322: workers are not joined |
| `BreakCloses` (MCCompiler) | control_flow.md:108: `break` closes the fiber | mod.rs:1697: in a function it also overwrites a live register |
| `FrameLargeEnough` (MCCompiler) | compiler/backend.md:45: a call's registers are "of exactly the right size" | mod.rs:1260: a function that only calls one without arguments gets one too few |
| `VariableReceivesElement` (MCCompiler) | control_flow.md:63: the loop variable receives the element | mod.rs:1422: not in a second loop over a variable of that name, which writes to a freed register |
| | language/variables.md:36: a variable declared in a nested block under a visible name is a compile-time error | checker.rs:206: only the current scope is searched; in main's bytecode both are one global, so the outer one changes |
| | compiler/backend.md:54: a fiber declared in main has a global slot | mod.rs:1807: `compile_stmt` keeps it in a register of main; a function that names it reads `false` |
| | compiler/sema.md:224: arguments beyond the parameter count are checked but not rejected | checker.rs:484, 558, 950: a call with more or fewer is rejected; a call that is a statement has its arguments counted, their types not compared, a fiber declaration not even that |
| | compiler/sema.md:129: `fiber_context` is `None` outside of fibers | checker.rs:253: it is set in a function's body as well, so a `yield` in a function is accepted |
| `ReportedMeansStored` (TableStore) | database.md:297: after a failure there is no result object | vm.rs:4891: the statement's error is printed, the row is returned |
| | database.md:470: `halt.error` rolls a transaction back | nothing does |
| | library_modules.md:118: with an alias, all top-level symbols are prefixed with it | expander.rs:185, 282: `PI`, `E` and the like get whichever alias a `HashMap` iterates over first, in every file; elements of `{...}`, map and table literals keep their names; a parameter named like a top-level symbol keeps its name while its uses get the prefix; a call behind two aliases, `m.k.f()`, is left as a method call (expander.rs:156) |

## Theorems

The proofs hold for every set of fibers, workers and requests, every program and every bound; they
assume only the named ASSUMEs of the modules, which TLC evaluates in the runs: `FibersAssumption` and
`ServerAssumption` (special values are distinct from fibers, workers and requests), `TableAssumption` (keys
and values are integers, `Missing` is the boolean false and none of them, a predicate has an operand on either side of each
comparison, one for a comparison or its negation and two for AND and OR), `ExpanderAssumption` (names are
sequences of strings, a file's text is a finite sequence of statements of the parser's kinds, an include names a file or `NoFile`), `CompiledAssumption` (jump targets are addresses of the
function's code or its end, called functions exist, register counts are numbers, instructions have the operands their kind has) and `ThresholdAssumption`.

`FibersProofs.tla`. The inductive invariant `IInv` has three layers. `StackInv`: types, the bottom frame
is the main script's, every fiber on the stack was created, `StackShape` (each frame waits for the one above). `ResultInv`: the value in flight
belongs to the innermost frame's fiber and is newer than all its delivered values; `DeliveredInOrder`.
`OwnInv`: a fiber's owning frame is the *innermost* of its frames (`OwnerIsInnermost`). This last
strengthening is what `OneOwner` needs: `OneOwner` alone does not exclude that a waiting frame of a
fiber sits above its owning frame, and then `Deliver` would find no registers. Every step pops,
pushes or retags the stack; one lemma per kind says what that leaves, and each layer has one lemma per
kind of step. Theorems: `TypeCorrect`, `StackAlwaysShaped`, `RegistersOwnedOnce`, `PanicOnlyThroughCall`,
`ResultsReachTheirAsker`, `ValuesInOrder`, `FinishedStaysFinished`.

`HttpServerProofs.tla`. `TypeInv` adds to the types that a busy worker has a request and an idle one has
none. `GuardInv` adds `CountInv` to the guard's discipline: a value loaded while the guard has been held ever since
is the holder's and still the counter's, and no register holds more than the number of increments. `IncrementsCounted`
alone is not inductive: what a `Store` adds depends on the register. For requests every
step is shown to be one of six effects (`RequestEffect`: untouched, arrives, answered from the queue,
taken, answered by a worker, let go), from which both `RequestInOnePlace` and the refinement step
follow. Theorems: `TypeCorrect`, `GuardHeldToRun`, `IncrementsKept`, `RequestNeverLost`,
`ServerImplementsService`.

`TableStoreProofs.tla`. `IInv` says what every row in memory (`RowsFor`), every row of the SQL table and of
its committed copy (`SqlFor`) is, with distinct `@auto` ids in all three, and how far a `where()` has come
(`ScanFits`: unless rows were removed there are at least as many as were counted). The database's half is
needed since `fetch` loads it into memory: memory's ids are distinct only if the database's are. That
one more than the largest id is free rests on every finite set of numbers having a largest element, which
is proved from the well-foundedness of set inclusion. Theorems: `TypeCorrect`, `AutoIdsAlwaysDistinct`,
`PanicOnlyAfterShrink`.

`TableContentsProofs.tla` rests on it. `MirrorInv`: the set equality and the number of rows in `MemoryMirrorsDatabase`
are not inductive (replacing one of two equal images may or may not lose one), a one-to-one pairing of the rows in
memory with the rows in the database (`Paired`) is; with it goes that row ids are distinct and, where the key is the
primary key, equal to it (`SqlKeys`, of the connection's table and of the committed copy a rollback brings
back). From the pairing follows that an INSERT of a fresh id and key succeeds, and that the UPDATE of `save` finds
the row memory replaces and no other. `WhereInv`: what has been kept is the image of an increasing map into the rows
looked at, and while the predicate's functions run (`call`) its answer is still that for the row it is about.
For `RemoveIsExact` the three instructions of a plain comparison are run once by the machine and once by the
translation, each as a recursive function whose values are given explicitly. Theorems: `MirrorInvariant`,
`MemoryMirrors`, `WhereResult`, `RemoveExact`.

`ExpanderProofs.tla`. `WalkInv`: `visiting_files` is the set of files above the first activation, each on the
stack once, each pushed by the include its caller has just gone past. `OrderInv`: the file of every include that
an activation has gone past is finished, but for the one it waits for, and every file in
`included_files` is finished or being visited; this is what makes `Skip` right: a file that is skipped is
included already, and not being visited, so it is finished. Without the second part `IncludesFirst` is not
inductive, and this is where the order of the two checks at expander.rs:59-65 matters. Theorems:
`TypeCorrect`, `NeverTwice`, `CyclesRejected`, `OnlyCyclesRejected`, for every set of files and every contents.
`RenamingKeepsReferences` is one renaming: after
`prefix_program` a name refers to a declaration exactly if it did before, provided neither is the other with the alias
in front. The condition is needed: a file that declares `f`, and includes another `f` under the very alias it is
included with itself, has one name for both afterwards.

`ReferencesKept` is `NamesResolve` for every text that can be given namespaces that make it well named. Its invariant,
`NamesInv`, follows the names through the activations. The statements an activation has collected have the
names of its file's namespace, declarations (`DeclInv`) as well as uses (`UseInv`). A use may still wait for its
declaration in an activation below: one entered without an alias has its caller's names (`SameSpace`), so a name is
`Known` to an activation if it is declared in one of those that share its names. What an activation has gone past is
known to it, or is astray (`DealtInv`). A finished file's names are settled (`SettledInv`), and `place` is where they are
known (`PlaceInv`), which is what makes `Skip` right: an include that is skipped in the file's own place has nothing
to add, and in another place it puts the file astray. `Leave` is the hard step: it renames all that was collected at
once, and what was known under a name in the callee has to be known to the caller under the prefixed name, and nothing else by it.
The hypothesis is met by all the acyclic texts of the run (`TextsAreWellNamed`); a program with a cycle is rejected.

`BytecodeProofs.tla`. `Shape`: frames are records of a known function or fiber with a register file, the first is the main
script's, suspended fibers likewise. Its lemmas say, instruction by instruction, what a step of the bytecode loop
does to the stack: its frame goes on, a frame is entered, frames are left, or the program stops (`Ahead`, `Pushes`,
`Leaves`, `Stops`). Both JITs' proofs rest on them. For `ActivationsWhole` the same steps are looked at once
more for where registers go: a fiber that is resumed while it runs has none to give, so the frame that resumes it
again is empty and above the one that holds them: leaving an inner frame gives back nothing, leaving the one that
holds them, by then the only frame of its fiber, gives back all. With `Shape`, by which a fiber's frames are of its function, that is inductive as it stands. Theorems:
`ShapeHolds`, `RegistersKept`.

`TraceJitProofs.tla`. `JInv` adds to `Shape`: a recording that is not torn leads from its start to where the frame is
(`RecordingShape`); a trace that runs in its own frame is at the address its frame is at (`RunShape`), which is
what makes `Transparent` provable: an entry was made of the instruction the bytecode loop would run (`AtInstruction`),
so one lemma per instruction compares the two. `TracesFollowCode` alone is not inductive: a finished recording is a
path only if the last entry leads to the frame's ip. Theorems: `TracesAreTransparent`, `TracesArePaths`,
`ConstantsAreHeld`, `JTypesHold`.

`MethodJitProofs.tla`. `MInv` adds to `Shape`: modes go holding, native, without from the bottom up (`OneHolder`, with the
functions of native frames compiled), the result register of every call frame exists where machine code writes
it, and counters agree with what is compiled. Theorems: `ImplementsBytecode`, `OneHolderHolds`,
`SelfCallsAreSafeHolds`, `MTypesHold`.

Only model-checked: the liveness properties (fairness and ENABLED are out of the prover's reach), all the
violations, `LoopsHaveBlocks` (a fact about the code the compiler emits), and
everything else about the checker and the compiler (`PrintsInOrder`, `Computes`, `TypesHold`): their modules are recursive
over the syntax tree, and induction over data is out of reach of the installed provers.

## What is approximated

* A client that sends its body slowly (`read_to_end` in a worker) is not modelled.
* Integers are unbounded (values stay small) and floats count halves: programs are such that nothing is rounded.
* A register outside its frame is a Rust panic of the interpreter (`locals[dst as usize]` is bounds-checked)
  and ends the program. In machine code the access is unchecked: the program is `undefined` and stops.
* Machine code does what its Cranelift instructions say; a processor fault (division by zero) ends the program.
* Random numbers, powers, `has`, strings and sets as operands of `+` have no programs in the runs of the JITs.
* A native `get` takes the bits of 0.0 for a failure and gives control back; the interpreter then does the same.
* Operation bounds (`MaxOps` and the like) are constants of the modules and named there; the proofs do not
  depend on them.

## Plan

Done, in this order: `Fibers`; `HttpServer` with `RequestService`; `Compiler`, `Bytecode` and `Language`;
`TableFilter` and `TableStore`; `Expander`; `TraceJit`; `MethodJit`; `Checker` with `TypedPrograms`. What is left:

1. **Globals guard.** The remaining instructions that give it up: `Input` and `TerminalRun`, which are like `@wait`
   but may never come back, `InputKeyWait`, which halts without it when reading fails (vm.rs:2456), and a `serve:` inside
   a handler (vm.rs:3156); and `JsonInject`, which asks for it again (vm.rs:2558). They would be handler operations of
   `HttpServer`.
2. **Parser.** Precedence climbing against a grammar; recovery makes progress. Scanner as a function.
3. **Values and collections.** 48-bit arithmetic, maps, JSON trees; reference counts last. The checker's arms for them.

Runs are kept to a dozen, so a new module's run takes the place of one of the violation runs, whose property
stays in its module.

Not planned: the REPL, PAX, diagnostics, argument parsing and terminal I/O (thin wrappers around the
modelled parts), and Cranelift's translation of a trace's instructions.
