# A TLA+ verification of vcml-pydrofoil

vcml-pydrofoil puts Pydrofoil, a RISC-V instruction set simulator written in
(R)Python, into a SystemC virtual platform.  Python may be called from one
thread only, SystemC runs its processes in another, and each side calls the
other: SystemC asks the simulator to run some cycles, and the running simulator
asks SystemC for every data access.  The core of the repository is the code
that makes this work, about 350 lines of C++ with two mutexes, two condition
variables, two queues, one-shot promises and one plain flag.  Around it lie the
glue code that turns Python objects into a C API, a C client of that API, and
the time-keeping of the VCML processor that drives the core.

## 1. Inventory

| Component | State | Operations | Meets |
|---|---|---|---|
| `PydrofoilCore`, SystemC side (`sysc_vp/src/core.cpp`, `include/core.h`) | `task_queue`, `memtask_queue`, `sim_started`, `n_cycles`, `stop_worker`, `cpu`, a future per call | constructor, destructor, `read_reg_dbg`, `write_reg_dbg`, `cycle_count`, `simulate` and its serving loop, `end_of_elaboration` | called by VCML; pushes `PythonTask`s; calls `data.read` and `data.write` |
| Python worker (`core.cpp: python_worker_loop`, `python_tasks.cpp`) | the task in hand | Init, SetCb, GetCycles, Simulate, SetPc, ReadPc, FreeCpu | pops `PythonTask`s, calls the C API, fulfils promises |
| Memory callbacks (`memory_callbacks.cpp`) | an access under way | `read_mem`, `write_mem` | called by the simulator in the worker; push `MemAccess`es and wait |
| Platform (`system.cpp`, `system.h`, `main.cpp`, `benchmark/riscv64_ex.cfg`) | the memory map, RAM, boot RAM | construct, elaborate, run, report, destroy | owns the core, decides when it is called |
| Glue code (`gluecode.py`, `pydrofoilcapi.h`) | `all_cpu_handles`; per cpu: the simulator, `steps`, the callbacks, the buffer `mem` | the nine functions of the C API | called by the worker, calls the callbacks |
| C test client (`testmain.c`) | a linked list of memory blocks | `read_mem`, `write_mem`, `main` | uses the C API directly, in one thread |
| VCML processor (vendored) | local time, quantum, the registers | `processor_thread`, `update_local_time`, `session_suspend`, `define_cpureg`, `flush_cpuregs` | the caller of the core |
| VCML suspend and debug servers (vendored) | suspenders, sessions | suspend, resume, register access | read registers through the core |
| VCML bus, memories, loader, throttle; SystemC; mwr (vendored) | - | - | the core sees mapped words that answer OK or an error |
| Pydrofoil (not in the repository) | registers | `step` | an instruction is some data accesses and a next pc |
| Build scripts | none at run time | - | - |

What is hard here: the order of two threads' steps around a condition variable
whose predicate reads a future no mutex protects; a flag that is read by one
thread and written by the other; callbacks that come while nobody serves them
(during SetCb); re-entry (`data.read` asks for `cycle_count` while the worker
waits for that very read); what happens when an access fails, when no cpu could
be allocated, and when the simulation stops in the middle of a transaction; the
width of the cycle counter.  In the glue code: Python objects that live only
as long as an entry in a list, exceptions that end a function half way and look
like success in C, and a reset that replaces the simulator.  In the processor:
cycles that become time at whichever call comes first, quanta that are no
multiple of a clock cycle, and a stop that comes when the processor is due.
`PROJECT.json` lists these hazards line by line.

What makes each part correct:

- the core: one task and one access at a time; every answer belongs to its call
  and is still true when it arrives; calls return; the destructor ends the
  worker, and frees the cpu after its last use;
- the callbacks: guest stores reach the platform's memory, guest loads return
  it, and no access deadlocks;
- the platform: the configured program counter is the one the core starts at,
  and the cycle count never goes down;
- the glue code: a cpu lives until its client frees it; the cycle count, the
  callbacks and their payload belong to the simulator the cpu has now;
- the test client: the block list behaves as one flat memory, and both runs of
  `main` are configured and counted as it prints;
- the processor: simulated time is exactly the executed cycles, latencies and
  idle quanta; it stays within a quantum of the kernel, and the simulation ends.

## 2. Modules

| Module | What it is |
|---|---|
| `PydrofoilCore` | the two threads of the core, its callers and its simulator; the properties; the inductive invariant `Handshake` |
| `MCPydrofoilCore` | constants for TLC |
| `CpuApi` | abstract specification: a cpu that serves one call at a time; `PydrofoilCore` implements it |
| `Lexicographic` | the order of tuples of natural numbers in which steps go down |
| `CoreProgress` | what is left to do in `PydrofoilCore`, as such a tuple; the property `StepsMakeProgress` |
| `PydrofoilCoreProofs` | theorems about `PydrofoilCore`, checked by TLAPS: types, the handshake, the guest's stores |
| `CoreCallProofs`, `CoreRefinementProofs` | theorems on top of these: what callers rely on, sleeping and waking, deadlock and progress; `PydrofoilCore` implements `CpuApi` |
| `LexicographicProofs` | the order of `Lexicographic` is well-founded |
| `FlatMem` | abstract specification: a memory of words |
| `SparseMem` | the block list of `testmain.c`, which implements `FlatMem` |
| `GlueCode` | `gluecode.py`: the C API over Python objects, for any client |
| `GlueCodeProofs`, `SparseMemProofs`, `TestMainProofs`, `ProcessorProofs` | theorems about the module of that name, checked by TLAPS |
| `TestMain` | `main` of `testmain.c`: composes `GlueCode` and `SparseMem` |
| `Processor` | the quantum loop and local time of the VCML processor, the timeout of the platform, and as much of the SystemC kernel as they need |

### PydrofoilCore

`spc` is the location of the SystemC thread and `wpc` that of the worker.  One
step is one critical section, or one access to state that no mutex protects.

SystemC thread:

| Location | The thread is about to |
|---|---|
| `idle` | make the next call (`phase` says which part of the program runs) |
| `pushed` | set `sim_started`: `simulate` has pushed its task |
| `notify` | `task_cv.notify_one()` |
| `get` | return from `done.get()` |
| `while` | evaluate the condition of the loop in `simulate` |
| `lock` | lock `memtask_mutex` and look at the queue |
| `pred` | evaluate the second half of the predicate (is `done` ready?), mutex held |
| `block` | go to sleep: the predicate was false, mutex still held |
| `blocked` | - it sleeps in `memtask_cv.wait` |
| `serve`, `xfer` | `data.read`/`data.write`: ask for the cycle count, then transfer |
| `join`, `gone` | `python_worker_thread.join()`; the object is destroyed |

Worker:

| Location | The thread is about to |
|---|---|
| `lock`, `blocked` | take a task; sleeps in `task_cv.wait` |
| `run` | run the handler of `wtask` |
| `step` | execute another instruction, or end `pydrofoil_cpu_simulate` |
| `exec` | go on with an instruction (or, in SetCb, with the construction of the simulator): an access, or its end |
| `mnotify`, `mget` | `memtask_cv.notify_one()`; return from `res.get()` |
| `simnotify` | `memtask_cv.notify_one()` at the end of Simulate |
| `exit` | - the loop has ended |

The pair `pred`/`block` is the heart of the model.  The predicate of
`memtask_cv.wait` is evaluated under `memtask_mutex`, but it reads `done`,
which the Simulate handler fulfils without that mutex.  The worker may
therefore fulfil the promise and notify while the SystemC thread is at `block`.
Accesses are pushed under the mutex and cannot fall into that gap
(`MemMutexFree`).

`sim_started` is a plain `bool` written by one thread and read by the other.
The model gives it sequentially consistent reads and writes.  A delay of the
store that sets it in a store buffer shows the worker nothing that a SystemC
thread lingering at `pushed` does not: the buffer is drained at the latest when
`memtask_mutex` is locked, and until then the worker only reads the flag.  The store that clears it is followed by the lock of
`task_mutex` in the next call before the worker can read the flag again.

`NotReady` stands for an unfulfilled promise; `done` is the future of the
current blocking call and `simdone` that of the current `simulate`.  `cpu` is
`unset` before Init, then `live` or `null`, and at last `freed`.  In `gluecode.py` an
exception becomes 0 or NULL for the C caller.

The simulator is external, and may raise.  In a step, an error of any kind ends
`pydrofoil_cpu_simulate` after the steps already counted (`StepEnd`, and `Resume`
for a failed access).  With `SimMayRaise` a register access may raise too, which reads a pc of 0 and
answers a write without effect with 1, and so may the `reset()` of SetCb: the old
simulator then stays, without callbacks (`connected`), and makes no access
to the platform.  `core` has the switch off, where `AnswersAreCurrent` and
`RefinesCpuApi` say most; `core_yield` has it on, and the theorems cover both.

The variables `last_count` (the cycle count VCML saw last), `shadow` (the memory as
the guest's stores want it) and `dropped` (a guest store was made while
`sim_started` was false) are history variables: no guard reads them.

The caller's program is fixed by the platform: constructor, `define_cpureg_rw`
(reads the pc), `before_end_of_elaboration` (writes the configured pc),
`end_of_elaboration` (SetCb), then any calls VCML makes while the
simulation runs, then `cycle_count` for the report of `system::run`, then the
destructor.

Definitions whose comment begins with "fault:" are seeded faults: a plausible
wrong version of the definition after them.  No action uses them.  For each
property `PROJECT.json` names one that violates it, which shows that the
property depends on that line of the code.

### CpuApi

What the core promises its caller, without threads, queues and promises: `Call`,
one step that is the effect of the call and fixes its answer (`Serve`), and
`Return`.  While `simulate` is under way the guest runs (`Execute`) and the
caller may be told the cycle count of before (`Peek`).  The refinement mapping
(`Api` in `PydrofoilCore`) takes the call from the location of the SystemC
thread, its answer from the future, and the count from the simulator's steps at
the moment the promise is fulfilled.  `RefinesCpuApi` says, for
example, that a register read answers the pc of a moment between its call and its return, and that
`simulate` counts its cycles exactly once, also when an access failed.  With
`SimMayRaise` a call on a live cpu may stay without effect, and the pc may be read as 0.

### GlueCode

One action per function of the C API, and the steps of a running `simulate`
(`step`, `callback`, its return, an exception in it).  `object` is what stands behind a
handle; `Collect` is the garbage collector, which takes an object that is
neither in `all_cpu_handles` nor in use, after which `ffi.new_handle` may give the same
number to a new cpu.  A function that raises changes what it had changed
before, and its C caller gets 0: every function on a dead handle, and on a live one
a reset that fails (`FailedReset`), an exception in `simulate`, and a `read_register`,
`write_register` or `set_verbosity` that the simulator refuses (`SimulatorRaises`).
`steps` is the counter of the C object, `sim.ran` the calls of `step()` its present
simulator has had, those that raised included; the closures `pyread` and `pywrite` keep the
payload, but look up the function in the C object, so that the two can come apart
when `reset()` fails (`halfset`).  The client may call anything with any handle,
freed ones and NULL included; one thread calls the API, as the core's worker
and `testmain.c` do.

### TestMain

`Main` is the list of the calls of `main`, in order; `Do` makes the next one through
`GlueCode`, `Exit` is each of its returns, and `GuestAccess` is a callback of the running simulator
that goes into `SparseMem` with a word address turned into bytes, as `pyread`
and `pywrite` do.  Any call of the API may raise; `trouble` remembers that one did, and `unset`
whether it was the one that sets the pc or the verbosity.  The result of `pydrofoil_cpu_set_ram_read_write_callback` is
ignored, as it is in the code.

### Processor

The locations of the processor's thread:

| Location | The thread is about to |
|---|---|
| `thread` | begin the loop of `processor_thread`: note the time |
| `loop` | compute the cycles left in the quantum |
| `simulate`, `transport` | go on in `simulate`: a transaction that takes time, or its end |
| `check` | ask `needs_sync()` |
| `synced` | compare the time with the noted one |

`insync` says that it is in the wait of `tlm_host::sync`.  `Delta` is the kernel:
all threads of a delta run, in any order; if `sc_stop` was called the
simulation is then over, otherwise time advances to the next thread that is due.
VCML does not change SystemC's stop mode, so that a thread that is due
at the time of the stop still runs.  `simulate` is taken from `CpuApi`:
at least one cycle with a cpu, none without.  Left out are transactions that take no
time: with a quantum above zero they change nothing, and with the quantum
zero `send()` waits for zero time, which changes no time here but lets other processes run
(for the core that is `YieldingTransport`).  `handle_requests` takes no time, and has nothing to do without
a suspend request, and the `sim_running` test after it holds until the
simulation ends.

### SparseMem and FlatMem

`SparseMem` has one action per function of `testmain.c` that touches the list.
The list is a sequence whose head is `first_block`.  The words of a block are
indexed by the address, as in the code, and `size` is ignored, as it is there.
`malloc` and `calloc` do not fail.  `FlatMem` is the promise: a word is 0 until it is written,
and a read returns the last value written.  The variable `op`, the call just made, is part of
both, so that a call that has no effect where it should have one does not pass as a stuttering step.

## 3. Runs

| Run | Expect | Shows |
|---|---|---|
| `core` | pass | type and queue bounds, mutual exclusion, currency of answers, memory, pending wakeups, progress, shutdown and liveness of the core as configured, with the complete list of states in which it stands still |
| `core_yield` | pass | the inductive invariant, and the same list when a transaction may take simulated time, also as a statement about where each thread waits |
| `gluecode` | pass | handles, objects, counters and callbacks for any order of API calls |
| `testmain` | pass | `main` with the glue code and the block list: the block list implements the flat memory, both runs are configured and counted |
| `processor` | pass | time-keeping for every kind of quantum, that every step comes nearer to the end of the simulation, and that end |
| `lost_wakeup` | violation | `SimulateReturns` |
| `start_race` | violation | `GuestStoresReachMemory` |
| `start_pc` | violation | `StartsAtConfiguredPc` |
| `join_null` | violation | `DestructorReturns` |
| `cycle_width` | violation | `CycleCountNeverGoesDown` |
| `set_pc_error` | violation | `SetPcFailureIsReported` |
| `instruction_count` | violation | `DurationIsInstructions` |

Bounds.  `MaxCalls = 2` calls by VCML in the running phase are enough for a
late notify of one `simulate` to meet the wait of the next one, for a task that
is taken without sleeping (the start race) and for a cached count to be
compared with a fresh one.  `MaxCycles = 2` and `MaxAccesses = 1` give an instruction
after an access, and after a failed one.  The addresses `0 .. 5` stand for:
below the boot RAM, boot RAM, the gap, RAM, forwarded but not mapped (a bus error), above the window.
The map of `system.h` has all six: its RAM ends at 0x8003ffff, while the
callbacks forward up to 0x8fffffff.  `riscv64_ex.cfg` widens the RAM to the
whole window, which is the same map without the fifth address.
`INT_MOD = 32` is wide enough that the counter does not wrap in `core`;
`cycle_width` uses 4 so that it does.

`GlueCode.cfg` has two handles, two clients with a payload each, and five API
calls: allocate, set callbacks, set them again with a reset that fails, simulate
and a fifth on the other cpu, and also allocate, free, allocate with the same
number.  `TestMain.cfg` has two blocks, one of two words and one of which the guest reaches one (a word is two bytes there),
so that both ends of a block and lists of every length and order occur, and runs of up to two steps.
`Processor.cfg` has a clock cycle of 2, quanta 0, 1, 2, 4 and 5 (zero, below, equal, a
multiple, no multiple) and the duration 12, which some of them meet exactly.
Latencies of 1 and 3 stay below and reach or pass a quantum.
`InstructionCount.cfg` has the quantum, the clock and the duration of `riscv64_ex.cfg`, in nanoseconds.

Deadlock is not checked in the runs of the core: the program ends, and it has hangs.
`HangsAreKnown` takes the place of the deadlock check: in every state without a
step (other than a spurious wakeup) both threads are at a place where they wait, and
the state is the end of the program or one of three named hangs (`KnownHang`).
`StandstillIsKnown` says the second half without ENABLED.  In `gluecode` and `testmain` the client stops when its calls are
used up, or `main` has returned.  In `processor` deadlock is checked.

Fairness.  `FairSpec` assumes weak fairness of each of the two threads, which are
threads of the operating system and are scheduled again and again.  Nothing is
assumed of spurious wakeups: they may happen any number of times or never.
The worker never needs more than weak fairness to get
`memtask_mutex`: with the queue empty the SystemC thread runs at most from
`lock` to `blocked` or back to `while` once `done` is ready.  `ShutsDownOrHangs` relies
on the number of calls being bounded, as it is by `system.duration`.
In `Processor` weak fairness of the next-state relation says that the process
runs at all: SystemC runs every thread of a delta and then begins the next one.

### What the runs found

1. **Lost wakeup** (`python_tasks.cpp:30`, `core.cpp:107`).  The Simulate
   handler fulfils its promise and notifies without `memtask_mutex`.  When this
   falls between the predicate and the sleep of `memtask_cv.wait`, `simulate`
   never returns.  `SleeperIsWoken` and `SimulateReturnsOrHangs` show that it
   is the only way for `simulate` not to return in the platform's configuration, and
   `WakeupsArePending` that no notify for new work is lost: accesses are pushed
   under the mutex.
2. **Start race** (`core.cpp:95-97`).  The task is visible before `sim_started` is
   set.  Stores made in between are dropped with success.
   `CoherentUnlessDropped` shows that nothing else loses a store, and `IgnoredOnlyEarly`
   that no load or store of the window is ignored outside that gap and SetCb.
3. **Lost configuration** (`gluecode.py:78`).  Setting the callbacks replaces
   the simulator after `system.core.pc` was written into it.
4. **Join without a cpu** (`core.cpp:29-43`).  The worker is told to stop only
   if there is a cpu, and joined in any case.
5. **Narrow counter** (`core.h:23`).  The 64-bit count passes through an `int`.
6. **Failure as success** (`gluecode.py:111`).  A function that raises gives C
   the result 0, which is also the result of success: "setting pc failed" of
   `testmain.c:94` cannot be printed, and the core takes every SetPc as done.
7. **One quantum more** (`system.cpp:63`).  The stop is requested at 1000 ns, when the processor is
   due as well, and SystemC finishes that delta: 1100 instructions are executed, while
   `riscv64_ex.cfg:17` says "1k instructions".  `InstructionsFillDuration` shows that the
   duration is always exceeded, and by no more than a quantum and a cycle.

The `memset` of `core.cpp:122` overwrites the result of every read.  Its comment calls it
temporary; the model has it (`Placeholder`), and no property speaks of the values of loads.

Two more facts the passing runs pin down.  `CallbackGetsItsPayload` has one exception: after
a `set_ram_read_write_callback` that failed in `reset()`, the old
simulator calls the new functions with the old payload.  `SecondRunAsConfigured` holds even
if the reset of `testmain.c` failed, because everything it configures comes after it; its one
condition is that the call that sets the pc (or the verbosity) did not itself raise, which
`main` cannot see (6 above).

In addition `core_yield` shows what a transaction with simulated time brings:
a register read, or the end of the simulation, inside `data.read` makes the two
threads wait for each other for ever (`Embrace`).  With the configured zero latencies this
cannot happen (`EmbraceOnlyByYield`).

## 4. Proofs

Every theorem holds for every value of the constants that satisfies the named
assumptions of its modules and, where the table says so, a hypothesis of its
own.  Each inductive invariant was checked by TLC, on the configurations of the
runs, before it was proved.

| Module | Theorem | Statement |
|---|---|---|
| `PydrofoilCoreProofs` | `TypeCorrect` | `Spec => []TypeOK` |
| | `HandshakeCorrect` | `Spec => []Handshake` |
| | `QueuesBoundedCorrect` | `Spec => []QueuesBounded` |
| | `ServeExcludesWorkerCorrect` | `Spec => []ServeExcludesWorker` |
| | `EmbraceOnlyByYieldCorrect` | `Spec => []EmbraceOnlyByYield` |
| | `CoherentUnlessDroppedCorrect` | `Spec => []CoherentUnlessDropped`, if `MapInWindow` |
| `CoreCallProofs` | `AnswersAreCurrentCorrect` | `Spec => []AnswersAreCurrent` |
| | `QuietBetweenCallsCorrect` | `Spec => []QuietBetweenCalls` |
| | `NoUseAfterFreeCorrect` | `Spec => []NoUseAfterFree` |
| | `WakeInvariant`, `WakeupsArePendingCorrect` | `Spec => []WakeInv`, `Spec => []WakeupsArePending` |
| | `StandstillIsKnownCorrect` | `Spec => []StandstillIsKnown` |
| | `IgnoredOnlyEarlyCorrect` | `Spec => IgnoredOnlyEarly` |
| | `StepsMakeProgressCorrect`, `LeftCorrect` | `Spec => StepsMakeProgress`, `Spec => [](Left \in [1 .. 10 -> Nat])` |
| `CoreRefinementProofs` | `CycleCountNeverGoesDownCorrect` | `Spec => CycleCountNeverGoesDown`, if `NoWrap` |
| | `RefinesCpuApiCorrect` | `Spec => RefinesCpuApi`, if `NoWrap` and `~YieldingTransport` |
| `GlueCodeProofs` | `TypeCorrect` | `Spec => []TypeOK` |
| | `HeldIsAliveCorrect` | `Spec => []HeldIsAlive` |
| | `CyclesCorrect` | `Spec => []CyclesAreOfThisSimulator` |
| | `CallbackGetsItsPayloadCorrect` | `Spec => CallbackGetsItsPayload` |
| `SparseMemProofs` | `TypeCorrect`, `BlocksDisjointCorrect` | `Spec => []TypeOK`, `Spec => []BlocksDisjoint` |
| | `RefinesFlatMemCorrect` | `Spec => RefinesFlatMem` |
| `TestMainProofs` | `SecondRunAsConfiguredCorrect` | `MainSpec => []SecondRunAsConfigured` |
| | `RunsAreCountedCorrect` | `MainSpec => []RunsAreCounted` |
| | `MainMemoryCorrect` | `MainSpec => []TypeOK /\ []BlocksDisjoint /\ RefinesFlatMem` |
| | `MainUsesApi` | `MainSpec => G!Spec`, the specification of `GlueCode` |
| `ProcessorProofs` | `TypeCorrect` | `Spec => []TypeOK` |
| | `TimeAccountedCorrect` | `Spec => []TimeAccounted` |
| | `RunAheadBoundedCorrect` | `Spec => []RunAheadBounded` |
| | `StuckOnlyAtZeroCorrect` | `Spec => []StuckOnlyAtZero` |
| | `InstructionsFillDurationCorrect` | `Spec => []InstructionsFillDuration` |
| | `StepsTowardsEndCorrect`, `LeftCorrect` | `Spec => StepsTowardsEnd`, `Spec => [](Left \in [1 .. 6 -> Nat])` |
| `LexicographicProofs` | `NoEndlessDescent` | no infinite sequence of k-tuples of naturals descends |

### The core

The assumptions: bounds are naturals, the widths are positive, the addresses and values
are naturals, 0 is a value (the initial content of memory), the two program counters are among
`PCs`, and the switches are Booleans.

**The handshake.**  That a queue holds at most one
element, for example, is not inductive: it follows only from the fact that its owner waits for the
answer of the element it pushed.  `Handshake` says where the
current task is in each of the four situations the two threads can be in:

- `Quiet`: no task is under way;
- `InCall`: a blocking call; its task is queued, being handled, or answered;
- `InSim`: the same for `simulate`, while the SystemC thread serves;
- `Stuck`: a transaction yielded, and the worker waits for what will not come;

`AccessInv` says where the access of a waiting worker is (queued, with the
SystemC thread, or answered), and `LiveInv` that instructions run only on a
live cpu.  `Stuck` is what `YieldingTransport` adds; it is there so that the theorem holds
for both settings.  The proof has one step per action, each with a
case for the situations it can leave.  TLC checks `Handshake` in `core_yield`,
with every situation reachable.

**What callers rely on.**  `CallInv` adds to the handshake what it does not say: `CallFits`,
which calls the platform makes in which phase (the cpu can only be freed, and a
simulator only be replaced, by a call that is under way); `FreedInv`, that a
freed cpu means a destructor that has its answer; `CountInv`, that `n_cycles` is the
simulator's count except while the worker is in a Simulate task; and
`AnswerInv`, `AnswersAreCurrent` from the moment the handler answers, not
only when the caller has woken up.

**Memory.**  A guest's store is first noted in `shadow`, then queued, then taken by the
SystemC thread, and at last made.  `MemInv` says that `shadow` is at all times the memory with the one
`Pending` access applied to it, wherever that access is.  The lemma `AccessSteps` shows
that only five actions move an access.  `MapInWindow` says that the callbacks forward every
address the bus decodes; it holds for the map of `system.h` and for the one of `riscv64_ex.cfg`.  Without it a
store to a mapped address outside the window would be ignored.

**Sleeping and waking.**  `Handshake` says where tasks and accesses are, but not that
a sleeping thread hears of them.  `WakeInv` adds it.  `SleepingWorker`: a worker asleep
although there is a task, or a stop request, has a SystemC thread before it that has pushed and
has not yet notified.  `SleepingSysC`: the same for an access, and in addition that the queue stays empty
from the predicate to the sleep; this second part is what makes the first one inductive, and
it holds because the SystemC thread keeps `memtask_mutex` there.  `StopInv`: `stop_worker` comes
with the last task, and the worker ends only after it.  `WakeupsArePending` is read off; the promise of Simulate, which is
fulfilled outside the mutex, is not in it, and could not be.

**Standing still.**  With `WakeInv` and `Handshake` the proof of `StandstillIsKnown` goes through
the places at which the SystemC thread can wait.  In `done.get()` with no answer the task is
queued, so that the worker cannot sleep, or being handled, and then a worker that waits for an
access is the embrace.  Asleep in `simulate`, the promise is fulfilled (the lost wakeup), or the
task or the access of the worker would be pending.  In `join()` the worker has been told to stop and cannot
sleep, or there is no cpu.  The theorem holds for both settings of `YieldingTransport`.

**Progress.**  `Left` counts what is left to do, from the outermost part inwards: the phases
of the program, the calls of VCML, the stages of a call, the task in the worker, the
instructions of `simulate`, the accesses of an instruction, the stages of an access and at last the
loop around `memtask_cv.wait`.  The difficulty lies in the steps of one thread that give
the other one more to do; the places are ordered so that such a step lowers an
earlier one.  In a call inside a transaction, for example, the SystemC thread pushes a task while the
worker is in another one, which is why `Stage` tells nested requests apart; and `LoopLeft` changes
its order once `done` is ready.  `Lower` is the same order spelled out place by place, which is what
the step of each action is shown to do (`StepsLower`).  `LeftCorrect` says that the tuple stays one
of naturals, and `NoEndlessDescent` that it then cannot go down for ever; the bounds `MaxCalls`,
`MaxCycles` and `MaxAccesses` may have any values.  Spurious wakeups are exempt: a
library that wakes a thread again and again may do so for ever.

**Refinement of `CpuApi`.**  Initial states map to initial states, and each action of
`PydrofoilCore` is shown to be a step of `CpuApi` or to leave
the mapped state alone: pushing a task is `Call`, the handler's fulfilment of its
promise is `Serve`, an instruction is `Execute`, the count given to a transaction
`Peek`, and the return from the future `Return`.  This needs `SimInv`: a Simulate
task asks for at least one cycle and the one in the worker is the one that was
asked for (`TaskInv`); the simulator is ahead of `n_cycles` by the
steps of the current task, by at least one once it has begun (`StepsInv`); and
what the caller was told, or will be, is not more than `n_cycles`, which stays below
what VCML has asked for in all (`ToldInv`).

`NoWrap` says that all the cycles VCML can ask for stay below 2^31 in the `int`
`n_cycles`, and that an `int` is not wider than a `u64`.  The 1100 cycles of
`riscv64_ex.cfg` do; without the hypothesis `CycleCountNeverGoesDown` is
false, as `cycle_width` shows.  `~YieldingTransport` is the platform's configuration (its latencies
are zero and its quantum is not): otherwise VCML can make a second call inside `simulate`, which
`CpuApi` does not have.

### The glue code

Assumed: NULL is no handle and no client, `NoObject` is no object, the reset pc is a pc.
Types, `HeldIsAlive` and `CyclesAreOfThisSimulator` need each
other: a step is well typed only if the object of the running `simulate` is
alive, and it is alive because the collector spares an object in use.
`GlueInv` says it all at once: every live object is a good
one (its counter is that of its simulator), a held handle is in
`all_cpu_handles`, and what is there or running is alive.  A lemma for each function on objects shows
that it makes good objects of good ones, and `CallKeeps`, `RaiseKeeps` and `FailedResetKeeps` carry this to the API.

`CallbackGetsItsPayload` is about the step of a callback; the invariant behind it,
`PayloadInv`, is about objects: the functions in every live C object belong to the payload of
its closures, and, unless the last registration failed half way, also to the
payload its simulator was constructed with.

### The test client

`SparseMemProofs` assumes a positive block size, and that 0 is a value.  `MaskOffset` shows that an address is
given by its block and its offset, `Lookup` that with disjoint blocks the search finds the one
block there is.  A write then changes one word of the flat memory, in
an old block (`WriteOld`) or in a new one at the front of the list
(`WriteNew`), where all indices move and all other words must stay.

`TestMainProofs` has the invariant of `main`, statement by statement.  `OwnInv`: from
the allocation on the cpu is the only entry of `all_cpu_handles`, and alive, so
that no later call raises for want of it (it may for other reasons).  `RunInv`: only the two calls of
`simulate` run, on that cpu.  `CountInv`: unless a call has raised, the steps done and the steps left
are those of this run.  `ConfInv`: the verbosity and the pc, from the
statement on that sets them to the first step of the second run, unless that statement has raised.  `ExitInv`: the results `main`
looks at are 0, except after a failed allocation.  `MainUsesSparseMem` shows that what
`main` does to the memory is a behaviour of `SparseMem`, so that the theorems
of `SparseMemProofs` hold of it; this needs that a word of the guest lies inside the memory.
The assumptions of `GlueCode` are those of `TestMain` too (`ApiAssumption`).

`MainUsesApi` does the same for the glue code: each statement of `main`, each step of its guest
and the collector is a step of `GlueCode` or leaves its state alone.  For this `StepsInv` says that
`main` asks for no more steps than `GlueCode` allows (none is allowed there, too).  The theorems of `GlueCodeProofs`
therefore hold of `main` as well.  This last step is left to the reader: tlapm 1.4.5 does not cite
theorems of an instantiated module.

### The processor

The clock and the duration are positive; quanta may be zero, latencies not.
The account of time is inductive with the types of the times (`TimeInv`): `Updated` says that
`update_local_time` moves time from the cycle count to the local time without
changing the sum, `Waited` and `SyncKeeps` that a wait moves it from the local
time to the kernel's.

The other properties need to know where the thread stands.  `ProcInv` has, besides the sizes:

- `CountedInv`: only between `simulate` and `needs_sync` are there cycles that are not yet local time;
- `IdleInv`: without a cpu only idle quanta take time, with one none is idle;
- `MoveInv`: after a `simulate` the account is past the time noted at the begin of the loop, or the quantum
  is zero and there is no cpu; this gives `StuckOnlyAtZero`;
- `AheadInv`: a `simulate` begins within the quantum and asks for cycles that
  reach its end and pass it by less than a cycle (the lemma `RoundedUp`); this gives `RunAheadBounded`;
- `DueInv`: a thread that has waited is due later than now, by at most a quantum and a cycle, and
  one that was due when the simulation was stopped has run.  At the end the account
  therefore gives `InstructionsFillDuration`.

`StepsTowardsEnd` has a tuple, too: whether the simulation still runs or is being stopped, the time
that is left up to a quantum after the duration, the place in the loop, and which threads have run in this delta.  An
instruction, a latency or an idle quantum lowers the second; everything else happens at most
once around the loop.  `MoveInv` gives that the account has moved on when the loop is
back at its begin; `InTime` that it is within that bound whenever
the thread goes on to simulate, so that what it then executes counts (`TimeGoesOn`).  `EndInv` adds what
`ProcInv` does not have: the noted time is a time, without a cpu and with the quantum zero no
time passes at all (then the loop runs towards "stuck in time"), and the timeout runs once.

### Only model-checked

`SimulateReturnsOrHangs`, `SleeperIsWoken`, `ShutsDownOrHangs` and `SimulationEnds`, because fairness is
outside the prover's reach, and `HangsAreKnown`, because it uses ENABLED.  Most of their argument is
proved: `StepsMakeProgress` and `StepsTowardsEnd`, with `NoEndlessDescent`, say that a run of steps
comes to an end, and `StandstillIsKnown` what a state is like in which both threads wait.
TLC's part is that a thread that does not wait has a step (`HangsAreKnown`) and that, being fair,
it takes it.  The violated properties are refuted by TLC's counterexamples.

## 5. Not modelled

- SystemC, mwr and VCML are vendored.  VCML appears as the caller of the core
  and, in `Processor`, with its quantum loop; its bus and memories appear as words that
  are mapped or not, and their latencies as the switch `YieldingTransport` and as `Latencies`.
- Of the processor: the asynchronous loop (`async` is off), single
  steps, breakpoints and the suspend protocol of the debug servers, which need a
  configured port; standby while the clock is off or reset is held, which this
  platform never does.  Of the suspend protocol the core meets only the register
  reads, which `PydrofoilCore` has, also inside a transaction.
- `Processor` takes the cycle count as unbounded; its width is the subject of
  `cycle_width`.
- Callbacks made while `reset()` constructs a simulator are in `PydrofoilCore` (SetCb), not in
  `GlueCode`, where they would get the function and payload just given.
- The argument check of `testmain.c`, and a negative number of steps.
- The loader and the images in memory, sockets, clock and reset wiring: they do not
  meet the core's state.
- `set_pc` and `get_dmi_ptr` are never called; `reset` is empty; `use_dmi` and
  `dmi_cache` are used in comments only.  Register accesses other than register
  0 with 8 bytes return false at once.
- Sizes of accesses: the glue code always passes 8.
- The simulator's instructions: an instruction is up to `MaxAccesses` data
  accesses and any next pc.
- An exception in the worker other than Python's (`std::bad_alloc`) and the failure of
  `std::thread` to start.

## 6. What is left

The parts of the repository's own code that keep state are modelled.  Of the properties of the
passing runs, all are proved except the four liveness properties and `HangsAreKnown`.  When one of the faults of section 3 is mended,
its violated property belongs into `core` or `gluecode`, and what is
proved with an exception (`CoherentUnlessDropped`, `IgnoredOnlyEarly`, `StandstillIsKnown`,
`CallbackGetsItsPayload`) can be stated without it.
