---------------------------- MODULE PydrofoilCore ----------------------------
(***************************************************************************)
(* The CPU model of the virtual platform: sysc_vp/src/core.cpp,            *)
(* python_tasks.cpp and memory_callbacks.cpp.                              *)
(*                                                                         *)
(* Two threads.  The SystemC thread (location spc) runs VCML, which calls  *)
(* the methods of PydrofoilCore.  The worker (location wpc) is the only    *)
(* thread that may call the Python simulator.  A method puts a PythonTask  *)
(* into task_queue and waits for the task's promise.  While the worker is  *)
(* inside pydrofoil_cpu_simulate the roles turn round: the callbacks       *)
(* read_mem and write_mem put a MemAccess into memtask_queue and wait for  *)
(* the SystemC thread, which serves it from the loop in simulate.          *)
(*                                                                         *)
(* A critical section is one step when all it touches is protected by its  *)
(* mutex.  The exception is the predicate of memtask_cv.wait, which also   *)
(* reads a future the mutex does not protect: it takes several steps, and  *)
(* the SystemC thread owns memtask_mutex between them (MemMutexFree).      *)
(***************************************************************************)
EXTENDS Integers, Sequences

CONSTANTS
    MaxCalls,          \* bound: calls VCML makes while the simulation runs
    MaxCycles,         \* bound: cycles of one simulate call
    MaxAccesses,       \* bound: data accesses of one instruction
    INT_MOD, U64_MOD,  \* 2^w of the C types int and u64
    BOOT_LO, BOOT_HI, SRAM_LO, SRAM_HI,  \* system.h: the memory map
    WIN_HI,            \* memory_callbacks.cpp: the last address forwarded
    Addr, Data,        \* addresses and values of the guest's accesses
    FILL,              \* the pattern of the memset in simulate
    PCs, RESET_PC, CFG_PC,   \* program counters; after reset; configured
    AllocMayFail,      \* pydrofoil_allocate_cpu may return NULL
    SimMayRaise,       \* so may register accesses and the reset of a live cpu
    YieldingTransport  \* a transaction may take simulated time

ASSUME BoundsAssumption ==
    MaxCalls \in Nat /\ MaxCycles \in Nat /\ MaxAccesses \in Nat
ASSUME WidthAssumption == INT_MOD \in Nat \ {0} /\ U64_MOD \in Nat \ {0}
ASSUME MapAssumption ==
    /\ BOOT_LO \in Nat /\ BOOT_HI \in Nat /\ SRAM_LO \in Nat /\ SRAM_HI \in Nat
    /\ WIN_HI \in Nat /\ Addr \subseteq Nat /\ BOOT_LO \in Addr
ASSUME ValueAssumption ==
    /\ Data \subseteq Nat /\ 0 \in Data /\ FILL \in Nat
    /\ PCs \subseteq Nat /\ RESET_PC \in PCs /\ CFG_PC \in PCs
ASSUME SwitchAssumption ==
    AllocMayFail \in BOOLEAN /\ SimMayRaise \in BOOLEAN /\ YieldingTransport \in BOOLEAN

VARIABLES
    spc, phase, call, calls,        \* the SystemC thread and what it is doing
    task_queue, done, simdone,      \* tasks; the two futures callers wait for
    sim_started, n_cycles, stop_worker, cpu,     \* fields of PydrofoilCore
    memtask_queue, cur, mres,       \* accesses; the one served; its promise
    dest, mem,                      \* C.mem of gluecode.py; RAM and boot RAM
    wpc, wtask, wleft, wacc,        \* the worker, its task and its progress
    steps, isspc, connected,        \* the simulator: C.steps, its pc, callbacks or not
    last_count, shadow, dropped     \* history (see the properties)

client == <<phase, call, calls>>
tasks == <<task_queue, done, simdone>>
fields == <<sim_started, n_cycles, stop_worker, cpu>>
memtasks == <<memtask_queue, cur, mres>>
memory == <<dest, mem>>
iss == <<steps, isspc, connected>>
worker == <<wtask, wleft, wacc, iss>>
ghosts == <<last_count, shadow, dropped>>
vars == <<spc, wpc, client, tasks, fields, memtasks, memory, worker, ghosts>>
-----------------------------------------------------------------------------
(* Types, conversions and guards.  A definition whose comment begins with  *)
(* "fault:" is a seeded fault of the definition after it; no action uses it.*)

NotReady == -1      \* a future whose promise has not been fulfilled

Funct == {"Init", "SetCb", "Simulate", "GetCycles", "SetPc", "ReadPc", "FreeCpu"}
Task == [fn : Funct, arg : Nat]
Access == [rw : {"Read"}, addr : Addr, val : {0}]
              \cup [rw : {"Write"}, addr : Addr, val : Data]
NoAccess == [rw |-> "Read", addr |-> BOOT_LO, val |-> 0]
Phases == {"ctor", "define", "flush", "setcb", "run", "report", "dtor"}

\* The conversion of a uint64_t to int, and of an int back to u64.
\* fault: a narrower n_cycles
ToShort(n) == n % (INT_MOD \div 8)
ToInt(n) == LET m == n % INT_MOD IN IF 2 * m < INT_MOD THEN m ELSE m - INT_MOD
ToU64(i) == i % U64_MOD

\* The early returns at the head of read_mem and write_mem.
\* fault: the last address of the boot RAM is left out
InShortWindow(a) ==
    ~(a < SRAM_LO /\ a >= BOOT_HI) /\ ~(a > WIN_HI \/ a < BOOT_LO)
InWindow(a) ==
    ~(a < SRAM_LO /\ a > BOOT_HI) /\ ~(a > WIN_HI \/ a < BOOT_LO)
\* fault: accesses are forwarded whatever sim_started says
FilteredOnly(q) == ~InWindow(q.addr)
Ignored(q) == ~InWindow(q.addr) \/ ~sim_started

\* What the bus decodes: boot RAM and RAM.
Mapped(a) == a \in BOOT_LO .. BOOT_HI \/ a \in SRAM_LO .. SRAM_HI
MappedAddr == {a \in Addr : Mapped(a)}

Live == cpu = "live"

\* memtask_mutex is owned by the SystemC thread between the steps of
\* memtask_cv.wait's predicate.
\* fault: the callbacks push without the mutex
NoMutex == TRUE
MemMutexFree == spc \notin {"pred", "block"}

\* notify_one(): a thread that does not wait is not affected.
\* fault: no notify_one
NotWoken(loc) == loc
Woken(loc) == IF loc = "blocked" THEN "lock" ELSE loc

\* A task comes with a promise of its own.
\* fault: the promise of the last call is used again
OldPromise(f) == f
NewPromise(f) == NotReady

\* get() and wait_for() on a future; res.get() in the callbacks; join().
\* fault: the three do not wait
ReadyAlways(f) == TRUE
Ready(f) == f # NotReady
AnsweredAlways == TRUE
Answered == mres # "none"
WorkerDetached == TRUE
WorkerGone == wpc = "exit"

Init ==
    /\ spc = "idle" /\ phase = "ctor"
    /\ call = [fn |-> "Init", arg |-> 0] /\ calls = 0
    /\ task_queue = <<>> /\ done = NotReady /\ simdone = NotReady
    /\ sim_started = FALSE /\ n_cycles = 0 /\ stop_worker = FALSE
    /\ cpu = "unset"
    /\ memtask_queue = <<>> /\ cur = NoAccess /\ mres = "none"
    /\ dest = 0 /\ mem = [a \in MappedAddr |-> 0]
    /\ wpc = "lock" /\ wtask = [fn |-> "Init", arg |-> 0]
    /\ wleft = 0 /\ wacc = 0
    /\ steps = 0 /\ isspc = RESET_PC /\ connected = FALSE
    /\ last_count = 0 /\ shadow = mem /\ dropped = FALSE
-----------------------------------------------------------------------------
(* The SystemC thread: requests to the worker.                             *)

SGoto(to) ==
    /\ spc' = to
    /\ UNCHANGED <<wpc, client, tasks, fields, memtasks, memory, worker, ghosts>>

\* Make a PythonTask with a promise and push it under task_mutex.
Push(f, a) ==
    /\ call' = [fn |-> f, arg |-> a]
    /\ task_queue' = Append(task_queue, call')
    /\ IF f = "Simulate"
         THEN simdone' = NewPromise(simdone) /\ UNCHANGED done
         ELSE done' = NewPromise(done) /\ UNCHANGED simdone

\* A blocking request made at location `from'; notify_one and get follow.
Request(from, f, a) ==
    /\ spc = from /\ spc' = "notify"
    /\ Push(f, a)
    /\ UNCHANGED <<wpc, phase, sim_started, n_cycles, cpu, memtasks, memory,
                   worker, ghosts>>

\* A request that is the whole of a phase, and one of VCML's calls.
PhaseRequest(p, f, a) ==
    phase = p /\ Request("idle", f, a) /\ UNCHANGED <<calls, stop_worker>>
RunRequest(f, a) ==
    /\ phase = "run" /\ calls < MaxCalls /\ calls' = calls + 1
    /\ Request("idle", f, a) /\ UNCHANGED stop_worker

\* The constructor asks for a cpu; define_cpureg_rw then reads the pc.
Construct == PhaseRequest("ctor", "Init", 0)
define_cpureg == PhaseRequest("define", "ReadPc", 0)

\* processor::before_end_of_elaboration flushes the configured registers.
flush_cpuregs == PhaseRequest("flush", "SetPc", CFG_PC)
end_of_elaboration == PhaseRequest("setcb", "SetCb", 0)

read_reg_dbg == RunRequest("ReadPc", 0)
write_reg_dbg(v) == RunRequest("SetPc", v)

\* cycle_count: while simulate runs it returns the cached n_cycles, and the
\* caller goes on at location `to'; otherwise it asks the worker.
CachedCount(from, to) ==
    /\ spc = from /\ sim_started
    /\ last_count' = ToU64(n_cycles)
    /\ spc' = to
    /\ UNCHANGED <<wpc, call, calls, tasks, fields, memtasks, memory, worker,
                   shadow, dropped>>
cycle_count == ~sim_started /\ RunRequest("GetCycles", 0)

\* Simulation ends (duration reached, or a request to quit), vcml::system::run
\* returns, and system::run reports the number of instructions.
sc_stop ==
    /\ spc = "idle" /\ phase = "run" /\ phase' = "report"
    /\ UNCHANGED <<spc, wpc, call, calls, tasks, fields, memtasks, memory,
                   worker, ghosts>>
report ==
    \/ ~sim_started /\ PhaseRequest("report", "GetCycles", 0)
    \/ phase = "report" /\ CachedCount("idle", "idle") /\ phase' = "dtor"

\* The destructor.  Without a cpu it goes straight to join.
Destroy ==
    \/ /\ phase = "dtor" /\ cpu # "null"
       /\ Request("idle", "FreeCpu", 0)
       /\ stop_worker' = TRUE /\ UNCHANGED calls
    \/ phase = "dtor" /\ cpu = "null" /\ spc = "idle" /\ SGoto("join")
join == spc = "join" /\ WorkerGone /\ SGoto("gone")

\* task_cv.notify_one()
NotifyTask ==
    /\ spc = "notify"
    /\ spc' = IF call.fn = "Simulate" THEN "while" ELSE "get"
    /\ wpc' = Woken(wpc)
    /\ UNCHANGED <<client, tasks, fields, memtasks, memory, worker, ghosts>>

\* What the platform does after a call: the constructor, elaboration, the
\* simulation, the report of system::run, the destructor.
AfterCall(p) ==
    CASE p = "ctor" -> "define"
      [] p = "define" -> "flush"
      [] p = "flush" -> "setcb"
      [] p \in {"setcb", "run"} -> "run"
      [] p \in {"report", "dtor"} -> "dtor"

\* done.get()
Get ==
    /\ spc = "get" /\ Ready(done)
    /\ spc' = CASE phase = "dtor" -> "join"
                [] phase # "dtor" /\ sim_started -> "xfer"
                [] OTHER -> "idle"
    /\ phase' = AfterCall(phase)
    /\ last_count' = IF call.fn = "GetCycles" THEN done ELSE last_count
    /\ UNCHANGED <<wpc, call, calls, tasks, fields, memtasks, memory, worker,
                   shadow, dropped>>
-----------------------------------------------------------------------------
(* The SystemC thread: simulate.                                           *)

simulate(n) ==
    /\ spc = "idle" /\ phase = "run" /\ calls < MaxCalls
    /\ Push("Simulate", n)
    /\ spc' = "pushed" /\ calls' = calls + 1
    /\ UNCHANGED <<phase, wpc, fields, memtasks, memory, worker, ghosts>>

SetSimStarted(b, to) ==
    /\ sim_started' = b /\ spc' = to
    /\ UNCHANGED <<wpc, client, tasks, n_cycles, stop_worker, cpu, memtasks,
                   memory, worker, ghosts>>

\* sim_started = true, after task_mutex has been released.
\* fault: sim_started is not set
StartUnset == spc = "pushed" /\ SGoto("notify")
StartSim == spc = "pushed" /\ SetSimStarted(TRUE, "notify")

\* The condition of the while loop, and the statement after the loop.
While ==
    \/ spc = "while" /\ Ready(simdone) /\ SetSimStarted(FALSE, "idle")
    \/ spc = "while" /\ ~Ready(simdone) /\ SGoto("lock")

\* Lock memtask_mutex and look at the queue: pop an access, or go on to the
\* second half of the wait's predicate.
LockMem ==
    \/ /\ spc = "lock" /\ memtask_queue # <<>>
       /\ cur' = Head(memtask_queue) /\ memtask_queue' = Tail(memtask_queue)
       /\ spc' = "serve"
       /\ UNCHANGED <<wpc, client, tasks, fields, mres, memory, worker, ghosts>>
    \/ spc = "lock" /\ memtask_queue = <<>> /\ SGoto("pred")

\* The second half: is done ready?  Then `continue', else wait: release the
\* mutex and block in one step.
PredDone ==
    \/ spc = "pred" /\ Ready(simdone) /\ SGoto("while")
    \/ spc = "pred" /\ ~Ready(simdone) /\ SGoto("block")
\* fault: the wait does not block
BlockMemSpins == spc = "block" /\ SGoto("lock")
BlockMem == spc = "block" /\ SGoto("blocked")

\* data.read and data.write ask the processor for its local time, which asks
\* for the cycle count, and then move the data.  The memset follows every read.
CountBeforeTransport == CachedCount("serve", "xfer") /\ UNCHANGED phase
Placeholder(v) == FILL
Transport ==
    /\ spc = "xfer" /\ spc' = "while"
    /\ dest' = IF cur.rw = "Read"
                 THEN Placeholder(IF Mapped(cur.addr) THEN mem[cur.addr] ELSE dest)
                 ELSE dest
    /\ mem' = IF cur.rw = "Write" /\ Mapped(cur.addr)
                THEN [mem EXCEPT ![cur.addr] = cur.val] ELSE mem
    /\ mres' = IF Mapped(cur.addr) THEN "ok" ELSE "fail"
    /\ cur' = NoAccess
    /\ UNCHANGED <<wpc, client, tasks, fields, memtask_queue, worker, ghosts>>

\* A transaction whose latency exceeds the quantum calls sync(), and other
\* SystemC processes run: a debugger's suspend request reads the registers
\* (session_suspend), or the simulation stops and never comes back here.
SuspendInTransport ==
    /\ YieldingTransport /\ phase = "run"
    /\ Request("xfer", "ReadPc", 0) /\ UNCHANGED <<calls, stop_worker>>
StopInTransport ==
    /\ YieldingTransport /\ phase = "run" /\ spc = "xfer"
    /\ phase' = "report" /\ spc' = "idle"
    /\ UNCHANGED <<wpc, call, calls, tasks, fields, memtasks, memory, worker,
                   ghosts>>
-----------------------------------------------------------------------------
(* The worker: python_worker_loop and the handlers.                        *)

python_worker_loop ==
    /\ wpc = "lock"
    /\ IF task_queue # <<>>
         THEN /\ wtask' = Head(task_queue) /\ task_queue' = Tail(task_queue)
              /\ wpc' = "run"
         ELSE /\ wpc' = IF stop_worker THEN "exit" ELSE "blocked"
              /\ UNCHANGED <<wtask, task_queue>>
    /\ UNCHANGED <<spc, client, done, simdone, fields, memtasks, memory,
                   wleft, wacc, iss, ghosts>>

\* A handler ends: it fulfils the promise and the worker takes the next task.
Answer(v) ==
    /\ done' = v /\ wpc' = "lock"
    /\ UNCHANGED <<spc, client, task_queue, simdone, sim_started, stop_worker,
                   memtasks, memory, wtask, wleft, wacc, ghosts>>
Handling(f) == wpc = "run" /\ wtask.fn = f
\* C.reset: a new simulator, which has the callbacks if there are any (b).
ResetIss(b) == steps' = 0 /\ isspc' = RESET_PC /\ connected' = b

\* A call of the simulator of a live cpu comes to v, or to e if it raises.
MayRaise(v, e) == {v} \cup (IF SimMayRaise THEN {e} ELSE {})

\* pydrofoil_cpu_cycles, stored in the int n_cycles.  Here and below a Python
\* function raises on a NULL handle, and the C caller sees 0.
\* fault: n_cycles is not refreshed
NoRefresh == UNCHANGED n_cycles
Refresh == n_cycles' = IF Live THEN ToInt(steps) ELSE 0

\* pydrofoil_allocate_cpu makes a C object, whose simulator is in its reset
\* state; an exception in it becomes a NULL result.
InitCpu ==
    /\ Handling("Init") /\ Answer(0)
    /\ cpu' \in {"live"} \cup (IF AllocMayFail THEN {"null"} ELSE {})
    /\ ResetIss(FALSE) /\ UNCHANGED n_cycles

GetCycles ==
    /\ Handling("GetCycles") /\ Refresh /\ Answer(ToU64(n_cycles'))
    /\ UNCHANGED <<cpu, iss>>
SetPc ==
    /\ Handling("SetPc") /\ Answer(1)
    /\ isspc' \in IF Live THEN MayRaise(wtask.arg, isspc) ELSE {isspc}
    /\ UNCHANGED <<cpu, n_cycles, steps, connected>>
ReadPc ==
    /\ Handling("ReadPc")
    /\ \E v \in IF Live THEN MayRaise(isspc, 0) ELSE {0} : Answer(v)
    /\ UNCHANGED <<cpu, n_cycles, iss>>
FreeCpu ==
    /\ Handling("FreeCpu") /\ Answer(0) /\ cpu' = "freed"
    /\ UNCHANGED <<n_cycles, iss>>

\* _set_callbacks makes a new buffer, and then reset() makes a new simulator,
\* which may already use the callbacks (location "exec").  If reset() raises, the
\* old simulator stays, which has no callbacks and keeps its memory to itself.
SetCb ==
    \/ /\ Handling("SetCb") /\ Live
       /\ dest' = 0 /\ wacc' = 0 /\ wpc' = "exec"
       /\ UNCHANGED <<spc, client, tasks, fields, memtasks, mem, wtask, wleft,
                      iss, ghosts>>
    \/ /\ Handling("SetCb") /\ ~Live /\ Answer(0)
       /\ UNCHANGED <<cpu, n_cycles, iss>>
SetCbEnd ==
    /\ wpc = "exec" /\ wtask.fn = "SetCb" /\ Answer(0)
    /\ ResetIss(TRUE) \/ (SimMayRaise /\ UNCHANGED iss)
    /\ UNCHANGED <<cpu, n_cycles>>

Simulate ==
    /\ Handling("Simulate") /\ wpc' = "step"
    /\ wleft' = IF Live THEN wtask.arg ELSE 0
    /\ UNCHANGED <<spc, client, tasks, fields, memtasks, memory, wtask, wacc,
                   iss, ghosts>>

\* One iteration of the loop in pydrofoil_cpu_simulate: C.step counts first
\* and executes then, which goes on in location "exec".
\* fault: one iteration too many
StepLeftOrZero == wleft >= 0
StepLeft == wleft > 0
Step ==
    /\ wpc = "step" /\ StepLeft /\ wpc' = "exec"
    /\ steps' = steps + 1 /\ isspc' \in PCs
    /\ wleft' = wleft - 1 /\ wacc' = 0
    /\ UNCHANGED <<spc, client, tasks, fields, memtasks, memory, wtask, connected,
                   ghosts>>

\* The instruction ends, or an error of the simulator ends simulate with it.
StepEnd ==
    /\ wpc = "exec" /\ wtask.fn = "Simulate" /\ wpc' = "step"
    /\ wleft' \in {wleft, 0}
    /\ UNCHANGED <<spc, client, tasks, fields, memtasks, memory, wtask, wacc, iss,
                   ghosts>>

\* The rest of the handler: refresh n_cycles, fulfil the promise ...
SimulateEnd ==
    /\ wpc = "step" /\ wleft = 0 /\ wpc' = "simnotify"
    /\ Refresh /\ simdone' = 0
    /\ UNCHANGED <<spc, client, task_queue, done, sim_started, stop_worker,
                   cpu, memtasks, memory, worker, ghosts>>

\* ... and memtask_cv.notify_one(), without memtask_mutex.
NotifyMem(at, to) ==
    /\ wpc = at /\ wpc' = to
    /\ spc' = Woken(spc)
    /\ UNCHANGED <<client, tasks, fields, memtasks, memory, worker, ghosts>>
SimulateNotify == NotifyMem("simnotify", "lock")
-----------------------------------------------------------------------------
(* The worker: the callbacks read_mem and write_mem.                       *)

\* History: shadow is the memory as the guest's stores want it to be.
GuestStore(q) == wtask.fn = "Simulate" /\ q.rw = "Write" /\ Mapped(q.addr)
Intend(q) == shadow' = IF GuestStore(q)
                         THEN [shadow EXCEPT ![q.addr] = q.val] ELSE shadow

\* The simulator has callbacks, or is being made with them.
CallsBack ==
    wpc = "exec" /\ (connected \/ wtask.fn = "SetCb") /\ wacc < MaxAccesses

\* The early returns.  A read outside the window gives 0; an access while
\* sim_started is false leaves the caller's buffer as it is.
Ignore(q) ==
    /\ CallsBack /\ wacc' = wacc + 1 /\ Ignored(q)
    /\ dest' = IF q.rw = "Read" /\ ~InWindow(q.addr) THEN 0 ELSE dest
    /\ Intend(q)
    /\ dropped' = (dropped \/ (GuestStore(q) /\ ~sim_started))
    /\ UNCHANGED <<spc, wpc, client, tasks, fields, memtasks, mem, wtask,
                   wleft, iss, last_count>>

\* Push the access under memtask_mutex, then notify, then wait for the result.
Forward(q) ==
    /\ CallsBack /\ wacc' = wacc + 1 /\ ~Ignored(q) /\ MemMutexFree
    /\ memtask_queue' = Append(memtask_queue, q) /\ mres' = "none"
    /\ wpc' = "mnotify"
    /\ Intend(q)
    /\ UNCHANGED <<spc, client, tasks, fields, cur, memory, wtask, wleft,
                   iss, last_count, dropped>>
ForwardNotify == NotifyMem("mnotify", "mget")

\* return res.get()? 0:1 -- after a failure the Python caller's assertion
\* raises, and the exception ends pydrofoil_cpu_simulate.
Resume ==
    /\ wpc = "mget" /\ Answered /\ mres' = "none"
    /\ wpc' = IF mres = "fail" THEN "step" ELSE "exec"
    /\ wleft' = IF mres = "fail" THEN 0 ELSE wleft
    /\ UNCHANGED <<spc, client, tasks, fields, memtask_queue, cur, memory,
                   wtask, wacc, iss, ghosts>>
-----------------------------------------------------------------------------
(* Spurious wakeups, the next-state relation and fairness.                 *)

SpuriousTask ==
    /\ wpc = "blocked" /\ wpc' = "lock"
    /\ UNCHANGED <<spc, client, tasks, fields, memtasks, memory, worker, ghosts>>
SpuriousMem == spc = "blocked" /\ SGoto("lock")

Elaborate == Construct \/ define_cpureg \/ flush_cpuregs \/ end_of_elaboration
Run == \/ cycle_count \/ read_reg_dbg
       \/ \E v \in PCs : write_reg_dbg(v)
       \/ \E n \in 1 .. MaxCycles : simulate(n)
Finish == sc_stop \/ report \/ Destroy \/ join
Serve == \/ StartSim \/ While \/ LockMem \/ PredDone \/ BlockMem
         \/ CountBeforeTransport \/ Transport
         \/ SuspendInTransport \/ StopInTransport
SysC == Elaborate \/ Run \/ Finish \/ NotifyTask \/ Get \/ Serve

Handle == \/ InitCpu \/ SetCb \/ SetCbEnd \/ GetCycles \/ SetPc \/ ReadPc
          \/ FreeCpu \/ Simulate \/ Step \/ StepEnd \/ SimulateEnd
          \/ SimulateNotify
Callback == \/ \E q \in Access : Ignore(q) \/ Forward(q)
            \/ ForwardNotify \/ Resume
Worker == python_worker_loop \/ Handle \/ Callback

Next == SysC \/ Worker \/ SpuriousTask \/ SpuriousMem

Spec == Init /\ [][Next]_vars

\* Both are threads of the operating system, so each runs again and again;
\* nothing promises a spurious wakeup.
FairSpec == Spec /\ WF_vars(SysC) /\ WF_vars(Worker)
-----------------------------------------------------------------------------
(* Properties.                                                             *)

SLocations == {"idle", "pushed", "notify", "get", "while", "lock", "pred",
               "block", "blocked", "serve", "xfer", "join", "gone"}
WLocations == {"lock", "blocked", "run", "step", "exec", "mnotify", "mget",
               "simnotify", "exit"}

\* Type invariant of the fields of PydrofoilCore, the two queues and the two
\* threads: core.h.
TypeOK ==
    /\ spc \in SLocations /\ phase \in Phases
    /\ call \in Task /\ calls \in 0 .. MaxCalls
    /\ task_queue \in Seq(Task)
    /\ done \in Nat \cup {NotReady} /\ simdone \in {0, NotReady}
    /\ sim_started \in BOOLEAN /\ n_cycles \in Int /\ stop_worker \in BOOLEAN
    /\ cpu \in {"unset", "null", "live", "freed"}
    /\ memtask_queue \in Seq(Access) /\ cur \in Access
    /\ mres \in {"none", "ok", "fail"}
    /\ dest \in Data \cup {FILL}
    /\ mem \in [MappedAddr -> Data]
    /\ wpc \in WLocations /\ wtask \in Task
    /\ wleft \in Nat /\ wacc \in 0 .. MaxAccesses
    /\ steps \in Nat /\ isspc \in Nat /\ connected \in BOOLEAN
    /\ last_count \in Nat /\ shadow \in [MappedAddr -> Data]
    /\ dropped \in BOOLEAN

\* The worker is inside a callback and waits for the result of an access.
Waiting == wpc \in {"mnotify", "mget"}

\* task_queue "should only have one element" (core.h), and the worker has at
\* most one access under way.
QueuesBounded == Len(task_queue) <= 1 /\ Len(memtask_queue) <= 1

\* While the SystemC thread serves an access, the worker is parked in the
\* callback, so that n_cycles, the buffer and the simulator, none of which a
\* mutex protects, are not used by both threads at once.
ServeExcludesWorker == spc \in {"serve", "xfer"} => Waiting

\* The two threads wait for each other (SystemC for a Python task, the worker
\* for an access) only if a transaction let other SystemC processes run: the
\* guards on sim_started in cycle_count and in the callbacks prevent every
\* other circular wait.
EmbraceOnlyByYield ==
    spc \in {"notify", "get"} /\ call.fn # "Simulate" /\ Waiting
        => YieldingTransport /\ sim_started

\* A result is still right when its caller gets it: nothing happens to the
\* simulator between a handler's answer and done.get().  A register access that
\* raises is the exception: a pc of 0 is read, and a write that had no effect is
\* answered with 1, as is one that had.
AnswersAreCurrent ==
    spc = "get" /\ done # NotReady /\ Live =>
        /\ call.fn = "GetCycles" => done = ToU64(ToInt(steps))
        /\ call.fn = "ReadPc" => done \in MayRaise(isspc, 0)
        /\ call.fn = "SetPc" => done = 1 /\ call.arg \in MayRaise(isspc, call.arg)

\* Between calls the cached n_cycles, which cycle_count returns during the next
\* simulate, is the simulator's counter, and no access is left over.
QuietBetweenCalls ==
    spc = "idle" /\ phase = "run" =>
        /\ Live => n_cycles = ToInt(steps)
        /\ memtask_queue = <<>> /\ mres = "none" /\ ~Waiting
        /\ ~sim_started

\* Between instructions the memory of the platform holds what the guest has
\* stored, unless a store was made before sim_started was set.
CoherentUnlessDropped == wpc = "step" /\ ~dropped => mem = shadow

\* No task is run on a handle that pydrofoil_free_cpu has removed, and the
\* worker is gone when the object is.
NoUseAfterFree ==
    /\ cpu = "freed" => wpc \notin {"run", "step", "exec", "mnotify", "mget"}
    /\ spc = "gone" => wpc = "exit" /\ task_queue = <<>>

\* The core keeps the promise of CpuApi if no transaction may yield: each
\* call takes effect once, in the worker, between its push and its return, and
\* the count the caller is told during simulate is the one simulate began with.
Busy == spc \notin {"idle", "join", "gone"}
Api == INSTANCE CpuApi WITH
         count <- n_cycles, pc <- isspc, seen <- last_count, Seen <- ToU64,
         req <- IF Busy THEN call ELSE [fn |-> "none", arg |-> 0],
         reply <- IF ~Busy THEN NotReady
                  ELSE IF call.fn = "Simulate" THEN simdone ELSE done
RefinesCpuApi == Api!Spec

\* The ways in which the program can stand still: it has ended; the wakeup at
\* the end of a simulate was lost; there is no cpu, so nobody stops the
\* worker that the destructor joins; a transaction yielded.
Ended == spc = "gone"
LostWakeup == spc = "blocked" /\ simdone # NotReady /\ wpc \in {"lock", "blocked"}
JoinWithoutCpu == spc = "join" /\ cpu = "null" /\ wpc \in {"lock", "blocked"}
Embrace == spc \in {"notify", "get"} /\ sim_started /\ wpc = "mget"

KnownHang == Ended \/ LostWakeup \/ JoinWithoutCpu \/ Embrace

\* Where a thread has to wait for the other one, or is at its end: get(), the
\* two condition variables, join(), res.get().
SysCWaits ==
    \/ spc = "get" /\ ~Ready(done)
    \/ spc = "join" /\ ~WorkerGone
    \/ spc \in {"blocked", "gone"}
WorkerWaits ==
    \/ wpc \in {"blocked", "exit"}
    \/ wpc = "mget" /\ ~Answered

\* Both threads wait at once only in the known ways: no other order of their
\* steps (core.cpp, python_tasks.cpp, memory_callbacks.cpp) deadlocks.
StandstillIsKnown == SysCWaits /\ WorkerWaits => KnownHang

\* Every state without a next step is one in which both threads wait at one of
\* those places, and one of the known hangs.
HangsAreKnown ==
    ~ENABLED (SysC \/ Worker) => SysCWaits /\ WorkerWaits /\ KnownHang

\* A thread that sleeps although there is work for it will be notified: the
\* other one is between its push and its notify_one.  Here memtask_mutex
\* matters: a callback cannot push between the predicate and the wait.
WakeupsArePending ==
    /\ wpc = "blocked" /\ (task_queue # <<>> \/ stop_worker)
         => spc \in {"pushed", "notify"}
    /\ spc = "blocked" /\ memtask_queue # <<>> => wpc = "mnotify"

\* An access to the boot RAM or the RAM is ignored only while the callbacks are
\* being set, or by a worker that is ahead of sim_started = true in simulate.
IgnoredOnlyEarly ==
    [][\A q \in Access : Ignore(q) /\ InWindow(q.addr)
          => wtask.fn = "SetCb" \/ spc = "pushed"]_vars

\* Every simulate call returns, or its wakeup is lost, or a transaction yields
\* and the embrace follows.
SimulateReturnsOrHangs ==
    spc = "pushed" ~> (spc = "idle" \/ LostWakeup \/ Embrace)

\* A caller that already sleeps when the worker fulfils the promise of its
\* simulate is woken by the notify that follows, and its simulate returns.
\* (The worker may come to that notify so late that the caller already sleeps
\* in its next simulate: then simdone is not ready, and the wakeup is idle.)
SleeperIsWoken ==
    spc = "blocked" /\ wpc = "simnotify" /\ simdone # NotReady ~> spc = "idle"

\* The platform shuts down, unless it hangs in one of the known ways.
ShutsDownOrHangs == <>KnownHang

\* processor::update_local_time: "cycle count goes down" is an error.
CycleCountNeverGoesDown == [][last_count' >= last_count]_last_count

\* core.h: simulate "gets repeatedly called by the processor class": every
\* call returns.
SimulateReturns == spc = "pushed" ~> spc = "idle"

\* system.h: a store "calls the write callback and writes the value [...] in
\* the SystemC memory".
GuestStoresReachMemory == wpc = "step" => mem = shadow

\* riscv64_ex.cfg: system.core.pc configures the pc the core starts at.
StartsAtConfiguredPc ==
    spc = "idle" /\ phase = "run" /\ calls = 0 /\ Live => isspc = CFG_PC

\* The destructor comes to its end (testmain.c: pydrofoil_allocate_cpu may
\* fail, and the program then exits).
DestructorReturns == spc = "join" ~> spc = "gone"
-----------------------------------------------------------------------------
(* The inductive invariant: the four situations the two threads can be in, *)
(* where the current task is in each, and where the current access is.     *)

Rest == wpc \in {"lock", "blocked", "simnotify", "exit"}
BusyCall ==
    /\ wtask.fn # "Simulate" /\ wpc \in {"run", "exec"}
    /\ wpc = "exec" => wtask.fn = "SetCb"
BusySim ==
    wtask.fn = "Simulate" /\ wpc \in {"run", "step", "exec", "mnotify", "mget"}

\* No task is under way.
Quiet ==
    /\ spc \in {"idle", "join", "gone"}
    /\ ~sim_started /\ task_queue = <<>> /\ Rest

\* A blocking call: its task is queued, or being handled, or answered.
InCall ==
    /\ spc \in {"notify", "get"} /\ call.fn # "Simulate" /\ ~sim_started
    /\ \/ task_queue = <<call>> /\ Rest /\ done = NotReady
       \/ task_queue = <<>> /\ BusyCall /\ wtask = call /\ done = NotReady
       \/ task_queue = <<>> /\ Rest /\ done # NotReady

\* simulate: the same three places.
InSim ==
    /\ spc \in {"pushed", "notify", "while", "lock", "pred", "block", "blocked",
               "serve", "xfer"}
    /\ call.fn = "Simulate" /\ phase = "run"
    /\ sim_started <=> spc # "pushed"
    /\ \/ task_queue = <<call>> /\ Rest /\ simdone = NotReady
       \/ task_queue = <<>> /\ BusySim /\ simdone = NotReady
       \/ task_queue = <<>> /\ Rest /\ simdone # NotReady

\* A transaction yielded: the worker waits for an answer that will not come.
Stuck ==
    /\ YieldingTransport /\ sim_started /\ Waiting
    /\ memtask_queue = <<>> /\ mres = "none"
    /\ \/ spc = "idle" /\ task_queue = <<>> /\ phase \in {"report", "dtor"}
       \/ /\ spc \in {"notify", "get"} /\ call.fn # "Simulate"
          /\ task_queue = <<call>> /\ done = NotReady

\* The access of a waiting worker is queued, or with the SystemC thread, or
\* answered.
AccessInv ==
    IF Waiting
      THEN /\ wtask.fn = "Simulate" /\ sim_started
           /\ \/ /\ Len(memtask_queue) = 1 /\ mres = "none"
                 /\ spc \notin {"serve", "xfer"}
              \/ /\ memtask_queue = <<>> /\ mres = "none"
                 /\ spc \in {"serve", "xfer"} \/ Stuck
              \/ /\ memtask_queue = <<>> /\ mres # "none"
                 /\ spc \notin {"serve", "xfer"}
      ELSE /\ memtask_queue = <<>> /\ mres = "none"
           /\ spc \notin {"serve", "xfer"}

\* The worker executes instructions only on a live cpu.
LiveInv == wpc \in {"exec", "mnotify", "mget"} \/ (wpc = "step" /\ wleft > 0) => Live

\* The handshake of the two threads, for every action of both (core.cpp,
\* python_tasks.cpp, memory_callbacks.cpp).
Handshake == (Quiet \/ InCall \/ InSim \/ Stuck) /\ AccessInv /\ LiveInv
=============================================================================
