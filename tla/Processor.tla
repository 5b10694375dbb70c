------------------------------ MODULE Processor ------------------------------
(***************************************************************************)
(* The thread of the VCML processor that calls PydrofoilCore::simulate,    *)
(* its local time, and the thread that ends the simulation, under the      *)
(* SystemC kernel.  simulate is what CpuApi promises: with a cpu at least  *)
(* one cycle is executed, without one none, and until it returns           *)
(* cycle_count is the one from before.  Threads run one at a time and      *)
(* between two waits; a wait for d makes a thread runnable again at        *)
(* now + d.  Clock is not switched off, and nobody single-steps.           *)
(* A definition whose comment begins with "fault:" is a seeded fault; no   *)
(* action uses it.                                                         *)
(***************************************************************************)
EXTENDS Integers, Lexicographic

CONSTANTS
    Clock,       \* duration of a clock cycle
    Quanta,      \* values of the property system.quantum
    Duration,    \* the property system.duration, not zero
    Latencies    \* what b_transport adds to the local time, if anything

ASSUME ProcessorAssumption ==
    /\ Clock \in Nat \ {0} /\ Duration \in Nat \ {0}
    /\ Quanta \subseteq Nat /\ Latencies \subseteq Nat \ {0}

VARIABLES
    quantum, cpu,        \* configuration; "live", or "null" if there is no cpu
    now, wake, run,      \* kernel: time, when threads are due, those of this delta
    stop, ended,         \* request_stop was called; the simulation is over
    loc,                 \* where processor_thread stands
    insync,              \* it is in the wait of tlm_host::sync
    start, num_cycles,   \* its local variables (now in processor_thread)
    local,               \* m_processes[...].time
    n_cycles,            \* what cycle_count returns
    m_cycle_count,       \* the count already turned into local time
    stuck,               \* "processor is stuck in time"
    idle, latency        \* history: time waited without a cycle, and added by transports
kernel == <<now, stop, ended>>
vars == <<quantum, cpu, now, wake, run, stop, ended, loc, insync, start,
          num_cycles, local, n_cycles, m_cycle_count, stuck, idle, latency>>

\* Both threads begin at time 0; wait(SC_ZERO_TIME) and wait(duration) are past.
Init ==
    /\ quantum \in Quanta /\ cpu \in {"live", "null"}
    /\ now = 0 /\ run = {} /\ stop = FALSE /\ ended = FALSE
    /\ wake = [p \in {"cpu", "timeout"} |-> IF p = "cpu" THEN 0 ELSE Duration]
    /\ loc = "thread" /\ insync = FALSE /\ start = 0 /\ num_cycles = 1
    /\ local = 0 /\ n_cycles = 0 /\ m_cycle_count = 0
    /\ stuck = FALSE /\ idle = 0 /\ latency = 0
-----------------------------------------------------------------------------
\* The kernel: when every thread of this delta has run, it stops if it was
\* asked to, otherwise it goes on with the threads that are due next.
Delta ==
    /\ run = {} /\ ~ended /\ ~stuck
    /\ IF stop THEN ended' = TRUE /\ UNCHANGED <<now, run>>
               ELSE /\ \E p \in DOMAIN wake :
                         /\ \A q \in DOMAIN wake : wake[p] <= wake[q]
                         /\ now' = wake[p]
                    /\ run' = {q \in DOMAIN wake : wake[q] = now'}
                    /\ UNCHANGED ended
    /\ UNCHANGED <<quantum, cpu, wake, stop, loc, insync, start, num_cycles,
                   local, n_cycles, m_cycle_count, stuck, idle, latency>>

wait(p, d) == wake' = [wake EXCEPT ![p] = now + d] /\ run' = run \ {p}

\* system::timeout
timeout ==
    /\ "timeout" \in run /\ ~stuck /\ stop' = TRUE /\ wait("timeout", Duration)
    /\ UNCHANGED <<quantum, cpu, now, ended, loc, insync, start, num_cycles,
                   local, n_cycles, m_cycle_count, stuck, idle, latency>>

\* local_time(): first, update_local_time adds the cycles since the last call.
\* fault: m_cycle_count is not stored
CountAgain == m_cycle_count
Counted == n_cycles
local_time == local + Clock * (n_cycles - m_cycle_count)
update_local_time(t) == local' = t /\ m_cycle_count' = Counted
NeedsSync(t) == t >= quantum

\* The thread runs, at l, and goes on at k.
Thread(l, k) ==
    /\ "cpu" \in run /\ ~insync /\ ~stuck /\ loc = l /\ loc' = k
    /\ UNCHANGED <<quantum, cpu, kernel>>
NoWait == UNCHANGED <<wake, run>>

\* tlm_host::sync for the local time t: it waits, and then clears the local time.
\* fault: it does not wait
NoOffset(t) == 0
Offset(t) == t
sync(t) == wait("cpu", Offset(t)) /\ insync' = TRUE
SyncIfNeeded(t) == IF NeedsSync(t) THEN sync(t) ELSE NoWait /\ UNCHANGED insync
SyncEnd ==
    /\ "cpu" \in run /\ insync /\ insync' = FALSE /\ local' = 0
    /\ UNCHANGED <<quantum, cpu, kernel, wake, run, loc, start, num_cycles,
                   n_cycles, m_cycle_count, stuck, idle, latency>>

\* processor_thread: begin of the loop
processor_thread ==
    /\ Thread("thread", "loop") /\ NoWait
    /\ update_local_time(local_time) /\ start' = now + local_time
    /\ UNCHANGED <<insync, num_cycles, n_cycles, stuck, idle, latency>>

\* processor_thread_sync: the cycles that are left in this quantum, rounded up.
\* Its sim_running() is true until the simulation is over; handle_requests, in
\* which suspend requests and the likes are served, takes no time.
\* fault: rounded down; fault: the local time is not taken off
RoundedDown(t) == (quantum - t) \div Clock
WholeQuantum(t) == (quantum + Clock - 1) \div Clock
CyclesLeft(t) == (quantum - t + Clock - 1) \div Clock
Cycles ==
    /\ Thread("loop", "simulate") /\ NoWait /\ update_local_time(local_time)
    /\ num_cycles' = IF quantum > Clock /\ quantum > local_time
                       THEN CyclesLeft(local_time) ELSE 1
    /\ UNCHANGED <<insync, start, n_cycles, stuck, idle, latency>>

\* tlm_initiator_socket::send, in simulate, if the transport takes time: sync
\* before it and after it, if the local time has reached the quantum.  (A
\* transport that takes none syncs only with a quantum of zero, for no time.)
Send ==
    /\ cpu = "live" /\ Latencies # {} /\ Thread("simulate", "transport")
    /\ update_local_time(local_time) /\ SyncIfNeeded(local_time)
    /\ UNCHANGED <<start, num_cycles, n_cycles, stuck, idle, latency>>
b_transport ==
    /\ Thread("transport", "simulate")
    /\ \E x \in Latencies :
         /\ update_local_time(local_time + x) /\ SyncIfNeeded(local_time + x)
         /\ latency' = latency + x
    /\ UNCHANGED <<start, num_cycles, n_cycles, stuck, idle>>

\* simulate returns; if it executed nothing, the thread waits for the rest of
\* the quantum.
Executed(n) == IF cpu = "live" THEN (IF n = 0 THEN 0 ELSE 1) .. n ELSE {0}
\* fault: it does not wait
NoRest(t) == 0
Rest(t) == quantum - t
simulate_cycles ==
    /\ Thread("simulate", "check")
    /\ \E k \in Executed(num_cycles) :
         /\ n_cycles' = n_cycles + k
         /\ IF k = 0
              THEN /\ update_local_time(local_time) /\ wait("cpu", Rest(local_time))
                   /\ idle' = idle + Rest(local_time)
              ELSE NoWait /\ UNCHANGED <<local, m_cycle_count, idle>>
    /\ UNCHANGED <<insync, start, num_cycles, stuck, latency>>

\* while (!needs_sync()), then sync()
needs_sync ==
    /\ Thread("check", IF NeedsSync(local_time) THEN "synced" ELSE "loop")
    /\ update_local_time(local_time) /\ SyncIfNeeded(local_time)
    /\ UNCHANGED <<start, num_cycles, n_cycles, stuck, idle, latency>>

\* processor_thread: end of the loop
advanced ==
    /\ Thread("synced", "thread") /\ NoWait
    /\ update_local_time(local_time) /\ stuck' = (now + local_time = start)
    /\ UNCHANGED <<insync, start, num_cycles, n_cycles, idle, latency>>

\* The end: the simulation is over, or VCML_ERROR has ended it.
Done == (ended \/ stuck) /\ UNCHANGED vars

Next == Delta \/ timeout \/ SyncEnd \/ processor_thread \/ Cycles \/ Send
          \/ b_transport \/ simulate_cycles \/ needs_sync \/ advanced \/ Done

\* The kernel runs every runnable thread, and a thread does not stop between waits.
Spec == Init /\ [][Next]_vars /\ WF_vars(Next)
-----------------------------------------------------------------------------
\* Type invariant of the processor's thread: a wait is never for a negative
\* time (sc_time is unsigned), and simulate is never asked for no cycles.
TypeOK ==
    /\ now \in Nat /\ wake \in [{"cpu", "timeout"} -> Nat] /\ run \subseteq DOMAIN wake
    /\ \A p \in DOMAIN wake : wake[p] >= now
    /\ loc \in {"thread", "loop", "simulate", "transport", "check", "synced"}
    /\ stop \in BOOLEAN /\ ended \in BOOLEAN /\ insync \in BOOLEAN /\ stuck \in BOOLEAN
    /\ num_cycles \in Nat \ {0} /\ local \in Nat
    /\ n_cycles \in Nat /\ m_cycle_count \in 0 .. n_cycles

\* The time of the thread: when it runs, or is due.
ThreadTime == IF "cpu" \in run THEN now ELSE wake["cpu"]

\* Simulated time is the executed cycles, the latencies and the idle quanta, each
\* counted once: no call of local_time, sync or wait loses time or counts it twice,
\* whichever of them comes first after a simulate (update_local_time).
TimeAccounted ==
    ThreadTime + (IF insync THEN 0 ELSE local)
        = Clock * m_cycle_count + latency + idle

\* processor_thread_sync lets the processor run ahead of the kernel by at most a
\* quantum and a cycle; a latency inside simulate comes on top of the cycles, and
\* the sync after the transport keeps it below another quantum.
RunAheadBounded ==
    ~insync => local_time <= (IF latency = 0 THEN 1 ELSE 2) * quantum + Clock

\* VCML_ERROR "stuck in time" strikes only a processor without a cpu whose quantum
\* is zero; a simulate that executes nothing otherwise costs a quantum.
StuckOnlyAtZero == stuck => cpu = "null" /\ quantum = 0

\* Unless transports take time or the quantum is zero, the instructions that
\* system::run reports fill the duration: a thread that is due at the time of
\* request_stop still runs its quantum, so that up to one quantum more is
\* executed, and no more.
InstructionsFillDuration ==
    ended /\ cpu = "live" /\ latency = 0 /\ quantum > 0 =>
        Duration < Clock * n_cycles /\ Clock * n_cycles <= Duration + quantum + Clock

\* riscv64_ex.cfg: "system.duration = 1000ns # --> 1k instructions --> 1ns/instr":
\* the duration is the time of the executed instructions.
DurationIsInstructions ==
    ended /\ cpu = "live" /\ latency = 0 => Clock * n_cycles = Duration

\* sc_start returns, with or without a cpu, for every quantum.
SimulationEnds == <>(ended \/ stuck)

\* How far the simulation is from its end: a tuple of natural numbers.  The
\* time of the thread (Elapsed) is below Duration + quantum when it runs; when
\* time does not move, the thread goes on in its loop, and without a cpu and
\* with a quantum of zero it goes round only once.
Elapsed == Clock * n_cycles + latency + idle
Running == CASE ended \/ stuck -> 0 [] ~(ended \/ stuck) /\ stop -> 1 [] OTHER -> 2
TimeLeft ==
    IF Elapsed <= Duration + quantum THEN Duration + quantum + 1 - Elapsed ELSE 0
LoopLeft ==
    IF cpu = "null" /\ quantum = 0
      THEN CASE loc = "thread" -> 5 [] loc = "loop" -> 4 [] loc = "simulate" -> 3
             [] loc = "check" -> 2 [] OTHER -> 1
      ELSE CASE loc = "check" -> 5 [] loc = "synced" -> 4 [] loc = "thread" -> 3
             [] loc = "loop" -> 2 [] loc = "simulate" -> 1 [] OTHER -> 0
Left == <<Running, TimeLeft, LoopLeft, IF insync THEN 1 ELSE 0,
          IF "cpu" \in run THEN 0 ELSE 1, IF "timeout" \in run THEN 0 ELSE 1>>

\* Every step of the kernel and of the two threads brings the simulation nearer
\* to its end: the processor cannot spin in its loops, sync for no time again
\* and again, or wait for a time that does not come (processor_thread,
\* processor_thread_sync, tlm_host::sync, tlm_initiator_socket::send).
StepsTowardsEnd == [][Descends(Left', Left)]_vars
=============================================================================
