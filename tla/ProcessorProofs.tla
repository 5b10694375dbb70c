--------------------------- MODULE ProcessorProofs ---------------------------
(***************************************************************************)
(* The time-keeping of the VCML processor, for every clock, quantum and    *)
(* duration.  TimeAccounted is inductive with the types it needs; the      *)
(* other properties follow from it and from where the thread stands.       *)
(***************************************************************************)
EXTENDS Processor, TLAPS

Times ==
    /\ quantum \in Nat /\ now \in Int /\ wake \in [{"cpu", "timeout"} -> Int]
    /\ insync \in BOOLEAN /\ local \in Int /\ num_cycles \in Int
    /\ n_cycles \in Int /\ m_cycle_count \in Int /\ idle \in Int /\ latency \in Int
TimeInv == Times /\ TimeAccounted

\* The only products are with Clock.
LEMMA Cycles2Time ==
    \A a, b \in Int : /\ Clock * a \in Int
                      /\ Clock * (a - b) = Clock * a - Clock * b
BY ProcessorAssumption

\* update_local_time keeps the account of a thread that runs and does not wait.
LEMMA Updated ==
    ASSUME TimeInv
    PROVE  /\ local_time \in Int
           /\ local + Clock * n_cycles = local_time + Clock * m_cycle_count
<1>1. n_cycles \in Int /\ m_cycle_count \in Int /\ local \in Int
  BY DEF TimeInv, Times
<1>2. /\ Clock * n_cycles \in Int /\ Clock * m_cycle_count \in Int
      /\ Clock * (n_cycles - m_cycle_count) = Clock * n_cycles - Clock * m_cycle_count
  BY <1>1, Cycles2Time
<1>3. QED
  BY <1>1, <1>2 DEF local_time

\* A wait of the processor's thread.
LEMMA Waited ==
    ASSUME TimeInv, "cpu" \in run, NEW d \in Int, wait("cpu", d)
    PROVE  ThreadTime = now /\ ThreadTime' = now + d
           /\ wake' \in [{"cpu", "timeout"} -> Int]
BY DEF TimeInv, Times, ThreadTime, wait

\* The thread runs on, or syncs, with a local time t that is the account.
LEMMA SyncKeeps ==
    ASSUME TimeInv, "cpu" \in run, ~insync, NEW t \in Int, NEW x \in Int,
           t = local_time + x, update_local_time(t),
           latency' = latency + x, UNCHANGED <<quantum, now, num_cycles, n_cycles, idle>>,
           \/ wait("cpu", t) /\ insync' = TRUE
           \/ NoWait /\ UNCHANGED insync
    PROVE  TimeInv'
<1>1. /\ local' = t /\ m_cycle_count' = n_cycles
      /\ now + local = Clock * m_cycle_count + latency + idle
  BY DEF update_local_time, Counted, TimeInv, TimeAccounted, ThreadTime
<1>2. now + t = Clock * m_cycle_count' + latency' + idle'
  <2>1. Clock * n_cycles \in Int /\ Clock * m_cycle_count \in Int
    BY Cycles2Time DEF TimeInv, Times
  <2>2. QED
    BY <1>1, <2>1, Updated DEF TimeInv, Times
<1>3. CASE wait("cpu", t) /\ insync' = TRUE
  <2>1. ThreadTime' = now + t /\ wake' \in [{"cpu", "timeout"} -> Int]
    BY <1>3, Waited
  <2>2. QED
    BY <1>1, <1>2, <1>3, <2>1 DEF TimeInv, Times, TimeAccounted
<1>4. CASE NoWait /\ UNCHANGED insync
  BY <1>1, <1>2, <1>4 DEF NoWait, TimeInv, Times, TimeAccounted, ThreadTime
<1>5. QED
  BY <1>3, <1>4
-----------------------------------------------------------------------------
\* The account of the processor's time is inductive.
THEOREM TimeInvariant == Spec => []TimeInv
<1>1. Init => TimeInv
  <2> SUFFICES ASSUME Init PROVE TimeInv
    OBVIOUS
  <2>1. Times
    <3>1. wake \in [{"cpu", "timeout"} -> Int]
      BY ProcessorAssumption DEF Init
    <3>2. quantum \in Nat /\ insync \in BOOLEAN
      BY ProcessorAssumption DEF Init
    <3>3. QED
      BY <3>1, <3>2 DEF Init, Times
  <2>2. ThreadTime = 0 /\ local = 0 /\ latency = 0 /\ idle = 0 /\ m_cycle_count = 0
    BY DEF Init, ThreadTime
  <2>3. Clock * 0 = 0
    BY ProcessorAssumption
  <2>4. QED
    BY <2>1, <2>2, <2>3 DEF TimeInv, TimeAccounted
<1>2. TimeInv /\ [Next]_vars => TimeInv'
  <2> SUFFICES ASSUME TimeInv, [Next]_vars PROVE TimeInv'
    OBVIOUS
  <2>0. local_time \in Int
    BY Updated
  <2>1. CASE Delta
    <3>1. CASE stop
      BY <2>1, <3>1 DEF Delta, TimeInv, Times, TimeAccounted, ThreadTime
    <3>2. CASE ~stop
      <4>1. /\ run = {} /\ now' \in Int /\ wake' = wake
            /\ run' = {q \in DOMAIN wake : wake[q] = now'}
            /\ UNCHANGED <<quantum, insync, num_cycles, local, n_cycles,
                           m_cycle_count, idle, latency>>
        BY <2>1, <3>2 DEF Delta, TimeInv, Times
      <4>2. ThreadTime' = ThreadTime
        BY <4>1 DEF ThreadTime, TimeInv, Times
      <4>3. QED
        BY <4>1, <4>2 DEF TimeInv, Times, TimeAccounted
    <3>3. QED
      BY <3>1, <3>2
  <2>2. CASE timeout
    <3>1. ThreadTime' = ThreadTime /\ wake' \in [{"cpu", "timeout"} -> Int]
      BY <2>2, ProcessorAssumption DEF timeout, wait, ThreadTime, TimeInv, Times
    <3>2. QED
      BY <2>2, <3>1 DEF timeout, TimeInv, Times, TimeAccounted
  <2>3. CASE SyncEnd
    <3>1. ThreadTime' = ThreadTime /\ ThreadTime \in Int
      BY <2>3 DEF SyncEnd, kernel, TimeInv, Times, ThreadTime
    <3>2. ThreadTime + 0 = Clock * m_cycle_count + latency + idle
      BY <2>3 DEF SyncEnd, TimeInv, TimeAccounted
    <3>3. /\ insync' = FALSE /\ local' = 0
          /\ UNCHANGED <<quantum, now, wake, num_cycles, n_cycles, m_cycle_count,
                         idle, latency>>
      BY <2>3 DEF SyncEnd, kernel
    <3>4. Times'
      <4>1. local' \in Int
        BY <3>3
      <4>2. insync' \in BOOLEAN
        BY <3>3
      <4>3. QED
        BY <3>3, <4>1, <4>2 DEF TimeInv, Times
    <3>5. TimeAccounted'
      <4>1. /\ Clock * m_cycle_count' = Clock * m_cycle_count
            /\ latency' = latency /\ idle' = idle
        BY <3>3
      <4>2. ThreadTime' + 0 = Clock * m_cycle_count' + latency' + idle'
        BY <3>1, <3>2, <4>1
      <4>3. (IF insync THEN 0 ELSE local)' = 0
        BY <3>3
      <4>4. QED
        BY <4>2, <4>3 DEF TimeAccounted
    <3>6. QED
      BY <3>4, <3>5 DEF TimeInv
  <2>4. ASSUME "cpu" \in run, ~insync, update_local_time(local_time), NoWait,
               UNCHANGED <<quantum, now, insync, n_cycles, idle, latency>>,
               num_cycles' \in Int
        PROVE  TimeInv'
    <3>1. /\ now + local = Clock * m_cycle_count + latency + idle
          /\ Clock * n_cycles \in Int /\ Clock * m_cycle_count \in Int
      BY <2>4, Cycles2Time DEF TimeInv, Times, TimeAccounted, ThreadTime
    <3>2. now + local_time = Clock * n_cycles + latency + idle
      BY <2>0, <3>1, Updated DEF TimeInv, Times
    <3>3. QED
      BY <2>0, <2>4, <3>2
      DEF update_local_time, Counted, NoWait, TimeInv, Times, TimeAccounted, ThreadTime
  <2>5. CASE processor_thread
    BY <2>4, <2>5 DEF processor_thread, Thread, kernel, TimeInv, Times
  <2>6. CASE Cycles
    <3>1. CyclesLeft(local_time) \in Int
      BY <2>0, ProcessorAssumption DEF CyclesLeft, TimeInv, Times
    <3>2. QED
      BY <2>4, <2>6, <3>1 DEF Cycles, Thread, kernel
  <2>7. CASE Send
    <3>0. PICK x \in Int : x = 0
      OBVIOUS
    <3>1. /\ "cpu" \in run /\ ~insync /\ update_local_time(local_time)
          /\ local_time = local_time + x /\ latency' = latency + x
          /\ UNCHANGED <<quantum, now, num_cycles, n_cycles, idle>>
          /\ \/ wait("cpu", local_time) /\ insync' = TRUE
             \/ NoWait /\ UNCHANGED insync
      BY <2>0, <2>7, <3>0 DEF Send, Thread, kernel, SyncIfNeeded, sync, Offset, TimeInv, Times
    <3>2. QED
      BY <2>0, <3>1, SyncKeeps
  <2>8. CASE b_transport
    <3>1. PICK x \in Latencies :
            /\ update_local_time(local_time + x) /\ SyncIfNeeded(local_time + x)
            /\ latency' = latency + x
      BY <2>8 DEF b_transport
    <3>2. x \in Int /\ local_time + x \in Int
      BY <2>0, ProcessorAssumption
    <3>3. /\ "cpu" \in run /\ ~insync
          /\ UNCHANGED <<quantum, now, num_cycles, n_cycles, idle>>
          /\ \/ wait("cpu", local_time + x) /\ insync' = TRUE
             \/ NoWait /\ UNCHANGED insync
      BY <2>8, <3>1 DEF b_transport, Thread, kernel, SyncIfNeeded, sync, Offset
    <3>4. QED
      BY <3>1, <3>2, <3>3, SyncKeeps
  <2>9. CASE simulate_cycles
    <3>1. PICK k \in Executed(num_cycles) :
            /\ n_cycles' = n_cycles + k
            /\ IF k = 0
                 THEN /\ update_local_time(local_time)
                      /\ wait("cpu", Rest(local_time))
                      /\ idle' = idle + Rest(local_time)
                 ELSE NoWait /\ UNCHANGED <<local, m_cycle_count, idle>>
      BY <2>9 DEF simulate_cycles
    <3>2. k \in Int
      BY DEF Executed, TimeInv, Times
    <3>3. /\ "cpu" \in run /\ ~insync /\ loc = "simulate"
          /\ UNCHANGED <<quantum, now, insync, num_cycles, latency>>
      BY <2>9 DEF simulate_cycles, Thread, kernel
    <3>4. CASE k = 0
      <4>1. Rest(local_time) \in Int
        BY <2>0 DEF Rest, TimeInv, Times
      <4>2. ThreadTime' = now + Rest(local_time) /\ wake' \in [{"cpu", "timeout"} -> Int]
        BY <3>1, <3>3, <3>4, <4>1, Waited
      <4>3. /\ now + local = Clock * m_cycle_count + latency + idle
            /\ Clock * n_cycles \in Int /\ Clock * m_cycle_count \in Int
        BY <3>3, Cycles2Time DEF TimeInv, Times, TimeAccounted, ThreadTime
      <4>4. now + local_time = Clock * n_cycles + latency + idle
        BY <2>0, <4>3, Updated DEF TimeInv, Times
      <4>5. /\ local' = local_time /\ m_cycle_count' = n_cycles /\ n_cycles' = n_cycles
            /\ idle' = idle + Rest(local_time)
        BY <3>1, <3>4 DEF update_local_time, Counted, TimeInv, Times
      <4>6. QED
        BY <2>0, <3>3, <4>1, <4>2, <4>3, <4>4, <4>5 DEF TimeInv, Times, TimeAccounted
    <3>5. CASE k # 0
      BY <3>1, <3>2, <3>3, <3>5 DEF NoWait, TimeInv, Times, TimeAccounted, ThreadTime
    <3>6. QED
      BY <3>4, <3>5
  <2>10. CASE needs_sync
    <3>0. PICK x \in Int : x = 0
      OBVIOUS
    <3>1. /\ "cpu" \in run /\ ~insync /\ update_local_time(local_time)
          /\ local_time = local_time + x /\ latency' = latency + x
          /\ UNCHANGED <<quantum, now, num_cycles, n_cycles, idle>>
          /\ \/ wait("cpu", local_time) /\ insync' = TRUE
             \/ NoWait /\ UNCHANGED insync
      BY <2>0, <2>10, <3>0
      DEF needs_sync, Thread, kernel, SyncIfNeeded, sync, Offset, TimeInv, Times
    <3>2. QED
      BY <2>0, <3>1, SyncKeeps
  <2>11. CASE advanced
    BY <2>4, <2>11 DEF advanced, Thread, kernel, TimeInv, Times
  <2>12. CASE UNCHANGED vars
    BY <2>12 DEF vars, TimeInv, Times, TimeAccounted, ThreadTime
  <2>13. QED
    BY <2>1, <2>2, <2>3, <2>5, <2>6, <2>7, <2>8, <2>9, <2>10, <2>11, <2>12
    DEF Next, Done
<1>3. QED
  BY <1>1, <1>2, PTL DEF Spec

\* Simulated time is the cycles, latencies and idle quanta, each counted once,
\* whatever the clock, the quantum, the latencies and the order of the threads.
THEOREM TimeAccountedCorrect == Spec => []TimeAccounted
<1>1. TimeInv => TimeAccounted
  BY DEF TimeInv
<1>2. QED
  BY <1>1, TimeInvariant, PTL
-----------------------------------------------------------------------------
(* Where the thread stands, what it has counted and how far it is ahead.   *)

Flags ==
    stop \in BOOLEAN /\ ended \in BOOLEAN /\ insync \in BOOLEAN /\ stuck \in BOOLEAN
Sizes ==
    /\ quantum \in Nat /\ cpu \in {"live", "null"}
    /\ now \in Nat /\ wake \in [{"cpu", "timeout"} -> Nat]
    /\ run \subseteq {"cpu", "timeout"}
    /\ \A p \in {"cpu", "timeout"} : wake[p] >= now
    /\ loc \in {"thread", "loop", "simulate", "transport", "check", "synced"}
    /\ num_cycles \in Nat \ {0} /\ local \in Nat /\ start \in Int
    /\ n_cycles \in Nat /\ m_cycle_count \in 0 .. n_cycles
    /\ latency \in Nat /\ idle \in Nat

\* Only between simulate and needs_sync are there cycles that are not counted.
CountedInv ==
    /\ loc # "check" => m_cycle_count = n_cycles
    /\ insync => loc \in {"synced", "simulate", "transport"}
    /\ loc = "transport" => cpu = "live"

\* Without a cpu only idle quanta take time; with one, none is idle.
IdleInv ==
    /\ cpu = "null" => n_cycles = 0 /\ local = 0 /\ latency = 0
    /\ cpu = "live" => idle = 0

\* After a simulate the time is past the one noted at the begin of the loop.
MoveInv ==
    /\ start <= Elapsed
    /\ loc \in {"check", "synced"} => start < Elapsed \/ (cpu = "null" /\ quantum = 0)
    /\ stuck => cpu = "null" /\ quantum = 0

\* The thread begins a simulate within its quantum, and asks for the cycles up
\* to the end of it.
AheadInv ==
    /\ ~insync /\ loc # "check" => local < quantum \/ local = 0
    /\ ~insync /\ loc = "check"
         => local_time <= (IF latency = 0 THEN quantum ELSE 2 * quantum) + Clock
    /\ loc \in {"simulate", "transport"} =>
         /\ Clock * num_cycles <= quantum + Clock
         /\ latency = 0 /\ ~insync => local + Clock * num_cycles <= quantum + Clock

\* When the threads are due.
DueInv ==
    /\ \A p \in run : wake[p] = now
    /\ IF stop THEN now = Duration ELSE wake["timeout"] = Duration
    /\ ended => stop /\ run = {}
    /\ quantum > 0 /\ (run # {} \/ stop) /\ "cpu" \notin run => wake["cpu"] > now
    /\ cpu = "live" /\ "cpu" \notin run /\ ~insync
         => run = {} /\ ~stop /\ wake["cpu"] = 0
    /\ cpu = "live" /\ latency = 0 => wake["cpu"] <= now + quantum + Clock

ProcInv == Sizes /\ CountedInv /\ IdleInv /\ MoveInv /\ AheadInv /\ DueInv

LEMMA Products ==
    \A k, n \in Nat : /\ Clock * n \in Nat /\ Clock * (n + k) = Clock * n + Clock * k
                      /\ k # 0 => Clock <= Clock * k
                      /\ k <= n => Clock * k <= Clock * n
                      /\ Clock * 1 = Clock /\ Clock * 0 = 0
BY ProcessorAssumption

\* The number of cycles is rounded up, so that they fill the quantum and are
\* less than a cycle longer.
LEMMA RoundedUp ==
    ASSUME NEW t \in Nat, quantum \in Nat, t < quantum
    PROVE  /\ CyclesLeft(t) \in Nat \ {0}
           /\ t + Clock * CyclesLeft(t) <= quantum + Clock
<1>1. PICK d \in Nat : d = quantum - t + Clock - 1 /\ d >= Clock
  BY ProcessorAssumption
<1>2. \A c \in Nat \ {0}, e \in Nat :
        /\ e \div c \in Nat /\ c * (e \div c) <= e
        /\ e >= c => e \div c # 0
  OBVIOUS
<1>3. d \div Clock \in Nat \ {0} /\ Clock * (d \div Clock) <= d
  BY <1>1, <1>2, ProcessorAssumption
<1>4. CyclesLeft(t) = d \div Clock
  BY <1>1 DEF CyclesLeft
<1>5. PICK e \in Nat : e = Clock * (d \div Clock)
  BY <1>3, ProcessorAssumption
<1>6. QED
  BY <1>1, <1>3, <1>4, <1>5, ProcessorAssumption

\* The local time, counted and not.
LEMMA LocalTime ==
    ASSUME Sizes
    PROVE  local_time \in Nat /\ (m_cycle_count = n_cycles => local_time = local)
<1>1. n_cycles - m_cycle_count \in Nat
  BY DEF Sizes
<1>2. Clock * (n_cycles - m_cycle_count) \in Nat
  BY <1>1, Products
<1>3. m_cycle_count = n_cycles => n_cycles - m_cycle_count = 0
  BY DEF Sizes
<1>4. m_cycle_count = n_cycles => Clock * (n_cycles - m_cycle_count) = 0
  BY <1>1, <1>3, Products
<1>5. QED
  BY <1>2, <1>4 DEF local_time, Sizes

\* A thread that runs is at the time of the account.
LEMMA ElapsedTime ==
    ASSUME TimeInv, "cpu" \in run, ~insync
    PROVE  now + local_time = Elapsed
<1>1. /\ now + local = Clock * m_cycle_count + latency + idle
      /\ Clock * n_cycles \in Int /\ Clock * m_cycle_count \in Int
  BY Cycles2Time DEF TimeInv, Times, TimeAccounted, ThreadTime
<1>2. QED
  BY <1>1, Updated DEF TimeInv, Times, Elapsed

LEMMA ElapsedNat == ASSUME Sizes PROVE Elapsed \in Nat
<1>1. Clock * n_cycles \in Nat
  BY Products DEF Sizes
<1>2. QED
  BY <1>1 DEF Elapsed, Sizes

LEMMA FlagsStep == Flags /\ [Next]_vars => Flags'
<1> SUFFICES ASSUME Flags, [Next]_vars PROVE Flags'
    OBVIOUS
<1>1. stop' \in BOOLEAN
  BY DEF Flags, Next, vars, kernel, Delta, timeout, SyncEnd, processor_thread,
     Cycles, Send, b_transport, simulate_cycles, needs_sync, advanced, Done, Thread
<1>2. ended' \in BOOLEAN
  BY DEF Flags, Next, vars, kernel, Delta, timeout, SyncEnd, processor_thread,
     Cycles, Send, b_transport, simulate_cycles, needs_sync, advanced, Done, Thread
<1>3. insync' \in BOOLEAN
  BY DEF Flags, Next, vars, Delta, timeout, SyncEnd, processor_thread,
     Cycles, Send, b_transport, simulate_cycles, needs_sync, advanced, Done,
     SyncIfNeeded, sync
<1>4. stuck' \in BOOLEAN
  BY DEF Flags, Next, vars, Delta, timeout, SyncEnd, processor_thread,
     Cycles, Send, b_transport, simulate_cycles, needs_sync, advanced, Done
<1>5. QED
  BY <1>1, <1>2, <1>3, <1>4 DEF Flags

\* A wait of the processor's thread for d: for less than a quantum and a
\* cycle, and for some time unless the quantum is zero.
LEMMA WaitedDue ==
    ASSUME Sizes, DueInv, "cpu" \in run, NEW d \in Nat, wait("cpu", d),
           UNCHANGED <<quantum, cpu, now, stop, ended>>,
           quantum > 0 => d > 0,
           cpu = "live" => insync',
           cpu = "live" /\ latency' = 0 => d <= quantum + Clock
    PROVE  /\ DueInv' /\ wake' \in [{"cpu", "timeout"} -> Nat]
           /\ run' \subseteq {"cpu", "timeout"}
           /\ \A p \in {"cpu", "timeout"} : wake'[p] >= now
<1>1. /\ run' = run \ {"cpu"} /\ wake'["cpu"] = now + d
      /\ wake'["timeout"] = wake["timeout"]
  BY DEF wait, Sizes
<1>2. /\ wake' \in [{"cpu", "timeout"} -> Nat]
      /\ run' \subseteq {"cpu", "timeout"}
      /\ \A p \in {"cpu", "timeout"} : wake'[p] >= now
  BY <1>1 DEF wait, Sizes
<1>3. \A p \in run' : wake'[p] = now'
  BY <1>1 DEF DueInv, Sizes
<1>4. IF stop' THEN now' = Duration ELSE wake'["timeout"] = Duration
  BY <1>1 DEF DueInv
<1>5. ended' => stop' /\ run' = {}
  BY DEF DueInv
<1>6. quantum' > 0 => wake'["cpu"] > now'
  BY <1>1 DEF Sizes
<1>7. cpu' = "live" /\ latency' = 0 => wake'["cpu"] <= now' + quantum' + Clock
  BY <1>1, ProcessorAssumption DEF Sizes
<1>8. QED
  BY <1>2, <1>3, <1>4, <1>5, <1>6, <1>7 DEF DueInv

\* The thread does not wait: when it is due does not change.
LEMMA NoWaitDue ==
    ASSUME Sizes, DueInv, "cpu" \in run, NoWait,
           UNCHANGED <<quantum, cpu, now, stop, ended>>,
           latency' = 0 => latency = 0
    PROVE  DueInv'
BY DEF Sizes, DueInv, NoWait

\* Every action keeps the invariant.
LEMMA ProcStep ==
    ASSUME TimeInv, Flags, ProcInv, [Next]_vars PROVE ProcInv'
<1> USE DEF ProcInv
<1>0. /\ Sizes /\ local_time \in Nat /\ Elapsed \in Nat
      /\ loc # "check" => local_time = local
  BY LocalTime, ElapsedNat DEF CountedInv
<1>1. UNCHANGED <<n_cycles, latency, idle>> => Elapsed' = Elapsed
  BY DEF Elapsed
<1>2. CASE Delta
  <2>1. CASE stop
    BY <1>1, <1>2, <2>1
    DEF Delta, Sizes, CountedInv, IdleInv, MoveInv, AheadInv, DueInv, local_time
  <2>2. CASE ~stop
    <3>1. PICK p \in DOMAIN wake :
            (\A q \in DOMAIN wake : wake[p] <= wake[q]) /\ now' = wake[p]
      BY <1>2, <2>2 DEF Delta
    <3>2. /\ run = {} /\ run' = {q \in DOMAIN wake : wake[q] = now'} /\ ~ended
          /\ UNCHANGED <<quantum, cpu, wake, stop, loc, insync, start, num_cycles,
                         local, n_cycles, m_cycle_count, stuck, idle, latency, ended>>
      BY <1>2, <2>2 DEF Delta
    <3>3. /\ DOMAIN wake = {"cpu", "timeout"} /\ now' \in Nat /\ now' >= now
          /\ wake["cpu"] >= now' /\ wake["timeout"] >= now' /\ p \in run'
      BY <3>1, <3>2 DEF Sizes
    <3>4. Sizes'
      BY <3>2, <3>3 DEF Sizes
    <3>5. CountedInv' /\ IdleInv' /\ MoveInv' /\ AheadInv'
      BY <1>1, <3>2 DEF CountedInv, IdleInv, MoveInv, AheadInv, local_time
    <3>6. DueInv'
      <4>1. (\A q \in run' : wake'[q] = now') /\ wake'["timeout"] = Duration
        BY <2>2, <3>2 DEF DueInv
      <4>2. "cpu" \notin run' => wake'["cpu"] > now'
        BY <3>2, <3>3 DEF Sizes
      <4>3. wake["cpu"] = 0 => "cpu" \in run'
        BY <3>2, <3>3
      <4>4. cpu = "live" /\ ~insync => wake["cpu"] = 0
        BY <3>2 DEF DueInv
      <4>5. cpu = "live" /\ latency = 0 => wake["cpu"] <= now' + quantum + Clock
        BY <3>3, ProcessorAssumption DEF DueInv, Sizes
      <4>6. QED
        BY <2>2, <3>2, <4>1, <4>2, <4>3, <4>4, <4>5 DEF DueInv
    <3>7. QED
      BY <3>4, <3>5, <3>6
  <2>3. QED
    BY <2>1, <2>2
<1>3. CASE timeout
  <2>1. /\ "timeout" \in run /\ stop' = TRUE /\ run' = run \ {"timeout"}
        /\ wake' = [wake EXCEPT !["timeout"] = now + Duration]
        /\ UNCHANGED <<quantum, cpu, now, ended, loc, insync, start, num_cycles,
                       local, n_cycles, m_cycle_count, stuck, idle, latency>>
    BY <1>3 DEF timeout, wait
  <2>2. wake'["cpu"] = wake["cpu"] /\ wake'["timeout"] = now + Duration
    BY <2>1 DEF Sizes
  <2>3. Sizes'
    BY <2>1, <2>2, ProcessorAssumption DEF Sizes
  <2>4. CountedInv' /\ IdleInv' /\ MoveInv' /\ AheadInv'
    BY <1>1, <2>1 DEF CountedInv, IdleInv, MoveInv, AheadInv, local_time
  <2>5. now = Duration /\ ~ended
    BY <2>1 DEF DueInv
  <2>6. DueInv'
    BY <2>1, <2>2, <2>5 DEF DueInv, Sizes
  <2>7. QED
    BY <2>3, <2>4, <2>6
<1>4. CASE SyncEnd
  <2>1. /\ "cpu" \in run /\ insync /\ insync' = FALSE /\ local' = 0
        /\ UNCHANGED <<quantum, cpu, now, stop, ended, wake, run, loc, start,
                       num_cycles, n_cycles, m_cycle_count, stuck, idle, latency>>
    BY <1>4 DEF SyncEnd, kernel
  <2>2. Sizes' /\ CountedInv' /\ IdleInv' /\ MoveInv'
    BY <1>1, <2>1 DEF Sizes, CountedInv, IdleInv, MoveInv
  <2>3. loc \in {"simulate", "transport"} => Clock * num_cycles \in Nat
    BY Products DEF Sizes
  <2>4. AheadInv'
    BY <2>1, <2>3 DEF AheadInv, CountedInv
  <2>5. DueInv'
    BY <2>1 DEF DueInv
  <2>6. QED
    BY <2>2, <2>4, <2>5
<1>5. CASE processor_thread
  <2>1. /\ "cpu" \in run /\ ~insync /\ loc = "thread" /\ loc' = "loop" /\ NoWait
        /\ local' = local /\ m_cycle_count' = n_cycles /\ start' = now + local_time
        /\ UNCHANGED <<quantum, cpu, now, stop, ended, insync, num_cycles, n_cycles,
                       stuck, idle, latency>>
    BY <1>0, <1>5 DEF processor_thread, Thread, kernel, update_local_time, Counted
  <2>2. start' = Elapsed'
    BY <1>1, <2>1, ElapsedTime
  <2>3. Sizes'
    BY <1>0, <2>1 DEF Sizes, NoWait
  <2>4. CountedInv' /\ IdleInv' /\ MoveInv' /\ AheadInv'
    BY <1>0, <1>1, <2>1, <2>2 DEF CountedInv, IdleInv, MoveInv, AheadInv
  <2>5. QED
    BY <2>1, <2>3, <2>4, NoWaitDue
<1>6. CASE Cycles
  <2>1. /\ "cpu" \in run /\ ~insync /\ loc = "loop" /\ loc' = "simulate" /\ NoWait
        /\ local' = local /\ m_cycle_count' = n_cycles
        /\ num_cycles' = IF quantum > Clock /\ quantum > local THEN CyclesLeft(local) ELSE 1
        /\ UNCHANGED <<quantum, cpu, now, stop, ended, insync, start, n_cycles,
                       stuck, idle, latency>>
    BY <1>0, <1>6 DEF Cycles, Thread, kernel, update_local_time, Counted
  <2>2. num_cycles' \in Nat \ {0} /\ local + Clock * num_cycles' <= quantum + Clock
    <3>1. CASE quantum > Clock /\ quantum > local
      BY <2>1, <3>1, RoundedUp DEF Sizes
    <3>2. CASE ~(quantum > Clock /\ quantum > local)
      <4>1. num_cycles' = 1 /\ Clock * 1 = Clock
        BY <2>1, <3>2, Products
      <4>2. local <= quantum
        BY <2>1 DEF AheadInv, Sizes
      <4>3. QED
        BY <4>1, <4>2, ProcessorAssumption DEF Sizes
    <3>3. QED
      BY <3>1, <3>2
  <2>3. Clock * num_cycles' \in Nat
    BY <2>2, Products
  <2>4. Clock * num_cycles' <= quantum + Clock
    <3>1. PICK c \in Nat : c = Clock * num_cycles'
      BY <2>3
    <3>2. local + c <= quantum + Clock
      BY <2>2, <3>1
    <3>3. c <= quantum + Clock
      BY <3>2, ProcessorAssumption DEF Sizes
    <3>4. QED
      BY <3>1, <3>3
  <2>5. Sizes'
    BY <2>1, <2>2 DEF Sizes, NoWait
  <2>6. CountedInv' /\ IdleInv' /\ MoveInv'
    BY <1>1, <2>1 DEF CountedInv, IdleInv, MoveInv
  <2>7. AheadInv'
    BY <2>1, <2>2, <2>4 DEF AheadInv
  <2>8. QED
    BY <2>1, <2>5, <2>6, <2>7, NoWaitDue
<1>7. ASSUME NEW x \in Nat, NEW l, NEW k, cpu = "live",
             l \in {"simulate", "transport"}, k \in {"simulate", "transport"},
             Thread(l, k), latency' = latency + x,
             update_local_time(local_time + x), SyncIfNeeded(local_time + x),
             UNCHANGED <<start, num_cycles, n_cycles, stuck, idle>>
      PROVE  ProcInv'
  <2>1. /\ "cpu" \in run /\ ~insync /\ loc = l /\ loc' = k
        /\ local' = local + x /\ m_cycle_count' = n_cycles
        /\ UNCHANGED <<quantum, cpu, now, stop, ended>>
    BY <1>0, <1>7 DEF Thread, kernel, update_local_time, Counted
  <2>2. Elapsed' = Elapsed + x
    <3>1. Clock * n_cycles \in Nat
      BY Products DEF Sizes
    <3>2. QED
      BY <1>7, <3>1 DEF Elapsed, Sizes
  <2>3. CountedInv' /\ IdleInv' /\ MoveInv'
    BY <1>0, <1>7, <2>1, <2>2 DEF CountedInv, IdleInv, MoveInv, Sizes
  <2>4. Clock * num_cycles \in Nat
    BY Products DEF Sizes
  <2>5. CASE local + x >= quantum
    <3>1. wait("cpu", local + x) /\ insync' = TRUE
      BY <1>0, <1>7, <2>1, <2>5 DEF SyncIfNeeded, NeedsSync, sync, Offset
    <3>2. local + x \in Nat /\ (quantum > 0 => local + x > 0)
      BY <2>5 DEF Sizes
    <3>3. latency' = 0 => local + x <= quantum + Clock
      BY <1>7, <2>1, ProcessorAssumption DEF AheadInv, Sizes
    <3>4. /\ DueInv' /\ wake' \in [{"cpu", "timeout"} -> Nat]
          /\ run' \subseteq {"cpu", "timeout"}
          /\ \A p \in {"cpu", "timeout"} : wake'[p] >= now
      BY <2>1, <3>1, <3>2, <3>3, WaitedDue
    <3>5. Sizes'
      BY <1>7, <2>1, <3>2, <3>4 DEF Sizes
    <3>6. AheadInv'
      BY <1>7, <2>1, <3>1 DEF AheadInv
    <3>7. QED
      BY <2>3, <3>4, <3>5, <3>6
  <2>6. CASE ~(local + x >= quantum)
    <3>1. NoWait /\ UNCHANGED insync
      BY <1>0, <1>7, <2>1, <2>6 DEF SyncIfNeeded, NeedsSync
    <3>2. Sizes'
      BY <1>7, <2>1, <3>1 DEF Sizes, NoWait
    <3>3. latency' = 0 => latency = 0 /\ x = 0
      BY <1>7 DEF Sizes
    <3>4. AheadInv'
      BY <1>7, <2>1, <2>4, <2>6, <3>1, <3>3 DEF AheadInv, Sizes
    <3>5. QED
      BY <2>1, <2>3, <3>1, <3>2, <3>3, <3>4, NoWaitDue
  <2>7. QED
    BY <2>5, <2>6
<1>8. CASE Send
  <2>1. local_time + 0 = local_time /\ latency + 0 = latency
    BY <1>0 DEF Sizes
  <2>2. /\ cpu = "live" /\ Thread("simulate", "transport") /\ latency' = latency + 0
        /\ update_local_time(local_time + 0) /\ SyncIfNeeded(local_time + 0)
        /\ UNCHANGED <<start, num_cycles, n_cycles, stuck, idle>>
    BY <1>8, <2>1 DEF Send
  <2>3. QED
    BY <1>7, <2>2
<1>9. CASE b_transport
  <2>1. PICK x \in Latencies :
          /\ update_local_time(local_time + x) /\ SyncIfNeeded(local_time + x)
          /\ latency' = latency + x
    BY <1>9 DEF b_transport
  <2>2. x \in Nat
    BY ProcessorAssumption
  <2>3. cpu = "live"
    BY <1>9 DEF b_transport, Thread, CountedInv
  <2>4. QED
    BY <1>7, <1>9, <2>1, <2>2, <2>3 DEF b_transport
<1>10. CASE simulate_cycles
  <2>1. PICK k \in Executed(num_cycles) :
          /\ n_cycles' = n_cycles + k
          /\ IF k = 0
               THEN /\ update_local_time(local_time)
                    /\ wait("cpu", Rest(local_time))
                    /\ idle' = idle + Rest(local_time)
               ELSE NoWait /\ UNCHANGED <<local, m_cycle_count, idle>>
    BY <1>10 DEF simulate_cycles
  <2>2. /\ "cpu" \in run /\ ~insync /\ loc = "simulate" /\ loc' = "check"
        /\ m_cycle_count = n_cycles /\ local_time = local
        /\ UNCHANGED <<quantum, cpu, now, stop, ended, insync, start, num_cycles,
                       stuck, latency>>
    BY <1>0, <1>10 DEF simulate_cycles, Thread, kernel, CountedInv
  <2>3. /\ k \in Nat /\ k <= num_cycles
        /\ cpu = "live" => k # 0
        /\ cpu = "null" => k = 0
    BY DEF Executed, Sizes
  <2>4. /\ Clock * n_cycles \in Nat /\ Clock * k \in Nat /\ Clock * num_cycles \in Nat
        /\ Clock * (n_cycles + k) = Clock * n_cycles + Clock * k
        /\ Clock * k <= Clock * num_cycles
        /\ k # 0 => Clock <= Clock * k
    BY <2>3, Products DEF Sizes
  <2>5. CASE cpu = "live"
    <3>1. NoWait /\ UNCHANGED <<local, m_cycle_count, idle>>
      BY <2>1, <2>3, <2>5
    <3>2. Elapsed' = Elapsed + Clock * k /\ Elapsed' > Elapsed
      BY <2>1, <2>2, <2>3, <2>4, <2>5, <3>1, ProcessorAssumption DEF Elapsed, Sizes
    <3>3. Sizes'
      BY <2>1, <2>2, <2>3, <3>1 DEF Sizes, NoWait
    <3>4. CountedInv' /\ IdleInv'
      BY <2>1, <2>2, <2>5, <3>1 DEF CountedInv, IdleInv
    <3>5. MoveInv'
      BY <1>0, <2>2, <3>2, <2>4 DEF MoveInv, Sizes
    <3>6. local_time' = local + Clock * k
      <4>1. n_cycles' - m_cycle_count' = k
        BY <2>1, <2>2, <2>3, <3>1 DEF Sizes
      <4>2. QED
        BY <3>1, <4>1 DEF local_time
    <3>7. local_time' <= (IF latency = 0 THEN quantum ELSE 2 * quantum) + Clock
      BY <2>2, <2>4, <3>6, ProcessorAssumption DEF AheadInv, Sizes
    <3>8. AheadInv'
      BY <2>2, <3>7 DEF AheadInv
    <3>9. QED
      BY <2>2, <3>1, <3>3, <3>4, <3>5, <3>8, NoWaitDue
  <2>6. CASE cpu = "null"
    <3>1. k = 0 /\ local = 0 /\ n_cycles = 0 /\ latency = 0
      BY <2>3, <2>6 DEF IdleInv
    <3>2. Rest(local_time) = quantum
      BY <2>2, <3>1 DEF Rest, Sizes
    <3>3. /\ local' = 0 /\ m_cycle_count' = 0 /\ n_cycles' = 0
          /\ wait("cpu", quantum) /\ idle' = idle + quantum
      BY <2>1, <2>2, <3>1, <3>2 DEF update_local_time, Counted
    <3>4. /\ DueInv' /\ wake' \in [{"cpu", "timeout"} -> Nat]
          /\ run' \subseteq {"cpu", "timeout"}
          /\ \A p \in {"cpu", "timeout"} : wake'[p] >= now
      <4>1. quantum \in Nat /\ cpu # "live"
        BY <2>6 DEF Sizes
      <4>2. QED
        BY <2>2, <3>3, <4>1, WaitedDue
    <3>5. Sizes'
      BY <2>2, <3>3, <3>4 DEF Sizes
    <3>6. CountedInv' /\ IdleInv'
      BY <2>2, <2>6, <3>1, <3>3 DEF CountedInv, IdleInv
    <3>7. MoveInv'
      <4>1. Elapsed' = Elapsed + quantum
        BY <2>2, <2>4, <3>1, <3>3 DEF Elapsed, Sizes
      <4>2. QED
        BY <1>0, <2>2, <2>6, <4>1 DEF MoveInv, Sizes
    <3>8. AheadInv'
      <4>1. local_time' = 0
        BY <3>3, ProcessorAssumption DEF local_time
      <4>2. QED
        BY <2>2, <4>1, ProcessorAssumption DEF AheadInv, Sizes
    <3>9. QED
      BY <3>4, <3>5, <3>6, <3>7, <3>8
  <2>7. QED
    BY <2>5, <2>6 DEF Sizes
<1>11. CASE needs_sync
  <2>1. /\ "cpu" \in run /\ ~insync /\ loc = "check"
        /\ loc' = IF NeedsSync(local_time) THEN "synced" ELSE "loop"
        /\ local' = local_time /\ m_cycle_count' = n_cycles
        /\ SyncIfNeeded(local_time)
        /\ UNCHANGED <<quantum, cpu, now, stop, ended, start, num_cycles, n_cycles,
                       stuck, idle, latency>>
    BY <1>11 DEF needs_sync, Thread, kernel, update_local_time, Counted
  <2>2. cpu = "null" => local_time = 0
    <3>1. cpu = "null" => m_cycle_count = n_cycles /\ local = 0
      BY DEF IdleInv, Sizes
    <3>2. QED
      BY <3>1, LocalTime
  <2>3. IdleInv'
    BY <2>1, <2>2 DEF IdleInv
  <2>4. CASE local_time >= quantum
    <3>1. loc' = "synced" /\ wait("cpu", local_time) /\ insync' = TRUE
      BY <2>1, <2>4 DEF SyncIfNeeded, NeedsSync, sync, Offset
    <3>2. /\ quantum > 0 => local_time > 0
          /\ latency' = 0 => local_time <= quantum + Clock
      BY <1>0, <2>1, <2>4, ProcessorAssumption DEF AheadInv, Sizes
    <3>3. /\ DueInv' /\ wake' \in [{"cpu", "timeout"} -> Nat]
          /\ run' \subseteq {"cpu", "timeout"}
          /\ \A p \in {"cpu", "timeout"} : wake'[p] >= now
      BY <1>0, <2>1, <3>1, <3>2, WaitedDue
    <3>4. Sizes'
      BY <1>0, <2>1, <3>1, <3>3 DEF Sizes
    <3>5. CountedInv' /\ MoveInv' /\ AheadInv'
      BY <1>1, <2>1, <3>1 DEF CountedInv, MoveInv, AheadInv
    <3>6. QED
      BY <2>3, <3>3, <3>4, <3>5
  <2>5. CASE ~(local_time >= quantum)
    <3>1. loc' = "loop" /\ NoWait /\ UNCHANGED insync
      BY <2>1, <2>5 DEF SyncIfNeeded, NeedsSync
    <3>2. Sizes'
      BY <1>0, <2>1, <3>1 DEF Sizes, NoWait
    <3>3. CountedInv' /\ MoveInv'
      BY <1>1, <2>1, <3>1 DEF CountedInv, MoveInv
    <3>4. AheadInv'
      BY <1>0, <2>1, <2>5, <3>1 DEF AheadInv, Sizes
    <3>5. QED
      BY <2>1, <2>3, <3>1, <3>2, <3>3, <3>4, NoWaitDue
  <2>6. QED
    BY <2>4, <2>5
<1>12. CASE advanced
  <2>1. /\ "cpu" \in run /\ ~insync /\ loc = "synced" /\ loc' = "thread" /\ NoWait
        /\ local' = local /\ m_cycle_count' = n_cycles
        /\ stuck' = (now + local_time = start)
        /\ UNCHANGED <<quantum, cpu, now, stop, ended, insync, start, num_cycles,
                       n_cycles, idle, latency>>
    BY <1>0, <1>12 DEF advanced, Thread, kernel, update_local_time, Counted
  <2>2. stuck' => cpu = "null" /\ quantum = 0
    <3>1. now + local_time = Elapsed
      BY <2>1, ElapsedTime
    <3>2. start < Elapsed => now + local_time # start
      BY <1>0, <3>1 DEF Sizes
    <3>3. start < Elapsed \/ (cpu = "null" /\ quantum = 0)
      BY <2>1 DEF MoveInv
    <3>4. QED
      BY <2>1, <3>2, <3>3, Zenon
  <2>3. Sizes' /\ CountedInv' /\ IdleInv' /\ AheadInv'
    BY <2>1 DEF Sizes, NoWait, CountedInv, IdleInv, AheadInv
  <2>4. MoveInv'
    BY <1>1, <2>1, <2>2 DEF MoveInv
  <2>5. QED
    BY <2>1, <2>3, <2>4, NoWaitDue
<1>13. CASE UNCHANGED vars
  BY <1>1, <1>13
  DEF vars, Sizes, CountedInv, IdleInv, MoveInv, AheadInv, DueInv, local_time
<1>14. QED
  BY <1>2, <1>3, <1>4, <1>5, <1>6, <1>8, <1>9, <1>10, <1>11, <1>12, <1>13
  DEF Next, Done

\* Where the thread stands, what it has counted, how far it is ahead and when
\* it is due, for every clock, quantum, duration and set of latencies.
THEOREM ProcInvariant == Spec => [](Flags /\ ProcInv)
<1>1. Init => Flags /\ ProcInv
  <2> SUFFICES ASSUME Init PROVE Flags /\ ProcInv
    OBVIOUS
  <2>1. /\ wake \in [{"cpu", "timeout"} -> Nat] /\ wake["cpu"] = 0
        /\ wake["timeout"] = Duration
    BY ProcessorAssumption DEF Init
  <2>2. Flags /\ Sizes
    <3>1. Flags
      BY DEF Init, Flags
    <3>2. Sizes
      BY <2>1, ProcessorAssumption DEF Init, Sizes
    <3>3. QED
      BY <3>1, <3>2
  <2>3. Elapsed = 0
    BY ProcessorAssumption DEF Init, Elapsed
  <2>4. CountedInv /\ IdleInv /\ MoveInv /\ AheadInv
    BY <2>3 DEF Init, CountedInv, IdleInv, MoveInv, AheadInv
  <2>5. DueInv
    BY <2>1, <2>2, ProcessorAssumption DEF Init, DueInv, Sizes
  <2>6. QED
    BY <2>2, <2>4, <2>5 DEF ProcInv
<1>2. TimeInv /\ Flags /\ ProcInv /\ [Next]_vars => (Flags /\ ProcInv)'
  BY ProcStep, FlagsStep
<1>3. QED
  BY <1>1, <1>2, TimeInvariant, PTL DEF Spec

\* Type correctness: no wait is for a negative time, no simulate for no cycles.
THEOREM TypeCorrect == Spec => []TypeOK
<1>1. Flags /\ ProcInv => TypeOK
  <2> SUFFICES ASSUME Flags, ProcInv PROVE TypeOK
    OBVIOUS
  <2>1. DOMAIN wake = {"cpu", "timeout"}
    BY DEF ProcInv, Sizes
  <2>2. /\ now \in Nat /\ wake \in [{"cpu", "timeout"} -> Nat] /\ run \subseteq DOMAIN wake
        /\ \A p \in DOMAIN wake : wake[p] >= now
        /\ loc \in {"thread", "loop", "simulate", "transport", "check", "synced"}
        /\ num_cycles \in Nat \ {0} /\ local \in Nat
        /\ n_cycles \in Nat /\ m_cycle_count \in 0 .. n_cycles
    BY <2>1 DEF ProcInv, Sizes
  <2>3. QED
    BY <2>2, Zenon DEF TypeOK, Flags
<1>2. QED
  BY <1>1, ProcInvariant, PTL

\* "stuck in time" strikes only without a cpu and with a quantum of zero.
THEOREM StuckOnlyAtZeroCorrect == Spec => []StuckOnlyAtZero
<1>1. ProcInv => StuckOnlyAtZero
  BY DEF ProcInv, MoveInv, StuckOnlyAtZero
<1>2. QED
  BY <1>1, ProcInvariant, PTL

\* The processor is never ahead of the kernel by more than a quantum and a
\* cycle, or two quanta and a cycle if transports take time.
THEOREM RunAheadBoundedCorrect == Spec => []RunAheadBounded
<1>1. ProcInv => RunAheadBounded
  <2> SUFFICES ASSUME ProcInv, ~insync
               PROVE  local_time <= (IF latency = 0 THEN 1 ELSE 2) * quantum + Clock
    BY DEF RunAheadBounded
  <2>1. loc # "check" => local_time = local
    BY LocalTime DEF ProcInv, CountedInv
  <2>2. quantum \in Nat /\ 1 * quantum = quantum /\ local \in Nat
    BY DEF ProcInv, Sizes
  <2>3. local_time <= (IF latency = 0 THEN quantum ELSE 2 * quantum) + Clock
    BY <2>1, <2>2, ProcessorAssumption DEF ProcInv, AheadInv
  <2>4. QED
    BY <2>2, <2>3
<1>2. QED
  BY <1>1, ProcInvariant, PTL

\* The instructions that system::run reports fill the duration, and exceed it
\* by at most a quantum and a cycle.
THEOREM InstructionsFillDurationCorrect == Spec => []InstructionsFillDuration
<1>1. TimeInv /\ ProcInv => InstructionsFillDuration
  <2> SUFFICES ASSUME TimeInv, ProcInv, ended, cpu = "live", latency = 0, quantum > 0
               PROVE  /\ Duration < Clock * n_cycles
                      /\ Clock * n_cycles <= Duration + quantum + Clock
    BY DEF InstructionsFillDuration
  <2>1. stop /\ run = {} /\ now = Duration /\ insync
    BY DEF ProcInv, DueInv
  <2>2. wake["cpu"] > Duration /\ wake["cpu"] <= Duration + quantum + Clock
    BY <2>1 DEF ProcInv, DueInv
  <2>3. m_cycle_count = n_cycles /\ idle = 0
    BY <2>1 DEF ProcInv, CountedInv, IdleInv
  <2>4. wake["cpu"] + 0 = Clock * n_cycles + 0 + 0
    BY <2>1, <2>3 DEF TimeInv, TimeAccounted, ThreadTime
  <2>5. Clock * n_cycles \in Nat /\ wake["cpu"] \in Nat
    BY Products DEF ProcInv, Sizes
  <2>6. QED
    BY <2>2, <2>4, <2>5
<1>2. QED
  BY <1>1, TimeInvariant, ProcInvariant, PTL
-----------------------------------------------------------------------------
(* Towards the end.                                                         *)

\* What the way to the end needs besides: the thread's start is a time, without
\* a cpu and with a quantum of zero no time passes, and the timeout is once.
EndInv ==
    /\ start \in Nat
    /\ cpu = "null" /\ quantum = 0 => idle = 0
    /\ stop => "timeout" \notin run

LEMMA EndStep ==
    ASSUME TimeInv, ProcInv, EndInv, [Next]_vars PROVE EndInv'
<1>0. Sizes /\ local_time \in Nat
  BY LocalTime DEF ProcInv
<1>1. CASE Delta
  <2>1. CASE stop
    BY <1>1, <2>1 DEF Delta, EndInv
  <2>2. CASE ~stop
    BY <1>1, <2>2 DEF Delta, EndInv
  <2>3. QED
    BY <2>1, <2>2
<1>2. CASE timeout
  BY <1>2 DEF timeout, wait, EndInv
<1>3. CASE processor_thread
  <2>1. start' \in Nat
    BY <1>0, <1>3 DEF processor_thread, Sizes
  <2>2. QED
    BY <1>3, <2>1 DEF processor_thread, Thread, kernel, NoWait, EndInv
<1>4. CASE simulate_cycles
  <2>1. PICK k \in Executed(num_cycles) :
          IF k = 0
            THEN wait("cpu", Rest(local_time)) /\ idle' = idle + Rest(local_time)
            ELSE NoWait /\ UNCHANGED <<local, m_cycle_count, idle>>
    BY <1>4 DEF simulate_cycles
  <2>2. UNCHANGED <<start, cpu, quantum, stop>> /\ run' \subseteq run
    BY <1>4, <2>1 DEF simulate_cycles, Thread, kernel, wait, NoWait
  <2>3. cpu = "null" /\ quantum = 0 => Rest(local_time) = 0
    <3>1. loc = "simulate"
      BY <1>4 DEF simulate_cycles, Thread
    <3>2. cpu = "null" => local_time = 0
      BY <3>1, LocalTime DEF ProcInv, CountedInv, IdleInv
    <3>3. QED
      BY <3>2 DEF Rest
  <2>4. cpu = "null" /\ quantum = 0 => idle' = 0
    BY <2>1, <2>3 DEF EndInv
  <2>5. QED
    BY <2>2, <2>4 DEF EndInv
<1>5. CASE SyncEnd \/ Cycles \/ Send \/ b_transport \/ needs_sync \/ advanced
  <2>1. UNCHANGED <<start, cpu, quantum, idle, stop>>
    BY <1>5 DEF SyncEnd, Cycles, Send, b_transport, needs_sync, advanced, Thread, kernel
  <2>2. run' \subseteq run
    BY <1>5 DEF SyncEnd, Cycles, Send, b_transport, needs_sync, advanced, NoWait,
       SyncIfNeeded, sync, wait
  <2>3. QED
    BY <2>1, <2>2 DEF EndInv
<1>6. CASE UNCHANGED vars
  BY <1>6 DEF vars, EndInv
<1>7. QED
  BY <1>1, <1>2, <1>3, <1>4, <1>5, <1>6 DEF Next, Done

LEMMA EndInvariant == Spec => []EndInv
<1>1. Init => EndInv
  BY DEF Init, EndInv
<1>2. TimeInv /\ Flags /\ ProcInv /\ EndInv /\ [Next]_vars => EndInv'
  BY EndStep
<1>3. QED
  BY <1>1, <1>2, TimeInvariant, ProcInvariant, PTL DEF Spec

\* A thread that is about to simulate, or to transport, is within a quantum of
\* the duration.
LEMMA InTime ==
    ASSUME TimeInv, ProcInv, "cpu" \in run, ~insync, loc # "check"
    PROVE  Elapsed <= Duration + quantum
<1>1. local_time = local /\ now + local_time = Elapsed
  BY LocalTime, ElapsedTime DEF ProcInv, CountedInv
<1>2. now <= Duration
  BY ProcessorAssumption DEF ProcInv, DueInv, Sizes
<1>3. local <= quantum
  BY DEF ProcInv, AheadInv, Sizes
<1>4. QED
  BY <1>1, <1>2, <1>3, ProcessorAssumption DEF ProcInv, Sizes

LEMMA TimeGoesOn ==
    ASSUME quantum \in Nat, UNCHANGED quantum, Elapsed \in Nat, Elapsed' \in Nat,
           Elapsed <= Duration + quantum, Elapsed' > Elapsed
    PROVE  TimeLeft' < TimeLeft
<1>1. \A d, e, f \in Nat : e <= d /\ f > e =>
        (IF f <= d THEN d + 1 - f ELSE 0) < (IF e <= d THEN d + 1 - e ELSE 0)
  OBVIOUS
<1>2. Duration + quantum \in Nat
  BY ProcessorAssumption
<1>3. (IF Elapsed' <= Duration + quantum THEN Duration + quantum + 1 - Elapsed' ELSE 0)
        < (IF Elapsed <= Duration + quantum THEN Duration + quantum + 1 - Elapsed ELSE 0)
  BY <1>1, <1>2
<1>4. QED
  BY <1>3 DEF TimeLeft

\* One part of Left goes down, and those before it stay.
SameTime == UNCHANGED <<Running, TimeLeft>>
SameLoop == SameTime /\ UNCHANGED <<LoopLeft, insync>>
Lower ==
    \/ Running' < Running
    \/ UNCHANGED Running /\ TimeLeft' < TimeLeft
    \/ SameTime /\ LoopLeft' < LoopLeft
    \/ SameTime /\ UNCHANGED LoopLeft /\ insync /\ ~insync'
    \/ SameLoop /\ "cpu" \notin run /\ "cpu" \in run'
    \/ /\ SameLoop /\ "cpu" \notin run /\ "cpu" \notin run'
       /\ "timeout" \notin run /\ "timeout" \in run'

LEMMA LowerDescends == Lower => Descends(Left', Left)
<1> SUFFICES ASSUME Lower PROVE Descends(Left', Left)
    OBVIOUS
<1>1. DOMAIN Left = 1 .. 6
  BY DEF Left
<1>2. \E k \in 1 .. 6 : Left'[k] < Left[k] /\ \A j \in 1 .. (k - 1) : Left'[j] = Left[j]
  BY DEF Lower, SameLoop, SameTime, Left
<1>3. QED
  BY <1>1, <1>2 DEF Descends

LEMMA StepsLower ==
    ASSUME TimeInv, Flags, ProcInv, EndInv, Next PROVE Lower \/ UNCHANGED vars
<1>0. /\ Sizes /\ local_time \in Nat /\ Elapsed \in Nat
      /\ loc # "check" => local_time = local
  BY LocalTime, ElapsedNat DEF ProcInv, CountedInv
<1>1. UNCHANGED <<n_cycles, latency, idle, quantum>> => UNCHANGED TimeLeft
  BY DEF Elapsed, TimeLeft
<1>2. UNCHANGED <<stop, ended, stuck>> => UNCHANGED Running
  BY DEF Running
<1>3. CASE Delta
  <2>1. UNCHANGED <<TimeLeft, LoopLeft, insync>> /\ ~ended /\ ~stuck /\ run = {}
    BY <1>1, <1>3 DEF Delta, LoopLeft
  <2>2. CASE stop
    BY <1>3, <2>1, <2>2 DEF Delta, Lower, Running
  <2>3. CASE ~stop
    <3>1. SameLoop
      BY <1>2, <1>3, <2>1, <2>3 DEF Delta, SameLoop, SameTime
    <3>2. "cpu" \in run' \/ "timeout" \in run'
      BY <1>0, <1>3, <2>3 DEF Delta, Sizes
    <3>3. QED
      BY <2>1, <3>1, <3>2 DEF Lower
  <2>4. QED
    BY <2>2, <2>3
<1>4. CASE timeout
  BY <1>4 DEF timeout, Lower, Running, EndInv, ProcInv, DueInv
<1>5. CASE SyncEnd
  <2>1. SameTime /\ UNCHANGED LoopLeft
    BY <1>1, <1>2, <1>5 DEF SyncEnd, kernel, SameTime, LoopLeft
  <2>2. QED
    BY <1>5, <2>1 DEF SyncEnd, Lower
<1>6. CASE processor_thread \/ Cycles \/ Send \/ needs_sync
  <2>1. SameTime /\ UNCHANGED <<cpu, quantum>>
    BY <1>1, <1>2, <1>6
    DEF processor_thread, Cycles, Send, needs_sync, Thread, kernel, SameTime
  <2>2. LoopLeft' < LoopLeft
    BY <1>0, <1>6, <2>1
    DEF processor_thread, Cycles, Send, needs_sync, Thread, LoopLeft, NeedsSync, Sizes
  <2>3. QED
    BY <2>1, <2>2 DEF Lower
<1>7. CASE b_transport
  <2>1. PICK x \in Latencies : latency' = latency + x
    BY <1>7 DEF b_transport
  <2>2. /\ x \in Nat \ {0} /\ Clock * n_cycles \in Nat
        /\ UNCHANGED <<n_cycles, idle, quantum, stop, ended, stuck>>
    BY <1>0, <1>7, Products, ProcessorAssumption
    DEF b_transport, Thread, kernel, Sizes
  <2>3. Elapsed' = Elapsed + x
    BY <1>0, <2>1, <2>2 DEF Elapsed, Sizes
  <2>4. Elapsed <= Duration + quantum
    BY <1>7, InTime DEF b_transport, Thread
  <2>5. TimeLeft' < TimeLeft
    BY <1>0, <2>2, <2>3, <2>4, TimeGoesOn DEF Sizes
  <2>6. QED
    BY <1>2, <2>2, <2>5 DEF Lower
<1>8. CASE simulate_cycles
  <2>1. PICK k \in Executed(num_cycles) :
          /\ n_cycles' = n_cycles + k
          /\ idle' = IF k = 0 THEN idle + Rest(local_time) ELSE idle
    BY <1>8 DEF simulate_cycles
  <2>2. /\ "cpu" \in run /\ ~insync /\ loc = "simulate" /\ loc' = "check"
        /\ UNCHANGED <<cpu, quantum, latency, stop, ended, stuck>>
    BY <1>8 DEF simulate_cycles, Thread, kernel
  <2>3. UNCHANGED Running /\ Elapsed <= Duration + quantum
    BY <1>2, <2>2, InTime
  <2>4. CASE cpu = "live"
    <3>1. k \in Nat /\ k # 0
      BY <1>0, <2>4 DEF Executed, Sizes
    <3>2. /\ Clock * n_cycles \in Nat /\ Clock * k \in Nat /\ Clock <= Clock * k
          /\ Clock * (n_cycles + k) = Clock * n_cycles + Clock * k
      BY <1>0, <3>1, Products DEF Sizes
    <3>3. Elapsed' = Elapsed + Clock * k
      BY <1>0, <2>1, <2>2, <3>1, <3>2 DEF Elapsed, Sizes
    <3>4. Elapsed' \in Nat /\ Elapsed' > Elapsed
      BY <1>0, <3>2, <3>3, ProcessorAssumption
    <3>5. TimeLeft' < TimeLeft
      BY <1>0, <2>2, <2>3, <3>4, TimeGoesOn DEF Sizes
    <3>6. QED
      BY <2>3, <3>5 DEF Lower
  <2>5. CASE cpu = "null"
    <3>1. k = 0 /\ local_time = 0 /\ n_cycles = 0
      BY <1>0, <2>2, <2>5 DEF Executed, ProcInv, IdleInv
    <3>2. /\ n_cycles' = n_cycles /\ idle' = idle + quantum
          /\ Clock * n_cycles \in Nat
      BY <1>0, <2>1, <3>1, Products DEF Rest, Sizes
    <3>3. Elapsed' = Elapsed + quantum
      BY <1>0, <2>2, <3>2 DEF Elapsed, Sizes
    <3>4. CASE quantum = 0
      <4>1. SameTime
        BY <1>0, <1>1, <2>2, <2>3, <3>2, <3>4 DEF SameTime, Sizes
      <4>2. LoopLeft' < LoopLeft
        BY <2>2, <2>5, <3>4 DEF LoopLeft
      <4>3. QED
        BY <4>1, <4>2 DEF Lower
    <3>5. CASE quantum # 0
      <4>1. Elapsed' \in Nat /\ Elapsed' > Elapsed
        BY <1>0, <3>3, <3>5 DEF Sizes
      <4>2. TimeLeft' < TimeLeft
        BY <1>0, <2>2, <2>3, <4>1, TimeGoesOn DEF Sizes
      <4>3. QED
        BY <2>3, <4>2 DEF Lower
    <3>6. QED
      BY <3>4, <3>5
  <2>6. QED
    BY <1>0, <2>4, <2>5 DEF Sizes
<1>9. CASE advanced
  <2>1. /\ "cpu" \in run /\ ~insync /\ loc = "synced" /\ loc' = "thread" /\ ~stuck
        /\ stuck' = (now + local_time = start)
        /\ UNCHANGED <<cpu, quantum, stop, ended, n_cycles, latency, idle>>
    BY <1>9 DEF advanced, Thread, kernel
  <2>2. ~ended
    BY <2>1 DEF ProcInv, DueInv
  <2>3. CASE stuck'
    BY <2>1, <2>2, <2>3 DEF Lower, Running
  <2>4. CASE ~stuck'
    <3>1. ~(cpu = "null" /\ quantum = 0)
      <4>1. now + local_time = Elapsed
        BY <2>1, ElapsedTime
      <4>2. cpu = "null" /\ quantum = 0 => Elapsed = 0
        BY Products, ProcessorAssumption DEF Elapsed, EndInv, ProcInv, IdleInv
      <4>3. start <= Elapsed /\ start \in Nat
        BY DEF EndInv, ProcInv, MoveInv
      <4>4. now + local_time # start
        BY <2>1, <2>4
      <4>5. QED
        BY <4>1, <4>2, <4>3, <4>4
    <3>2. SameTime
      BY <1>1, <2>1, <2>2, <2>4 DEF SameTime, Running
    <3>3. LoopLeft' < LoopLeft
      BY <2>1, <3>1 DEF LoopLeft
    <3>4. QED
      BY <3>2, <3>3 DEF Lower
  <2>5. QED
    BY <2>3, <2>4
<1>10. QED
  BY <1>3, <1>4, <1>5, <1>6, <1>7, <1>8, <1>9 DEF Next, Done

\* Every step of the kernel and the threads brings the simulation nearer to its
\* end, for every clock, quantum, duration and set of latencies.
THEOREM StepsTowardsEndCorrect == Spec => StepsTowardsEnd
<1>1. TimeInv /\ Flags /\ ProcInv /\ EndInv /\ [Next]_vars => [Descends(Left', Left)]_vars
  BY StepsLower, LowerDescends
<1>2. QED
  BY <1>1, TimeInvariant, ProcInvariant, EndInvariant, PTL DEF Spec, StepsTowardsEnd

\* The parts of Left stay natural numbers, so that it cannot go down for ever
\* (NoEndlessDescent of LexicographicProofs).
THEOREM LeftCorrect == Spec => [](Left \in [1 .. 6 -> Nat])
<1>1. Flags /\ ProcInv => Left \in [1 .. 6 -> Nat]
  <2> SUFFICES ASSUME Flags, ProcInv PROVE Left \in [1 .. 6 -> Nat]
    OBVIOUS
  <2>1. TimeLeft \in Nat
    BY ElapsedNat, ProcessorAssumption DEF TimeLeft, ProcInv, Sizes
  <2>2. Running \in Nat /\ LoopLeft \in Nat
    BY DEF Running, LoopLeft
  <2>3. QED
    BY <2>1, <2>2 DEF Left
<1>2. QED
  BY <1>1, ProcInvariant, PTL
=============================================================================
