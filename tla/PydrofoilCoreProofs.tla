------------------------ MODULE PydrofoilCoreProofs ------------------------
(* Theorems about PydrofoilCore, for every value of its constants.         *)
EXTENDS PydrofoilCore, TLAPS

LEMMA ToIntType == \A n \in Nat : ToInt(n) \in Int
  BY WidthAssumption DEF ToInt

LEMMA ToU64Type == \A i \in Int : ToU64(i) \in Nat
  BY WidthAssumption DEF ToU64

LEMMA HeadTailType ==
    ASSUME NEW S, NEW s \in Seq(S), s # <<>>
    PROVE  Head(s) \in S /\ Tail(s) \in Seq(S)
  OBVIOUS

\* Type correctness: every action of both threads keeps the fields of
\* PydrofoilCore, the queues and the futures within their types.
THEOREM TypeCorrect == Spec => []TypeOK
<1> USE BoundsAssumption, WidthAssumption, MapAssumption, ValueAssumption,
        SwitchAssumption
<1>1. Init => TypeOK
  <2> SUFFICES ASSUME Init PROVE TypeOK
    OBVIOUS
  <2> USE DEF Init
  <2>1. /\ task_queue \in Seq(Task) /\ memtask_queue \in Seq(Access)
        /\ call \in Task /\ wtask \in Task /\ cur \in Access
    BY DEF Task, Funct, Access, NoAccess
  <2>2. mem \in [MappedAddr -> Data] /\ shadow = mem
    OBVIOUS
  <2>3. /\ sim_started \in BOOLEAN /\ stop_worker \in BOOLEAN
        /\ connected \in BOOLEAN /\ dropped \in BOOLEAN
    OBVIOUS
  <2>4. QED
    BY <2>1, <2>2, <2>3 DEF TypeOK, NotReady, SLocations, WLocations, Phases
<1>2. TypeOK /\ [Next]_vars => TypeOK'
  <2> SUFFICES ASSUME TypeOK, [Next]_vars PROVE TypeOK'
    OBVIOUS
  <2> USE DEF TypeOK, NotReady, Task, Funct, SLocations, WLocations, Phases,
              vars, client, tasks, fields, memtasks, memory, worker, iss, ghosts
  <2>1. CASE Construct
    BY <2>1 DEF Construct, PhaseRequest, Request, Push, NewPromise
  <2>2. CASE define_cpureg
    BY <2>2 DEF define_cpureg, PhaseRequest, Request, Push, NewPromise
  <2>3. CASE flush_cpuregs
    BY <2>3 DEF flush_cpuregs, PhaseRequest, Request, Push, NewPromise
  <2>4. CASE end_of_elaboration
    BY <2>4 DEF end_of_elaboration, PhaseRequest, Request, Push, NewPromise
  <2>5. CASE cycle_count
    BY <2>5 DEF cycle_count, RunRequest, Request, Push, NewPromise
  <2>6. CASE read_reg_dbg
    BY <2>6 DEF read_reg_dbg, RunRequest, Request, Push, NewPromise
  <2>7. CASE \E v \in PCs : write_reg_dbg(v)
    BY <2>7 DEF write_reg_dbg, RunRequest, Request, Push, NewPromise
  <2>8. CASE sc_stop
    BY <2>8 DEF sc_stop
  <2>9. CASE report
    <3>1. CASE PhaseRequest("report", "GetCycles", 0)
      BY <3>1 DEF PhaseRequest, Request, Push, NewPromise
    <3>2. CASE CachedCount("idle", "idle") /\ phase' = "dtor"
      <4>1. last_count' \in Nat
        BY <3>2, ToU64Type DEF CachedCount
      <4>2. QED
        BY <3>2, <4>1 DEF CachedCount
    <3>3. QED
      BY <2>9, <3>1, <3>2 DEF report
  <2>10. CASE Destroy
    <3>1. CASE Request("idle", "FreeCpu", 0) /\ stop_worker' = TRUE /\ UNCHANGED calls
      BY <3>1 DEF Request, Push, NewPromise
    <3>2. CASE SGoto("join")
      BY <3>2 DEF SGoto
    <3>3. QED
      BY <2>10, <3>1, <3>2 DEF Destroy
  <2>11. CASE join
    BY <2>11 DEF join, SGoto
  <2>12. CASE NotifyTask
    BY <2>12 DEF NotifyTask, Woken
  <2>13. CASE Get
    <3>1. spc' \in SLocations /\ phase' \in Phases
      BY <2>13 DEF Get, AfterCall
    <3>2. last_count' \in Nat
      BY <2>13 DEF Get, Ready
    <3>3. UNCHANGED <<wpc, call, calls, tasks, fields, memtasks, memory, worker,
                      shadow, dropped>>
      BY <2>13 DEF Get
    <3>4. QED
      BY <3>1, <3>2, <3>3
  <2>14. CASE \E m \in 1 .. MaxCycles : simulate(m)
    BY <2>14 DEF simulate, Push, NewPromise
  <2>15. CASE StartSim
    BY <2>15 DEF StartSim, SetSimStarted
  <2>16. CASE While
    <3>1. CASE SetSimStarted(FALSE, "idle")
      <4>1. spc' = "idle" /\ sim_started' \in BOOLEAN
        BY <3>1 DEF SetSimStarted
      <4>2. UNCHANGED <<wpc, client, tasks, n_cycles, stop_worker, cpu, memtasks,
                        memory, worker, ghosts>>
        BY <3>1 DEF SetSimStarted
      <4>3. QED
        BY <4>1, <4>2
    <3>2. CASE SGoto("lock")
      BY <3>2 DEF SGoto
    <3>3. QED
      BY <2>16, <3>1, <3>2 DEF While
  <2>17. CASE LockMem
    <3>1. CASE memtask_queue # <<>>
      <4>1. Head(memtask_queue) \in Access /\ Tail(memtask_queue) \in Seq(Access)
        BY <3>1, HeadTailType
      <4>2. cur' \in Access /\ memtask_queue' \in Seq(Access) /\ spc' = "serve"
        BY <2>17, <3>1, <4>1 DEF LockMem
      <4>3. UNCHANGED <<wpc, client, tasks, fields, mres, memory, worker, ghosts>>
        BY <2>17, <3>1 DEF LockMem
      <4>4. QED
        BY <4>2, <4>3
    <3>2. CASE memtask_queue = <<>>
      BY <2>17, <3>2 DEF LockMem, SGoto
    <3>3. QED
      BY <3>1, <3>2
  <2>18. CASE PredDone
    <3>1. CASE SGoto("while")
      BY <3>1 DEF SGoto
    <3>2. CASE SGoto("block")
      BY <3>2 DEF SGoto
    <3>3. QED
      BY <2>18, <3>1, <3>2 DEF PredDone
  <2>19. CASE BlockMem
    BY <2>19 DEF BlockMem, SGoto
  <2>20. CASE CountBeforeTransport
    BY <2>20 DEF CountBeforeTransport, CachedCount, ToU64
  <2>21. CASE Transport
    <3>1. dest' \in Data \cup {FILL}
      BY <2>21 DEF Transport, Placeholder
    <3>2. mem' \in [MappedAddr -> Data]
      BY <2>21 DEF Transport, Access, MappedAddr
    <3>3. cur' \in Access
      BY <2>21 DEF Transport, NoAccess, Access
    <3>4. QED
      BY <2>21, <3>1, <3>2, <3>3 DEF Transport
  <2>22. CASE SuspendInTransport
    BY <2>22 DEF SuspendInTransport, Request, Push, NewPromise
  <2>23. CASE StopInTransport
    BY <2>23 DEF StopInTransport
  <2>24. CASE python_worker_loop
    <3>1. CASE task_queue # <<>>
      <4>1. Head(task_queue) \in Task /\ Tail(task_queue) \in Seq(Task)
        BY <3>1, HeadTailType
      <4>2. wtask' \in Task /\ task_queue' \in Seq(Task) /\ wpc' = "run"
        BY <2>24, <3>1, <4>1 DEF python_worker_loop
      <4>3. QED
        BY <2>24, <4>2 DEF python_worker_loop
    <3>2. CASE task_queue = <<>>
      BY <2>24, <3>2 DEF python_worker_loop
    <3>3. QED
      BY <3>1, <3>2
  <2>25. CASE InitCpu
    <3>1. connected' \in BOOLEAN
      BY <2>25 DEF InitCpu, ResetIss
    <3>2. QED
      BY <2>25, <3>1 DEF InitCpu, Handling, Answer, ResetIss
  <2>26. CASE GetCycles
    <3>1. n_cycles' \in Int
      BY <2>26, ToIntType DEF GetCycles, Refresh
    <3>2. done' \in Nat
      BY <2>26, <3>1, ToU64Type DEF GetCycles, Answer
    <3>3. QED
      BY <2>26, <3>1, <3>2 DEF GetCycles, Answer
  <2>27. CASE SetPc
    BY <2>27 DEF SetPc, MayRaise, Handling, Answer
  <2>28. CASE ReadPc
    BY <2>28 DEF ReadPc, MayRaise, Handling, Answer
  <2>29. CASE FreeCpu
    BY <2>29 DEF FreeCpu, Handling, Answer
  <2>30. CASE SetCb
    <3>1. CASE Live
      BY <2>30, <3>1 DEF SetCb
    <3>2. CASE ~Live
      <4>1. Answer(0) /\ UNCHANGED <<cpu, n_cycles, steps, isspc, connected>>
        BY <2>30, <3>2 DEF SetCb
      <4>2. QED
        BY <4>1 DEF Answer
    <3>3. QED
      BY <3>1, <3>2
  <2>31. CASE SetCbEnd
    <3>1. connected' \in BOOLEAN
      BY <2>31 DEF SetCbEnd, ResetIss
    <3>2. QED
      BY <2>31, <3>1 DEF SetCbEnd, Answer, ResetIss
  <2>32. CASE Simulate
    BY <2>32 DEF Simulate, Handling
  <2>33. CASE Step
    BY <2>33 DEF Step, StepLeft
  <2>34. CASE StepEnd
    BY <2>34 DEF StepEnd
  <2>35. CASE SimulateEnd
    BY <2>35 DEF SimulateEnd, Refresh, ToInt
  <2>36. CASE SimulateNotify
    BY <2>36 DEF SimulateNotify, NotifyMem, Woken
  <2>37. CASE \E q \in Access : Ignore(q)
    BY <2>37 DEF Ignore, CallsBack, Intend, GuestStore, MappedAddr, Access
  <2>38. CASE \E q \in Access : Forward(q)
    BY <2>38 DEF Forward, CallsBack, Intend, GuestStore, MappedAddr, Access
  <2>39. CASE ForwardNotify
    BY <2>39 DEF ForwardNotify, NotifyMem, Woken
  <2>40. CASE Resume
    BY <2>40 DEF Resume
  <2>41. CASE SpuriousTask
    BY <2>41 DEF SpuriousTask
  <2>42. CASE SpuriousMem
    BY <2>42 DEF SpuriousMem, SGoto
  <2>43. CASE UNCHANGED vars
    BY <2>43
  <2>44. QED
    BY <2>1, <2>2, <2>3, <2>4, <2>5, <2>6, <2>7, <2>8, <2>9, <2>10,
       <2>11, <2>12, <2>13, <2>14, <2>15, <2>16, <2>17, <2>18, <2>19,
       <2>20, <2>21, <2>22, <2>23, <2>24, <2>25, <2>26, <2>27, <2>28,
       <2>29, <2>30, <2>31, <2>32, <2>33, <2>34, <2>35, <2>36, <2>37,
       <2>38, <2>39, <2>40, <2>41, <2>42, <2>43
    DEF Next, SysC, Worker, Elaborate, Run, Finish, Serve, Handle, Callback
<1>3. QED
  BY <1>1, <1>2, PTL DEF Spec
-----------------------------------------------------------------------------
(* Sequences of at most one element.                                       *)

LEMMA Singleton ==
    \A x : /\ Append(<<>>, x) = <<x>> /\ <<x>> # <<>> /\ Len(<<x>>) = 1
          /\ Head(<<x>>) = x /\ Tail(<<x>>) = <<>>
  OBVIOUS

\* The handshake is inductive.
LEMMA HandshakeStep == TypeOK /\ Handshake /\ [Next]_vars => Handshake'
<1> SUFFICES ASSUME TypeOK, Handshake, [Next]_vars PROVE Handshake'
    OBVIOUS
<1> USE Singleton
    DEF Handshake, Quiet, InCall, InSim, Stuck, AccessInv, LiveInv, Live, Rest,
        BusyCall, BusySim, Waiting, TypeOK, NotReady, vars, client, tasks,
        fields, memtasks, memory, worker, iss, ghosts
<1>1. CASE Construct
  BY <1>1 DEF Construct, PhaseRequest, Request, Push, NewPromise
<1>2. CASE define_cpureg
  BY <1>2 DEF define_cpureg, PhaseRequest, Request, Push, NewPromise
<1>3. CASE flush_cpuregs
  BY <1>3 DEF flush_cpuregs, PhaseRequest, Request, Push, NewPromise
<1>4. CASE end_of_elaboration
  BY <1>4 DEF end_of_elaboration, PhaseRequest, Request, Push, NewPromise
<1>5. CASE cycle_count
  BY <1>5 DEF cycle_count, RunRequest, Request, Push, NewPromise
<1>6. CASE read_reg_dbg
  BY <1>6 DEF read_reg_dbg, RunRequest, Request, Push, NewPromise
<1>7. CASE \E v \in PCs : write_reg_dbg(v)
  BY <1>7 DEF write_reg_dbg, RunRequest, Request, Push, NewPromise
<1>8. CASE sc_stop
  BY <1>8 DEF sc_stop
<1>9. CASE report
  <2>1. CASE ~sim_started /\ PhaseRequest("report", "GetCycles", 0)
    BY <2>1 DEF PhaseRequest, Request, Push, NewPromise
  <2>2. CASE CachedCount("idle", "idle") /\ phase' = "dtor"
    <3>1. Stuck /\ spc = "idle"
      BY <2>2 DEF CachedCount
    <3>2. Stuck' /\ spc' = "idle" /\ UNCHANGED <<wpc, wleft, cpu, wtask>>
      BY <2>2, <3>1 DEF CachedCount
    <3>3. QED
      BY <2>2, <3>1, <3>2 DEF CachedCount
  <2>3. QED
    BY <1>9, <2>1, <2>2 DEF report
<1>10. CASE Destroy
  <2>1. CASE cpu # "null"
    <3>1. /\ phase = "dtor" /\ spc = "idle" /\ spc' = "notify"
          /\ Push("FreeCpu", 0)
          /\ UNCHANGED <<wpc, phase, sim_started, cpu, memtasks, worker>>
      BY <1>10, <2>1 DEF Destroy, Request
    <3>2. CASE Quiet
      BY <3>1, <3>2 DEF Push, NewPromise
    <3>3. CASE Stuck
      BY <3>1, <3>3 DEF Push, NewPromise
    <3>4. QED
      BY <3>1, <3>2, <3>3
  <2>2. CASE cpu = "null"
    <3>1. Quiet /\ SGoto("join")
      BY <1>10, <2>2 DEF Destroy
    <3>2. QED
      BY <3>1 DEF SGoto
  <2>3. QED
    BY <2>1, <2>2
<1>11. CASE join
  BY <1>11 DEF join, SGoto
<1>12. CASE NotifyTask
  BY <1>12 DEF NotifyTask, Woken
<1>13. CASE Get
  BY <1>13 DEF Get, AfterCall, Ready
<1>14. CASE \E m \in 1 .. MaxCycles : simulate(m)
  BY <1>14 DEF simulate, Push, NewPromise
<1>15. CASE StartSim
  BY <1>15 DEF StartSim, SetSimStarted
<1>16. CASE While
  BY <1>16 DEF While, Ready, SGoto, SetSimStarted
<1>17. CASE LockMem
  <2>1. CASE memtask_queue # <<>>
    <3>1. /\ spc = "lock" /\ spc' = "serve" /\ memtask_queue' = Tail(memtask_queue)
          /\ UNCHANGED <<wpc, client, tasks, fields, mres, worker>>
      BY <1>17, <2>1 DEF LockMem
    <3>2. Waiting /\ Len(memtask_queue) = 1 /\ mres = "none"
      BY <2>1, <3>1
    <3>3. memtask_queue' = <<>>
      BY <3>1, <3>2
    <3>4. InSim' /\ LiveInv'
      BY <3>1
    <3>5. AccessInv'
      BY <3>1, <3>2, <3>3
    <3>6. QED
      BY <3>4, <3>5
  <2>2. CASE memtask_queue = <<>>
    BY <1>17, <2>2 DEF LockMem, SGoto
  <2>3. QED
    BY <2>1, <2>2
<1>18. CASE PredDone
  BY <1>18 DEF PredDone, SGoto, Ready
<1>19. CASE BlockMem
  BY <1>19 DEF BlockMem, SGoto
<1>20. CASE CountBeforeTransport
  BY <1>20 DEF CountBeforeTransport, CachedCount
<1>21. CASE Transport
  BY <1>21 DEF Transport
<1>22. CASE SuspendInTransport
  BY <1>22 DEF SuspendInTransport, Request, Push, NewPromise
<1>23. CASE StopInTransport
  BY <1>23 DEF StopInTransport
<1>24. CASE python_worker_loop
  BY <1>24 DEF python_worker_loop
<1>25. CASE InitCpu
  BY <1>25 DEF InitCpu, Handling, Answer, ResetIss
<1>26. CASE GetCycles
  <2>1. n_cycles' \in Int
    BY <1>26, ToIntType DEF GetCycles, Refresh
  <2>2. done' = ToU64(n_cycles')
    BY <1>26 DEF GetCycles, Answer
  <2>3. done' \in Nat
    BY <2>1, <2>2, ToU64Type
  <2>4. done' # NotReady
    BY <2>3
  <2>5. QED
    BY <1>26, <2>4 DEF GetCycles, Handling, Answer
<1>27. CASE SetPc
  BY <1>27 DEF SetPc, MayRaise, Handling, Answer
<1>28. CASE ReadPc
  BY <1>28 DEF ReadPc, MayRaise, Handling, Answer
<1>29. CASE FreeCpu
  BY <1>29 DEF FreeCpu, Handling, Answer
<1>30. CASE SetCb
  BY <1>30 DEF SetCb, Handling, Answer
<1>31. CASE SetCbEnd
  BY <1>31 DEF SetCbEnd, Answer, ResetIss
<1>32. CASE Simulate
  BY <1>32 DEF Simulate, Handling
<1>33. CASE Step
  BY <1>33 DEF Step, StepLeft
<1>34. CASE StepEnd
  BY <1>34 DEF StepEnd
<1>35. CASE SimulateEnd
  BY <1>35 DEF SimulateEnd, Refresh
<1>36. CASE SimulateNotify
  BY <1>36 DEF SimulateNotify, NotifyMem, Woken
<1>37. CASE \E q \in Access : Ignore(q)
  BY <1>37 DEF Ignore, CallsBack
<1>38. CASE \E q \in Access : Forward(q)
  BY <1>38 DEF Forward, CallsBack, Ignored, MemMutexFree
<1>39. CASE ForwardNotify
  BY <1>39 DEF ForwardNotify, NotifyMem, Woken
<1>40. CASE Resume
  BY <1>40 DEF Resume, Answered
<1>41. CASE SpuriousTask
  BY <1>41 DEF SpuriousTask
<1>42. CASE SpuriousMem
  BY <1>42 DEF SpuriousMem, SGoto
<1>43. CASE UNCHANGED vars
  BY <1>43
<1>44. QED
  BY <1>1, <1>2, <1>3, <1>4, <1>5, <1>6, <1>7, <1>8, <1>9, <1>10,
     <1>11, <1>12, <1>13, <1>14, <1>15, <1>16, <1>17, <1>18, <1>19,
     <1>20, <1>21, <1>22, <1>23, <1>24, <1>25, <1>26, <1>27, <1>28,
     <1>29, <1>30, <1>31, <1>32, <1>33, <1>34, <1>35, <1>36, <1>37,
     <1>38, <1>39, <1>40, <1>41, <1>42, <1>43
  DEF Next, SysC, Worker, Elaborate, Run, Finish, Serve, Handle, Callback

\* The two threads keep the handshake: a task, and the access inside it, is
\* always in exactly one place.
THEOREM HandshakeCorrect == Spec => []Handshake
<1>1. Init => Handshake
  BY DEF Init, Handshake, Quiet, AccessInv, LiveInv, Waiting, Rest
<1>2. QED
  BY <1>1, TypeCorrect, HandshakeStep, PTL DEF Spec

\* Neither queue ever holds two elements, as core.h expects of task_queue.
THEOREM QueuesBoundedCorrect == Spec => []QueuesBounded
<1>1. Handshake => QueuesBounded
  <2> SUFFICES ASSUME Handshake PROVE QueuesBounded
    OBVIOUS
  <2>1. task_queue = <<>> \/ task_queue = <<call>>
    BY DEF Handshake, Quiet, InCall, InSim, Stuck
  <2>2. memtask_queue = <<>> \/ Len(memtask_queue) = 1
    BY DEF Handshake, AccessInv
  <2>3. Len(<<>>) <= 1 /\ Len(<<call>>) <= 1 /\ 1 <= 1
    OBVIOUS
  <2>4. Len(task_queue) <= 1
    BY <2>1, <2>3, Zenon
  <2>5. Len(memtask_queue) <= 1
    BY <2>2, <2>3, Zenon
  <2>6. QED
    BY <2>4, <2>5 DEF QueuesBounded
<1>2. QED
  BY <1>1, HandshakeCorrect, PTL

\* While the SystemC thread serves an access the worker is parked in its
\* callback: what no mutex protects is used by one thread at a time.
THEOREM ServeExcludesWorkerCorrect == Spec => []ServeExcludesWorker
<1>1. Handshake => ServeExcludesWorker
  BY DEF Handshake, AccessInv, ServeExcludesWorker
<1>2. QED
  BY <1>1, HandshakeCorrect, PTL

\* The threads block each other only after a transaction has yielded; with
\* transactions that take no simulated time they never do.
THEOREM EmbraceOnlyByYieldCorrect == Spec => []EmbraceOnlyByYield
<1>1. Handshake => EmbraceOnlyByYield
  BY DEF Handshake, Quiet, InCall, InSim, Stuck, BusyCall, Rest, Waiting,
     EmbraceOnlyByYield
<1>2. QED
  BY <1>1, HandshakeCorrect, PTL
-----------------------------------------------------------------------------
(***************************************************************************)
(* The memory of the platform and the stores of the guest: on its way from *)
(* write_mem through memtask_queue and the SystemC thread a store is in    *)
(* one place, and it is neither lost nor applied twice.                    *)
(***************************************************************************)

\* The callbacks forward every address that the bus decodes.  The map of
\* system.h and the one of riscv64_ex.cfg are such maps.
MapInWindow == BOOT_LO <= SRAM_LO /\ BOOT_HI <= WIN_HI /\ SRAM_HI <= WIN_HI

\* The access that the SystemC thread has still to make, or a read.
Pending ==
    IF ~Waiting \/ mres # "none" THEN NoAccess
    ELSE IF memtask_queue # <<>> THEN Head(memtask_queue) ELSE cur

Stored(m, q) ==
    IF q.rw = "Write" /\ Mapped(q.addr) THEN [m EXCEPT ![q.addr] = q.val] ELSE m

\* What the guest has stored is in memory, but for the pending access.
MemInv == ~dropped => shadow = Stored(mem, Pending)

LEMMA MappedInWindow ==
    ASSUME MapInWindow, NEW a \in Addr, Mapped(a) PROVE InWindow(a)
  BY MapAssumption DEF MapInWindow, Mapped, InWindow

LEMMA NoAccessStoresNothing == \A m : Stored(m, NoAccess) = m
  BY DEF Stored, NoAccess

\* The steps that move no access, and do not touch the memory.
Elsewhere ==
    /\ UNCHANGED <<mem, shadow, dropped, memtask_queue, cur, mres>>
    /\ Waiting' = Waiting
AccessStep ==
    \/ LockMem \/ Transport \/ Resume
    \/ \E q \in Access : Ignore(q) \/ Forward(q)

\* An access moves in five actions; every other step leaves it where it is.
LEMMA AccessSteps == TypeOK /\ [Next]_vars => AccessStep \/ Elsewhere
<1> SUFFICES ASSUME TypeOK, [Next]_vars, ~AccessStep PROVE Elsewhere
    OBVIOUS
<1> USE DEF Elsewhere, Waiting, vars, memtasks, memory, ghosts
<1>1. CASE Elaborate
  BY <1>1 DEF Elaborate, Construct, define_cpureg, flush_cpuregs,
     end_of_elaboration, PhaseRequest, Request
<1>2. CASE Run
  BY <1>2 DEF Run, cycle_count, read_reg_dbg, write_reg_dbg, simulate,
     RunRequest, Request
<1>3. CASE Finish
  BY <1>3 DEF Finish, sc_stop, report, Destroy, join, PhaseRequest, Request,
     CachedCount, SGoto
<1>4. CASE NotifyTask \/ Get
  BY <1>4 DEF NotifyTask, Woken, Get
<1>5. CASE Serve
  BY <1>5 DEF AccessStep, Serve, StartSim, While, PredDone, BlockMem,
     CountBeforeTransport, CachedCount, SetSimStarted, SGoto,
     SuspendInTransport, StopInTransport, Request
<1>6. CASE python_worker_loop
  BY <1>6 DEF python_worker_loop
<1>7. CASE InitCpu \/ GetCycles \/ SetPc \/ ReadPc \/ FreeCpu
  BY <1>7 DEF InitCpu, ResetIss, GetCycles, SetPc, ReadPc, MayRaise, FreeCpu,
     Handling, Answer
<1>8. CASE SetCb \/ SetCbEnd
  BY <1>8 DEF SetCb, SetCbEnd, ResetIss, Handling, Answer
<1>9. CASE Simulate \/ Step \/ StepEnd \/ SimulateEnd \/ SimulateNotify
  BY <1>9 DEF Simulate, Handling, Step, StepEnd, SimulateEnd, SimulateNotify,
     NotifyMem
<1>10. CASE Callback
  BY <1>10 DEF AccessStep, Callback, ForwardNotify, NotifyMem
<1>11. CASE SpuriousTask \/ SpuriousMem \/ UNCHANGED vars
  BY <1>11 DEF SpuriousTask, SpuriousMem, SGoto
<1>12. QED
  BY <1>1, <1>2, <1>3, <1>4, <1>5, <1>6, <1>7, <1>8, <1>9, <1>10, <1>11
  DEF Next, SysC, Worker, Handle

\* Each of the five actions keeps account of the access it moves.
LEMMA MemInvStep ==
    ASSUME MapInWindow, TypeOK, Handshake, MemInv, [Next]_vars
    PROVE  MemInv'
<1> USE DEF MemInv
<1>1. CASE Elsewhere
  <2>1. Pending' = Pending
    BY <1>1 DEF Elsewhere, Pending
  <2>2. QED
    BY <1>1, <2>1 DEF Elsewhere, Stored
<1>2. CASE LockMem
  <2>1. CASE memtask_queue # <<>>
    <3>1. /\ cur' = Head(memtask_queue) /\ memtask_queue' = Tail(memtask_queue)
          /\ spc = "lock"
          /\ UNCHANGED <<wpc, mres, mem, shadow, dropped>>
      BY <1>2, <2>1 DEF LockMem, memory, ghosts
    <3>2. Waiting /\ Len(memtask_queue) = 1 /\ mres = "none"
      BY <2>1 DEF Handshake, AccessInv
    <3>3. memtask_queue' = <<>>
      BY <3>1, <3>2 DEF TypeOK
    <3>4. Pending' = Pending
      BY <2>1, <3>1, <3>2, <3>3 DEF Pending, Waiting
    <3>5. QED
      BY <3>1, <3>4 DEF Stored
  <2>2. CASE memtask_queue = <<>>
    BY <1>2, <2>2
    DEF LockMem, SGoto, Pending, Waiting, Stored, memtasks, memory, ghosts
  <2>3. QED
    BY <2>1, <2>2
<1>3. CASE Transport
  <2>1. Pending = cur
    BY <1>3 DEF Transport, Handshake, AccessInv, Pending
  <2>2. mem' = Stored(mem, cur)
    BY <1>3 DEF Transport, Stored
  <2>3. Pending' = NoAccess
    BY <1>3 DEF Transport, Pending
  <2>4. UNCHANGED <<shadow, dropped>>
    BY <1>3 DEF Transport, ghosts
  <2>5. QED
    BY <2>1, <2>2, <2>3, <2>4, NoAccessStoresNothing
<1>4. CASE Resume
  <2>1. Pending = NoAccess /\ Pending' = NoAccess
    BY <1>4 DEF Resume, Answered, Pending, Waiting
  <2>2. UNCHANGED <<mem, shadow, dropped>>
    BY <1>4 DEF Resume, memory, ghosts
  <2>3. QED
    BY <2>1, <2>2, NoAccessStoresNothing
<1>5. ASSUME NEW q \in Access, Ignore(q) PROVE MemInv'
  <2>1. Pending = NoAccess /\ Pending' = NoAccess /\ mem' = mem
    BY <1>5 DEF Ignore, CallsBack, Pending, Waiting
  <2>2. q.addr \in Addr
    BY DEF Access
  <2>3. CASE GuestStore(q)
    <3>1. ~InWindow(q.addr) => ~GuestStore(q)
      BY <2>2, MappedInWindow DEF GuestStore
    <3>2. ~sim_started
      BY <1>5, <2>3, <3>1 DEF Ignore, CallsBack, Ignored
    <3>3. dropped'
      BY <1>5, <2>3, <3>2 DEF Ignore, CallsBack
    <3>4. QED
      BY <3>3
  <2>4. CASE ~GuestStore(q)
    <3>1. shadow' = shadow /\ dropped' = dropped
      BY <1>5, <2>4 DEF Ignore, CallsBack, Intend, TypeOK
    <3>2. QED
      BY <2>1, <3>1, NoAccessStoresNothing
  <2>5. QED
    BY <2>3, <2>4
<1>6. ASSUME NEW q \in Access, Forward(q) PROVE MemInv'
  <2>1. wpc = "exec" /\ sim_started /\ wpc' = "mnotify" /\ mres' = "none"
        /\ memtask_queue' = Append(memtask_queue, q)
        /\ UNCHANGED <<mem, dropped>> /\ Intend(q)
    BY <1>6 DEF Forward, CallsBack, Ignored, memory
  <2>2. memtask_queue = <<>> /\ Pending = NoAccess
    BY <2>1 DEF Handshake, AccessInv, Pending, Waiting
  <2>3. wtask.fn = "Simulate"
    BY <2>1 DEF Handshake, Quiet, InCall, InSim, Stuck, Rest, BusySim, Waiting
  <2>4. Pending' = q
    BY <2>1, <2>2, Singleton DEF Pending, Waiting
  <2>5. shadow' = Stored(shadow, q)
    BY <2>1, <2>3 DEF Intend, GuestStore, Stored
  <2>6. QED
    BY <2>1, <2>2, <2>4, <2>5, NoAccessStoresNothing
<1>7. QED
  BY <1>1, <1>2, <1>3, <1>4, <1>5, <1>6, AccessSteps DEF AccessStep

\* Between instructions the memory of the platform holds what the guest has
\* stored, unless a store was made before sim_started was set: for every map
\* within the window, every number of accesses and every order of the steps.
THEOREM CoherentUnlessDroppedCorrect ==
    ASSUME MapInWindow PROVE Spec => []CoherentUnlessDropped
<1>1. Init => MemInv
  <2> SUFFICES ASSUME Init PROVE MemInv
    OBVIOUS
  <2>1. Pending = NoAccess /\ shadow = mem
    BY DEF Init, Pending, Waiting
  <2>2. QED
    BY <2>1, NoAccessStoresNothing DEF MemInv
<1>2. TypeOK /\ Handshake /\ MemInv /\ [Next]_vars => MemInv'
  BY MemInvStep
<1>3. MemInv => CoherentUnlessDropped
  <2> SUFFICES ASSUME MemInv, wpc = "step", ~dropped PROVE mem = shadow
    BY DEF CoherentUnlessDropped
  <2>1. Pending = NoAccess
    BY DEF Pending, Waiting
  <2>2. QED
    BY <2>1, NoAccessStoresNothing DEF MemInv
<1>4. QED
  BY <1>1, <1>2, <1>3, TypeCorrect, HandshakeCorrect, PTL DEF Spec
=============================================================================
